---------------------------- MODULE PaddedInput ----------------------------
(***************************************************************************)
(* Padded strings, their builder, and what reads them.                     *)
(*                                                                         *)
(* A PaddedString is a shared_ptr to a storage, and the storage owns a     *)
(* buffer.  Documents and streams share the storage of a PaddedString they *)
(* are given and copy any other argument to a storage of their own; what   *)
(* they read is the buffer the storage had then.  simdjson's append()      *)
(* moves the text to another buffer and frees the old one.                 *)
(*                                                                         *)
(* An append is one step here: two threads inside it at once, which        *)
(* docs/threading.md excludes, are not modelled, nor is a failed           *)
(* allocation.                                                             *)
(***************************************************************************)
EXTENDS Sequences, Naturals

CONSTANTS
  Strings,   \* PaddedString objects
  Builders,  \* PaddedStringBuilder objects
  Readers,   \* documents, streams, and calls that parse with the GIL released
  Storages,  \* addresses of padded_string_storage
  Buffers,   \* addresses of buffers: what is freed may be allocated again
  Chunks,    \* pieces of text
  MaxLength, \* bound on the pieces in one text
  None       \* no storage, no buffer

Owners == Storages \cup Builders

ASSUME PaddedInputAssumption ==
  None \notin Storages \cup Buffers /\ Storages \cap Builders = {}

VARIABLES
  allocated, \* the buffers that are not free
  heap,      \* what each buffer holds; what a free one holds is not modelled
  buffer,    \* the buffer each storage and each builder owns
  strings,   \* the storage of each PaddedString
  readers,   \* the storage each reader shares, and the buffer it reads
  written    \* the text the program has given each owner

vars == <<allocated, heap, buffer, strings, readers, written>>

Texts == Seq(Chunks)

\* given: the text a reader was made for; appended: whether something was appended to
\* it since.
NoReader == [storage |-> None, buffer |-> None, given |-> << >>, appended |-> FALSE]
ReaderStates ==
  {NoReader} \cup
  [storage : Storages, buffer : Buffers, given : Texts, appended : BOOLEAN]

TypeOK ==
  /\ allocated \subseteq Buffers
  /\ heap \in [Buffers -> Texts]
  /\ buffer \in [Owners -> Buffers \cup {None}]
  /\ strings \in [Strings -> Storages \cup {None}]
  /\ readers \in [Readers -> ReaderStates]
  /\ written \in [Owners -> Texts]

Init ==
  /\ allocated = {}
  /\ heap = [b \in Buffers |-> << >>]
  /\ buffer = [o \in Owners |-> None]
  /\ strings = [p \in Strings |-> None]
  /\ readers = [r \in Readers |-> NoReader]
  /\ written = [o \in Owners |-> << >>]

-----------------------------------------------------------------------------

\* The shared_ptrs to a storage.
Held(strs, rds, s) ==
  (\E p \in Strings : strs[p] = s) \/ (\E r \in Readers : rds[r].storage = s)

Unused(s) == ~ Held(strings, readers, s)

\* What buffer b holds once the buffer `freed` is free.
Scrapped(freed, b) == IF b = freed THEN << >> ELSE heap[b]

Contents(o) == IF buffer[o] = None THEN << >> ELSE heap[buffer[o]]

\* Owner o gets a new buffer with that text, and its old one is freed.
Put(o, text) ==
  /\ Len(text) <= MaxLength
  /\ \E b \in Buffers \ allocated :
       /\ allocated' = (allocated \ {buffer[o]}) \cup {b}
       /\ heap' = [c \in Buffers |-> IF c = b THEN text ELSE Scrapped(buffer[o], c)]
       /\ buffer' = [buffer EXCEPT ![o] = b]

\* Owner o has the text the program gave it.
Write(o, text) == written' = [written EXCEPT ![o] = text]

\* PaddedString(data) and PaddedString.load(path)
NewString(p, data) ==
  /\ strings[p] = None
  /\ \E s \in Storages :
       /\ Unused(s)
       /\ strings' = [strings EXCEPT ![p] = s]
       /\ Put(s, <<data>>)
       /\ Write(s, <<data>>)
  /\ UNCHANGED readers

\* PaddedString(), which owns no buffer.
NewEmptyString(p) ==
  /\ strings[p] = None
  /\ \E s \in Storages : Unused(s) /\ strings' = [strings EXCEPT ![p] = s]
  /\ UNCHANGED <<allocated, heap, buffer, readers, written>>

\* PaddedString(other)
ShareString(p, other) ==
  /\ strings[p] = None /\ strings[other] # None
  /\ strings' = [strings EXCEPT ![p] = strings[other]]
  /\ UNCHANGED <<allocated, heap, buffer, readers, written>>

\* PaddedString.append(data)
AppendString(p, data) ==
  LET s == strings[p]
  IN
  /\ s # None
  /\ Put(s, Append(Contents(s), data))
  /\ Write(s, Append(written[s], data))
  /\ readers' = [r \in Readers |->
                   [readers[r] EXCEPT !.appended = @ \/ readers[r].storage = s]]
  /\ UNCHANGED strings

\* Fault: an empty text is not refused.
ReadUnchecked(r, p) ==
  LET s == strings[p]
  IN
  /\ readers[r] = NoReader
  /\ s # None
  /\ readers' = [readers EXCEPT ![r] = [storage |-> s, buffer |-> buffer[s],
                                        given |-> Contents(s), appended |-> FALSE]]
  /\ UNCHANGED <<allocated, heap, buffer, strings, written>>

\* Fault: the reader keeps the pointer alone.
ReadBorrows(r, p) ==
  LET s == strings[p]
  IN
  /\ readers[r] = NoReader
  /\ s # None /\ buffer[s] # None
  /\ readers' = [readers EXCEPT ![r] = [storage |-> None, buffer |-> buffer[s],
                                        given |-> Contents(s), appended |-> FALSE]]
  /\ UNCHANGED <<allocated, heap, buffer, strings, written>>

\* iterate(), iterate_many() and parse_many() of a PaddedString, until the document or
\* stream is gone; loads() and parse(), until they return.  An empty text is refused, or
\* makes a stream that reads nothing.
Read(r, p) ==
  LET s == strings[p]
  IN
  /\ readers[r] = NoReader
  /\ s # None /\ Contents(s) # << >>
  /\ readers' = [readers EXCEPT ![r] = [storage |-> s, buffer |-> buffer[s],
                                        given |-> Contents(s), appended |-> FALSE]]
  /\ UNCHANGED <<allocated, heap, buffer, strings, written>>

\* The same of bytes, which are copied.
ReadCopy(r, data) ==
  /\ readers[r] = NoReader
  /\ \E s \in Storages :
       /\ Unused(s)
       /\ Put(s, <<data>>)
       /\ Write(s, <<data>>)
       /\ readers' = [readers EXCEPT ![r] = [storage |-> s, buffer |-> buffer'[s],
                                             given |-> <<data>>, appended |-> FALSE]]
  /\ UNCHANGED strings

-----------------------------------------------------------------------------
(* The end of a Python object, or of a call *)

\* The last shared_ptr takes the storage and its buffer with it.
Release(s) ==
  IF Held(strings', readers', s) THEN UNCHANGED <<allocated, heap, buffer, written>>
  ELSE /\ allocated' = allocated \ {buffer[s]}
       /\ heap' = [c \in Buffers |-> Scrapped(buffer[s], c)]
       /\ buffer' = [buffer EXCEPT ![s] = None]
       /\ Write(s, << >>)

\* Fault: the storage goes with its PaddedString.
DropStringOwns(p) ==
  LET s == strings[p]
  IN
  /\ s # None
  /\ strings' = [strings EXCEPT ![p] = None]
  /\ allocated' = allocated \ {buffer[s]}
  /\ UNCHANGED <<readers, buffer, heap, written>>

DropString(p) ==
  /\ strings[p] # None
  /\ strings' = [strings EXCEPT ![p] = None]
  /\ UNCHANGED readers
  /\ Release(strings[p])

DropReader(r) ==
  /\ readers[r] # NoReader
  /\ readers' = [readers EXCEPT ![r] = NoReader]
  /\ UNCHANGED strings
  /\ Release(readers[r].storage)

-----------------------------------------------------------------------------
(* The builder *)

\* simdjson's append(): in place while there is room, else in a larger buffer.
BuilderAppend(d, data) ==
  /\ \/ Put(d, Append(Contents(d), data))
     \/ /\ buffer[d] # None /\ Len(Contents(d)) < MaxLength
        /\ heap' = [heap EXCEPT ![buffer[d]] = Append(@, data)]
        /\ UNCHANGED <<allocated, buffer>>
  /\ Write(d, Append(written[d], data))
  /\ UNCHANGED <<strings, readers>>

\* build(): a copy.
Build(d, p) ==
  /\ strings[p] = None
  /\ \E s \in Storages :
       /\ Unused(s)
       /\ strings' = [strings EXCEPT ![p] = s]
       /\ Put(s, Contents(d))
       /\ Write(s, written[d])
  /\ UNCHANGED readers

\* Fault: the builder keeps the buffer it gave away.
ConvertKeeps(d, p) ==
  /\ strings[p] = None
  /\ \E s \in Storages :
       /\ Unused(s)
       /\ strings' = [strings EXCEPT ![p] = s]
       /\ buffer' = [buffer EXCEPT ![s] = buffer[d]]
       /\ written' = [written EXCEPT ![s] = written[d], ![d] = << >>]
  /\ UNCHANGED <<allocated, heap, readers>>

\* convert(): the buffer goes to the string.
Convert(d, p) ==
  /\ strings[p] = None
  /\ \E s \in Storages :
       /\ Unused(s)
       /\ strings' = [strings EXCEPT ![p] = s]
       /\ buffer' = [buffer EXCEPT ![s] = buffer[d], ![d] = None]
       /\ written' = [written EXCEPT ![s] = written[d], ![d] = << >>]
  /\ UNCHANGED <<allocated, heap, readers>>

-----------------------------------------------------------------------------

Next ==
  \/ \E p \in Strings :
       \/ NewEmptyString(p) \/ DropString(p)
       \/ \E data \in Chunks : NewString(p, data) \/ AppendString(p, data)
       \/ \E other \in Strings : ShareString(p, other)
       \/ \E d \in Builders : Build(d, p) \/ Convert(d, p)
  \/ \E r \in Readers :
       \/ DropReader(r)
       \/ \E p \in Strings : Read(r, p)
       \/ \E data \in Chunks : ReadCopy(r, data)
  \/ \E d \in Builders, data \in Chunks : BuilderAppend(d, data)

Spec == Init /\ [][Next]_vars

-----------------------------------------------------------------------------
(* Safety *)

\* Every allocated buffer has exactly one owner, a builder or a storage that a string or
\* a reader holds: none is freed twice, none is freed in use, and none is leaked.
BuffersHaveOneOwner ==
  /\ \A o \in Owners : buffer[o] \in allocated \cup {None}
  /\ \A o, other \in Owners :
       buffer[o] = buffer[other] /\ buffer[o] # None => o = other
  /\ \A b \in allocated : \E o \in Owners : buffer[o] = b
  /\ \A s \in Storages : Unused(s) => buffer[s] = None

\* A string holds what was written to it and to the strings that share its storage, and
\* a builder what was appended to it since it last gave its buffer away: what becomes of
\* other strings, readers and builders makes no difference.
TextsAreWhatWasWritten == \A o \in Owners : Contents(o) = written[o]

\* A document, a stream or a call in progress reads the text it was made for, in the
\* buffer its offsets are counted from, although the string is gone or shared: as long
\* as nothing is appended to that string.
ReadersReadTheirInput ==
  \A r \in Readers : readers[r] # NoReader /\ ~ readers[r].appended =>
    /\ readers[r].storage \in Storages
    /\ readers[r].buffer = buffer[readers[r].storage]
    /\ readers[r].buffer \in allocated
    /\ heap[readers[r].buffer] = readers[r].given

\* docs/ondemand.md: "The document holds the input buffer alive.  Strings and
\* `raw_json` slices borrow into it."
ReadersHoldTheirBuffer ==
  \A r \in Readers : readers[r] # NoReader => readers[r].buffer \in allocated
=============================================================================
