------------------------- MODULE PaddedInput_proofs -------------------------
(***************************************************************************)
(* Proofs about PaddedInput, for any number of strings, builders, readers, *)
(* storages and buffers.                                                   *)
(***************************************************************************)
EXTENDS PaddedInput, TLAPS

\* Each allocated buffer has one owner, whoever holds the owner.
OneOwner ==
  /\ \A o \in Owners : buffer[o] \in allocated \cup {None}
  /\ \A o, other \in Owners :
       buffer[o] = buffer[other] /\ buffer[o] # None => o = other
  /\ \A b \in allocated : \E o \in Owners : buffer[o] = b

\* A storage that owns a buffer is held.
OwnersAreHeld == \A s \in Storages : Unused(s) => buffer[s] = None

\* The buffers and their texts agree with what was written.
Memory == OneOwner /\ TextsAreWhatWasWritten

Inv == TypeOK /\ Memory /\ OwnersAreHeld /\ ReadersReadTheirInput

\* A reader that is one reads a storage.
LEMMA ReaderHasStorage ==
  ASSUME TypeOK, NEW r \in Readers, readers[r] # NoReader
  PROVE  /\ readers[r].storage \in Storages /\ readers[r].buffer \in Buffers
         /\ readers[r].given \in Texts /\ readers[r].appended \in BOOLEAN
         /\ readers[r] = [storage |-> readers[r].storage, buffer |-> readers[r].buffer,
                          given |-> readers[r].given,
                          appended |-> readers[r].appended]
  BY DEF TypeOK, ReaderStates

\* What a reader that is not appended to reads stays if its storage keeps its buffer
\* and the buffer its text.
LEMMA ReadersStay ==
  ASSUME Inv, NEW r \in Readers, readers[r] # NoReader, readers'[r] = readers[r],
         buffer'[readers[r].storage] = buffer[readers[r].storage],
         buffer[readers[r].storage] \in allocated => 
           /\ buffer[readers[r].storage] \in allocated'
           /\ heap'[buffer[readers[r].storage]] = heap[buffer[readers[r].storage]]
  PROVE  ~ readers'[r].appended =>
           /\ readers'[r].storage \in Storages
           /\ readers'[r].buffer = buffer'[readers'[r].storage]
           /\ readers'[r].buffer \in allocated'
           /\ heap'[readers'[r].buffer] = readers'[r].given
  BY DEF Inv, ReadersReadTheirInput

\* Put gives its owner a buffer of its own and disturbs no other.
LEMMA PutReplaces ==
  ASSUME TypeOK, Memory, NEW o \in Owners, NEW text \in Texts, Put(o, text),
         Write(o, text)
  PROVE  /\ allocated' \subseteq Buffers /\ heap' \in [Buffers -> Texts]
         /\ buffer' \in [Owners -> Buffers \cup {None}] /\ written' \in [Owners -> Texts]
         /\ Memory'
         /\ buffer'[o] \in allocated' /\ heap'[buffer'[o]] = text
         /\ \A other \in Owners \ {o} :
              /\ buffer'[other] = buffer[other]
              /\ buffer[other] \in allocated =>
                   /\ buffer[other] \in allocated'
                   /\ heap'[buffer[other]] = heap[buffer[other]]
<1>1. PICK b \in Buffers \ allocated :
        /\ allocated' = (allocated \ {buffer[o]}) \cup {b}
        /\ heap' = [c \in Buffers |-> IF c = b THEN text ELSE Scrapped(buffer[o], c)]
        /\ buffer' = [buffer EXCEPT ![o] = b]
  BY DEF Put
<1>2. b # None
  BY PaddedInputAssumption
<1>3. << >> \in Texts
  BY DEF Texts
<1>4. /\ allocated' \subseteq Buffers /\ heap' \in [Buffers -> Texts]
      /\ buffer' \in [Owners -> Buffers \cup {None}] /\ written' \in [Owners -> Texts]
  BY <1>1, <1>3 DEF TypeOK, Scrapped, Write
<1>5. /\ buffer'[o] = b /\ b \in allocated' /\ heap'[b] = text /\ written'[o] = text
      /\ \A other \in Owners \ {o} :
           buffer'[other] = buffer[other] /\ written'[other] = written[other]
  BY <1>1 DEF TypeOK, Write
<1>6. \A other \in Owners \ {o} : buffer[other] \in allocated =>
        /\ buffer[other] # b /\ buffer[other] # buffer[o] /\ buffer[other] # None
        /\ buffer[other] \in allocated' /\ heap'[buffer[other]] = heap[buffer[other]]
  <2> SUFFICES ASSUME NEW other \in Owners \ {o}, buffer[other] \in allocated
               PROVE  /\ buffer[other] # b /\ buffer[other] # buffer[o]
                      /\ buffer[other] # None /\ buffer[other] \in allocated'
                      /\ heap'[buffer[other]] = heap[buffer[other]]
    OBVIOUS
  <2>1. buffer[other] # None /\ buffer[other] \in Buffers
    BY PaddedInputAssumption DEF TypeOK
  <2>2. buffer[other] # buffer[o]
    BY <2>1 DEF Memory, OneOwner
  <2> QED
    BY <1>1, <2>1, <2>2 DEF Scrapped
<1>7. OneOwner'
  <2>1. \A other \in Owners : buffer'[other] \in allocated' \cup {None}
    BY <1>5, <1>6 DEF Memory, OneOwner
  <2>2. ASSUME NEW one \in Owners, NEW other \in Owners,
               buffer'[one] = buffer'[other], buffer'[one] # None
        PROVE  one = other
    <3>1. CASE one = o \/ other = o
      BY <3>1, <2>2, <1>2, <1>5, <1>6 DEF Memory, OneOwner
    <3>2. CASE one # o /\ other # o
      BY <3>2, <2>2, <1>5 DEF Memory, OneOwner
    <3> QED
      BY <3>1, <3>2
  <2>3. ASSUME NEW c \in allocated'
        PROVE  \E other \in Owners : buffer'[other] = c
    <3>1. CASE c = b
      BY <3>1, <1>5
    <3>2. CASE c # b
      BY <3>2, <2>3, <1>1, <1>5 DEF Memory, OneOwner
    <3> QED
      BY <3>1, <3>2
  <2> QED
    BY <2>1, <2>2, <2>3 DEF OneOwner
<1>8. TextsAreWhatWasWritten'
  BY <1>2, <1>5, <1>6 DEF TextsAreWhatWasWritten, Contents, Memory, OneOwner
<1> QED
  BY <1>4, <1>5, <1>6, <1>7, <1>8 DEF Memory

-----------------------------------------------------------------------------
(* Which storages are held *)

\* A string object that had no storage takes s.
LEMMA StringTakes ==
  ASSUME TypeOK, NEW p \in Strings, strings[p] = None, NEW s \in Storages,
         strings' = [strings EXCEPT ![p] = s], readers' = readers
  PROVE  /\ strings' \in [Strings -> Storages \cup {None}]
         /\ readers' \in [Readers -> ReaderStates]
         /\ \A c \in Storages : Unused(c)' => Unused(c) /\ c # s
  BY PaddedInputAssumption DEF TypeOK, Unused, Held

\* A reader that had no storage takes s.
LEMMA ReaderTakes ==
  ASSUME TypeOK, NEW r \in Readers, readers[r] = NoReader, NEW s \in Storages,
         NEW b \in Buffers, NEW text \in Texts, strings' = strings,
         readers' = [readers EXCEPT ![r] = [storage |-> s, buffer |-> b,
                                            given |-> text, appended |-> FALSE]]
  PROVE  /\ strings' \in [Strings -> Storages \cup {None}]
         /\ readers' \in [Readers -> ReaderStates]
         /\ readers'[r].storage = s /\ readers'[r].buffer = b
         /\ readers'[r].given = text
         /\ \A q \in Readers \ {r} : readers'[q] = readers[q]
         /\ \A c \in Storages : Unused(c)' => Unused(c) /\ c # s
<1>1. /\ strings' \in [Strings -> Storages \cup {None}]
      /\ readers' \in [Readers -> ReaderStates]
      /\ readers'[r].storage = s /\ readers'[r].buffer = b
      /\ readers'[r].given = text
      /\ \A q \in Readers \ {r} : readers'[q] = readers[q]
  BY DEF TypeOK, ReaderStates
<1>2. readers[r].storage = None
  BY DEF NoReader
<1>3. ASSUME NEW c \in Storages, Unused(c)'
      PROVE  Unused(c) /\ c # s
  BY <1>1, <1>2, <1>3, PaddedInputAssumption DEF Unused, Held
<1> QED
  BY <1>1, <1>3

\* A fresh storage with a buffer of its own keeps the rest as it was.
LEMMA FreshStorage ==
  ASSUME Inv, NEW s \in Storages, Unused(s), NEW text \in Texts,
         Put(s, text), Write(s, text),
         \A c \in Storages : Unused(c)' => Unused(c) /\ c # s
  PROVE  OwnersAreHeld'
         /\ \A r \in Readers : readers[r] # NoReader /\ readers'[r] = readers[r] =>
              (~ readers'[r].appended =>
                 /\ readers'[r].storage \in Storages
                 /\ readers'[r].buffer = buffer'[readers'[r].storage]
                 /\ readers'[r].buffer \in allocated'
                 /\ heap'[readers'[r].buffer] = readers'[r].given)
<1>1. /\ buffer'[s] \in allocated'
      /\ \A other \in Owners \ {s} :
           /\ buffer'[other] = buffer[other]
           /\ buffer[other] \in allocated =>
                /\ buffer[other] \in allocated'
                /\ heap'[buffer[other]] = heap[buffer[other]]
  BY PutReplaces DEF Inv, Owners
<1>2. OwnersAreHeld'
  BY <1>1 DEF OwnersAreHeld, Inv, Owners
<1>3. ASSUME NEW r \in Readers, readers[r] # NoReader, readers'[r] = readers[r]
      PROVE  ~ readers'[r].appended =>
               /\ readers'[r].storage \in Storages
               /\ readers'[r].buffer = buffer'[readers'[r].storage]
               /\ readers'[r].buffer \in allocated'
               /\ heap'[readers'[r].buffer] = readers'[r].given
  <2>1. readers[r].storage \in Owners \ {s}
    BY <1>3, ReaderHasStorage DEF Inv, Unused, Held, Owners
  <2> QED
    BY <1>1, <1>3, <2>1, ReadersStay
<1> QED
  BY <1>2, <1>3

-----------------------------------------------------------------------------
(* Steps *)

LEMMA InitInv == Init => Inv
<1> SUFFICES ASSUME Init PROVE Inv
  OBVIOUS
<1>1. TypeOK
  BY DEF Init, TypeOK, ReaderStates, Texts
<1>2. Memory /\ OwnersAreHeld /\ ReadersReadTheirInput
  BY DEF Init, Memory, OneOwner, TextsAreWhatWasWritten, Contents, OwnersAreHeld, Owners,
         ReadersReadTheirInput
<1> QED
  BY <1>1, <1>2 DEF Inv

\* Strings made of new text.
LEMMA TextStep ==
  ASSUME Inv, NEW p \in Strings, strings[p] = None, NEW text \in Texts,
         NEW s \in Storages, Unused(s), strings' = [strings EXCEPT ![p] = s],
         Put(s, text), Write(s, text), UNCHANGED readers
  PROVE  Inv'
<1>1. /\ strings' \in [Strings -> Storages \cup {None}]
      /\ readers' \in [Readers -> ReaderStates]
      /\ \A c \in Storages : Unused(c)' => Unused(c) /\ c # s
  BY StringTakes DEF Inv
<1>2. /\ allocated' \subseteq Buffers /\ heap' \in [Buffers -> Texts]
      /\ buffer' \in [Owners -> Buffers \cup {None}] /\ written' \in [Owners -> Texts]
      /\ Memory'
  BY PutReplaces DEF Inv, Owners
<1>3. OwnersAreHeld' /\ ReadersReadTheirInput'
  BY <1>1, FreshStorage DEF ReadersReadTheirInput
<1> QED
  BY <1>1, <1>2, <1>3 DEF Inv, TypeOK

LEMMA NewStringStep ==
  ASSUME Inv, NEW p \in Strings, NEW data \in Chunks, NewString(p, data)
  PROVE  Inv'
<1>1. <<data>> \in Texts
  BY DEF Texts
<1> QED
  BY <1>1, TextStep DEF NewString

LEMMA BuildStep ==
  ASSUME Inv, NEW p \in Strings, NEW d \in Builders, Build(d, p)
  PROVE  Inv'
<1>1. Contents(d) = written[d] /\ written[d] \in Texts
  BY DEF Inv, Memory, TextsAreWhatWasWritten, TypeOK, Owners
<1> QED
  BY <1>1, TextStep DEF Build

LEMMA NewEmptyStringStep ==
  ASSUME Inv, NEW p \in Strings, NewEmptyString(p)
  PROVE  Inv'
<1>1. PICK s \in Storages : Unused(s) /\ strings' = [strings EXCEPT ![p] = s]
  BY DEF NewEmptyString
<1>2. /\ strings' \in [Strings -> Storages \cup {None}]
      /\ readers' \in [Readers -> ReaderStates]
      /\ \A c \in Storages : Unused(c)' => Unused(c) /\ c # s
  BY <1>1, StringTakes DEF Inv, NewEmptyString
<1> QED
  BY <1>2 DEF NewEmptyString, Inv, TypeOK, Memory, OneOwner, TextsAreWhatWasWritten,
              Contents, OwnersAreHeld, ReadersReadTheirInput

LEMMA ShareStringStep ==
  ASSUME Inv, NEW p \in Strings, NEW other \in Strings, ShareString(p, other)
  PROVE  Inv'
<1>1. strings[other] \in Storages
  BY DEF Inv, TypeOK, ShareString
<1>2. /\ strings' \in [Strings -> Storages \cup {None}]
      /\ readers' \in [Readers -> ReaderStates]
      /\ \A c \in Storages : Unused(c)' => Unused(c)
  BY <1>1, StringTakes DEF Inv, ShareString
<1> QED
  BY <1>2 DEF ShareString, Inv, TypeOK, Memory, OneOwner, TextsAreWhatWasWritten,
              Contents, OwnersAreHeld, ReadersReadTheirInput

LEMMA AppendStringStep ==
  ASSUME Inv, NEW p \in Strings, NEW data \in Chunks, AppendString(p, data)
  PROVE  Inv'
<1> DEFINE s == strings[p]
           text == Append(Contents(s), data)
<1>1. s \in Storages
  BY DEF Inv, TypeOK, AppendString
<1>2. Contents(s) = written[s] /\ text \in Texts
  BY <1>1 DEF Inv, Memory, TextsAreWhatWasWritten, TypeOK, Owners, Texts
<1>3. /\ allocated' \subseteq Buffers /\ heap' \in [Buffers -> Texts]
      /\ buffer' \in [Owners -> Buffers \cup {None}] /\ written' \in [Owners -> Texts]
      /\ Memory' /\ buffer'[s] \in allocated'
      /\ \A other \in Owners \ {s} :
           /\ buffer'[other] = buffer[other]
           /\ buffer[other] \in allocated =>
                /\ buffer[other] \in allocated'
                /\ heap'[buffer[other]] = heap[buffer[other]]
  BY <1>1, <1>2, PutReplaces DEF Inv, Owners, AppendString
<1>4. /\ readers' = [r \in Readers |->
                       [readers[r] EXCEPT !.appended = @ \/ readers[r].storage = s]]
      /\ strings' = strings
  BY DEF AppendString
<1>5. ASSUME NEW r \in Readers
      PROVE  /\ readers'[r] \in ReaderStates
             /\ readers[r] = NoReader => readers'[r] = NoReader
             /\ readers'[r].storage = readers[r].storage
             /\ readers[r] # NoReader /\ ~ readers'[r].appended =>
                  readers'[r] = readers[r] /\ readers[r].storage # s
  <2>1. CASE readers[r] = NoReader
    <3>1. readers[r].storage # s /\ readers[r].appended = FALSE
      BY <1>1, <2>1, PaddedInputAssumption DEF NoReader
    <3>2. readers'[r] = [NoReader EXCEPT !.appended = FALSE]
      BY <1>4, <2>1, <3>1
    <3> QED
      BY <2>1, <3>2 DEF NoReader, ReaderStates
  <2>2. CASE readers[r] # NoReader
    <3>1. readers[r] \in [storage : Storages, buffer : Buffers, given : Texts,
                          appended : BOOLEAN]
      BY <2>2 DEF Inv, TypeOK, ReaderStates
    <3>2. readers'[r] = [readers[r] EXCEPT
                           !.appended = readers[r].appended \/ readers[r].storage = s]
      BY <1>4
    <3>3. CASE readers[r].appended \/ readers[r].storage = s
      <4>1. readers'[r] = [readers[r] EXCEPT !.appended = TRUE]
        BY <3>2, <3>3
      <4> QED
        BY <2>2, <3>1, <4>1 DEF ReaderStates
    <3>4. CASE ~ (readers[r].appended \/ readers[r].storage = s)
      <4>1. readers'[r] = [readers[r] EXCEPT !.appended = FALSE]
        BY <3>2, <3>4
      <4> QED
        BY <2>2, <3>1, <3>4, <4>1 DEF ReaderStates
    <3> QED
      BY <3>3, <3>4
  <2> QED
    BY <2>1, <2>2
<1>6. OwnersAreHeld'
  <2> SUFFICES ASSUME NEW c \in Storages, Unused(c)' PROVE buffer'[c] = None
    BY DEF OwnersAreHeld
  <2>1. Unused(c) /\ c # s
    BY <1>1, <1>4, <1>5 DEF Unused, Held
  <2> QED
    BY <1>3, <2>1 DEF Inv, OwnersAreHeld, Owners
<1>7. ReadersReadTheirInput'
  <2> SUFFICES ASSUME NEW r \in Readers, readers'[r] # NoReader, ~ readers'[r].appended
               PROVE  /\ readers'[r].storage \in Storages
                      /\ readers'[r].buffer = buffer'[readers'[r].storage]
                      /\ readers'[r].buffer \in allocated'
                      /\ heap'[readers'[r].buffer] = readers'[r].given
    BY DEF ReadersReadTheirInput
  <2>1. readers[r] # NoReader /\ readers'[r] = readers[r] /\ readers[r].storage # s
    BY <1>5
  <2>2. readers[r].storage \in Owners \ {s}
    BY <2>1, ReaderHasStorage DEF Inv, Owners
  <2> QED
    BY <1>3, <2>1, <2>2, ReadersStay
<1>8. readers' \in [Readers -> ReaderStates]
  BY <1>4, <1>5
<1> QED
  BY <1>3, <1>4, <1>6, <1>7, <1>8 DEF Inv, TypeOK

LEMMA ReadStep ==
  ASSUME Inv, NEW r \in Readers, NEW p \in Strings, Read(r, p)
  PROVE  Inv'
<1> DEFINE s == strings[p]
<1>1. s \in Storages /\ s \in Owners
  BY DEF Read, Inv, TypeOK, Owners
<1>2. buffer[s] \in Buffers /\ buffer[s] \in allocated /\ Contents(s) = heap[buffer[s]]
  BY <1>1 DEF Read, Contents, Inv, TypeOK, Memory, OneOwner
<1>3. Contents(s) \in Texts
  BY <1>2 DEF Inv, TypeOK
<1>4. /\ readers' = [readers EXCEPT ![r] = [storage |-> s, buffer |-> buffer[s],
                                            given |-> Contents(s), appended |-> FALSE]]
      /\ readers[r] = NoReader
      /\ UNCHANGED <<allocated, heap, buffer, strings, written>>
  BY DEF Read
<1>5. /\ strings' \in [Strings -> Storages \cup {None}]
      /\ readers' \in [Readers -> ReaderStates]
      /\ readers'[r].storage = s /\ readers'[r].buffer = buffer[s]
      /\ readers'[r].given = Contents(s)
      /\ \A q \in Readers \ {r} : readers'[q] = readers[q]
      /\ \A c \in Storages : Unused(c)' => Unused(c) /\ c # s
  BY <1>1, <1>2, <1>3, <1>4, ReaderTakes DEF Inv
<1>6. OwnersAreHeld'
  BY <1>4, <1>5 DEF Inv, OwnersAreHeld
<1>7. ReadersReadTheirInput'
  BY <1>1, <1>2, <1>4, <1>5 DEF Inv, ReadersReadTheirInput
<1>8. Memory'
  BY <1>4 DEF Inv, Memory, OneOwner, TextsAreWhatWasWritten, Contents
<1> QED
  BY <1>4, <1>5, <1>6, <1>7, <1>8 DEF Inv, TypeOK

LEMMA ReadCopyStep ==
  ASSUME Inv, NEW r \in Readers, NEW data \in Chunks, ReadCopy(r, data)
  PROVE  Inv'
<1>1. PICK s \in Storages :
        /\ Unused(s) /\ Put(s, <<data>>) /\ Write(s, <<data>>)
        /\ readers' = [readers EXCEPT ![r] = [storage |-> s, buffer |-> buffer'[s],
                                              given |-> <<data>>, appended |-> FALSE]]
  BY DEF ReadCopy
<1>2. <<data>> \in Texts /\ s \in Owners /\ readers[r] = NoReader /\ strings' = strings
  BY DEF Texts, Owners, ReadCopy
<1>3. /\ allocated' \subseteq Buffers /\ heap' \in [Buffers -> Texts]
      /\ buffer' \in [Owners -> Buffers \cup {None}] /\ written' \in [Owners -> Texts]
      /\ Memory'
      /\ buffer'[s] \in allocated' /\ heap'[buffer'[s]] = <<data>>
  BY <1>1, <1>2, PutReplaces DEF Inv
<1>4. /\ strings' \in [Strings -> Storages \cup {None}]
      /\ readers' \in [Readers -> ReaderStates]
      /\ readers'[r].storage = s /\ readers'[r].buffer = buffer'[s]
      /\ readers'[r].given = <<data>>
      /\ \A q \in Readers \ {r} : readers'[q] = readers[q]
      /\ \A c \in Storages : Unused(c)' => Unused(c) /\ c # s
  BY <1>1, <1>2, <1>3, ReaderTakes DEF Inv
<1>5. OwnersAreHeld' /\ ReadersReadTheirInput'
  BY <1>1, <1>2, <1>3, <1>4, FreshStorage DEF ReadersReadTheirInput
<1> QED
  BY <1>2, <1>3, <1>4, <1>5 DEF Inv, TypeOK

-----------------------------------------------------------------------------

\* Release keeps what is held, and frees the buffer of what is not.
LEMMA ReleaseStep ==
  ASSUME Inv, NEW s \in Storages, Release(s),
         strings' \in [Strings -> Storages \cup {None}],
         readers' \in [Readers -> ReaderStates],
         \A r \in Readers : readers'[r] # NoReader => readers'[r] = readers[r],
         \A c \in Storages : Unused(c)' => Unused(c) \/ c = s
  PROVE  Inv'
<1>1. CASE Held(strings', readers', s)
  <2>1. UNCHANGED <<allocated, heap, buffer, written>> /\ ~ Unused(s)'
    BY <1>1 DEF Release, Unused
  <2> QED
    BY <2>1 DEF Inv, TypeOK, Memory, OneOwner, TextsAreWhatWasWritten, Contents,
                OwnersAreHeld, ReadersReadTheirInput
<1>2. CASE ~ Held(strings', readers', s)
  <2>1. /\ allocated' = allocated \ {buffer[s]}
        /\ heap' = [c \in Buffers |-> Scrapped(buffer[s], c)]
        /\ buffer' = [buffer EXCEPT ![s] = None]
        /\ written' = [written EXCEPT ![s] = << >>]
    BY <1>2 DEF Release, Write
  <2>2. s \in Owners /\ << >> \in Texts
    BY DEF Owners, Texts
  <2>3. TypeOK'
    BY <2>1, <2>2 DEF Inv, TypeOK, Scrapped
  <2>4. /\ buffer'[s] = None /\ written'[s] = << >>
        /\ \A other \in Owners \ {s} :
             buffer'[other] = buffer[other] /\ written'[other] = written[other]
    BY <2>1, <2>2 DEF Inv, TypeOK
  <2>5. ASSUME NEW other \in Owners \ {s}, buffer[other] \in allocated
        PROVE  /\ buffer[other] # None /\ buffer[other] \in allocated'
               /\ heap'[buffer[other]] = heap[buffer[other]]
    <3>1. buffer[other] \in Buffers /\ buffer[other] # None
      BY <2>5, PaddedInputAssumption DEF Inv, TypeOK
    <3>2. buffer[other] # buffer[s]
      BY <2>2, <3>1 DEF Inv, Memory, OneOwner
    <3> QED
      BY <2>1, <2>5, <3>1, <3>2 DEF Scrapped
  <2>6. OneOwner'
    <3>1. /\ \A o \in Owners : buffer'[o] \in allocated' \cup {None}
          /\ \A o, other \in Owners :
               buffer'[o] = buffer'[other] /\ buffer'[o] # None => o = other
      BY <2>4, <2>5 DEF Inv, Memory, OneOwner
    <3>2. \A b \in allocated' : \E o \in Owners : buffer'[o] = b
      BY <2>1, <2>4 DEF Inv, Memory, OneOwner
    <3> QED
      BY <3>1, <3>2 DEF OneOwner
  <2>7. TextsAreWhatWasWritten'
    BY <2>4, <2>5 DEF Inv, Memory, OneOwner, TextsAreWhatWasWritten, Contents
  <2>8. OwnersAreHeld'
    BY <2>4 DEF Inv, OwnersAreHeld, Owners
  <2>9. ReadersReadTheirInput'
    <3> SUFFICES ASSUME NEW r \in Readers, readers'[r] # NoReader,
                        ~ readers'[r].appended
                 PROVE  /\ readers'[r].storage \in Storages
                        /\ readers'[r].buffer = buffer'[readers'[r].storage]
                        /\ readers'[r].buffer \in allocated'
                        /\ heap'[readers'[r].buffer] = readers'[r].given
      BY DEF ReadersReadTheirInput
    <3>1. readers'[r] = readers[r] /\ readers[r] # NoReader
      OBVIOUS
    <3>2. readers[r].storage \in Owners \ {s}
      BY <1>2, <3>1, ReaderHasStorage DEF Inv, Held, Owners
    <3> QED
      BY <2>4, <2>5, <3>1, <3>2, ReadersStay
  <2> QED
    BY <2>3, <2>6, <2>7, <2>8, <2>9 DEF Inv, Memory
<1> QED
  BY <1>1, <1>2

LEMMA DropStringStep ==
  ASSUME Inv, NEW p \in Strings, DropString(p)
  PROVE  Inv'
<1>1. /\ strings[p] \in Storages
      /\ strings' = [strings EXCEPT ![p] = None] /\ readers' = readers
      /\ Release(strings[p])
  BY DEF DropString, Inv, TypeOK
<1>2. /\ strings' \in [Strings -> Storages \cup {None}]
      /\ readers' \in [Readers -> ReaderStates]
      /\ \A c \in Storages : Unused(c)' => Unused(c) \/ c = strings[p]
  BY <1>1 DEF Inv, TypeOK, Unused, Held
<1> QED
  BY <1>1, <1>2, ReleaseStep

LEMMA DropReaderStep ==
  ASSUME Inv, NEW r \in Readers, DropReader(r)
  PROVE  Inv'
<1>1. /\ readers[r].storage \in Storages
      /\ readers' = [readers EXCEPT ![r] = NoReader] /\ strings' = strings
      /\ Release(readers[r].storage)
  BY ReaderHasStorage DEF DropReader, Inv
<1>2. /\ strings' \in [Strings -> Storages \cup {None}]
      /\ readers' \in [Readers -> ReaderStates]
      /\ \A q \in Readers : readers'[q] # NoReader => readers'[q] = readers[q]
      /\ \A c \in Storages : Unused(c)' => Unused(c) \/ c = readers[r].storage
  BY <1>1 DEF Inv, TypeOK, ReaderStates, Unused, Held
<1> QED
  BY <1>1, <1>2, ReleaseStep

-----------------------------------------------------------------------------
(* A builder's buffer is no storage's, so no reader's. *)

LEMMA BuilderAppendStep ==
  ASSUME Inv, NEW d \in Builders, NEW data \in Chunks, BuilderAppend(d, data)
  PROVE  Inv'
<1>1. d \in Owners \ Storages /\ strings' = strings /\ readers' = readers
  BY PaddedInputAssumption DEF Owners, BuilderAppend
<1>2. /\ Contents(d) = written[d] /\ Append(written[d], data) \in Texts
      /\ Write(d, Append(written[d], data))
  BY <1>1 DEF Inv, Memory, TextsAreWhatWasWritten, TypeOK, Texts, BuilderAppend
<1>3. /\ allocated' \subseteq Buffers /\ heap' \in [Buffers -> Texts]
      /\ buffer' \in [Owners -> Buffers \cup {None}] /\ written' \in [Owners -> Texts]
      /\ Memory'
      /\ \A other \in Owners \ {d} :
           /\ buffer'[other] = buffer[other]
           /\ buffer[other] \in allocated =>
                /\ buffer[other] \in allocated'
                /\ heap'[buffer[other]] = heap[buffer[other]]
  <2>1. CASE Put(d, Append(Contents(d), data))
    BY <1>1, <1>2, <2>1, PutReplaces DEF Inv
  <2>2. CASE /\ buffer[d] # None /\ Len(Contents(d)) < MaxLength
             /\ heap' = [heap EXCEPT ![buffer[d]] = Append(@, data)]
             /\ UNCHANGED <<allocated, buffer>>
    <3>1. buffer[d] \in Buffers /\ heap[buffer[d]] = written[d]
      BY <1>1, <1>2, <2>2 DEF Inv, TypeOK, Contents
    <3>2. /\ heap' \in [Buffers -> Texts]
          /\ heap'[buffer[d]] = Append(written[d], data)
          /\ \A b \in Buffers : b # buffer[d] => heap'[b] = heap[b]
      BY <1>2, <2>2, <3>1 DEF Inv, TypeOK
    <3>3. /\ written' \in [Owners -> Texts] /\ written'[d] = Append(written[d], data)
          /\ \A other \in Owners \ {d} : written'[other] = written[other]
      BY <1>1, <1>2 DEF Inv, TypeOK, Write
    <3>4. \A other \in Owners \ {d} : buffer[other] # None =>
            buffer[other] \in Buffers /\ buffer[other] # buffer[d]
      BY <1>1 DEF Inv, TypeOK, Memory, OneOwner
    <3>5. None \notin allocated
      BY PaddedInputAssumption DEF Inv, TypeOK
    <3>6. OneOwner'
      BY <2>2 DEF Inv, Memory, OneOwner
    <3>7. TextsAreWhatWasWritten'
      BY <2>2, <3>2, <3>3, <3>4 DEF Inv, Memory, TextsAreWhatWasWritten, Contents
    <3> QED
      BY <2>2, <3>2, <3>3, <3>4, <3>5, <3>6, <3>7 DEF Inv, TypeOK, Memory
  <2> QED
    BY <2>1, <2>2 DEF BuilderAppend
<1>4. \A s \in Storages : s \in Owners \ {d}
  BY <1>1 DEF Owners
<1>5. OwnersAreHeld'
  BY <1>1, <1>3, <1>4 DEF Inv, OwnersAreHeld, Unused
<1>6. ReadersReadTheirInput'
  BY <1>1, <1>3, <1>4 DEF Inv, ReadersReadTheirInput
<1> QED
  BY <1>1, <1>3, <1>5, <1>6 DEF Inv, TypeOK

LEMMA ConvertStep ==
  ASSUME Inv, NEW d \in Builders, NEW p \in Strings, Convert(d, p)
  PROVE  Inv'
<1>1. PICK s \in Storages :
        /\ Unused(s)
        /\ strings' = [strings EXCEPT ![p] = s]
        /\ buffer' = [buffer EXCEPT ![s] = buffer[d], ![d] = None]
        /\ written' = [written EXCEPT ![s] = written[d], ![d] = << >>]
  BY DEF Convert
<1>2. /\ strings[p] = None /\ UNCHANGED <<allocated, heap, readers>>
      /\ d \in Owners /\ s \in Owners /\ s # d /\ buffer[s] = None /\ << >> \in Texts
  BY <1>1, PaddedInputAssumption DEF Convert, Owners, Inv, OwnersAreHeld, Texts
<1>3. /\ strings' \in [Strings -> Storages \cup {None}]
      /\ readers' \in [Readers -> ReaderStates]
      /\ \A c \in Storages : Unused(c)' => Unused(c) /\ c # s
  BY <1>1, <1>2, StringTakes DEF Inv
<1>4. /\ buffer'[s] = buffer[d] /\ buffer'[d] = None
      /\ written'[s] = written[d] /\ written'[d] = << >>
      /\ \A other \in Owners \ {s, d} :
           buffer'[other] = buffer[other] /\ written'[other] = written[other]
  BY <1>1, <1>2 DEF Inv, TypeOK
<1>5. TypeOK'
  BY <1>1, <1>2, <1>3 DEF Inv, TypeOK
<1>6. OneOwner'
  <2>1. \A o \in Owners : buffer'[o] \in allocated' \cup {None}
    BY <1>2, <1>4 DEF Inv, Memory, OneOwner
  <2>2. ASSUME NEW o \in Owners, NEW other \in Owners,
               buffer'[o] = buffer'[other], buffer'[o] # None
        PROVE  o = other
    BY <1>2, <1>4, <2>2 DEF Inv, Memory, OneOwner
  <2>3. ASSUME NEW b \in allocated'
        PROVE  \E o \in Owners : buffer'[o] = b
    <3>1. b # None
      BY <2>3, <1>2, PaddedInputAssumption DEF Inv, TypeOK
    <3>2. PICK o \in Owners : buffer[o] = b
      BY <2>3, <1>2 DEF Inv, Memory, OneOwner
    <3> QED
      BY <1>2, <1>4, <3>1, <3>2
  <2> QED
    BY <2>1, <2>2, <2>3 DEF OneOwner
<1>7. TextsAreWhatWasWritten'
  BY <1>2, <1>4 DEF Inv, Memory, TextsAreWhatWasWritten, Contents
<1>8. \A c \in Storages \ {s} : buffer'[c] = buffer[c]
  BY <1>2, <1>4, PaddedInputAssumption DEF Owners
<1>9. OwnersAreHeld'
  BY <1>3, <1>8 DEF Inv, OwnersAreHeld
<1>10. ReadersReadTheirInput'
  <2> SUFFICES ASSUME NEW r \in Readers, readers[r] # NoReader, ~ readers[r].appended
               PROVE  /\ readers[r].storage \in Storages
                      /\ readers[r].buffer = buffer'[readers[r].storage]
                      /\ readers[r].buffer \in allocated
                      /\ heap[readers[r].buffer] = readers[r].given
    BY <1>2 DEF ReadersReadTheirInput
  <2>1. readers[r].storage \in Storages \ {s}
    BY <1>1, ReaderHasStorage DEF Inv, Unused, Held
  <2> QED
    BY <1>8, <2>1 DEF Inv, ReadersReadTheirInput
<1> QED
  BY <1>5, <1>6, <1>7, <1>9, <1>10 DEF Inv, Memory

-----------------------------------------------------------------------------

LEMMA NextInv == ASSUME Inv, [Next]_vars PROVE Inv'
<1>1. CASE UNCHANGED vars
  BY <1>1 DEF vars, Inv, TypeOK, Memory, OneOwner, TextsAreWhatWasWritten, Contents,
              OwnersAreHeld, Unused, Held, ReadersReadTheirInput
<1>2. ASSUME NEW p \in Strings,
             \/ NewEmptyString(p) \/ DropString(p)
             \/ \E data \in Chunks : NewString(p, data) \/ AppendString(p, data)
             \/ \E other \in Strings : ShareString(p, other)
             \/ \E d \in Builders : Build(d, p) \/ Convert(d, p)
      PROVE  Inv'
  BY <1>2, NewEmptyStringStep, DropStringStep, NewStringStep, AppendStringStep,
     ShareStringStep, BuildStep, ConvertStep
<1>3. ASSUME NEW r \in Readers,
             \/ DropReader(r)
             \/ \E p \in Strings : Read(r, p)
             \/ \E data \in Chunks : ReadCopy(r, data)
      PROVE  Inv'
  BY <1>3, DropReaderStep, ReadStep, ReadCopyStep
<1>4. ASSUME NEW d \in Builders, NEW data \in Chunks, BuilderAppend(d, data)
      PROVE  Inv'
  BY <1>4, BuilderAppendStep
<1> QED
  BY <1>1, <1>2, <1>3, <1>4 DEF Next

LEMMA Invariance == Spec => []Inv
BY InitInv, NextInv, PTL DEF Spec

\* The padded strings, builders and readers keep their types.
THEOREM TypeCorrect == Spec => []TypeOK
<1>1. Inv => TypeOK
  BY DEF Inv
<1> QED
  BY <1>1, Invariance, PTL

\* No buffer is freed twice, freed in use, or leaked.
THEOREM OneOwnerEach == Spec => []BuffersHaveOneOwner
<1>1. Inv => BuffersHaveOneOwner
  BY DEF Inv, Memory, OneOwner, OwnersAreHeld, BuffersHaveOneOwner
<1> QED
  BY <1>1, Invariance, PTL

\* Strings and builders hold what the program wrote to them.
THEOREM TextsKept == Spec => []TextsAreWhatWasWritten
<1>1. Inv => TextsAreWhatWasWritten
  BY DEF Inv, Memory
<1> QED
  BY <1>1, Invariance, PTL

\* What is read is what was given, unless something was appended to it.
THEOREM InputsKept == Spec => []ReadersReadTheirInput
<1>1. Inv => ReadersReadTheirInput
  BY DEF Inv
<1> QED
  BY <1>1, Invariance, PTL
=============================================================================
