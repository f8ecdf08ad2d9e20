--------------------------- MODULE DocumentStream ---------------------------
(***************************************************************************)
(* Document streams: DOMParser.parse_many and OnDemandParser.iterate_many. *)
(*                                                                         *)
(* A stream owns ONE simdjson parser, whose single document is overwritten *)
(* by every advance.  Items handed out to Python (and every array, object, *)
(* value or iterator derived from them, which carry the same owner) do not *)
(* copy the document: they remember the stream's item_revision, and every  *)
(* access compares it with the current one under the stream's mutex        *)
(* (with_dom_owner, with_ondemand_owner).  Any number of Python iterators  *)
(* may run over one stream, from any threads; they share its position.     *)
(*                                                                         *)
(* One locked section of the code is one action: every access to the       *)
(* fields below happens between the construction and the destruction of    *)
(* one nb::ft_lock_guard on state->mutex.  A call made of several sections *)
(* (size_hint, DOMObject.get) is several actions.                          *)
(*                                                                         *)
(* The DOM and On-Demand streams have the same code up to names, but their *)
(* simdjson streams differ.  The DOM parses a document when it is reached. *)
(* On-Demand only indexes it: a document that is not JSON is handed out    *)
(* and fails when it is read, and the advance goes on from wherever the    *)
(* reads of the item have left the item's cursor.                          *)
(***************************************************************************)
EXTENDS Naturals, Sequences

CONSTANTS
  Iterators,    \* Python iterators over the stream: iter(stream) gives one
  Readers,      \* threads that use items
  Apis,         \* the streams explored: "dom" of parse_many, "ondemand" of iterate_many
  Inputs,       \* the inputs explored: each a sequence of kinds of documents
  Sections,     \* locked sections in a compound read: size_hint has up to four
  MaxPieces,    \* bound on the pieces of documents handed out; stands for their tokens
  MaxRevision   \* bound on item_revision; stands for the range of size_t

\* "malformed" documents are JSON to stage 1 of simdjson only; of "bad" ones stage 1
\* refuses the batch they begin.
Kinds == {"ok", "malformed", "bad"}

ASSUME ApisAssumption     == Apis \subseteq {"dom", "ondemand"}
ASSUME InputsAssumption   == Inputs \subseteq Seq(Kinds)
ASSUME SectionsAssumption == Sections \in Nat \ {0}
ASSUME PiecesAssumption   == MaxPieces \in Nat
ASSUME RevisionAssumption == MaxRevision \in Nat

VARIABLES
  api,            \* whose stream it is
  docs,           \* the input, document by document
  stream,         \* simdjson's document_stream and the document it parses into
  item_revision,  \* state->item_revision
  iterators,      \* the iterator wrappers: started, finished, and what they gave
  items,          \* the items handed out, in order: their copy of the counters
  readers,        \* the calls in progress on items
  last            \* the last section of a read: its item and what it showed

vars == <<api, docs, stream, item_revision, iterators, items, readers, last>>

-----------------------------------------------------------------------------
(* Types *)

Torn == 0                                    \* a document partly overwritten
Errors == {"SUCCESS", "EMPTY", "FAILED"}     \* FAILED: any code but these two

\* error is sticky; pos is the document last reached; tape is what the parser's
\* document now holds: document number tape, or nothing whole; astray: skipping from
\* where its cursor is does not lead to the next document.
StreamStates == [error : Errors, pos : Nat, tape : Nat, astray : BOOLEAN]

\* ended: next() has raised StopIteration or an error; got: what next() returned.
IteratorStates ==
  [started : BOOLEAN, finished : BOOLEAN, ended : BOOLEAN, got : Seq(Nat)]

\* The item keeps generation and item_revision; doc is what it was issued for.
ItemStates == [generation : Nat, item_revision : Nat, doc : Nat]

ReadStates == [item : Nat, seen : Seq(Nat)]

TypeOK ==
  /\ api \in Apis
  /\ docs \in Seq(Kinds)
  /\ stream \in StreamStates
  /\ item_revision \in Nat
  /\ iterators \in [Iterators -> IteratorStates]
  /\ items \in Seq(ItemStates)
  /\ readers \in [Readers -> ReadStates]
  /\ last \in [lease : Nat, doc : Nat]

NoRead == [item |-> 0, seen |-> << >>]

-----------------------------------------------------------------------------
(* parse_many, iterate_many *)

\* state->generation is set when the stream is made and never again.
generation == 1

NewIterator == [started |-> FALSE, finished |-> FALSE, ended |-> FALSE,
                got |-> << >>]

Init ==
  /\ api \in Apis
  /\ docs \in Inputs
  /\ stream = [error |-> "SUCCESS", pos |-> 0, tape |-> Torn, astray |-> FALSE]
  /\ item_revision = 0
  /\ iterators = [i \in Iterators |-> NewIterator]
  /\ items = << >>
  /\ readers = [t \in Readers |-> NoRead]
  /\ last = [lease |-> 0, doc |-> Torn]

-----------------------------------------------------------------------------
(* simdjson's document_stream, as next() uses it *)

Stopped(error, p, tape) ==
  [error |-> error, pos |-> p, tape |-> tape, astray |-> FALSE]
Holding(p, astray) ==
  [error |-> "SUCCESS", pos |-> p, tape |-> p, astray |-> astray]

\* Document p is reached.  Past the last one the DOM leaves its document alone and
\* On-Demand leaves it beyond the end.  On-Demand reads nothing of a document yet, and
\* does not see that brackets do not match.
ParseAt(p) ==
  IF p > Len(docs)
  THEN {Stopped("EMPTY", p, IF api = "dom" THEN stream.tape ELSE Torn)}
  ELSE IF docs[p] = "ok"
  THEN {Holding(p, FALSE)}
  ELSE IF docs[p] = "malformed" /\ api = "ondemand"
  THEN {Holding(p, astray) : astray \in BOOLEAN}
  ELSE {Stopped("FAILED", p, Torn)}

\* A stream that is astray goes on somewhere in the input, which a number beyond the
\* documents stands for, whole document or not; or it meets an error, or the end.
PastDocuments == stream.pos > Len(docs)
Piece == (IF PastDocuments THEN stream.pos ELSE Len(docs)) + 1
GoAstray ==
  {Stopped(error, Piece, Torn) : error \in {"EMPTY", "FAILED"}}
  \cup {Holding(p, TRUE) : p \in {Piece} \cap 1 .. Len(docs) + MaxPieces}

\* begin() starts again at the first document, unless the stream has failed.
Begin == IF stream.error = "SUCCESS" THEN ParseAt(1) ELSE {stream}

\* operator++ goes on to the next one, unless the stream has failed.  On-Demand skips
\* what is left of the item, from its cursor on.
Increment ==
  IF stream.error # "SUCCESS" THEN {stream}
  ELSE IF stream.astray THEN GoAstray
  ELSE ParseAt(stream.pos + 1)

\* Whether the iterator equals end() after begin() or operator++ led to s: an
\* error seen by operator++ ends it, an error it caused is left to operator*.
Finished(i, s) ==
  \/ iterators[i].finished
  \/ s.error = "EMPTY"
  \/ iterators[i].started /\ stream.error # "SUCCESS"

-----------------------------------------------------------------------------
(* next() of the two stream iterator wrappers *)

\* Fault: `started` is never consulted.
AdvanceAlwaysBegins(i) == Begin

Advance(i) == IF iterators[i].started THEN Increment ELSE Begin

\* `if (!(current != end)) throw nb::stop_iteration()`
StopIteration(i, s) ==
  /\ Finished(i, s)
  /\ iterators' = [iterators EXCEPT ![i].started = TRUE, ![i].finished = TRUE,
                                    ![i].ended = TRUE]
  /\ UNCHANGED <<item_revision, items>>

\* Fault: an error takes the revision back.
RaiseErrorRollsBack(i, s) ==
  /\ ~ Finished(i, s)
  /\ s.error # "SUCCESS"
  /\ iterators' = [iterators EXCEPT ![i].started = TRUE, ![i].ended = TRUE]
  /\ item_revision' = item_revision - 1
  /\ UNCHANGED items

\* `ensure_success(result.error(), ...)` raises; nothing below it runs.
RaiseError(i, s) ==
  /\ ~ Finished(i, s)
  /\ s.error # "SUCCESS"
  /\ iterators' = [iterators EXCEPT ![i].started = TRUE, ![i].ended = TRUE]
  /\ UNCHANGED <<item_revision, items>>

\* Fault: the increment is missing; Fault: an iterator that begins starts the
\* revision again.
HandOutWithRevision(i, s, revision) ==
  /\ ~ Finished(i, s)
  /\ s.error = "SUCCESS"
  /\ item_revision < MaxRevision /\ Len(items) < MaxRevision
  /\ item_revision' = revision
  /\ items' = Append(items, [generation |-> generation,
                             item_revision |-> revision, doc |-> s.tape])
  /\ iterators' = [iterators EXCEPT ![i].started = TRUE,
                                    ![i].got = Append(@, s.tape)]
HandOutKeepsRevision(i, s) == HandOutWithRevision(i, s, item_revision)
HandOutRestartsRevision(i, s) ==
  HandOutWithRevision(i, s, IF iterators[i].started THEN item_revision + 1 ELSE 1)

\* Only now is the revision incremented, and copied into the new item.
HandOut(i, s) ==
  /\ ~ Finished(i, s)
  /\ s.error = "SUCCESS"
  /\ item_revision < MaxRevision
  /\ item_revision' = item_revision + 1
  /\ items' = Append(items, [generation |-> generation,
                             item_revision |-> item_revision + 1,
                             doc |-> s.tape])
  /\ iterators' = [iterators EXCEPT ![i].started = TRUE,
                                    ![i].got = Append(@, s.tape)]

NextItem(i) ==
  \E s \in Advance(i) :
    /\ stream' = s
    /\ StopIteration(i, s) \/ RaiseError(i, s) \/ HandOut(i, s)
    /\ UNCHANGED <<api, docs, readers, last>>

-----------------------------------------------------------------------------
(* Reads through an item: one or more with_*_owner sections *)

\* The test of with_dom_owner and with_ondemand_owner.
Fresh(k) ==
  /\ items[k].generation = generation
  /\ items[k].item_revision = item_revision

\* A thread calls a method of an item it holds; k may be any item ever issued.
Call(t) ==
  /\ readers[t] = NoRead
  /\ \E k \in DOMAIN items : readers' = [readers EXCEPT ![t].item = k]
  /\ UNCHANGED <<api, docs, stream, item_revision, iterators, items, last>>

\* Where a read can leave the cursor of the document: anywhere in an On-Demand item,
\* and back at its start.  The DOM has none.
CursorLeft(s) ==
  IF api = "dom" \/ s.error # "SUCCESS" \/ s.pos > Len(docs) THEN {s}
  ELSE {[s EXCEPT !.astray = astray] : astray \in BOOLEAN}

\* Fault: only the first section of a call tests its item.
SectionTestsOnce(t) ==
  /\ readers[t].item # 0
  /\ Len(readers[t].seen) < Sections
  /\ readers[t].seen = << >> => Fresh(readers[t].item)
  /\ readers' = [readers EXCEPT ![t].seen = Append(@, stream.tape)]
  /\ last' = [lease |-> readers[t].item, doc |-> stream.tape]
  /\ stream' \in CursorLeft(stream)
  /\ UNCHANGED <<api, docs, item_revision, iterators, items>>

\* A section that passes the test reads the document as it now is.
Section(t) ==
  /\ readers[t].item # 0
  /\ Len(readers[t].seen) < Sections
  /\ Fresh(readers[t].item)
  /\ readers' = [readers EXCEPT ![t].seen = Append(@, stream.tape)]
  /\ last' = [lease |-> readers[t].item, doc |-> stream.tape]
  /\ stream' \in CursorLeft(stream)
  /\ UNCHANGED <<api, docs, item_revision, iterators, items>>

\* A section that does not raises ReferenceError and the call is over.
RaiseStale(t) ==
  /\ readers[t].item # 0
  /\ Len(readers[t].seen) < Sections
  /\ ~ Fresh(readers[t].item)
  /\ readers' = [readers EXCEPT ![t] = NoRead]
  /\ last' = [lease |-> 0, doc |-> Torn]
  /\ UNCHANGED <<api, docs, stream, item_revision, iterators, items>>

Return(t) ==
  /\ Len(readers[t].seen) = Sections
  /\ readers' = [readers EXCEPT ![t] = NoRead]
  /\ UNCHANGED <<api, docs, stream, item_revision, iterators, items, last>>

-----------------------------------------------------------------------------

Next ==
  \/ \E i \in Iterators : NextItem(i)
  \/ \E t \in Readers : Call(t) \/ Section(t) \/ RaiseStale(t) \/ Return(t)

Spec == Init /\ [][Next]_vars

\* A for loop over the stream keeps calling next() until it raises.
Fairness == \A i \in Iterators :
              WF_vars(iterators[i].started /\ ~ iterators[i].ended /\ NextItem(i))

FairSpec == Spec /\ Fairness

-----------------------------------------------------------------------------
(* Safety *)

\* Of all the items ever handed out by one stream, at most one passes the
\* freshness test of with_*_owner, and it is the last one handed out.
OnlyLatestItemIsFresh == \A k \in DOMAIN items : Fresh(k) => k = Len(items)

\* An item that was refused once is refused for ever: no sequence of advances
\* and restarts by other iterators makes its revision current again.
StaleItemsStayStale ==
  [][\A k \in DOMAIN items : ~ Fresh(k) => ~ Fresh(k)']_vars

\* All the sections of one call that returned a value read the document the item
\* was handed out for, although other threads advance the stream between them
\* and the parser's document is overwritten in place.  The exception is a stream
\* that has ended, whose last document may be torn: never another document.
ReadsOwnDocument ==
  \A t \in Readers : \A n \in DOMAIN readers[t].seen :
    \/ readers[t].seen[n] = items[readers[t].item].doc
    \/ readers[t].seen[n] = Torn /\ stream.error # "SUCCESS"

\* What next() returns, over all the iterators of a stream, is the input in order,
\* starting again at the first document only where an iterator makes its first call;
\* the DOM hands out no document that fails to parse.  A stream hands out what is not
\* the next document only if it is an On-Demand one, after some item, and no document
\* follows until an iterator begins.
DocumentsInOrder ==
  /\ \A k \in DOMAIN items :
       \/ /\ items[k].doc \in DOMAIN docs
          /\ docs[items[k].doc] \in (IF api = "dom" THEN {"ok"} ELSE {"ok", "malformed"})
          /\ items[k].doc # 1 => k > 1 /\ items[k - 1].doc = items[k].doc - 1
       \/ items[k].doc > Len(docs) /\ api = "ondemand" /\ k > 1
  /\ \A i \in Iterators :
       /\ \A j \in Iterators \ {i} : ~ iterators[j].started
       /\ \A k \in DOMAIN items : items[k].doc \in DOMAIN docs
       => iterators[i].got = [n \in 1 .. Len(items) |-> n]

\* docs/streaming.md: "Malformed document inside the batch | SimdjsonError (raised on
\* next() for that item)".  So no document is handed out that is not JSON.
MalformedDocumentsRaise ==
  \A k \in DOMAIN items : items[k].doc \in DOMAIN docs /\ docs[items[k].doc] = "ok"

\* The documentation's rule: "once you advance, earlier items are invalid".  An
\* item is issued for the document the stream is at, so one that still passes the
\* test must be at the stream's position.  Reaching the end is not held against it.
AdvanceInvalidatesItems ==
  \A k \in DOMAIN items :
    Fresh(k) /\ stream.error # "EMPTY" => items[k].doc = stream.pos

-----------------------------------------------------------------------------
(* Refinement and liveness *)

\* Every step of a stream is a step of the abstract lease of its items.
Documents == UNION {1 .. Len(input) + MaxPieces : input \in Inputs}

Lease == INSTANCE ItemLease WITH
           leases <- [k \in DOMAIN items |-> items[k].doc],
           open   <- stream.error = "SUCCESS",
           shown  <- last

ImplementsItemLease == Lease!Spec

\* Every loop over a stream comes to an end, although other iterators may restart
\* the stream under it: each does so once, on its first call.
LoopsTerminate ==
  \A i \in Iterators : iterators[i].started ~> iterators[i].ended
=============================================================================
