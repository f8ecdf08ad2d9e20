----------------------- MODULE DocumentStream_proofs -----------------------
(***************************************************************************)
(* Proofs about DocumentStream for any number of iterators, threads, lock  *)
(* sections per call and documents.                                        *)
(*                                                                         *)
(* The properties are about revisions, and hold because of facts no single *)
(* action shows: the revision is the number of items handed out, item k    *)
(* has revision k, and the parser's document is the one of the last item   *)
(* for as long as the stream has not failed.  The last fact needs another  *)
(* one: an iterator is finished only when the stream has failed, so that   *)
(* a document that parses is always handed out, never dropped.             *)
(***************************************************************************)
EXTENDS DocumentStream, TLAPS

\* The revision counts the items handed out.
RevisionsCountItems ==
  /\ Len(items) = item_revision
  /\ \A k \in DOMAIN items :
       items[k].generation = generation /\ items[k].item_revision = k

\* While the stream runs, its document is the one of the latest item.
LatestItemIsParsed ==
  items # << >> =>
    \/ stream.tape = items[Len(items)].doc
    \/ stream.tape = Torn /\ stream.error # "SUCCESS"

\* An iterator reaches its end only with the stream.
FinishedOnlyAfterError ==
  \A i \in Iterators : iterators[i].finished => stream.error # "SUCCESS"

\* Only On-Demand documents have a cursor that reads move.
DomIsNeverAstray == api = "dom" => ~ stream.astray

\* A call in progress is on an item that was handed out.
CallsHoldItems ==
  \A t \in Readers :
    /\ readers[t].item \in 0 .. Len(items)
    /\ readers[t].item = 0 => readers[t].seen = << >>

IInv ==
  /\ TypeOK
  /\ RevisionsCountItems
  /\ LatestItemIsParsed
  /\ FinishedOnlyAfterError
  /\ DomIsNeverAstray
  /\ CallsHoldItems
  /\ ReadsOwnDocument

-----------------------------------------------------------------------------

\* What the simdjson stream holds when it has not failed: the first document for an
\* iterator that begins, the next one for another, unless the stream was astray.
GoesOn(i, s) ==
  \/ /\ s.tape \in DOMAIN docs
     /\ docs[s.tape] \in (IF api = "dom" THEN {"ok"} ELSE {"ok", "malformed"})
     /\ s.tape = IF iterators[i].started THEN stream.pos + 1 ELSE 1
  \/ s.tape > Len(docs) /\ stream.astray /\ iterators[i].started

LEMMA StoppedMeans ==
  ASSUME NEW error \in {"EMPTY", "FAILED"}, NEW p \in Nat, NEW tape \in Nat
  PROVE  LET s == Stopped(error, p, tape)
         IN  /\ s \in StreamStates /\ s.error = error /\ s.error # "SUCCESS"
             /\ s.tape = tape /\ ~ s.astray
  BY DEF Stopped, StreamStates, Errors

LEMMA HoldingMeans ==
  ASSUME NEW p \in Nat, NEW astray \in BOOLEAN
  PROVE  LET s == Holding(p, astray)
         IN  /\ s \in StreamStates /\ s.error = "SUCCESS" /\ s.pos = p /\ s.tape = p
             /\ s.astray = astray
  BY DEF Holding, StreamStates, Errors

LEMMA ParseResult ==
  ASSUME TypeOK, NEW p \in Nat \ {0}, NEW s \in ParseAt(p)
  PROVE  /\ s \in StreamStates
         /\ api = "dom" => ~ s.astray
         /\ s.error = "SUCCESS" =>
              /\ s.pos = p /\ s.tape = p /\ p \in DOMAIN docs
              /\ docs[p] \in (IF api = "dom" THEN {"ok"} ELSE {"ok", "malformed"})
         /\ s.error # "SUCCESS" => s.tape \in {stream.tape, Torn}
<1>1. /\ docs \in Seq(Kinds) /\ stream.tape \in Nat
      /\ DOMAIN docs = 1 .. Len(docs) /\ Len(docs) \in Nat
  BY DEF TypeOK, StreamStates
<1>2. CASE p > Len(docs)
  <2>1. PICK tape \in {stream.tape, Torn} : s = Stopped("EMPTY", p, tape)
    BY <1>2 DEF ParseAt
  <2>2. tape \in Nat
    BY <1>1, <2>1 DEF Torn
  <2>3. QED
    BY <2>1, <2>2, StoppedMeans
<1>3. CASE p <= Len(docs)
  <2>1. p \in DOMAIN docs /\ docs[p] \in Kinds
    BY <1>1, <1>3
  <2>2. CASE docs[p] = "ok"
    <3>0. ~ (p > Len(docs))
      BY <1>1, <1>3
    <3>1. s = Holding(p, FALSE)
      BY <2>2, <3>0, Zenon DEF ParseAt
    <3>2. QED
      BY <2>1, <2>2, <3>1, HoldingMeans
  <2>3. CASE docs[p] # "ok" /\ docs[p] = "malformed" /\ api = "ondemand"
    <3>1. \E astray \in BOOLEAN : s = Holding(p, astray)
      BY <1>1, <1>3, <2>3 DEF ParseAt
    <3>2. QED
      BY <2>1, <2>3, <3>1, HoldingMeans
  <2>4. CASE docs[p] # "ok" /\ ~ (docs[p] = "malformed" /\ api = "ondemand")
    <3>1. s = Stopped("FAILED", p, Torn)
      BY <1>1, <1>3, <2>4 DEF ParseAt
    <3>2. Torn \in Nat
      BY DEF Torn
    <3>3. QED
      BY <3>1, <3>2, StoppedMeans
  <2>5. QED BY <2>2, <2>3, <2>4
<1>4. QED BY <1>1, <1>2, <1>3

LEMMA AstrayResult ==
  ASSUME TypeOK, NEW s \in GoAstray
  PROVE  /\ s \in StreamStates
         /\ s.error = "SUCCESS" =>
              s.pos = s.tape /\ s.tape \in 1 .. Len(docs) + MaxPieces /\ s.tape > Len(docs)
         /\ s.error # "SUCCESS" => s.tape = Torn
<1>1. Len(docs) \in Nat /\ stream.pos \in Nat
  BY DEF TypeOK, StreamStates
<1>2. Piece \in Nat /\ Piece > Len(docs)
  BY <1>1 DEF Piece, PastDocuments
<1>3. Torn \in Nat
  BY DEF Torn
<1>4. \/ \E error \in {"EMPTY", "FAILED"} : s = Stopped(error, Piece, Torn)
      \/ \E p \in {Piece} \cap 1 .. Len(docs) + MaxPieces : s = Holding(p, TRUE)
  BY DEF GoAstray
<1>5. CASE \E error \in {"EMPTY", "FAILED"} : s = Stopped(error, Piece, Torn)
  BY <1>2, <1>3, <1>5, StoppedMeans
<1>6. CASE \E p \in {Piece} \cap 1 .. Len(docs) + MaxPieces : s = Holding(p, TRUE)
  <2>1. s = Holding(Piece, TRUE) /\ Piece \in 1 .. Len(docs) + MaxPieces
    BY <1>6
  <2>2. QED
    BY <1>2, <2>1, HoldingMeans
<1>7. QED
  BY <1>4, <1>5, <1>6

\* begin() and operator++ lead to a well-formed stream, which is unchanged if
\* it had failed and goes on if it has not.
LEMMA AdvanceResult ==
  ASSUME TypeOK, DomIsNeverAstray, NEW i \in Iterators, NEW s \in Advance(i)
  PROVE  /\ s \in StreamStates
         /\ stream.error # "SUCCESS" => s = stream
         /\ s.error = "SUCCESS" =>
              s.pos = s.tape /\ s.tape \in 1 .. Len(docs) + MaxPieces
         /\ stream.error = "SUCCESS" /\ s.error = "SUCCESS" => GoesOn(i, s)
         /\ s.error # "SUCCESS" => s.tape \in {stream.tape, Torn}
         /\ api = "dom" => ~ s.astray
<1>1. /\ stream \in StreamStates /\ stream.pos + 1 \in Nat \ {0} /\ api \in Apis
      /\ Len(docs) \in Nat /\ DOMAIN docs = 1 .. Len(docs)
  BY DEF TypeOK, StreamStates
<1>2. CASE stream.error # "SUCCESS"
  BY <1>1, <1>2 DEF Advance, Begin, Increment, DomIsNeverAstray
<1>3. CASE stream.error = "SUCCESS" /\ ~ iterators[i].started
  <2>1. s \in ParseAt(1)
    BY <1>3 DEF Advance, Begin
  <2>2. QED
    BY <1>1, <1>3, <2>1, ParseResult, PiecesAssumption DEF GoesOn
<1>4. CASE stream.error = "SUCCESS" /\ iterators[i].started /\ stream.astray
  <2>1. s \in GoAstray
    BY <1>4 DEF Advance, Increment
  <2>2. QED
    BY <1>1, <1>4, <2>1, AstrayResult DEF GoesOn, DomIsNeverAstray
<1>5. CASE stream.error = "SUCCESS" /\ iterators[i].started /\ ~ stream.astray
  <2>1. s \in ParseAt(stream.pos + 1)
    BY <1>5 DEF Advance, Increment
  <2>2. QED
    BY <1>1, <1>5, <2>1, ParseResult, PiecesAssumption DEF GoesOn
<1>6. QED BY <1>2, <1>3, <1>4, <1>5

\* A read moves the cursor and nothing else of the stream.
LEMMA CursorLeftResult ==
  ASSUME TypeOK, NEW s \in CursorLeft(stream)
  PROVE  /\ s \in StreamStates
         /\ s.error = stream.error /\ s.pos = stream.pos /\ s.tape = stream.tape
         /\ api = "dom" => s = stream
<1>1. stream \in StreamStates
  BY DEF TypeOK
<1>2. QED
  BY <1>1 DEF CursorLeft, StreamStates

LEMMA InitIInv == Init => IInv
<1>1. SUFFICES ASSUME Init PROVE IInv
  OBVIOUS
<1>2. TypeOK
  BY <1>1, InputsAssumption DEF Init, TypeOK, StreamStates, Errors, IteratorStates,
     NewIterator, ItemStates, ReadStates, NoRead, Torn
<1>3. RevisionsCountItems /\ LatestItemIsParsed
  BY <1>1 DEF Init, RevisionsCountItems, LatestItemIsParsed
<1>4. FinishedOnlyAfterError /\ DomIsNeverAstray
  BY <1>1 DEF Init, FinishedOnlyAfterError, DomIsNeverAstray, NewIterator
<1>5. CallsHoldItems /\ ReadsOwnDocument
  BY <1>1 DEF Init, CallsHoldItems, ReadsOwnDocument, NoRead
<1>6. QED
  BY <1>2, <1>3, <1>4, <1>5 DEF IInv

\* next() preserves the invariant.
LEMMA NextItemIInv ==
  ASSUME IInv, NEW i \in Iterators, NextItem(i)
  PROVE  IInv'
<1>1. PICK s \in Advance(i) :
        /\ stream' = s
        /\ StopIteration(i, s) \/ RaiseError(i, s) \/ HandOut(i, s)
        /\ UNCHANGED <<api, docs, readers, last>>
  BY DEF NextItem
<1>2. /\ s \in StreamStates
      /\ stream.error # "SUCCESS" => s = stream
      /\ s.error # "SUCCESS" => s.tape \in {stream.tape, Torn}
  BY AdvanceResult DEF IInv
<1>7. DomIsNeverAstray'
  BY <1>1, AdvanceResult DEF IInv, DomIsNeverAstray
<1>3. TypeOK
  BY DEF IInv
<1>4. CASE s.error # "SUCCESS"
  <2>1. UNCHANGED <<item_revision, items>>
    BY <1>1, <1>4 DEF StopIteration, RaiseError, HandOut
  <2>2. TypeOK'
    <3>1. iterators' \in [Iterators -> IteratorStates]
      <4>1. CASE StopIteration(i, s)
        BY <1>3, <4>1 DEF TypeOK, IteratorStates, StopIteration
      <4>2. CASE RaiseError(i, s)
        BY <1>3, <4>2 DEF TypeOK, IteratorStates, RaiseError
      <4>3. QED
        BY <1>1, <1>4, <4>1, <4>2 DEF HandOut
    <3>2. QED
      BY <1>1, <1>2, <1>3, <2>1, <3>1 DEF TypeOK
  <2>3. RevisionsCountItems'
    BY <2>1 DEF IInv, RevisionsCountItems, generation
  <2>4. LatestItemIsParsed'
    BY <1>1, <1>2, <1>4, <2>1 DEF IInv, LatestItemIsParsed
  <2>5. FinishedOnlyAfterError'
    BY <1>1, <1>4 DEF FinishedOnlyAfterError
  <2>6. CallsHoldItems'
    BY <1>1, <2>1 DEF IInv, CallsHoldItems
  <2>7. ReadsOwnDocument'
    BY <1>1, <1>4, <2>1 DEF IInv, ReadsOwnDocument
  <2>8. QED
    BY <1>7, <2>2, <2>3, <2>4, <2>5, <2>6, <2>7 DEF IInv
<1>5. CASE s.error = "SUCCESS"
  <2>1. stream.error = "SUCCESS" /\ HandOut(i, s)
    BY <1>1, <1>2, <1>5 DEF StopIteration, RaiseError, HandOut, Finished, IInv,
       FinishedOnlyAfterError
  <2>2. s.tape \in Nat
    BY <1>2 DEF StreamStates
  <2>3. TypeOK'
    <3>1. items' \in Seq(ItemStates)
      BY <1>3, <2>1, <2>2 DEF TypeOK, HandOut, ItemStates, generation
    <3>2. iterators' \in [Iterators -> IteratorStates]
      <4>1. Append(iterators[i].got, s.tape) \in Seq(Nat)
        BY <1>3, <2>2 DEF TypeOK, IteratorStates
      <4>2. QED
        BY <1>3, <2>1, <4>1 DEF TypeOK, HandOut, IteratorStates
    <3>3. QED
      BY <1>1, <1>2, <1>3, <2>1, <3>1, <3>2 DEF TypeOK, HandOut
  <2>4. /\ Len(items') = Len(items) + 1
        /\ \A k \in DOMAIN items : items'[k] = items[k]
        /\ items'[Len(items')] = [generation |-> generation,
                                  item_revision |-> item_revision + 1,
                                  doc |-> s.tape]
        /\ DOMAIN items = 1 .. Len(items) /\ DOMAIN items' = 1 .. Len(items')
        /\ Len(items) \in Nat
    BY <1>3, <2>1, <2>3 DEF TypeOK, HandOut
  <2>5. RevisionsCountItems'
    BY <2>1, <2>4 DEF IInv, RevisionsCountItems, HandOut, generation
  <2>6. LatestItemIsParsed'
    BY <1>1, <2>4 DEF LatestItemIsParsed
  <2>7. FinishedOnlyAfterError'
    BY <1>3, <2>1 DEF IInv, FinishedOnlyAfterError, HandOut, TypeOK, IteratorStates
  <2>8. CallsHoldItems'
    BY <1>1, <2>4 DEF IInv, CallsHoldItems
  <2>9. ReadsOwnDocument'
    BY <1>1, <2>1, <2>4 DEF IInv, ReadsOwnDocument, CallsHoldItems
  <2>10. QED
    BY <1>7, <2>3, <2>5, <2>6, <2>7, <2>8, <2>9 DEF IInv
<1>6. QED BY <1>4, <1>5

\* The steps of a call on an item preserve the invariant.
LEMMA ReaderIInv ==
  ASSUME IInv, NEW t \in Readers, Call(t) \/ Section(t) \/ RaiseStale(t) \/ Return(t)
  PROVE  IInv'
<1>1. TypeOK
  BY DEF IInv
<1>2. /\ UNCHANGED <<api, docs, item_revision, iterators, items>>
      /\ stream' \in StreamStates
      /\ stream'.error = stream.error /\ stream'.tape = stream.tape
      /\ api = "dom" => stream' = stream
  <2>1. UNCHANGED <<api, docs, item_revision, iterators, items>>
    BY DEF Call, Section, RaiseStale, Return
  <2>2. stream' = stream \/ stream' \in CursorLeft(stream)
    BY DEF Call, Section, RaiseStale, Return
  <2>3. stream \in StreamStates
    BY <1>1 DEF TypeOK
  <2>4. QED
    BY <1>1, <2>1, <2>2, <2>3, CursorLeftResult
<1>3. /\ RevisionsCountItems' /\ LatestItemIsParsed' /\ FinishedOnlyAfterError'
      /\ DomIsNeverAstray'
  BY <1>2 DEF IInv, RevisionsCountItems, LatestItemIsParsed, FinishedOnlyAfterError,
     DomIsNeverAstray, generation
<1>4. NoRead \in ReadStates
  BY DEF NoRead, ReadStates
<1>5. DOMAIN items = 1 .. Len(items) /\ Len(items) \in Nat
  BY <1>1 DEF TypeOK
<1>6. CASE Call(t)
  <2>1. PICK k \in DOMAIN items : readers' = [readers EXCEPT ![t].item = k]
    BY <1>6 DEF Call
  <2>2. TypeOK'
    <3>1. k \in Nat
      BY <1>5, <2>1
    <3>2. readers' \in [Readers -> ReadStates]
      BY <1>1, <2>1, <3>1 DEF TypeOK, ReadStates
    <3>3. QED
      BY <1>1, <1>2, <1>6, <3>2 DEF TypeOK, Call
  <2>3. CallsHoldItems'
    BY <1>1, <1>2, <1>5, <2>1 DEF IInv, CallsHoldItems, TypeOK, ReadStates
  <2>4. readers'[t].seen = << >> /\ \A u \in Readers \ {t} : readers'[u] = readers[u]
    BY <1>1, <1>6, <2>1 DEF TypeOK, ReadStates, Call, NoRead
  <2>5. ReadsOwnDocument'
    BY <1>2, <2>4 DEF IInv, ReadsOwnDocument
  <2>6. QED
    BY <1>3, <2>2, <2>3, <2>5 DEF IInv
<1>7. CASE Section(t)
  <2>1. readers' = [readers EXCEPT ![t].seen = Append(@, stream.tape)]
    BY <1>7 DEF Section
  <2>2. /\ stream.tape \in Nat
        /\ readers[t].seen \in Seq(Nat)
        /\ readers[t].item \in DOMAIN items
    BY <1>1, <1>5, <1>7 DEF TypeOK, StreamStates, ReadStates, IInv, CallsHoldItems, Section
  <2>3. TypeOK'
    <3>0. Append(readers[t].seen, stream.tape) \in Seq(Nat)
      BY <2>2
    <3>1. readers' \in [Readers -> ReadStates]
      BY <1>1, <2>1, <3>0 DEF TypeOK, ReadStates
    <3>2. last' \in [lease : Nat, doc : Nat]
      BY <1>5, <1>7, <2>2 DEF Section
    <3>3. QED
      BY <1>1, <1>2, <3>1, <3>2 DEF TypeOK
  <2>4. CallsHoldItems'
    BY <1>1, <1>2, <1>7, <2>1, <2>2 DEF IInv, CallsHoldItems, TypeOK, ReadStates, Section
  <2>5. ReadsOwnDocument'
    <3>1. readers[t].item = Len(items)
      BY <1>5, <1>7, <2>2 DEF Section, Fresh, IInv, RevisionsCountItems
    <3>2. \/ stream.tape = items[readers[t].item].doc
          \/ stream.tape = Torn /\ stream.error # "SUCCESS"
      BY <1>5, <2>2, <3>1 DEF IInv, LatestItemIsParsed
    <3>3. ASSUME NEW u \in Readers, NEW n \in DOMAIN readers'[u].seen
          PROVE  \/ readers'[u].seen[n] = items[readers'[u].item].doc
                 \/ readers'[u].seen[n] = Torn /\ stream.error # "SUCCESS"
      <4>1. CASE u # t
        BY <1>1, <2>1, <3>3, <4>1 DEF TypeOK, IInv, ReadsOwnDocument
      <4>2. CASE u = t
        <5>1. /\ readers'[t].item = readers[t].item
              /\ readers'[t].seen = Append(readers[t].seen, stream.tape)
          BY <1>1, <2>1 DEF TypeOK, ReadStates
        <5>2. CASE n \in DOMAIN readers[t].seen
          BY <2>2, <4>2, <5>1, <5>2 DEF IInv, ReadsOwnDocument
        <5>3. CASE n = Len(readers[t].seen) + 1
          BY <2>2, <3>2, <4>2, <5>1, <5>3
        <5>4. QED
          BY <2>2, <3>3, <4>2, <5>1, <5>2, <5>3
      <4>3. QED
        BY <4>1, <4>2
    <3>4. QED
      BY <1>2, <3>3 DEF ReadsOwnDocument
  <2>6. QED
    BY <1>3, <2>3, <2>4, <2>5 DEF IInv
<1>8. CASE RaiseStale(t) \/ Return(t)
  <2>1. readers' = [readers EXCEPT ![t] = NoRead]
    BY <1>8 DEF RaiseStale, Return
  <2>2. TypeOK'
    BY <1>1, <1>2, <1>4, <1>8, <2>1 DEF TypeOK, RaiseStale, Return, Torn
  <2>3. CallsHoldItems' /\ ReadsOwnDocument'
    BY <1>1, <1>2, <1>5, <2>1 DEF IInv, CallsHoldItems, ReadsOwnDocument, TypeOK, NoRead
  <2>4. QED
    BY <1>3, <2>2, <2>3 DEF IInv
<1>9. QED
  BY <1>6, <1>7, <1>8

LEMMA NextIInv == IInv /\ [Next]_vars => IInv'
<1>1. SUFFICES ASSUME IInv, [Next]_vars PROVE IInv'
  OBVIOUS
<1>2. CASE \E i \in Iterators : NextItem(i)
  BY <1>1, <1>2, NextItemIInv
<1>3. CASE \E t \in Readers : Call(t) \/ Section(t) \/ RaiseStale(t) \/ Return(t)
  BY <1>1, <1>3, ReaderIInv
<1>4. CASE UNCHANGED vars
  BY <1>1, <1>4 DEF vars, IInv, TypeOK, RevisionsCountItems, LatestItemIsParsed,
     FinishedOnlyAfterError, DomIsNeverAstray, CallsHoldItems, ReadsOwnDocument, generation
<1>5. QED
  BY <1>1, <1>2, <1>3, <1>4 DEF Next

-----------------------------------------------------------------------------

\* The strengthened invariant of a stream holds in every reachable state.
THEOREM StreamInvariant == Spec => []IInv
BY InitIInv, NextIInv, PTL DEF Spec

\* The stream's variables keep their types, whatever the interleaving of next()
\* with the sections of calls on items.
THEOREM StreamTypeOK == Spec => []TypeOK
<1>1. IInv => TypeOK
  BY DEF IInv
<1>2. QED
  BY StreamInvariant, <1>1, PTL

\* At most one item of a stream passes the freshness test of with_*_owner, the
\* last one handed out, for any number of iterators and threads.
THEOREM StreamOnlyLatestItemIsFresh == Spec => []OnlyLatestItemIsFresh
<1>1. IInv => OnlyLatestItemIsFresh
  BY DEF IInv, RevisionsCountItems, OnlyLatestItemIsFresh, Fresh
<1>2. QED
  BY StreamInvariant, <1>1, PTL

\* A call made of several locked sections never mixes two documents, however
\* the sections interleave with advances of other threads.
THEOREM StreamReadsOwnDocument == Spec => []ReadsOwnDocument
<1>1. IInv => ReadsOwnDocument
  BY DEF IInv
<1>2. QED
  BY StreamInvariant, <1>1, PTL

\* A stale item never becomes usable again.
THEOREM StreamStaleItemsStayStale == Spec => StaleItemsStayStale
<1>1. IInv /\ IInv' /\ [Next]_vars =>
        [\A k \in DOMAIN items : ~ Fresh(k) => ~ Fresh(k)']_vars
  <2>1. SUFFICES ASSUME IInv, IInv', [Next]_vars, NEW k \in DOMAIN items,
                        ~ Fresh(k)
                 PROVE  ~ Fresh(k)'
    OBVIOUS
  <2>2. k \in DOMAIN items' /\ item_revision' >= item_revision
    <3>1. CASE \E i \in Iterators : NextItem(i)
      BY <2>1, <3>1 DEF NextItem, StopIteration, RaiseError, HandOut, IInv, TypeOK
    <3>2. CASE ~ \E i \in Iterators : NextItem(i)
      BY <2>1, <3>2 DEF Next, vars, Call, Section, RaiseStale, Return, IInv, TypeOK
    <3>3. QED
      BY <3>1, <3>2
  <2>3. k # item_revision
    BY <2>1 DEF Fresh, IInv, RevisionsCountItems
  <2>4. k \in 1 .. item_revision /\ item_revision \in Nat /\ item_revision' \in Nat
    BY <2>1 DEF IInv, RevisionsCountItems, TypeOK
  <2>5. items'[k].item_revision = k
    BY <2>1, <2>2 DEF IInv, RevisionsCountItems
  <2>6. QED
    BY <2>2, <2>3, <2>4, <2>5 DEF Fresh
<1>2. QED
  BY StreamInvariant, <1>1, PTL DEF Spec, StaleItemsStayStale

-----------------------------------------------------------------------------
(* The order of documents *)

\* While the stream runs it is at the document of the latest item.
StreamIsAtLatestItem ==
  stream.error = "SUCCESS" =>
    stream.pos = IF items = << >> THEN 0 ELSE items[Len(items)].doc

\* An iterator that has not started has given nothing; one that has, has given an item
\* or met an error.
StartedIteratorsGive ==
  /\ \A i \in Iterators : iterators[i].started /\ stream.error = "SUCCESS" => items # << >>
  /\ \A i \in Iterators : ~ iterators[i].started => iterators[i].got = << >>
  /\ (\A i \in Iterators : ~ iterators[i].started) => items = << >>

\* Without restarts, and while the stream keeps its place, documents are counted.
Alone(i) == \A j \in Iterators \ {i} : ~ iterators[j].started
LoneLoopsCount ==
  \A i \in Iterators :
    Alone(i) /\ items # << >> /\ (\A k \in DOMAIN items : items[k].doc \in DOMAIN docs)
      => items[Len(items)].doc = Len(items)

OrderInv ==
  DocumentsInOrder /\ StreamIsAtLatestItem /\ StartedIteratorsGive /\ LoneLoopsCount

\* A sequence that counts, and the next number.
LEMMA CountingGrows ==
  ASSUME NEW n \in Nat, NEW got \in Seq(Nat), got = [k \in 1 .. n |-> k]
  PROVE  Append(got, n + 1) = [k \in 1 .. n + 1 |-> k]
<1> DEFINE counting == [k \in 1 .. n + 1 |-> k]
<1>1. Len(got) = n
  OBVIOUS
<1>2. counting \in Seq(Nat) /\ Len(counting) = n + 1
  OBVIOUS
<1>3. Append(got, n + 1) \in Seq(Nat) /\ Len(Append(got, n + 1)) = n + 1
  BY <1>1
<1>4. \A k \in 1 .. n + 1 : Append(got, n + 1)[k] = counting[k]
  BY <1>1
<1> HIDE DEF counting
<1>5. Append(got, n + 1) = counting
  BY <1>2, <1>3, <1>4
<1>6. QED
  BY <1>5 DEF counting

LEMMA InitOrderInv == Init => OrderInv
<1>1. SUFFICES ASSUME Init PROVE OrderInv
  OBVIOUS
<1>2. items = << >> /\ stream.pos = 0
  BY <1>1 DEF Init
<1>3. \A i \in Iterators : ~ iterators[i].started /\ iterators[i].got = << >>
  BY <1>1 DEF Init, NewIterator
<1>4. DocumentsInOrder
  <2>1. << >> = [n \in 1 .. 0 |-> n] /\ DOMAIN items = {} /\ Len(items) = 0
    BY <1>2
  <2>2. QED
    BY <1>3, <2>1 DEF DocumentsInOrder
<1>5. StreamIsAtLatestItem /\ StartedIteratorsGive /\ LoneLoopsCount
  BY <1>2, <1>3 DEF StreamIsAtLatestItem, StartedIteratorsGive, LoneLoopsCount
<1>6. QED
  BY <1>4, <1>5 DEF OrderInv

\* Handing out a document keeps the order.
LEMMA HandOutOrderInv ==
  ASSUME IInv, IInv', OrderInv, NEW i \in Iterators, NEW s \in Advance(i), stream' = s,
         stream.error = "SUCCESS", HandOut(i, s), UNCHANGED <<api, docs>>
  PROVE  OrderInv'
<1>1. TypeOK /\ TypeOK'
  BY DEF IInv
<1>2. /\ s.error = "SUCCESS" /\ s.tape \in Nat
      /\ s.pos = s.tape /\ GoesOn(i, s)
      /\ Len(docs) \in Nat /\ DOMAIN docs = 1 .. Len(docs)
  BY <1>1, AdvanceResult DEF HandOut, StreamStates, IInv, TypeOK
<1>3. /\ Len(items') = Len(items) + 1 /\ Len(items) \in Nat
      /\ \A k \in 1 .. Len(items) : items'[k] = items[k]
      /\ items'[Len(items) + 1].doc = s.tape
      /\ DOMAIN items = 1 .. Len(items) /\ DOMAIN items' = 1 .. Len(items) + 1
      /\ items' # << >>
  BY <1>1 DEF HandOut, TypeOK
<1>4. /\ iterators'[i].started
      /\ iterators'[i].got = Append(iterators[i].got, s.tape)
      /\ \A j \in Iterators \ {i} : iterators'[j] = iterators[j]
      /\ iterators[i].got \in Seq(Nat)
  BY <1>1 DEF HandOut, TypeOK, IteratorStates
<1> DEFINE InPlace == \A k \in DOMAIN items : items[k].doc \in DOMAIN docs
<1>5. ASSUME s.tape \in DOMAIN docs
      PROVE  /\ Alone(i) /\ InPlace => s.tape = Len(items) + 1
             /\ s.tape # 1 => Len(items) \in DOMAIN items /\ items[Len(items)].doc = s.tape - 1
  <2>0. s.tape = IF iterators[i].started THEN stream.pos + 1 ELSE 1
    BY <1>2, <1>5 DEF GoesOn
  <2>1. CASE iterators[i].started
    <3>1. items # << >> /\ Len(items) \in DOMAIN items
      BY <1>3, <2>1 DEF OrderInv, StartedIteratorsGive
    <3>2. stream.pos \in Nat /\ stream.pos = items[Len(items)].doc
      BY <1>1, <3>1 DEF TypeOK, StreamStates, OrderInv, StreamIsAtLatestItem
    <3>3. Alone(i) /\ InPlace => items[Len(items)].doc = Len(items)
      BY <3>1 DEF OrderInv, LoneLoopsCount
    <3>4. QED
      BY <2>0, <2>1, <3>1, <3>2, <3>3
  <2>2. CASE ~ iterators[i].started
    <3>1. s.tape = 1
      BY <2>0, <2>2
    <3>2. Alone(i) => items = << >>
      BY <2>2 DEF OrderInv, StartedIteratorsGive, Alone
    <3>3. QED
      BY <3>1, <3>2
  <2>3. QED BY <2>1, <2>2
<1>12. ASSUME s.tape \notin DOMAIN docs
       PROVE  s.tape > Len(docs) /\ api = "ondemand" /\ Len(items) > 0
  <2>1. s.tape > Len(docs) /\ stream.astray /\ iterators[i].started
    BY <1>2, <1>12 DEF GoesOn
  <2>2. api = "ondemand"
    BY <1>1, <2>1, ApisAssumption DEF IInv, DomIsNeverAstray, TypeOK
  <2>3. items # << >>
    BY <2>1 DEF OrderInv, StartedIteratorsGive
  <2>4. Len(items) > 0
    BY <1>1, <2>3 DEF TypeOK
  <2>5. QED
    BY <2>1, <2>2, <2>4
<1>13. (\A k \in DOMAIN items' : items'[k].doc \in DOMAIN docs)
         => InPlace /\ s.tape \in DOMAIN docs
  <2>1. ASSUME \A k \in DOMAIN items' : items'[k].doc \in DOMAIN docs
        PROVE  InPlace
    BY <1>3, <2>1
  <2>2. QED
    BY <1>3, <2>1
<1>6. ASSUME NEW j \in Iterators, Alone(j)'
      PROVE  j = i /\ Alone(i)
  BY <1>4, <1>6 DEF Alone
<1> HIDE DEF InPlace
<1>7. DocumentsInOrder'
  <2> DEFINE Whole(its, k) ==
               /\ its[k].doc \in DOMAIN docs
               /\ docs[its[k].doc] \in (IF api = "dom" THEN {"ok"} ELSE {"ok", "malformed"})
               /\ its[k].doc # 1 => k > 1 /\ its[k - 1].doc = its[k].doc - 1
             APiece(its, k) == its[k].doc > Len(docs) /\ api = "ondemand" /\ k > 1
  <2>1. ASSUME NEW k \in DOMAIN items'
        PROVE  Whole(items', k) \/ APiece(items', k)
    <3>1. CASE k \in 1 .. Len(items)
      <4>1. Whole(items, k) \/ APiece(items, k)
        BY <1>3, <3>1 DEF OrderInv, DocumentsInOrder
      <4>2. k > 1 => k - 1 \in 1 .. Len(items)
        BY <1>3, <3>1
      <4>3. QED
        BY <1>3, <3>1, <4>1, <4>2
    <3>2. CASE k = Len(items) + 1 /\ s.tape \in DOMAIN docs
      <4>1. items'[k].doc = s.tape /\ k - 1 = Len(items)
        BY <1>3, <3>2
      <4>2. docs[s.tape] \in (IF api = "dom" THEN {"ok"} ELSE {"ok", "malformed"})
        BY <1>2, <3>2 DEF GoesOn
      <4>3. s.tape # 1 => Len(items) \in 1 .. Len(items)
                          /\ items'[Len(items)].doc = s.tape - 1
        BY <1>3, <1>5, <3>2
      <4>4. Whole(items', k)
        BY <1>3, <3>2, <4>1, <4>2, <4>3
      <4>5. QED BY <4>4
    <3>3. CASE k = Len(items) + 1 /\ s.tape \notin DOMAIN docs
      BY <1>3, <1>12, <3>3
    <3>4. QED
      BY <1>3, <2>1, <3>1, <3>2, <3>3
  <2>2. ASSUME NEW j \in Iterators, Alone(j)',
               \A k \in DOMAIN items' : items'[k].doc \in DOMAIN docs
        PROVE  iterators'[j].got = [n \in 1 .. Len(items') |-> n]
    <3>1. j = i /\ Alone(i) /\ InPlace /\ s.tape = Len(items) + 1
      BY <1>5, <1>6, <1>13, <2>2
    <3>2. iterators[i].got = [n \in 1 .. Len(items) |-> n]
      BY <3>1 DEF OrderInv, DocumentsInOrder, Alone, InPlace
    <3>3. Append(iterators[i].got, Len(items) + 1) = [n \in 1 .. Len(items) + 1 |-> n]
      BY <1>3, <1>4, <3>2, CountingGrows
    <3>4. QED
      BY <1>3, <1>4, <3>1, <3>3
  <2>3. docs' = docs /\ api' = api
    OBVIOUS
  <2>4. QED
    BY <2>1, <2>2, <2>3 DEF DocumentsInOrder, Alone
<1>8. StreamIsAtLatestItem'
  BY <1>2, <1>3 DEF StreamIsAtLatestItem
<1>9. StartedIteratorsGive'
  BY <1>3, <1>4 DEF OrderInv, StartedIteratorsGive
<1>10. LoneLoopsCount'
  <2>1. ASSUME NEW j \in Iterators, Alone(j)',
               \A k \in DOMAIN items' : items'[k].doc \in DOMAIN docs
        PROVE  items'[Len(items')].doc = Len(items')
    BY <1>3, <1>5, <1>6, <1>13, <2>1
  <2>2. QED
    BY <2>1 DEF LoneLoopsCount
<1>11. QED
  BY <1>7, <1>8, <1>9, <1>10 DEF OrderInv

LEMMA NextOrderInv == IInv /\ IInv' /\ OrderInv /\ [Next]_vars => OrderInv'
<1>1. SUFFICES ASSUME IInv, IInv', OrderInv, [Next]_vars PROVE OrderInv'
  OBVIOUS
<1>2. ASSUME NEW i \in Iterators, NextItem(i)
      PROVE  OrderInv'
  <2>1. PICK s \in Advance(i) :
          /\ stream' = s
          /\ StopIteration(i, s) \/ RaiseError(i, s) \/ HandOut(i, s)
          /\ UNCHANGED <<api, docs, readers, last>>
    BY <1>2 DEF NextItem
  <2>2. stream.error # "SUCCESS" => s = stream
    BY <1>1, AdvanceResult DEF IInv
  <2>3. CASE s.error = "SUCCESS"
    <3>1. stream.error = "SUCCESS" /\ HandOut(i, s)
      BY <1>1, <2>1, <2>2, <2>3 DEF StopIteration, RaiseError, Finished, IInv,
         FinishedOnlyAfterError
    <3>2. QED
      BY <1>1, <2>1, <3>1, HandOutOrderInv
  <2>4. CASE s.error # "SUCCESS"
    <3>1. UNCHANGED <<items, api, docs>>
      BY <2>1, <2>4 DEF StopIteration, RaiseError, HandOut
    <3>2. /\ iterators'[i].started
          /\ \A j \in Iterators : iterators'[j].got = iterators[j].got
          /\ \A j \in Iterators \ {i} : iterators'[j] = iterators[j]
      <4>1. iterators \in [Iterators -> IteratorStates]
        BY <1>1 DEF IInv, TypeOK
      <4>2. CASE StopIteration(i, s)
        BY <4>1, <4>2 DEF StopIteration, IteratorStates
      <4>3. CASE RaiseError(i, s)
        BY <4>1, <4>3 DEF RaiseError, IteratorStates
      <4>4. QED
        BY <2>1, <2>4, <4>2, <4>3 DEF HandOut
    <3>3. \A j \in Iterators : Alone(j)' => Alone(j)
      <4>1. ASSUME NEW j \in Iterators, Alone(j)' PROVE j = i /\ Alone(i)
        BY <3>2, <4>1 DEF Alone
      <4>2. QED
        BY <4>1
    <3>4. DocumentsInOrder'
      BY <1>1, <3>1, <3>2, <3>3 DEF OrderInv, DocumentsInOrder, Alone
    <3>5. StreamIsAtLatestItem' /\ LoneLoopsCount'
      BY <1>1, <2>1, <2>4, <3>1, <3>3 DEF OrderInv, StreamIsAtLatestItem, LoneLoopsCount
    <3>6. StartedIteratorsGive'
      BY <1>1, <2>1, <2>4, <3>1, <3>2 DEF OrderInv, StartedIteratorsGive
    <3>7. QED
      BY <3>4, <3>5, <3>6 DEF OrderInv
  <2>5. QED
    BY <2>3, <2>4
<1>3. ASSUME UNCHANGED <<api, docs, iterators, items>>,
             stream'.error = stream.error, stream'.pos = stream.pos
      PROVE  OrderInv'
  BY <1>1, <1>3 DEF OrderInv, DocumentsInOrder, StreamIsAtLatestItem,
     StartedIteratorsGive, LoneLoopsCount, Alone
<1>4. CASE ~ \E i \in Iterators : NextItem(i)
  <2>1. UNCHANGED <<api, docs, iterators, items>>
    BY <1>1, <1>4 DEF Next, vars, Call, Section, RaiseStale, Return
  <2>2. stream' = stream \/ stream' \in CursorLeft(stream)
    BY <1>1, <1>4 DEF Next, vars, Call, Section, RaiseStale, Return
  <2>3. QED
    BY <1>1, <1>3, <2>1, <2>2, CursorLeftResult DEF IInv
<1>5. QED
  BY <1>2, <1>4

\* Over all the iterators of a stream, next() returns the input in order, from the
\* first document again only where an iterator makes its first call.  The DOM hands out
\* no document that fails to parse, and never anything but the next document; an
\* On-Demand stream may, after an item, and then hands out none until it begins again.
THEOREM StreamDocumentsInOrder == Spec => []DocumentsInOrder
<1>1. OrderInv => DocumentsInOrder
  BY DEF OrderInv
<1>2. QED
  BY InitOrderInv, NextOrderInv, StreamInvariant, <1>1, PTL DEF Spec

-----------------------------------------------------------------------------
(* Refinement of ItemLease *)

\* The documents of a sequence of items, in order.
LEMMA LeasesOf ==
  ASSUME NEW s \in Seq(ItemStates)
  PROVE  /\ [k \in DOMAIN s |-> s[k].doc] \in Seq(Nat)
         /\ Len([k \in DOMAIN s |-> s[k].doc]) = Len(s)
<1>1. DOMAIN s = 1 .. Len(s) /\ Len(s) \in Nat
  OBVIOUS
<1>2. \A k \in DOMAIN s : s[k].doc \in Nat
  <2>1. \A k \in 1 .. Len(s) : s[k] \in ItemStates
    OBVIOUS
  <2>2. QED
    BY <1>1, <2>1 DEF ItemStates
<1> DEFINE f == [k \in DOMAIN s |-> s[k].doc]
<1>3. f \in [1 .. Len(s) -> Nat]
  BY <1>1, <1>2
<1> HIDE DEF f
<1>4. f \in Seq(Nat) /\ Len(f) = Len(s)
  BY <1>1, <1>3
<1>5. QED
  BY <1>4 DEF f

\* Handing out an item extends the sequence of leases by the item's document.
LEMMA LeasesGrow ==
  ASSUME TypeOK, TypeOK', NEW item \in ItemStates, items' = Append(items, item)
  PROVE  [k \in DOMAIN items' |-> items'[k].doc]
           = Append([k \in DOMAIN items |-> items[k].doc], item.doc)
<1> DEFINE leases == [k \in DOMAIN items |-> items[k].doc]
           grown  == [k \in DOMAIN items' |-> items'[k].doc]
<1>1. items \in Seq(ItemStates) /\ items' \in Seq(ItemStates)
  BY DEF TypeOK
<1>2. leases \in Seq(Nat) /\ Len(leases) = Len(items)
  BY <1>1, LeasesOf
<1>3. grown \in Seq(Nat) /\ Len(grown) = Len(items) + 1
  <2>1. grown \in Seq(Nat) /\ Len(grown) = Len(items')
    BY <1>1, LeasesOf
  <2>2. Len(items') = Len(items) + 1
    BY <1>1
  <2>3. QED
    BY <2>1, <2>2
<1>4. item.doc \in Nat
  BY DEF ItemStates
<1>5. ASSUME NEW k \in 1 .. Len(items) + 1
      PROVE  grown[k] = Append(leases, item.doc)[k]
  BY <1>1, <1>2, <1>3, <1>4, <1>5
<1> HIDE DEF leases, grown
<1>6. grown = Append(leases, item.doc)
  BY <1>2, <1>3, <1>4, <1>5
<1>7. QED
  BY <1>6 DEF leases, grown

\* The input given to parse_many never changes.
DocsAreInput == docs \in Inputs

LEMMA DocsInvariant == Spec => []DocsAreInput
<1>1. Init => DocsAreInput
  BY DEF Init, DocsAreInput
<1>2. DocsAreInput /\ [Next]_vars => DocsAreInput'
  BY DEF DocsAreInput, Next, vars, NextItem, Call, Section, RaiseStale, Return
<1>3. QED
  BY <1>1, <1>2, PTL DEF Spec

\* A stream implements the abstract lease: each call of next() grants a lease,
\* closes the stream or does nothing, and each section of a read is a use by the
\* latest lease or is refused.
THEOREM StreamImplementsItemLease == Spec => ImplementsItemLease
<1>1. Init => Lease!Init
  <2>1. SUFFICES ASSUME Init PROVE Lease!Init
    OBVIOUS
  <2>2. [k \in DOMAIN items |-> items[k].doc] = << >>
    <3>1. items = << >> /\ DOMAIN items = {}
      BY <2>1 DEF Init
    <3>2. /\ [k \in DOMAIN items |-> items[k].doc] \in Seq(Nat)
          /\ Len([k \in DOMAIN items |-> items[k].doc]) = 0
      BY <3>1
    <3>3. QED
      BY <3>2
  <2>3. QED
    BY <2>1, <2>2 DEF Init, Lease!Init, Lease!Refused
<1>2. IInv /\ IInv' /\ DocsAreInput /\ [Next]_vars => [Lease!Next]_Lease!vars
  <2>1. SUFFICES ASSUME IInv, IInv', DocsAreInput, [Next]_vars
                 PROVE  [Lease!Next]_Lease!vars
    OBVIOUS
  <2>2. /\ TypeOK /\ TypeOK'
        /\ Len([k \in DOMAIN items |-> items[k].doc]) = Len(items)
        /\ DOMAIN items = 1 .. Len(items) /\ Len(items) \in Nat
    BY <2>1 DEF IInv, TypeOK, ItemStates
  <2>3. ASSUME NEW i \in Iterators, NextItem(i)
        PROVE  [Lease!Next]_Lease!vars
    <3>1. PICK s \in Advance(i) :
            /\ stream' = s
            /\ StopIteration(i, s) \/ RaiseError(i, s) \/ HandOut(i, s)
            /\ UNCHANGED <<api, docs, readers, last>>
      BY <2>3 DEF NextItem
    <3>2. /\ s \in StreamStates
          /\ stream.error # "SUCCESS" => s = stream
          /\ s.error = "SUCCESS" => s.tape \in 1 .. Len(docs) + MaxPieces
      BY <2>1, AdvanceResult DEF IInv
    <3>3. CASE s.error # "SUCCESS"
      <4>1. UNCHANGED items
        BY <3>1, <3>3 DEF StopIteration, RaiseError, HandOut
      <4>2. Lease!Close
        BY <3>1, <3>3, <4>1 DEF Lease!Close
      <4>3. QED
        BY <4>2 DEF Lease!Next
    <3>4. CASE s.error = "SUCCESS"
      <4>1. stream.error = "SUCCESS" /\ HandOut(i, s)
        BY <2>1, <3>1, <3>2, <3>4 DEF StopIteration, RaiseError, Finished, IInv,
           FinishedOnlyAfterError
      <4> DEFINE item == [generation |-> generation,
                          item_revision |-> item_revision + 1, doc |-> s.tape]
      <4>2. item \in ItemStates
        BY <2>2, <3>2 DEF ItemStates, StreamStates, TypeOK, generation
      <4>3. items' = Append(items, item)
        BY <4>1 DEF HandOut
      <4>4. [k \in DOMAIN items' |-> items'[k].doc]
              = Append([k \in DOMAIN items |-> items[k].doc], s.tape)
        BY <2>2, <4>2, <4>3, LeasesGrow
      <4>5. s.tape \in Documents
        BY <2>1, <3>2, <3>4 DEF DocsAreInput, Documents
      <4>6. Lease!Grant
        BY <3>1, <3>4, <4>1, <4>4, <4>5 DEF Lease!Grant
      <4>7. QED
        BY <4>6 DEF Lease!Next
    <3>5. QED
      BY <3>3, <3>4
  <2>4. ASSUME NEW t \in Readers, Section(t)
        PROVE  [Lease!Next]_Lease!vars
    <3>1. readers[t].item \in DOMAIN items /\ readers[t].item = Len(items)
      BY <2>1, <2>2, <2>4 DEF Section, Fresh, IInv, RevisionsCountItems, CallsHoldItems
    <3>2. \/ stream.tape = items[Len(items)].doc
          \/ stream.tape = Torn /\ stream.error # "SUCCESS"
      BY <2>1, <2>2, <3>1 DEF IInv, LatestItemIsParsed
    <3>3. [k \in DOMAIN items |-> items[k].doc][Len(items)] = items[Len(items)].doc
      BY <3>1
    <3>4. stream'.error = stream.error
      BY <2>2, <2>4, CursorLeftResult DEF Section
    <3>5. Lease!Use
      BY <2>2, <2>4, <3>1, <3>2, <3>3, <3>4 DEF Section, Lease!Use
    <3>6. QED
      BY <3>5 DEF Lease!Next
  <2>5. ASSUME NEW t \in Readers, RaiseStale(t)
        PROVE  [Lease!Next]_Lease!vars
    <3>1. readers[t].item \in DOMAIN items /\ readers[t].item # Len(items)
      BY <2>1, <2>2, <2>5 DEF RaiseStale, Fresh, IInv, RevisionsCountItems, CallsHoldItems
    <3>2. Lease!Refuse
      BY <2>2, <2>5, <3>1 DEF RaiseStale, Lease!Refuse, Lease!Refused
    <3>3. QED
      BY <3>2 DEF Lease!Next
  <2>6. CASE UNCHANGED vars \/ \E t \in Readers : Call(t) \/ Return(t)
    <3>1. UNCHANGED <<items, stream, last>>
      BY <2>6 DEF vars, Call, Return
    <3>2. QED
      BY <3>1 DEF Lease!vars
  <2>7. QED
    BY <2>1, <2>3, <2>4, <2>5, <2>6 DEF Next
<1>3. QED
  BY <1>1, <1>2, StreamInvariant, DocsInvariant, PTL DEF Spec, Lease!Spec,
     ImplementsItemLease
=============================================================================
