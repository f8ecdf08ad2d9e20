-------------------------- MODULE DomLocking_proofs --------------------------
(***************************************************************************)
(* Proofs about DomLocking for any sets of threads, parsers, documents and *)
(* inputs.                                                                 *)
(*                                                                         *)
(* The argument is ownership, in a free-threaded build: a mutex is held by *)
(* exactly the thread whose place in its call says so, or in the call      *)
(* whose argument makes that call.  Two threads inside one parser or       *)
(* document would both hold its mutex, hence are one thread.  What a       *)
(* document holds then follows from the parser's scratch memory, which     *)
(* only the thread that holds the parser can fill.                         *)
(***************************************************************************)
EXTENDS DomLocking, TLAPS

\* Thread t is past the lock of parser p in its call, and not past its unlock; or it is in
\* Python code of the argument of such a call.
HoldsParser(t, p) ==
  \/ /\ pc[t] \notin {"idle", "wait_parser"}
     /\ call[t] \in ParseCalls \cup ParserCalls
     /\ call[t].parser = p
  \/ outer[t].call \in ParseCalls /\ outer[t].call.parser = p

HoldsDocument(t, d) ==
  \/ /\ pc[t] \notin {"idle", "wait_parser", "wait_document", "unlock_parser"}
     /\ call[t] \in ParseCalls \cup ReadCalls
     /\ call[t].document = d
  \/ outer[t].call \in ParseCalls /\ outer[t].call.document = d

\* The owner of a mutex is the thread that holds it by its place in its calls.
Ownership ==
  /\ \A t \in Threads, p \in Parsers : parser_mutex[p] = t <=> HoldsParser(t, p)
  /\ \A t \in Threads, d \in Documents : document_mutex[d] = t <=> HoldsDocument(t, d)

\* A call an argument makes is past a lock only if the call it is the argument of holds
\* another one: the mutexes are not recursive.
NestedLocksDiffer ==
  \A t \in Threads : outer[t] # NoOuter =>
    /\ pc[t] # "wait_parser" /\ call[t] \in ParseCalls \cup ParserCalls =>
         call[t].parser # outer[t].call.parser
    /\ pc[t] \notin {"wait_parser", "wait_document"} /\ call[t] \in ParseCalls \cup ReadCalls =>
         call[t].document # outer[t].call.document

\* An argument makes only the calls it may.
NestedCallsMayBe ==
  \A t \in Threads : outer[t] # NoOuter => <<outer[t].call, call[t]>> \in Callbacks

\* What the memory a parse uses holds while the parse is under way.
ParseProgress ==
  \A t \in Threads :
    /\ pc[t] = "parsing" => scratch[call[t].parser] = call[t].input
    /\ pc[t] = "parsed" => tape[call[t].document] = result[t]

IInv == TypeOK /\ Ownership /\ NestedLocksDiffer /\ NestedCallsMayBe

-----------------------------------------------------------------------------

\* The three kinds of calls do not overlap, and none is Idle.
LEMMA CallKinds ==
  /\ \A c \in ParseCalls : /\ c.op = "parse_into" /\ c.parser \in Parsers
                           /\ c.document \in Documents /\ c.input \in Inputs
                           /\ c \notin ParserCalls /\ c \notin ReadCalls
  /\ \A c \in ParserCalls : /\ c.op \in {"configure", "clone"} /\ c.parser \in Parsers
                            /\ c \notin ParseCalls /\ c \notin ReadCalls
  /\ \A c \in ReadCalls : /\ c.op = "read" /\ c.document \in Documents
                          /\ c \notin ParseCalls /\ c \notin ParserCalls
  /\ Idle \notin AllCalls /\ Idle \notin ParseCalls \cup ParserCalls \cup ReadCalls
  /\ Calls \subseteq AllCalls /\ Callbacks \subseteq Calls \X Calls
BY CallsAssumption DEF ParseCalls, ParserCalls, ReadCalls, AllCalls, Idle

LEMMA InitIInv == Init => IInv
<1> SUFFICES ASSUME Init PROVE IInv
  OBVIOUS
<1> USE CallKinds DEF Init, NoOuter
<1>1. TypeOK
  BY DEF TypeOK, Points, InPython, Contents, CallMatchesPoint
<1>2. Ownership
  BY NoThreadAssumption DEF Ownership, HoldsParser, HoldsDocument
<1>3. NestedLocksDiffer /\ NestedCallsMayBe
  BY DEF NestedLocksDiffer, NestedCallsMayBe
<1>4. QED
  BY <1>1, <1>2, <1>3 DEF IInv

\* Every step keeps the types.
LEMMA NextTypeOK ==
  ASSUME TypeOK, NEW t \in Threads, Python(t) \/ Acquire(t) \/ Proceed(t)
  PROVE  TypeOK'
<1> USE CallKinds
<1> USE DEF TypeOK, CallMatchesPoint, Goto, Points, InPython, NoOuter
<1>1. CASE Call(t)
  BY <1>1 DEF Call, BeginCall, TakeGil, AllCalls
<1>2. CASE CallBack(t)
  BY <1>2 DEF CallBack, BeginCall, TakeGil, AllCalls
<1>3. CASE PythonReturns(t)
  BY <1>3 DEF PythonReturns, TakeGil
<1>4. CASE LockParser(t)
  BY <1>4 DEF LockParser, Locked, AllCalls
<1>5. CASE LockDocument(t)
  BY <1>5 DEF LockDocument, Locked, AllCalls
<1>6. CASE Convert(t)
  BY <1>6 DEF Convert, EnterPython, DropGil
<1>7. CASE StartParse(t)
  BY <1>7 DEF StartParse, DropGil, Contents
<1>8. CASE FinishParse(t)
  BY <1>8 DEF FinishParse, Contents
<1>9. CASE Report(t)
  BY <1>9 DEF Report, EnterPython, TakeGil, DropGil, Contents
<1>10. CASE Inside(t)
  BY <1>10 DEF Inside, Read, Configure, Clone, Contents
<1>11. CASE UnlockDocument(t)
  BY <1>11 DEF UnlockDocument, Return, DropGil, Unlocked, Contents
<1>12. CASE UnlockParser(t)
  BY <1>12 DEF UnlockParser, Return, DropGil, Unlocked, Contents
<1>13. QED
  BY <1>1, <1>2, <1>3, <1>4, <1>5, <1>6, <1>7, <1>8, <1>9, <1>10, <1>11, <1>12
     DEF Python, Acquire, Proceed

\* Every step keeps each mutex with the thread its place in its calls entitles to it.
LEMMA NextOwnership ==
  ASSUME IInv, TypeOK', FreeThreaded = TRUE, NEW t \in Threads,
         Python(t) \/ Acquire(t) \/ Proceed(t)
  PROVE  Ownership' /\ NestedLocksDiffer' /\ NestedCallsMayBe'
<1> USE NoThreadAssumption, CallKinds
<1> USE DEF IInv, TypeOK, CallMatchesPoint, Ownership, HoldsParser, HoldsDocument, Goto,
    NestedLocksDiffer, NestedCallsMayBe, InPython, NoOuter
<1>1. CASE Call(t)
  BY <1>1 DEF Call, BeginCall
<1>2. CASE CallBack(t)
  <2>1. Ownership'
    BY <1>2, SMTT(30) DEF CallBack, BeginCall
  <2>2. NestedLocksDiffer'
    BY <1>2, SMTT(30) DEF CallBack, BeginCall
  <2>3. NestedCallsMayBe'
    <3>1. PICK c \in Calls : /\ <<call[t], c>> \in Callbacks
                            /\ call' = [call EXCEPT ![t] = c]
      BY <1>2 DEF CallBack, BeginCall
    <3>2. outer'[t].call = call[t] /\ call'[t] = c
      BY <1>2, <3>1 DEF CallBack
    <3>3. \A u \in Threads : u # t => outer'[u] = outer[u] /\ call'[u] = call[u]
      BY <1>2, <3>1 DEF CallBack
    <3>4. <<outer'[t].call, call'[t]>> \in Callbacks
      BY <3>1, <3>2
    <3>5. ASSUME NEW u \in Threads, u # t, outer'[u] # NoOuter
          PROVE  <<outer'[u].call, call'[u]>> \in Callbacks
      BY <3>3, <3>5, Zenon
    <3>6. QED
      BY <3>4, <3>5, Zenon
  <2>4. QED
    BY <2>1, <2>2, <2>3
<1>3. CASE PythonReturns(t)
  BY <1>3 DEF PythonReturns
<1>4. CASE LockParser(t)
  <2>1. Ownership'
    BY <1>4, SMTT(30) DEF LockParser, Free, Locked
  <2>2. NestedLocksDiffer'
    BY <1>4, SMTT(30) DEF LockParser, Free, Locked
  <2>3. NestedCallsMayBe'
    BY <1>4, SMTT(30) DEF LockParser, Free, Locked
  <2>4. QED
    BY <2>1, <2>2, <2>3
<1>5. CASE LockDocument(t)
  BY <1>5 DEF LockDocument, Free, Locked
<1>6. CASE Convert(t)
  BY <1>6 DEF Convert, EnterPython
<1>7. CASE StartParse(t)
  BY <1>7 DEF StartParse
<1>8. CASE FinishParse(t)
  BY <1>8 DEF FinishParse
<1>9. CASE Report(t)
  BY <1>9 DEF Report, EnterPython
<1>10. CASE Inside(t)
  BY <1>10 DEF Inside, Read, Configure, Clone
<1>11. CASE UnlockDocument(t)
  <2>1. Ownership'
    BY <1>11, SMTT(30) DEF UnlockDocument, Unlocked, Return
  <2>2. NestedLocksDiffer'
    BY <1>11, SMTT(30) DEF UnlockDocument, Unlocked, Return
  <2>3. NestedCallsMayBe'
    BY <1>11, SMTT(30) DEF UnlockDocument, Unlocked, Return
  <2>4. QED
    BY <2>1, <2>2, <2>3
<1>12. CASE UnlockParser(t)
  <2>1. Ownership'
    BY <1>12, SMTT(30) DEF UnlockParser, Unlocked, Return
  <2>2. NestedLocksDiffer'
    BY <1>12, SMTT(30) DEF UnlockParser, Unlocked, Return
  <2>3. NestedCallsMayBe'
    BY <1>12, SMTT(30) DEF UnlockParser, Unlocked, Return
  <2>4. QED
    BY <2>1, <2>2, <2>3
<1>13. QED
  BY <1>1, <1>2, <1>3, <1>4, <1>5, <1>6, <1>7, <1>8, <1>9, <1>10, <1>11, <1>12
     DEF Python, Acquire, Proceed

\* The ownership of the mutexes is an invariant of a free-threaded build.
LEMMA OwnershipInvariant ==
  ASSUME FreeThreaded = TRUE
  PROVE  Spec => []IInv
<1>1. IInv /\ [Next]_vars => IInv'
  <2>1. SUFFICES ASSUME IInv, [Next]_vars PROVE IInv'
    OBVIOUS
  <2>2. CASE \E t \in Threads : Python(t) \/ Acquire(t) \/ Proceed(t)
    <3>1. PICK t \in Threads : Python(t) \/ Acquire(t) \/ Proceed(t)
      BY <2>2
    <3>2. TypeOK'
      BY <2>1, <3>1, NextTypeOK DEF IInv
    <3>3. Ownership' /\ NestedLocksDiffer' /\ NestedCallsMayBe'
      BY <2>1, <3>1, <3>2, NextOwnership
    <3>4. QED
      BY <3>2, <3>3 DEF IInv
  <2>3. CASE UNCHANGED vars
    BY <2>1, <2>3 DEF vars, IInv, TypeOK, CallMatchesPoint, Ownership, HoldsParser,
       HoldsDocument, NestedLocksDiffer, NestedCallsMayBe
  <2>4. QED
    BY <2>1, <2>2, <2>3 DEF Next
<1>2. QED
  BY InitIInv, <1>1, PTL DEF Spec

-----------------------------------------------------------------------------

\* In both builds every variable keeps its type, and a thread is never at a point of a
\* call of another kind.
THEOREM DomTypeOK == Spec => []TypeOK
<1>1. Init => TypeOK
  BY InitIInv DEF IInv
<1>2. TypeOK /\ [Next]_vars => TypeOK'
  <2>1. ASSUME TypeOK, UNCHANGED vars PROVE TypeOK'
    BY <2>1 DEF vars, TypeOK, CallMatchesPoint
  <2>2. QED
    BY <2>1, NextTypeOK DEF Next
<1>3. QED
  BY <1>1, <1>2, PTL DEF Spec

\* In a free-threaded build no thread writes a parser or a document another thread
\* is inside, for any number of threads, parsers and documents.
THEOREM DomNoDataRace ==
  ASSUME FreeThreaded = TRUE
  PROVE  Spec => []NoDataRace
<1>1. IInv => NoDataRace
  <2>1. SUFFICES ASSUME IInv, NEW t \in Threads, NEW u \in Threads, t # u
                 PROVE  /\ \A p \in Parsers : ~ (InParser(t, p) /\ InParser(u, p))
                        /\ \A d \in Documents : ~ (InDocument(t, d) /\ InDocument(u, d))
    BY DEF NoDataRace, WritesParser, WritesDocument
  <2>2. ASSUME NEW v \in Threads
        PROVE  /\ \A p \in Parsers : InParser(v, p) => parser_mutex[p] = v
               /\ \A d \in Documents : InDocument(v, d) => document_mutex[d] = v
    BY <2>1, CallKinds DEF IInv, TypeOK, CallMatchesPoint, Ownership, HoldsParser,
       HoldsDocument, InParser, InDocument
  <2>3. QED
    BY <2>1, <2>2
<1>2. QED
  BY OwnershipInvariant, <1>1, PTL

\* Locks are taken in one order, for any number of threads and mutexes, provided the
\* arguments of calls keep to an order: the precondition the code leaves to its callers.
\* Without arguments that call back every program keeps to one, parsers first.
THEOREM DomLockOrder ==
  ASSUME FreeThreaded = TRUE, CallsAreOrdered
  PROVE  Spec => []LockOrder
<1>1. IInv => LockOrder
  <2>1. SUFFICES ASSUME IInv, NEW t \in Threads, NEW m \in Parsers \cup Documents,
                        m \in Held(t)
                 PROVE  /\ pc[t] = "wait_parser" => Rank[m] < Rank[call[t].parser]
                        /\ pc[t] = "wait_document" => Rank[m] < Rank[call[t].document]
    BY DEF LockOrder
  <2> DEFINE o == outer[t].call
             c == call[t]
  <2>2. ASSUME o \in ParseCalls
        PROVE  /\ o.parser \in Parsers /\ o.document \in Documents
               /\ c \in Calls
               /\ Rank[o.parser] < Rank[o.document]
               /\ c \in ReadCalls => Rank[o.document] < Rank[c.document]
               /\ c \notin ReadCalls => Rank[o.document] < Rank[c.parser]
    <3>1. <<o, c>> \in Callbacks
      BY <2>1, <2>2, CallKinds DEF IInv, NestedCallsMayBe, NoOuter
    <3>2. o \in Calls /\ c \in Calls
      BY <3>1, CallKinds
    <3>3. QED
      BY <2>2, <3>1, <3>2, CallKinds DEF CallsAreOrdered
  <2>3. c \in ParseCalls /\ c \in Calls => Rank[c.parser] < Rank[c.document]
    BY DEF CallsAreOrdered
  <2>4. c \in Calls => /\ c \in ParseCalls \cup ParserCalls => Rank[c.parser] \in Nat
                       /\ c \in ParseCalls \cup ReadCalls => Rank[c.document] \in Nat
    BY RankAssumption, CallKinds
  <2>5. o \in ParseCalls => Rank[o.parser] \in Nat /\ Rank[o.document] \in Nat
    BY <2>2, RankAssumption
  <2>6. ASSUME pc[t] = "wait_parser" PROVE Rank[m] < Rank[c.parser]
    <3>1. o \in ParseCalls /\ m \in {o.parser, o.document}
      BY <2>1, <2>6, NoThreadAssumption DEF Held, IInv, TypeOK, Ownership, HoldsParser,
         HoldsDocument
    <3>2. c \in ParseCalls \cup ParserCalls /\ c \notin ReadCalls
      BY <2>1, <2>6, CallKinds DEF IInv, TypeOK, CallMatchesPoint
    <3>3. QED
      BY <2>2, <2>4, <2>5, <3>1, <3>2
  <2>7. ASSUME pc[t] = "wait_document" PROVE Rank[m] < Rank[c.document]
    <3>1. \/ c \in ParseCalls \cup ParserCalls /\ m = c.parser
          \/ o \in ParseCalls /\ m \in {o.parser, o.document}
      BY <2>1, <2>7, NoThreadAssumption DEF Held, IInv, TypeOK, Ownership, HoldsParser,
         HoldsDocument
    <3>2. c \in Calls /\ c \in ParseCalls \cup ReadCalls
      BY <2>1, <2>7, CallKinds DEF IInv, TypeOK, CallMatchesPoint
    <3>3. c \in ParseCalls => c \notin ReadCalls
      BY CallKinds
    <3>4. CASE c \in ParseCalls
      BY <2>2, <2>3, <2>4, <2>5, <3>1, <3>2, <3>3, <3>4
    <3>5. CASE c \in ReadCalls
      BY <2>2, <2>4, <2>5, <3>1, <3>2, <3>5, CallKinds
    <3>6. QED
      BY <3>2, <3>4, <3>5
  <2>8. QED
    BY <2>6, <2>7
<1>2. QED
  BY OwnershipInvariant, <1>1, PTL

-----------------------------------------------------------------------------

InParse(t) == pc[t] \in {"start", "parsing", "parsed"}
ReadsNow(t) == pc[t] \in {"inside", "unlock_document"} /\ call[t].op = "read"

\* A parse shares neither its parser nor its document with another thread.
LEMMA ParsesApart ==
  ASSUME IInv, NEW t \in Threads, NEW u \in Threads, t # u, InParse(u)
  PROVE  /\ call[u] \in ParseCalls
         /\ InParse(t) => /\ call[t].parser # call[u].parser
                          /\ call[t].document # call[u].document
         /\ ReadsNow(t) => call[t].document # call[u].document
         /\ pc[t] = "inside" /\ call[t].op = "configure" => call[t].parser # call[u].parser
<1> USE CallKinds
<1>1. call[u] \in ParseCalls /\ InParse(t) => call[t] \in ParseCalls
  BY DEF IInv, TypeOK, CallMatchesPoint, InParse
<1>2. ReadsNow(t) => call[t] \in ReadCalls
  BY DEF IInv, TypeOK, CallMatchesPoint, ReadsNow
<1>3. call[u] \in ParseCalls
  BY DEF IInv, TypeOK, CallMatchesPoint, InParse
<1>4. /\ parser_mutex[call[u].parser] = u
      /\ document_mutex[call[u].document] = u
  BY <1>3 DEF IInv, Ownership, HoldsParser, HoldsDocument, InParse
<1>5. InParse(t) => /\ parser_mutex[call[t].parser] = t
                    /\ document_mutex[call[t].document] = t
  BY <1>1, <1>3 DEF IInv, Ownership, HoldsParser, HoldsDocument, InParse
<1>6. ReadsNow(t) => document_mutex[call[t].document] = t
  BY <1>2 DEF IInv, Ownership, HoldsDocument, ReadsNow
<1>7. pc[t] = "inside" /\ call[t].op = "configure" => parser_mutex[call[t].parser] = t
  BY DEF IInv, TypeOK, CallMatchesPoint, Ownership, HoldsParser
<1>8. QED
  BY <1>3, <1>4, <1>5, <1>6, <1>7

\* The steps keep the contents of documents in agreement with the reports.  Each
\* step works on memory whose mutex its thread owns, so it disturbs no other call.
LEMMA NextContents ==
  ASSUME IInv, IInv', ParseProgress, DocumentsHoldWhatWasReported, FreeThreaded = TRUE,
         NEW t \in Threads, Python(t) \/ Acquire(t) \/ Proceed(t)
  PROVE  ParseProgress' /\ DocumentsHoldWhatWasReported'
<1>1. \A u \in Threads : t # u /\ InParse(u) =>
        /\ call[u] \in ParseCalls
        /\ InParse(t) => /\ call[t].parser # call[u].parser
                         /\ call[t].document # call[u].document
        /\ ReadsNow(t) => call[t].document # call[u].document
        /\ pc[t] = "inside" /\ call[t].op = "configure" =>
             call[t].parser # call[u].parser
  BY ParsesApart
<1>2. \A u \in Threads : t # u /\ ReadsNow(u) /\ InParse(t) =>
        call[t].document # call[u].document
  BY ParsesApart
<1>3. TypeOK /\ TypeOK'
  BY DEF IInv
<1> USE <1>1, <1>2, <1>3, ValidAssumption, TornAssumption, CallKinds
<1> USE DEF TypeOK, CallMatchesPoint, Goto, ParseProgress, DocumentsHoldWhatWasReported,
    InPython, NoOuter, InParse, ReadsNow
<1>4. CASE Call(t)
  BY <1>4 DEF Call, BeginCall
<1>5. CASE CallBack(t)
  BY <1>5 DEF CallBack, BeginCall
<1>6. CASE PythonReturns(t)
  BY <1>6 DEF PythonReturns
<1>7. CASE LockParser(t)
  BY <1>7 DEF LockParser
<1>8. CASE LockDocument(t)
  BY <1>8 DEF LockDocument
<1>9. CASE Convert(t)
  BY <1>9 DEF Convert, EnterPython
<1>10. CASE StartParse(t)
  BY <1>10 DEF StartParse
<1>11. CASE FinishParse(t)
  BY <1>11 DEF FinishParse
<1>12. CASE Report(t)
  <2>1. ParseProgress'
    BY <1>12 DEF Report, EnterPython
  <2>2. DocumentsHoldWhatWasReported'
    BY <1>12, SMTT(30) DEF Report, EnterPython
  <2>3. QED
    BY <2>1, <2>2
<1>13. CASE Inside(t)
  <2>1. CASE Read(t)
    BY <2>1 DEF Read
  <2>2. CASE Configure(t)
    BY <2>2 DEF Configure
  <2>3. CASE Clone(t)
    BY <2>3 DEF Clone
  <2>4. QED
    BY <1>13, <2>1, <2>2, <2>3 DEF Inside
<1>14. CASE UnlockDocument(t)
  BY <1>14, SMTT(30) DEF UnlockDocument, Return
<1>15. CASE UnlockParser(t)
  BY <1>15, SMTT(30) DEF UnlockParser, Return
<1>16. QED
  BY <1>4, <1>5, <1>6, <1>7, <1>8, <1>9, <1>10, <1>11, <1>12, <1>13, <1>14, <1>15
     DEF Python, Acquire, Proceed

\* In a free-threaded build a document at rest holds what the last call that parsed
\* into it reported, and a read returns that.
THEOREM DomDocumentsHoldWhatWasReported ==
  ASSUME FreeThreaded = TRUE
  PROVE  Spec => []DocumentsHoldWhatWasReported
<1> DEFINE Agreement == ParseProgress /\ DocumentsHoldWhatWasReported
<1>1. Init => Agreement
  BY DEF Init, ParseProgress, DocumentsHoldWhatWasReported
<1>2. IInv /\ IInv' /\ Agreement /\ [Next]_vars => Agreement'
  <2>1. CASE \E t \in Threads : Python(t) \/ Acquire(t) \/ Proceed(t)
    BY <2>1, NextContents
  <2>2. CASE UNCHANGED vars
    BY <2>2 DEF vars, ParseProgress, DocumentsHoldWhatWasReported
  <2>3. QED
    BY <2>1, <2>2 DEF Next
<1>3. Agreement => DocumentsHoldWhatWasReported
  OBVIOUS
<1> HIDE DEF Agreement
<1>4. QED
  BY OwnershipInvariant, <1>1, <1>2, <1>3, PTL DEF Spec
=============================================================================
