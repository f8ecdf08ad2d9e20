----------------------------- MODULE DomLocking -----------------------------
(***************************************************************************)
(* DOM parsers and documents shared by threads.                            *)
(*                                                                         *)
(* A DOMParser has one mutex and the scratch memory of simdjson's parser   *)
(* (the padded copy of the input, the structural indexes).  A DOMDocument  *)
(* has one mutex and the tape the parser writes into.  parse, parse_into,  *)
(* load and load_into lock the parser, then the document, convert the      *)
(* argument, and parse with the GIL released; everything else is one       *)
(* section under one of the two mutexes.  A lock taken by one thread may   *)
(* block another, so a call is split where threads can interleave: before  *)
(* each lock, around the parse, and before each unlock.                    *)
(*                                                                         *)
(* An argument of a class with __buffer__ and __release_buffer__ has its   *)
(* Python code run while both mutexes are held, before and after the       *)
(* parse.  That code may call parsers and documents in its turn, and the   *)
(* interpreter may let other threads run.                                  *)
(*                                                                         *)
(* nb::ft_mutex is a real, non-recursive mutex in a free-threaded build    *)
(* and an empty class in a build with a GIL, where with_gil_released still *)
(* releases the GIL: FreeThreaded tells the two builds apart.              *)
(***************************************************************************)
EXTENDS Naturals

CONSTANTS
  Threads,
  Parsers,
  Documents,
  Inputs,        \* byte strings given to parse_into or files given to load_into
  Valid,         \* those that parse
  Calls,         \* the calls explored
  Callbacks,     \* which of them the arguments of which calls may make
  Rank,          \* the place of each mutex in the order of locking
  FreeThreaded,  \* the extension is built for an interpreter without a GIL
  NoThread,      \* the owner of a free mutex
  Torn           \* a tape that is no document: not yet parsed, or half written

ASSUME ValidAssumption        == Valid \subseteq Inputs
ASSUME FreeThreadedAssumption == FreeThreaded \in BOOLEAN
ASSUME NoThreadAssumption     == NoThread \notin Threads
ASSUME TornAssumption         == Torn \notin Inputs
ASSUME RankAssumption         == Rank \in [Parsers \cup Documents -> Nat]

VARIABLES
  pc,        \* where each thread is in its call
  call,      \* the call: what it does, to which parser or document
  outer,     \* the call whose argument makes that call, and where it is
  parser_mutex,    \* dom_parser_wrapper::mutex
  document_mutex,  \* dom_document_state::mutex
  gil,       \* its holder, in a build that has one
  scratch,   \* what each parser's scratch memory was filled from
  tape,      \* the document each tape holds
  reported,  \* what the last call that parsed into a document said it holds
  result     \* what the parse or the read of a call in progress returned

vars == <<pc, call, outer, parser_mutex, document_mutex, gil, scratch, tape, reported,
          result>>

-----------------------------------------------------------------------------
(* Calls *)

ParseCalls  == [op : {"parse_into"}, parser : Parsers, document : Documents,
                input : Inputs]
\* configure: set_max_capacity, allocate; clone: make_dom_parser_from_template and
\* the getters of a parser, which only read it.
ParserCalls == [op : {"configure", "clone"}, parser : Parsers]
\* read: every method of a document, of its elements and of their iterators.
ReadCalls   == [op : {"read"}, document : Documents]

AllCalls == ParseCalls \cup ParserCalls \cup ReadCalls

ASSUME CallsAssumption == Calls \subseteq AllCalls /\ Callbacks \subseteq Calls \X Calls

Idle == [op |-> "none"]

\* "python": the argument is being converted by Python code; "release": it is told
\* that the view of it is not needed any more.
InPython == {"python", "release"}
Points == {"idle", "wait_parser", "wait_document", "convert", "start", "parsing",
           "parsed", "inside", "unlock_document", "unlock_parser"} \cup InPython

\* A call made by a program's own code returns to that.
NoOuter == [call |-> Idle, point |-> "idle"]

Contents == Inputs \cup {Torn}

\* The calls a thread can be in at each point.
CallMatchesPoint(t) ==
  /\ pc[t] = "idle" => call[t] = Idle
  /\ pc[t] \in {"wait_parser", "unlock_parser"} => call[t] \in ParseCalls \cup ParserCalls
  /\ pc[t] \in {"wait_document", "unlock_document"} => call[t] \in ParseCalls \cup ReadCalls
  /\ pc[t] = "inside" => call[t] \in ParserCalls \cup ReadCalls
  /\ pc[t] \in {"convert", "start", "parsing", "parsed"} \cup InPython =>
       call[t] \in ParseCalls
  /\ pc[t] \in {"idle"} \cup InPython => outer[t] = NoOuter

TypeOK ==
  /\ pc \in [Threads -> Points]
  /\ call \in [Threads -> Calls \cup {Idle}]
  /\ outer \in [Threads -> [call : Calls \cap ParseCalls, point : InPython] \cup {NoOuter}]
  /\ \A t \in Threads : CallMatchesPoint(t)
  /\ parser_mutex \in [Parsers -> Threads \cup {NoThread}]
  /\ document_mutex \in [Documents -> Threads \cup {NoThread}]
  /\ gil \in Threads \cup {NoThread}
  /\ scratch \in [Parsers -> Contents]
  /\ tape \in [Documents -> Contents]
  /\ reported \in [Documents -> Contents]
  /\ result \in [Threads -> Contents]

Init ==
  /\ pc = [t \in Threads |-> "idle"]
  /\ call = [t \in Threads |-> Idle]
  /\ outer = [t \in Threads |-> NoOuter]
  /\ parser_mutex = [p \in Parsers |-> NoThread]
  /\ document_mutex = [d \in Documents |-> NoThread]
  /\ gil = NoThread
  /\ scratch = [p \in Parsers |-> Torn]
  /\ tape = [d \in Documents |-> Torn]
  /\ reported = [d \in Documents |-> Torn]
  /\ result = [t \in Threads |-> Torn]

-----------------------------------------------------------------------------
(* The GIL and nb::ft_mutex *)

TakeGil(t) ==
  IF FreeThreaded THEN UNCHANGED gil ELSE gil = NoThread /\ gil' = t

DropGil == gil' = IF FreeThreaded THEN gil ELSE NoThread

\* The guard and the effect of nb::ft_lock_guard on one of a family of mutexes.
Free(mutex, m) == FreeThreaded => mutex[m] = NoThread
Locked(mutex, m, t) == IF FreeThreaded THEN [mutex EXCEPT ![m] = t] ELSE mutex
Unlocked(mutex, m) == IF FreeThreaded THEN [mutex EXCEPT ![m] = NoThread] ELSE mutex

Goto(t, point) == pc' = [pc EXCEPT ![t] = point]

-----------------------------------------------------------------------------
(* Steps of a call *)

\* c begins, in a thread that has the GIL if there is one.
BeginCall(t, c) ==
  /\ TakeGil(t)
  /\ call' = [call EXCEPT ![t] = c]
  /\ Goto(t, IF c.op = "read" THEN "wait_document" ELSE "wait_parser")
  /\ UNCHANGED <<parser_mutex, document_mutex, scratch, tape, reported, result>>

\* Python calls a method.
Call(t) ==
  /\ pc[t] = "idle"
  /\ \E c \in Calls : BeginCall(t, c)
  /\ UNCHANGED outer

\* The Python code of an argument does.
CallBack(t) ==
  /\ pc[t] \in InPython
  /\ \E c \in Calls : <<call[t], c>> \in Callbacks /\ BeginCall(t, c)
  /\ outer' = [outer EXCEPT ![t] = [call |-> call[t], point |-> pc[t]]]

\* Fault: the parser's mutex is taken without waiting for it.
LockParserUnguarded(t) ==
  /\ pc[t] = "wait_parser"
  /\ parser_mutex' = Locked(parser_mutex, call[t].parser, t)
  /\ Goto(t, IF call[t].op = "parse_into" THEN "wait_document" ELSE "inside")
  /\ UNCHANGED <<call, outer, document_mutex, gil, scratch, tape, reported, result>>

\* nb::ft_lock_guard guard(mutex)
LockParser(t) ==
  /\ pc[t] = "wait_parser"
  /\ Free(parser_mutex, call[t].parser)
  /\ parser_mutex' = Locked(parser_mutex, call[t].parser, t)
  /\ Goto(t, IF call[t].op = "parse_into" THEN "wait_document" ELSE "inside")
  /\ UNCHANGED <<call, outer, document_mutex, gil, scratch, tape, reported, result>>

\* Fault: reads do not lock the document.
LockDocumentToParseOnly(t) ==
  /\ pc[t] = "wait_document"
  /\ call[t].op = "parse_into" => Free(document_mutex, call[t].document)
  /\ document_mutex' = IF call[t].op = "read" THEN document_mutex
                       ELSE Locked(document_mutex, call[t].document, t)
  /\ Goto(t, IF call[t].op = "parse_into" THEN "convert" ELSE "inside")
  /\ UNCHANGED <<call, outer, parser_mutex, gil, scratch, tape, reported, result>>

\* nb::ft_lock_guard document_guard(document.state->mutex)
LockDocument(t) ==
  /\ pc[t] = "wait_document"
  /\ Free(document_mutex, call[t].document)
  /\ document_mutex' = Locked(document_mutex, call[t].document, t)
  /\ Goto(t, IF call[t].op = "parse_into" THEN "convert" ELSE "inside")
  /\ UNCHANGED <<call, outer, parser_mutex, gil, scratch, tape, reported, result>>

\* Python code of the argument begins to run, in a call of the program's own code: one
\* level of such calls is explored.  The GIL may go to another thread from then on.
EnterPython(t, point) ==
  /\ outer[t] = NoOuter
  /\ DropGil
  /\ Goto(t, point)

\* borrowed_bytes bytes(handle): gives a view of the argument, raises TypeError or
\* UnicodeError, or runs the argument's __buffer__.
Convert(t) ==
  /\ pc[t] = "convert"
  /\ \/ \E point \in {"start", "unlock_document"} : Goto(t, point) /\ UNCHANGED gil
     \/ EnterPython(t, "python")
  /\ UNCHANGED <<call, outer, parser_mutex, document_mutex, scratch, tape, reported,
                 result>>

\* That code returns, or raises.
PythonReturns(t) ==
  /\ pc[t] \in InPython
  /\ TakeGil(t)
  /\ \E point \in {"start", "unlock_document"} :
       (pc[t] = "release" => point = "unlock_document") /\ Goto(t, point)
  /\ UNCHANGED <<call, outer, parser_mutex, document_mutex, scratch, tape, reported,
                 result>>

\* with_gil_released; the parser copies the input and begins to write the tape.
StartParse(t) ==
  /\ pc[t] = "start"
  /\ DropGil
  /\ scratch' = [scratch EXCEPT ![call[t].parser] = call[t].input]
  /\ tape' = [tape EXCEPT ![call[t].document] = Torn]
  /\ Goto(t, "parsing")
  /\ UNCHANGED <<call, outer, parser_mutex, document_mutex, reported, result>>

\* The tape is written from what the scratch memory holds; an input that does not
\* parse leaves it torn.
FinishParse(t) ==
  LET parsed == IF scratch[call[t].parser] \in Valid
                THEN scratch[call[t].parser] ELSE Torn
  IN
  /\ pc[t] = "parsing"
  /\ tape' = [tape EXCEPT ![call[t].document] = parsed]
  /\ result' = [result EXCEPT ![t] = IF parsed = Torn THEN Torn ELSE call[t].input]
  /\ Goto(t, "parsed")
  /\ UNCHANGED <<call, outer, parser_mutex, document_mutex, gil, scratch, reported>>

\* The GIL is taken again, then ensure_success: the call reports its outcome.  Then
\* ~borrowed_bytes gives the view back, to Python code perhaps, which cannot raise.
Report(t) ==
  /\ pc[t] = "parsed"
  /\ reported' = [reported EXCEPT ![call[t].document] = result[t]]
  /\ \/ TakeGil(t) /\ Goto(t, "unlock_document")
     \/ (FreeThreaded \/ gil = NoThread) /\ EnterPython(t, "release")
  /\ UNCHANGED <<call, outer, parser_mutex, document_mutex, scratch, tape, result>>

\* The body of a call that takes one mutex: reads of a document, and calls that
\* write or read a parser without parsing.
Read(t) ==
  /\ pc[t] = "inside" /\ call[t].op = "read"
  /\ result' = [result EXCEPT ![t] = tape[call[t].document]]
  /\ Goto(t, "unlock_document")
  /\ UNCHANGED <<call, outer, parser_mutex, document_mutex, gil, scratch, tape, reported>>

Configure(t) ==
  /\ pc[t] = "inside" /\ call[t].op = "configure"
  /\ scratch' = [scratch EXCEPT ![call[t].parser] = Torn]
  /\ Goto(t, "unlock_parser")
  /\ UNCHANGED <<call, outer, parser_mutex, document_mutex, gil, tape, reported, result>>

Clone(t) ==
  /\ pc[t] = "inside" /\ call[t].op = "clone"
  /\ Goto(t, "unlock_parser")
  /\ UNCHANGED <<call, outer, parser_mutex, document_mutex, gil, scratch, tape, reported,
                 result>>

Inside(t) == Read(t) \/ Configure(t) \/ Clone(t)

\* To the program, or to the Python code that made the call.
Return(t) ==
  /\ call' = [call EXCEPT ![t] = outer[t].call]
  /\ outer' = [outer EXCEPT ![t] = NoOuter]
  /\ result' = [result EXCEPT ![t] = Torn]
  /\ Goto(t, outer[t].point)
  /\ DropGil

\* Fault: the document stays locked.
UnlockDocumentKeepsMutex(t) ==
  /\ pc[t] = "unlock_document"
  /\ IF call[t].op = "parse_into"
     THEN Goto(t, "unlock_parser") /\ UNCHANGED <<call, outer, gil, result>>
     ELSE Return(t)
  /\ UNCHANGED <<parser_mutex, document_mutex, scratch, tape, reported>>

\* Fault: a call that parsed returns without unlocking the parser.
UnlockDocumentReturns(t) ==
  /\ pc[t] = "unlock_document"
  /\ document_mutex' = Unlocked(document_mutex, call[t].document)
  /\ Goto(t, "idle")
  /\ DropGil
  /\ UNCHANGED <<call, outer, parser_mutex, scratch, tape, reported, result>>

\* The guards are destroyed in the reverse order, whether the call returns or raises.
UnlockDocument(t) ==
  /\ pc[t] = "unlock_document"
  /\ document_mutex' = Unlocked(document_mutex, call[t].document)
  /\ IF call[t].op = "parse_into"
     THEN Goto(t, "unlock_parser") /\ UNCHANGED <<call, outer, gil, result>>
     ELSE Return(t)
  /\ UNCHANGED <<parser_mutex, scratch, tape, reported>>

UnlockParser(t) ==
  /\ pc[t] = "unlock_parser"
  /\ parser_mutex' = Unlocked(parser_mutex, call[t].parser)
  /\ Return(t)
  /\ UNCHANGED <<document_mutex, scratch, tape, reported>>

-----------------------------------------------------------------------------

\* The steps that may wait for another thread, and those that may not.
Acquire(t) == LockParser(t) \/ LockDocument(t) \/ Report(t)
Proceed(t) == \/ Convert(t) \/ StartParse(t) \/ FinishParse(t) \/ Inside(t)
              \/ UnlockDocument(t) \/ UnlockParser(t)

\* Steps of Python code: a program need not make another call.
Python(t) == Call(t) \/ CallBack(t) \/ PythonReturns(t)

Next == \E t \in Threads : Python(t) \/ Acquire(t) \/ Proceed(t)

Spec == Init /\ [][Next]_vars

\* A running thread proceeds.  A thread that is woken up again and again gets the
\* mutex or the GIL in the end: PyMutex hands itself to a waiter that has waited
\* for a millisecond, and the GIL is switched on request.  The Python code of an
\* argument returns, however often it calls back before.
Fairness ==
  \A t \in Threads :
    WF_vars(Proceed(t)) /\ SF_vars(Acquire(t)) /\ SF_vars(PythonReturns(t))

FairSpec == Spec /\ Fairness

-----------------------------------------------------------------------------
(* Safety *)

\* Memory a thread is using between two of its steps, for reading and for writing.
InParser(t, p) ==
  /\ pc[t] \in {"parsing", "inside"} /\ call[t].op \in {"parse_into", "configure", "clone"}
  /\ call[t].parser = p

WritesParser(t, p) == InParser(t, p) /\ call[t].op # "clone"

InDocument(t, d) ==
  /\ pc[t] \in {"parsing", "inside"} /\ call[t].op \in {"parse_into", "read"}
  /\ call[t].document = d

WritesDocument(t, d) == InDocument(t, d) /\ call[t].op = "parse_into"

\* No thread writes a parser or a document while another one reads or writes it.
NoDataRace ==
  \A t, u \in Threads : t # u =>
    /\ \A p \in Parsers : ~ (WritesParser(t, p) /\ InParser(u, p))
    /\ \A d \in Documents : ~ (WritesDocument(t, d) /\ InDocument(u, d))

\* docs/threading.md on sharing a parser: "only one thread is inside the parser at
\* a time".
OneThreadInsideParser ==
  \A t, u \in Threads, p \in Parsers : t # u => ~ (InParser(t, p) /\ InParser(u, p))

\* A document nobody is working on holds what the last call that parsed into it
\* reported, and a read returns that: never another call's input, although parsers
\* and documents are shared, and never a torn tape that was reported as parsed.
DocumentsHoldWhatWasReported ==
  /\ \A d \in Documents :
       \/ tape[d] = reported[d]
       \/ \E t \in Threads : /\ pc[t] \in {"parsing", "parsed"}
                             /\ call[t].op = "parse_into" /\ call[t].document = d
  /\ \A t \in Threads : pc[t] = "unlock_document" /\ call[t].op = "read" =>
       result[t] = reported[call[t].document]

\* The order calls lock in: parse calls the parser and then the document, and the
\* arguments of a parse call only what comes after both.  The code sees to none of it
\* but the first "and then": it is for programs to have such an order.
CallsAreOrdered ==
  /\ \A c \in Calls \cap ParseCalls : Rank[c.parser] < Rank[c.document]
  /\ \A c \in ParseCalls, inner \in Calls : <<c, inner>> \in Callbacks =>
       Rank[c.document] < Rank[IF inner \in ReadCalls THEN inner.document ELSE inner.parser]

\* The mutexes a thread has locked.
Held(t) == {p \in Parsers : parser_mutex[p] = t} \cup {d \in Documents : document_mutex[d] = t}

\* A thread waits for a mutex only while all it holds, for the call that waits and for
\* the one whose argument made that call, come before it: no cycle of waits.
LockOrder ==
  \A t \in Threads, m \in Parsers \cup Documents :
    /\ pc[t] = "wait_parser" /\ m \in Held(t) => Rank[m] < Rank[call[t].parser]
    /\ pc[t] = "wait_document" /\ m \in Held(t) => Rank[m] < Rank[call[t].document]

-----------------------------------------------------------------------------
(* Liveness *)

\* Every call returns, although threads call back with mutexes held, if calls are
\* ordered: no deadlock between mutexes, none between a mutex and the GIL.
CallsReturn == \A t \in Threads : pc[t] # "idle" ~> pc[t] = "idle"
=============================================================================
