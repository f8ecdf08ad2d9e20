------------------------------- MODULE Loads -------------------------------
(***************************************************************************)
(* simdjsonpy.loads: one DOM parser per thread, for every call.            *)
(*                                                                         *)
(* The parser is thread_local and its document is overwritten by every     *)
(* call of the thread; the call returns Python objects made from it.  No   *)
(* lock is taken: calls of different threads use different parsers, and    *)
(* calls of one thread follow each other, except where a call runs Python  *)
(* code.  It does so twice, for an argument whose class defines them: in   *)
(* __buffer__, when its bytes are borrowed, and in __release_buffer__,     *)
(* when the view of them is destroyed.  That code may call loads.          *)
(***************************************************************************)
EXTENDS Naturals, Sequences

CONSTANTS
  Threads,
  Inputs,      \* what can be given to loads
  Valid,       \* the inputs that parse
  Hooks,       \* where Python code of the argument may run: "borrow", "release"
  MaxNesting,  \* bound on the calls of one thread in progress
  Torn         \* a document that is none: nothing parsed, or a failed parse

ASSUME ValidAssumption   == Valid \subseteq Inputs
ASSUME HooksAssumption   == Hooks \subseteq {"borrow", "release"}
ASSUME NestingAssumption == MaxNesting \in Nat
ASSUME TornAssumption    == Torn \notin Inputs

VARIABLES
  parser,   \* the document in each thread_local parser
  stack,    \* the calls each thread has in progress, the innermost last
  returned  \* the last call of each thread that returned: its input and its value

vars == <<parser, stack, returned>>

Contents == Inputs \cup {Torn}

\* A PaddedString is parsed where it is; of anything else a view is borrowed.
Arguments == {"padded", "view"}

Frames == [input : Inputs, argument : Arguments,
           pc : {"borrow", "parse", "release", "convert"}]

Returns == [input : Contents, value : Contents]

TypeOK ==
  /\ parser \in [Threads -> Contents]
  /\ stack \in [Threads -> Seq(Frames)]
  /\ returned \in [Threads -> Returns]
  /\ \A t \in Threads : \A n \in DOMAIN stack[t] :
       stack[t][n].pc = "convert" => stack[t][n].input \in Valid

Init ==
  /\ parser = [t \in Threads |-> Torn]
  /\ stack = [t \in Threads |-> << >>]
  /\ returned = [t \in Threads |-> [input |-> Torn, value |-> Torn]]

-----------------------------------------------------------------------------

\* Fault: `static` without `thread_local`.
SharedParser(t) == CHOOSE u \in Threads : TRUE

\* static thread_local simdjson::dom::parser parser
ParserOf(t) == t

Running(t) == stack[t] # << >>
Depth(t) == Len(stack[t])
Top(t) == stack[t][Depth(t)]

\* The innermost call goes on, or ends.
Goto(t, point) == stack' = [stack EXCEPT ![t][Depth(t)].pc = point]
Leave(t) == stack' = [stack EXCEPT ![t] = SubSeq(@, 1, Depth(t) - 1)]

\* A thread calls loads, or Python code run by its innermost call does.
Call(t) ==
  /\ Running(t) => Top(t).pc \in Hooks /\ Top(t).argument = "view"
  /\ Depth(t) < MaxNesting
  /\ \E input \in Inputs, argument \in Arguments :
       stack' = [stack EXCEPT ![t] =
                   Append(@, [input |-> input, argument |-> argument,
                              pc |-> IF argument = "padded" THEN "parse" ELSE "borrow"])]
  /\ UNCHANGED <<parser, returned>>

\* borrowed_bytes bytes(handle): a view, or TypeError or UnicodeError.
Borrow(t) ==
  /\ Running(t) /\ Top(t).pc = "borrow"
  /\ Goto(t, "parse") \/ Leave(t)
  /\ UNCHANGED <<parser, returned>>

\* parser.parse, with the GIL released, then ensure_success.  An exception leaves
\* the call, by way of the destructor of the view if there is one.
Parse(t) ==
  LET input == Top(t).input
  IN
  /\ Running(t) /\ Top(t).pc = "parse"
  /\ parser' = [parser EXCEPT ![ParserOf(t)] = IF input \in Valid THEN input ELSE Torn]
  /\ IF Top(t).argument = "view" THEN Goto(t, "release")
     ELSE IF input \in Valid THEN Goto(t, "convert") ELSE Leave(t)
  /\ UNCHANGED returned

\* Fault: the result of the parse is not looked at.
ReleaseForgetsError(t) ==
  /\ Running(t) /\ Top(t).pc = "release"
  /\ Goto(t, "convert")
  /\ UNCHANGED <<parser, returned>>

\* ~borrowed_bytes(): PyBuffer_Release, before the document is read.
Release(t) ==
  /\ Running(t) /\ Top(t).pc = "release"
  /\ IF Top(t).input \in Valid THEN Goto(t, "convert") ELSE Leave(t)
  /\ UNCHANGED <<parser, returned>>

\* return dom_to_python(root): whatever the parser's document now is.
Convert(t) ==
  /\ Running(t) /\ Top(t).pc = "convert"
  /\ returned' = [returned EXCEPT ![t] = [input |-> Top(t).input,
                                          value |-> parser[ParserOf(t)]]]
  /\ Leave(t)
  /\ UNCHANGED parser

Next == \E t \in Threads :
          Call(t) \/ Borrow(t) \/ Parse(t) \/ Release(t) \/ Convert(t)

Spec == Init /\ [][Next]_vars

-----------------------------------------------------------------------------

\* docs/loads.md: loads returns what json.loads would "on the same input".  A call
\* returns the value of its own input, whatever other threads and, within it, other
\* calls of its thread have parsed.
LoadsReturnsItsInput == \A t \in Threads : returned[t].value = returned[t].input

\* Why it does: a call that has parsed finds its document in the parser when it
\* comes to convert it, because every other call in progress has yet to parse.
ParserHoldsInnermostInput ==
  \A t \in Threads : \A n \in DOMAIN stack[t] :
    stack[t][n].pc \in {"release", "convert"} =>
      /\ n = Depth(t)
      /\ stack[t][n].input \in Valid => parser[t] = stack[t][n].input
=============================================================================
