--------------------------- MODULE OnDemandCursor ---------------------------
(***************************************************************************)
(* The Python objects that move the cursor of an On-Demand document.       *)
(*                                                                         *)
(* OnDemandValue, OnDemandArray, OnDemandObject and the iterators of the   *)
(* bindings are copies of simdjson's handles: all of them read and move    *)
(* the document's one cursor.  The bindings make Python's protocols out of *)
(* that by resetting the cursor before a subscript, a length or a loop,    *)
(* and by moving it past a member before next() returns it.                *)
(*                                                                         *)
(* Here is what arrays and objects have in common, and what arrays have of *)
(* their own; OnDemandObjects adds the fields and the specification.       *)
(* A document is used by one thread.                                       *)
(***************************************************************************)
EXTENDS JsonCursor

CONSTANTS
  MaxHandles, \* bound on the values and containers a program holds and its loops
  MaxYields   \* bound on the members one loop is given: a loop may never end

VARIABLES
  cursor,     \* simdjson's json_iterator
  values,     \* the OnDemandValue objects: where each starts and how deep
  containers, \* the OnDemandArray and OnDemandObject objects, in the same form
  loops,      \* the for loops: their iterator and what it has given
  answered    \* whether the last answer of a call was the right one

vars == <<doc, cursor, values, containers, loops, answered>>

\* What else can move the cursor of a loop: another `for m in container`, or any other
\* call, among them the loops that rewind a document or enter a value first.
Movers == {"for", "call"}

\* yielded: where the members given start; moved: what other than the loop itself
\* has moved the cursor since it began.
Loops == [container : Handles, gives : {"elements", "keys", "fields"},
          yielded : Seq(Nat), moved : SUBSET Movers, done : BOOLEAN]

TypeOK ==
  /\ doc \in Inputs
  /\ cursor \in Cursors
  /\ values \subseteq Handles
  /\ containers \subseteq Handles /\ \A a \in containers : IsContainer(a)
  /\ loops \in Seq(Loops)
  /\ answered \in BOOLEAN

Init ==
  /\ doc \in Inputs
  /\ cursor = [pos |-> 1, depth |-> 1, error |-> "SUCCESS"]
  /\ values = {}
  /\ containers = {}
  /\ loops = << >>
  /\ answered = TRUE

-----------------------------------------------------------------------------
(* A document that was abandoned is not used again *)

Usable == Succeeded(cursor)

\* The loops, when the cursor goes to c.
Moved(c, mover) ==
  [k \in DOMAIN loops |->
     [loops[k] EXCEPT !.moved = IF c = cursor THEN @ ELSE @ \cup {mover}]]

MoveTo(c, mover) ==
  /\ Usable
  /\ cursor' = c
  /\ loops' = Moved(c, mover)

MayHold(vs, as, n) == Cardinality(vs) + Cardinality(as) + n <= MaxHandles

HoldValue(v) ==
  MayHold(values \cup {v}, containers, Len(loops)) /\ values' = values \cup {v}
HoldContainer(a) ==
  MayHold(values, containers \cup {a}, Len(loops)) /\ containers' = containers \cup {a}

\* A lookup finds what starts at p, or nothing if p is 0.
Answers(found, c, p) == IF p = 0 THEN ~ found /\ Succeeded(c) ELSE found /\ c.pos = p

\* The cursor goes to c, where the value is that was looked for in a, if it was found.
LookUp(c, a, mover) ==
  /\ MoveTo(c, mover)
  /\ IF Found(c, a) THEN HoldValue(Child(c, a)) ELSE UNCHANGED values
  /\ UNCHANGED <<doc, containers>>

-----------------------------------------------------------------------------
(* Methods that stand for simdjson's *)

\* OnDemandDocument.rewind()
Rewind ==
  /\ MoveTo(Rewound(cursor), "call")
  /\ UNCHANGED <<doc, values, containers, answered>>

\* OnDemandDocument.get_value().  It tests the token the cursor is at: that it is
\* called elsewhere than at the root is not modelled.
GetValue ==
  /\ Usable
  /\ AtStart(cursor, Root)
  /\ HoldValue(Root)
  /\ UNCHANGED <<doc, cursor, containers, loops, answered>>

\* Fault: the type of the value is not checked.
GetContainerUnchecked(v) ==
  /\ MoveTo(Start(cursor, v), "call")
  /\ HoldContainer(v)
  /\ UNCHANGED <<doc, values, answered>>

\* get_array() and get_object() of documents and values
GetContainer(v) ==
  /\ IsContainer(v)
  /\ MoveTo(Start(cursor, v), "call")
  /\ HoldContainer(v)
  /\ UNCHANGED <<doc, values, answered>>

DocumentGetContainer == GetContainer(Root)

\* reset() and is_empty() of arrays and objects
Reset(a) ==
  /\ MoveTo(ResetTo(cursor, a), "call")
  /\ UNCHANGED <<doc, values, containers, answered>>

\* OnDemandArray.count_elements(), OnDemandObject.count_fields(): from wherever the
\* cursor is.
CountMembers(a) ==
  /\ MoveTo(Counted(cursor, a), "call")
  /\ UNCHANGED <<doc, values, containers, answered>>

\* The same of values: the cursor ends where the value starts.
MovedUnlessFailed(c, v) == IF Succeeded(c) THEN MovedTo(c, v) ELSE c
CountMembersOfValue(v) ==
  /\ IsContainer(v)
  /\ MoveTo(MovedUnlessFailed(Counted(Start(cursor, v), v), v), "call")
  /\ UNCHANGED <<doc, values, containers, answered>>

\* The same of documents, which are rewound.
DocumentCountMembers == CountMembersOfValue(Root)

\* at() of arrays: forward only.
ArrayAt(a, index) == LookUp(At(cursor, a, index), a, "call") /\ UNCHANGED answered

\* at() of values and of documents
ValueAt(v, index) ==
  LookUp(At(Start(cursor, v), v, index), v, "call") /\ UNCHANGED answered
DocumentAt(index) == ValueAt(Root, index)

\* raw_json(), and the to_json(), str() and repr() made of it: from the start of the
\* container to where the cursor is when it has left it.
Text(after, a, judged) ==
  /\ MoveTo(Abandoned(after), "call")
  /\ answered' = (judged => Succeeded(after) /\ after.pos = Closing(a) + 1)
  /\ UNCHANGED <<doc, values, containers>>

RawJson(c, a, judged) == Text(SkipChild(c, a.depth - 1), a, judged)

AtValue(v) == AtStart(cursor, v) /\ cursor.depth = v.depth /\ Proper(v)

DocumentRawJson == RawJson(cursor, Root, AtValue(Root) \/ Within(cursor, Root))
ContainerRawJson(a) == RawJson(cursor, a, AtValue(a) \/ Within(cursor, a))
ValueRawJson(v) == IsContainer(v) /\ RawJson(Start(cursor, v), v, AtValue(v))

\* get_uint64() and the other scalar getters: a value the cursor is at is consumed,
\* any other is only looked at.
GetScalar(v) ==
  /\ IsScalar(v)
  /\ AtStart(cursor, v)
  /\ MoveTo([Consumed(cursor) EXCEPT !.depth = v.depth - 1], "call")
  /\ UNCHANGED <<doc, values, containers, answered>>

-----------------------------------------------------------------------------
(* Python's protocols *)

\* A subscript is right if it finds what starts at p, or raises because p is 0.
Subscript(after, a, p) ==
  /\ LookUp(after, a, "call")
  /\ answered' = Answers(Found(after, a), after, p)

GetItem(c, a, index) == Subscript(At(c, a, index), a, MemberAt(a.start, index))

\* Fault: the array is not reset.
ArrayGetItemFromHere(a, index) == GetItem(cursor, a, index)

\* document[index], array[index], value[index]
DocumentGetItem(index) == GetItem(Start(Rewound(cursor), Root), Root, index)
ArrayGetItem(a, index) == GetItem(ResetTo(cursor, a), a, index)
ValueGetItem(v, index) == GetItem(ResetTo(Start(cursor, v), v), v, index)

\* A length counted from cursor c on.
Length(c, a, after) ==
  /\ MoveTo(after, "call")
  /\ answered' = (Succeeded(after) /\ Count(c, a) = Len(Members(a.start)))
  /\ UNCHANGED <<doc, values, containers>>

\* len(document), which ends in a rewind; len(container), len(value)
DocumentLen ==
  LET c == Start(Rewound(cursor), Root) IN Length(c, Root, Rewound(Counted(c, Root)))
ContainerLen(a) ==
  LET c == ResetTo(cursor, a) IN Length(c, a, Counted(c, a))
ValueLen(v) ==
  LET c == ResetTo(Start(cursor, v), v) IN IsContainer(v) /\ Length(c, v, Counted(c, v))

\* The constructors of the iterators, with the cursor at c.
NewIterator(c, a, gives, mover) ==
  /\ MayHold(values, containers, Len(loops) + 1)
  /\ Usable
  /\ cursor' = c
  /\ loops' = Append(Moved(c, mover),
                     [container |-> a, gives |-> gives, yielded |-> << >>,
                      moved |-> {}, done |-> FALSE])
  /\ UNCHANGED <<doc, values, containers, answered>>

\* iter() gives the elements of an array, the keys of an object.
Given(a) == IF IsArray(a) THEN "elements" ELSE "keys"

\* for m in document, for m in container, for m in value
DocumentIter ==
  NewIterator(ResetTo(Start(Rewound(cursor), Root), Root), Root, Given(Root), "call")
ContainerIter(a) == NewIterator(ResetTo(cursor, a), a, Given(a), "for")
ValueIter(v) ==
  IsContainer(v) /\ NewIterator(ResetTo(Start(cursor, v), v), v, Given(v), "call")

\* `if (!(current != end)) throw nb::stop_iteration()`
StopIteration(k) ==
  /\ ~ loops[k].done
  /\ ~ IsOpen(cursor, loops[k].container)
  /\ loops' = [loops EXCEPT ![k].done = TRUE]
  /\ UNCHANGED <<doc, cursor, values, containers, answered>>

\* `ensure_success(result.error(), ...)`: an error was left behind by a ++, or the
\* cursor is not at a key.
RaiseError(k) ==
  LET after == Dereferenced(cursor, loops[k].container)
  IN
  /\ ~ loops[k].done
  /\ IsOpen(cursor, loops[k].container)
  /\ ~ Succeeded(after)
  /\ cursor' = after
  /\ loops' = [Moved(after, "for") EXCEPT ![k] = [loops[k] EXCEPT !.done = TRUE]]
  /\ UNCHANGED <<doc, values, containers, answered>>

\* Fault: no `++current`.
NextMemberStays(k) ==
  LET a  == loops[k].container
      at == Dereferenced(cursor, a)
  IN
  /\ ~ loops[k].done
  /\ IsOpen(cursor, a)
  /\ Succeeded(at)
  /\ Len(loops[k].yielded) < MaxYields
  /\ cursor' = at
  /\ loops' = [Moved(at, "for") EXCEPT
                 ![k] = [loops[k] EXCEPT !.yielded = Append(@, cursor.pos)]]
  /\ UNCHANGED <<doc, containers, answered>>

\* The member the cursor is at is given.  `++current` comes before it is returned, and
\* its error is not looked at.
NextMember(k) ==
  LET a     == loops[k].container
      at    == Dereferenced(cursor, a)
      moved == Increment(at, a)
  IN
  /\ ~ loops[k].done
  /\ IsOpen(cursor, a)
  /\ Succeeded(at)
  /\ Len(loops[k].yielded) < MaxYields
  /\ cursor' = moved
  /\ loops' = [Moved(moved, "for") EXCEPT
                 ![k] = [loops[k] EXCEPT !.yielded = Append(@, cursor.pos)]]
  /\ UNCHANGED <<doc, containers, answered>>

\* next() of an array's iterator
NextValue(k) ==
  /\ loops[k].gives = "elements"
  /\ NextMember(k)
  /\ HoldValue(Child(cursor, loops[k].container))

-----------------------------------------------------------------------------

\* Indexes worth asking for: those of the elements, and the first beyond.
Indexes(a) == IF IsArray(a) THEN 0 .. Len(Members(a.start)) ELSE {}

CursorNext ==
  \/ Rewind \/ GetValue \/ DocumentGetContainer \/ DocumentCountMembers
  \/ DocumentRawJson \/ DocumentLen \/ DocumentIter
  \/ \E index \in Indexes(Root) : DocumentGetItem(index) \/ DocumentAt(index)
  \/ \E a \in containers :
       \/ Reset(a) \/ CountMembers(a) \/ ContainerRawJson(a)
       \/ ContainerLen(a) \/ ContainerIter(a)
       \/ \E index \in Indexes(a) : ArrayAt(a, index) \/ ArrayGetItem(a, index)
  \/ \E v \in values :
       \/ GetScalar(v) \/ GetContainer(v) \/ CountMembersOfValue(v) \/ ValueRawJson(v)
       \/ ValueLen(v) \/ ValueIter(v)
       \/ \E index \in Indexes(v) : ValueGetItem(v, index) \/ ValueAt(v, index)
  \/ \E k \in DOMAIN loops : StopIteration(k) \/ RaiseError(k) \/ NextValue(k)
=============================================================================
