------------------------- MODULE OnDemandObjects_proofs -------------------------
(***************************************************************************)
(* On-Demand documents: the types, that answers are right, and that a loop *)
(* nothing else disturbs is given its members, for every set of            *)
(* well-formed inputs and any number of handles.                           *)
(***************************************************************************)
EXTENDS OnDemandObjects, JsonLookups_proofs

-----------------------------------------------------------------------------
(* The inductive invariant *)

GoodContainers == {a \in OpenContainers : Place(a.start)}

\* A loop whose cursor nothing else has moved has it at its next member, and was given
\* the members before that.
LoopAlone(c, l) ==
  LET o == l.container.start
  IN  /\ Len(l.yielded) <= Size(o)
      /\ c = MemberCursor(l.container, Len(l.yielded))
      /\ \A i \in 1 .. Len(l.yielded) : l.yielded[i] = Members(o)[i]
      /\ l.done => Len(l.yielded) = Size(o)
LoopIsRight(c, l) ==
  /\ l.container \in GoodContainers
  /\ l.moved = {} => LoopAlone(c, l)

\* What is so of the cursor c, the values vs, the containers as and the loops ls.
StateIsRight(c, vs, as, ls) ==
  /\ c \in GoodCursors
  /\ vs \subseteq GoodHandles
  /\ as \subseteq GoodContainers
  /\ ls \in Seq(Loops)
  /\ \A k \in DOMAIN ls : LoopIsRight(c, ls[k])

IInv ==
  /\ doc \in Inputs
  /\ StateIsRight(cursor, values, containers, loops)
  /\ answered = TRUE

\* What a step does that keeps it.
StaysRight ==
  /\ doc' = doc
  /\ StateIsRight(cursor', values', containers', loops')
  /\ answered' = TRUE

LEMMA StaysRightKeeps ==
  ASSUME doc \in Inputs, StaysRight
  PROVE  IInv'
<1>1. doc' = doc /\ StateIsRight(cursor', values', containers', loops') /\ answered' = TRUE
  BY DEF StaysRight
<1>2. GoodCursors' = GoodCursors /\ GoodHandles' = GoodHandles /\ Loops' = Loops
  BY <1>1 DEF GoodCursors, GoodHandles, Place, Opens, Shuts, Loops, Cursors, Handles
<1>3. GoodContainers' = GoodContainers
  BY <1>1 DEF GoodContainers, OpenContainers, Place, Opens, Shuts
<1>4. \A k \in DOMAIN loops' : LoopIsRight(cursor', loops'[k])
  BY <1>1 DEF StateIsRight
<1>5. (\A k \in DOMAIN loops : LoopIsRight(cursor, loops[k]))'
  BY <1>1, <1>3, <1>4
  DEF LoopIsRight, LoopAlone, MemberCursor, Size, Members, Close, Cur, IsArray, Token
<1>6. StateIsRight(cursor, values, containers, loops)'
  BY <1>1, <1>2, <1>3, <1>5 DEF StateIsRight
<1>7. QED
  BY <1>1, <1>6 DEF IInv

-----------------------------------------------------------------------------
(* What every action has in common *)

LEMMA IInvMeans ==
  ASSUME IInv
  PROVE  /\ doc \in Inputs /\ cursor \in GoodCursors /\ values \subseteq GoodHandles
         /\ containers \subseteq GoodContainers /\ loops \in Seq(Loops) /\ answered = TRUE
         /\ \A k \in DOMAIN loops : LoopIsRight(cursor, loops[k])
         /\ cursor \in Cursors
         /\ Usable => Succeeded(cursor)
  BY DEF IInv, StateIsRight, GoodCursors, Usable

LEMMA GoodContainerMeans ==
  ASSUME doc \in Inputs, NEW a \in GoodContainers
  PROVE  /\ a \in OpenContainers /\ Place(a.start) /\ a \in GoodHandles /\ a \in Handles
         /\ a.depth \in Nat /\ a.depth - 1 \in Nat
<1>1. a \in OpenContainers /\ Place(a.start)
  BY DEF GoodContainers
<1>2. QED
  BY <1>1, ContainersAreGood, OpenContainerMeans

\* The values that are containers.
LEMMA ContainerValues ==
  ASSUME doc \in Inputs
  PROVE  /\ \A v \in GoodHandles : IsContainer(v) => v \in GoodContainers
         /\ Root \in GoodContainers /\ IsContainer(Root)
         /\ \A a \in GoodContainers : IsContainer(a)
<1>1. \A v \in GoodHandles : IsContainer(v) => v \in GoodContainers
  BY ContainersAreOpen DEF GoodContainers
<1>2. Root \in GoodContainers /\ IsContainer(Root)
  BY RootIsOpen DEF GoodContainers
<1>3. ASSUME NEW a \in GoodContainers PROVE IsContainer(a)
  <2>1. a.start \in 1 .. Len(doc) /\ Opens(a.start)
    BY GoodContainerMeans, OpenContainerMeans
  <2>2. QED
    BY <2>1, PlaceOfToken DEF IsContainer
<1>4. QED
  BY <1>1, <1>2, <1>3

\* The loops once the cursor has gone elsewhere.
LEMMA MovedIsRight ==
  ASSUME IInv, NEW c \in GoodCursors, NEW mover \in Movers
  PROVE  /\ Moved(c, mover) \in Seq(Loops) /\ DOMAIN Moved(c, mover) = DOMAIN loops
         /\ \A k \in DOMAIN loops :
              /\ LoopIsRight(c, Moved(c, mover)[k])
              /\ Moved(c, mover)[k] \in Loops
              /\ c = cursor => Moved(c, mover)[k] = loops[k]
              /\ c # cursor => Moved(c, mover)[k].moved # {}
<1>1. loops \in Seq(Loops) /\ \A k \in DOMAIN loops : LoopIsRight(cursor, loops[k])
  BY IInvMeans
<1>2. Len(loops) \in Nat /\ DOMAIN loops = 1 .. Len(loops)
      /\ \A k \in DOMAIN loops : loops[k] \in Loops
  BY <1>1
<1> DEFINE ls == Moved(c, mover)
<1>3. DOMAIN ls = DOMAIN loops
  BY DEF Moved
<1>4. ASSUME NEW k \in DOMAIN loops
      PROVE  /\ LoopIsRight(c, ls[k]) /\ ls[k] \in Loops
             /\ c = cursor => ls[k] = loops[k]
             /\ c # cursor => ls[k].moved # {}
  <2>1. loops[k] \in Loops /\ LoopIsRight(cursor, loops[k])
    BY <1>1, <1>2
  <2>2. ls[k] = [loops[k] EXCEPT !.moved = IF c = cursor THEN loops[k].moved
                                                         ELSE loops[k].moved \cup {mover}]
    BY DEF Moved
  <2>3. CASE c = cursor
    <3>1. ls[k] = loops[k]
      BY <2>1, <2>2, <2>3 DEF Loops
    <3>2. QED
      BY <2>1, <2>3, <3>1
  <2>4. CASE c # cursor
    <3>1. ls[k] = [loops[k] EXCEPT !.moved = loops[k].moved \cup {mover}]
      BY <2>2, <2>4
    <3>2. /\ ls[k] \in Loops /\ ls[k].moved = loops[k].moved \cup {mover}
          /\ ls[k].container = loops[k].container
      BY <2>1, <3>1 DEF Loops
    <3>3. ls[k].moved # {}
      BY <3>2
    <3>4. LoopIsRight(c, ls[k])
      BY <2>1, <3>2, <3>3 DEF LoopIsRight
    <3>5. QED
      BY <2>4, <3>2, <3>3, <3>4
  <2>5. QED
    BY <2>3, <2>4
<1>5. ls \in Seq(Loops)
  <2>1. ls \in [1 .. Len(loops) -> Loops]
    BY <1>2, <1>3, <1>4 DEF Moved
  <2>2. QED
    BY <1>2, <2>1
<1>6. QED
  BY <1>3, <1>4, <1>5

\* A call that moves the cursor.
LEMMA MoveToIsRight ==
  ASSUME IInv, NEW c \in GoodCursors, NEW mover \in Movers, MoveTo(c, mover),
         values' \subseteq GoodHandles, containers' \subseteq GoodContainers
  PROVE  StateIsRight(cursor', values', containers', loops')
<1>1. cursor' = c /\ loops' = Moved(c, mover)
  BY DEF MoveTo
<1>2. QED
  BY <1>1, MovedIsRight DEF StateIsRight

LEMMA MoversAre == "for" \in Movers /\ "call" \in Movers
  BY DEF Movers

\* A call that looks a member up.
LEMMA LookUpIsRight ==
  ASSUME IInv, NEW c \in GoodCursors, NEW a \in GoodContainers, NEW mover \in Movers,
         LookUp(c, a, mover)
  PROVE  doc' = doc /\ StateIsRight(cursor', values', containers', loops')
<1>1. MoveTo(c, mover) /\ doc' = doc /\ containers' = containers
  BY DEF LookUp
<1>2. Child(c, a) \in GoodHandles
  BY IInvMeans, GoodContainerMeans, GoodChild
<1>3. values' = values \/ values' = values \cup {Child(c, a)}
  BY DEF LookUp, HoldValue
<1>4. values' \subseteq GoodHandles /\ containers' \subseteq GoodContainers
  BY <1>1, <1>2, <1>3, IInvMeans
<1>5. QED
  BY <1>1, <1>4, MoveToIsRight

\* A lookup that finds what is at p answers so.
LEMMA FindsAnswers ==
  ASSUME NEW c, NEW a, NEW p, Finds(c, a, p)
  PROVE  Answers(Found(c, a), c, p) = TRUE
<1>1. p # 0 => c.pos = p
  BY CursorIs DEF Finds
<1>2. QED
  BY <1>1 DEF Finds, Answers

LEMMA StepAnswers ==
  ASSUME NEW step \in GoodSteps, NEW p, StepAt(step, p)
  PROVE  Answers(step.found, step.cursor, p) = TRUE
<1>1. Answers(step.found, step.cursor, p)
  BY DEF StepAt, Answers
<1>2. step.found \in BOOLEAN
  BY DEF GoodSteps
<1>3. QED
  BY <1>1, <1>2 DEF Answers, Succeeded

-----------------------------------------------------------------------------
(* The cursor after a reset, a rewind or an entry *)

LEMMA StartSucceeds ==
  ASSUME NEW c \in Cursors, NEW v, Succeeded(c)
  PROVE  Succeeded(Start(c, v))
<1>1. Succeeded(Consumed(c))
  BY DEF Succeeded, Consumed, Cursors
<1>2. QED
  BY <1>1 DEF Start, Started, Descended, Consumed, Succeeded, Cursors

LEMMA AtMemberZero ==
  ASSUME doc \in Inputs, NEW a \in GoodContainers
  PROVE  /\ MemberCursor(a, 0) \in Cursors /\ Succeeded(MemberCursor(a, 0))
         /\ ResetTo(MemberCursor(a, 0), a) = MemberCursor(a, 0)
<1>1. a \in OpenContainers /\ 0 \in Nat
  BY GoodContainerMeans
<1>2. MemberCursor(a, 0) \in Cursors /\ Succeeded(MemberCursor(a, 0))
  BY <1>1, MemberPlaces, MemberCursorOpen
<1>3. QED
  BY <1>1, <1>2, ResetsToFirst

LEMMA Resets ==
  ASSUME doc \in Inputs, NEW c \in GoodCursors, Succeeded(c), NEW a \in GoodContainers
  PROVE  /\ ResetTo(c, a) = MemberCursor(a, 0)
         /\ ResetTo(Start(c, a), a) = MemberCursor(a, 0)
         /\ Start(Rewound(c), Root) = MemberCursor(Root, 0)
         /\ MemberCursor(a, 0) \in GoodCursors
<1>1. a \in OpenContainers /\ Place(a.start) /\ c \in Cursors
  BY GoodContainerMeans, GoodMeans
<1>2. ResetTo(c, a) = MemberCursor(a, 0) /\ ResetTo(c, a) \in GoodCursors
  BY <1>1, ResetsToFirst, GoodResetTo
<1>3. Start(c, a) \in GoodCursors /\ Succeeded(Start(c, a))
  BY <1>1, GoodStart, StartSucceeds
<1>4. ResetTo(Start(c, a), a) = MemberCursor(a, 0)
  BY <1>1, <1>3, GoodMeans, ResetsToFirst
<1>5. Rewound(c) = Cur(Root.start, Root.depth) /\ Rewound(c) \in Cursors
  <2>1. c = Cur(c.pos, c.depth)
    BY <1>1, CursorIs
  <2>2. Rewound(c) = CurTo(c, Root.start, Root.depth)
    BY DEF Rewound, MovedTo, CurTo
  <2>3. QED
    BY <2>1, <2>2, CurMoves, GoodRewound, GoodMeans
<1>6. Start(Rewound(c), Root) = MemberCursor(Root, 0)
  BY <1>5, RootIsOpen, StartsAtFirst
<1>7. QED
  BY <1>2, <1>4, <1>6

\* A value that the cursor is at is entered at its first member.
LEMMA Enters ==
  ASSUME doc \in Inputs, NEW c \in Cursors, Succeeded(c), NEW a \in GoodContainers,
         AtStart(c, a), c.depth = a.depth
  PROVE  c = Cur(a.start, a.depth) /\ Start(c, a) = MemberCursor(a, 0)
<1>1. c = Cur(a.start, a.depth)
  BY CursorIs DEF AtStart
<1>2. QED
  BY <1>1, GoodContainerMeans, StartsAtFirst

-----------------------------------------------------------------------------
(* Methods that stand for simdjson's *)

LEMMA RewindStaysRight ==
  ASSUME IInv, Rewind
  PROVE  StaysRight
<1>1. MoveTo(Rewound(cursor), "call") /\ UNCHANGED <<doc, values, containers, answered>>
  BY DEF Rewind
<1>2. Rewound(cursor) \in GoodCursors
  BY IInvMeans, GoodRewound
<1>3. QED
  BY <1>1, <1>2, IInvMeans, MoversAre, MoveToIsRight DEF StaysRight

LEMMA GetValueStaysRight ==
  ASSUME IInv, GetValue
  PROVE  StaysRight
<1>1. values' = values \cup {Root} /\ UNCHANGED <<doc, cursor, containers, loops, answered>>
  BY DEF GetValue, HoldValue
<1>2. Root \in GoodHandles
  BY IInvMeans, ContainerValues, GoodContainerMeans
<1>3. QED
  BY <1>1, <1>2 DEF IInv, StateIsRight, StaysRight

LEMMA GetContainerStaysRight ==
  ASSUME IInv, NEW v \in GoodHandles, GetContainer(v)
  PROVE  StaysRight
<1>1. /\ IsContainer(v) /\ MoveTo(Start(cursor, v), "call")
      /\ containers' = containers \cup {v} /\ UNCHANGED <<doc, values, answered>>
  BY DEF GetContainer, HoldContainer
<1>2. v \in GoodContainers
  BY <1>1, IInvMeans, ContainerValues
<1>3. Start(cursor, v) \in GoodCursors
  BY <1>2, IInvMeans, GoodContainerMeans, GoodStart
<1>4. values' \subseteq GoodHandles /\ containers' \subseteq GoodContainers
  BY <1>1, <1>2, IInvMeans
<1>5. QED
  BY <1>1, <1>3, <1>4, IInvMeans, MoversAre, MoveToIsRight DEF StaysRight

LEMMA ResetStaysRight ==
  ASSUME IInv, NEW a \in GoodContainers, Reset(a)
  PROVE  StaysRight
<1>1. MoveTo(ResetTo(cursor, a), "call") /\ UNCHANGED <<doc, values, containers, answered>>
  BY DEF Reset
<1>2. ResetTo(cursor, a) \in GoodCursors
  BY IInvMeans, GoodContainerMeans, GoodResetTo
<1>3. QED
  BY <1>1, <1>2, IInvMeans, MoversAre, MoveToIsRight DEF StaysRight

LEMMA CountMembersStaysRight ==
  ASSUME IInv, NEW a \in GoodContainers, CountMembers(a)
  PROVE  StaysRight
<1>1. MoveTo(Counted(cursor, a), "call") /\ UNCHANGED <<doc, values, containers, answered>>
  BY DEF CountMembers
<1>2. Counted(cursor, a) \in GoodCursors
  BY IInvMeans, GoodContainerMeans, GoodCounted
<1>3. QED
  BY <1>1, <1>2, IInvMeans, MoversAre, MoveToIsRight DEF StaysRight

LEMMA CountMembersOfValueStaysRight ==
  ASSUME IInv, NEW v \in GoodHandles, CountMembersOfValue(v)
  PROVE  StaysRight
<1> DEFINE c == Counted(Start(cursor, v), v)
<1>1. /\ IsContainer(v) /\ MoveTo(MovedUnlessFailed(c, v), "call")
      /\ UNCHANGED <<doc, values, containers, answered>>
  BY DEF CountMembersOfValue
<1>2. v \in GoodContainers
  BY <1>1, IInvMeans, ContainerValues
<1>3. c \in GoodCursors
  BY <1>2, IInvMeans, GoodContainerMeans, GoodStart, GoodCounted
<1> HIDE DEF c
<1>4. MovedUnlessFailed(c, v) \in GoodCursors
  BY <1>3, IInvMeans, GoodMovedTo DEF MovedUnlessFailed
<1>5. QED
  BY <1>1, <1>4, IInvMeans, MoversAre, MoveToIsRight DEF StaysRight

LEMMA ArrayAtStaysRight ==
  ASSUME IInv, NEW a \in GoodContainers, NEW index \in Nat, ArrayAt(a, index)
  PROVE  StaysRight
<1>1. LookUp(At(cursor, a, index), a, "call") /\ UNCHANGED answered
  BY DEF ArrayAt
<1>2. At(cursor, a, index) \in GoodCursors
  BY IInvMeans, GoodContainerMeans, GoodAt
<1>3. QED
  BY <1>1, <1>2, IInvMeans, MoversAre, LookUpIsRight DEF StaysRight

LEMMA ValueAtStaysRight ==
  ASSUME IInv, NEW v \in GoodContainers, NEW index \in Nat, ValueAt(v, index)
  PROVE  StaysRight
<1>1. LookUp(At(Start(cursor, v), v, index), v, "call") /\ UNCHANGED answered
  BY DEF ValueAt
<1>2. At(Start(cursor, v), v, index) \in GoodCursors
  BY IInvMeans, GoodContainerMeans, GoodStart, GoodAt
<1>3. QED
  BY <1>1, <1>2, IInvMeans, MoversAre, LookUpIsRight DEF StaysRight

LEMMA GetScalarStaysRight ==
  ASSUME IInv, NEW v \in GoodHandles, GetScalar(v)
  PROVE  StaysRight
<1> DEFINE c == [Consumed(cursor) EXCEPT !.depth = v.depth - 1]
<1>1. /\ IsScalar(v) /\ AtStart(cursor, v) /\ MoveTo(c, "call")
      /\ UNCHANGED <<doc, values, containers, answered>>
  BY DEF GetScalar
<1>2. Token(cursor.pos) \notin Openers
  BY <1>1 DEF IsScalar, AtStart
<1>3. v.depth - 1 \in Nat
  BY DEF GoodHandles, Handles
<1>4. c \in GoodCursors
  BY <1>2, <1>3, IInvMeans, GoodConsumed, GoodDepth
<1> HIDE DEF c
<1>5. QED
  BY <1>1, <1>4, IInvMeans, MoversAre, MoveToIsRight DEF StaysRight

\* The text of a container, from a cursor that can skip it if it is judged.
LEMMA RawJsonStaysRight ==
  ASSUME IInv, NEW c \in GoodCursors, NEW a \in GoodContainers, NEW judged,
         judged => CanSkip(a, c), RawJson(c, a, judged)
  PROVE  StaysRight
<1> DEFINE after == SkipChild(c, a.depth - 1)
<1>1. /\ MoveTo(Abandoned(after), "call")
      /\ answered' = (judged => Succeeded(after) /\ after.pos = Closing(a) + 1)
      /\ UNCHANGED <<doc, values, containers>>
  BY DEF RawJson, Text
<1>2. doc \in Inputs /\ a \in OpenContainers
  BY IInvMeans, GoodContainerMeans
<1>3. after \in GoodCursors /\ Abandoned(after) \in GoodCursors
  BY <1>2, GoodContainerMeans, GoodSkipChild, GoodErrors
<1>4. ASSUME judged PROVE Succeeded(after) /\ after.pos = Closing(a) + 1
  <2>1. after = Cur(Close(a.start) + 1, a.depth - 1)
    BY <1>2, <1>4, SkipsContainer
  <2> HIDE DEF after
  <2>2. Closing(a) = Close(a.start)
    BY <1>2, OpenContainerMeans
  <2>3. QED
    BY <2>1, <2>2, CursorIs
<1> HIDE DEF after
<1>5. answered' = TRUE
  BY <1>1, <1>4
<1>6. QED
  BY <1>1, <1>3, <1>5, IInvMeans, MoversAre, MoveToIsRight DEF StaysRight

LEMMA ContainerRawJsonStaysRight ==
  ASSUME IInv, NEW a \in GoodContainers, ContainerRawJson(a)
  PROVE  StaysRight
<1>1. RawJson(cursor, a, AtValue(a) \/ Within(cursor, a))
  BY DEF ContainerRawJson
<1>2. Succeeded(cursor) /\ doc \in Inputs /\ cursor \in Cursors /\ a \in OpenContainers
      /\ cursor \in GoodCursors
  BY <1>1, IInvMeans, GoodContainerMeans DEF RawJson, Text, MoveTo
<1>3. ASSUME AtValue(a) PROVE CanSkip(a, cursor)
  BY <1>2, <1>3, Enters DEF AtValue, CanSkip
<1>4. ASSUME Within(cursor, a) PROVE CanSkip(a, cursor)
  BY <1>2, <1>4, WithinCanSkip
<1>5. QED
  BY <1>1, <1>2, <1>3, <1>4, RawJsonStaysRight

LEMMA ValueRawJsonStaysRight ==
  ASSUME IInv, NEW v \in GoodHandles, ValueRawJson(v)
  PROVE  StaysRight
<1>1. IsContainer(v) /\ RawJson(Start(cursor, v), v, AtValue(v))
  BY DEF ValueRawJson
<1>2. v \in GoodContainers /\ Succeeded(cursor) /\ cursor \in Cursors /\ doc \in Inputs
  BY <1>1, IInvMeans, ContainerValues DEF RawJson, Text, MoveTo
<1>3. Start(cursor, v) \in GoodCursors
  BY <1>2, IInvMeans, GoodContainerMeans, GoodStart
<1>4. ASSUME AtValue(v) PROVE CanSkip(v, Start(cursor, v))
  <2>1. Start(cursor, v) = MemberCursor(v, 0)
    BY <1>2, <1>4, Enters DEF AtValue
  <2>2. QED
    BY <1>2, <2>1, GoodContainerMeans, EnteredCanSkip
<1>5. QED
  BY <1>1, <1>2, <1>3, <1>4, RawJsonStaysRight

-----------------------------------------------------------------------------
(* Python's protocols *)

LEMMA GetItemStaysRight ==
  ASSUME IInv, NEW a \in GoodContainers, IsArray(a), NEW index \in Nat,
         NEW c, c = MemberCursor(a, 0), GetItem(c, a, index)
  PROVE  StaysRight
<1> DEFINE after == At(c, a, index)
           p == MemberAt(a.start, index)
<1>1. LookUp(after, a, "call") /\ answered' = Answers(Found(after, a), after, p)
  BY DEF GetItem, Subscript
<1>2. doc \in Inputs /\ a \in OpenContainers /\ a \in GoodHandles /\ Succeeded(cursor)
      /\ cursor \in GoodCursors
  BY <1>1, IInvMeans, GoodContainerMeans DEF LookUp, MoveTo
<1>3. ~ Keyed(a.start)
  BY <1>2, OpenContainerMeans
<1>4. Finds(after, a, p)
  BY <1>2, <1>3, AtFinds
<1>5. after \in GoodCursors
  BY <1>2, Resets, GoodAt
<1> HIDE DEF after, p
<1>6. Answers(Found(after, a), after, p) = TRUE
  BY <1>4, FindsAnswers
<1>7. QED
  BY <1>1, <1>5, <1>6, MoversAre, LookUpIsRight DEF StaysRight

LEMMA ArrayGetItemStaysRight ==
  ASSUME IInv, NEW a \in GoodContainers, IsArray(a), NEW index \in Nat,
         ArrayGetItem(a, index) \/ ValueGetItem(a, index)
  PROVE  StaysRight
<1>1. GetItem(ResetTo(cursor, a), a, index) \/ GetItem(ResetTo(Start(cursor, a), a), a, index)
  BY DEF ArrayGetItem, ValueGetItem
<1>2. doc \in Inputs /\ Succeeded(cursor) /\ cursor \in GoodCursors
  BY <1>1, IInvMeans DEF GetItem, Subscript, LookUp, MoveTo
<1>3. /\ ResetTo(cursor, a) = MemberCursor(a, 0)
      /\ ResetTo(Start(cursor, a), a) = MemberCursor(a, 0)
  BY <1>2, Resets
<1>4. QED
  BY <1>1, <1>3, GetItemStaysRight

LEMMA DocumentGetItemStaysRight ==
  ASSUME IInv, IsArray(Root), NEW index \in Nat, DocumentGetItem(index)
  PROVE  StaysRight
<1>1. GetItem(Start(Rewound(cursor), Root), Root, index)
  BY DEF DocumentGetItem
<1>2. doc \in Inputs /\ Succeeded(cursor) /\ cursor \in GoodCursors /\ Root \in GoodContainers
  BY <1>1, IInvMeans, ContainerValues DEF GetItem, Subscript, LookUp, MoveTo
<1>3. Start(Rewound(cursor), Root) = MemberCursor(Root, 0)
  BY <1>2, Resets
<1>4. QED
  BY <1>1, <1>2, <1>3, GetItemStaysRight

\* A length, counted from the first member, after which the cursor goes to `after`.
LEMMA LengthStaysRight ==
  ASSUME IInv, NEW a \in GoodContainers, NEW c, c = MemberCursor(a, 0),
         NEW after \in GoodCursors, Succeeded(after), Length(c, a, after)
  PROVE  StaysRight
<1>1. /\ MoveTo(after, "call")
      /\ answered' = (Succeeded(after) /\ Count(c, a) = Len(Members(a.start)))
      /\ UNCHANGED <<doc, values, containers>>
  BY DEF Length
<1>2. Count(c, a) = Len(Members(a.start))
  BY IInvMeans, GoodContainerMeans, CountsMembers DEF Size
<1>3. answered' = TRUE
  BY <1>1, <1>2
<1>4. QED
  BY <1>1, <1>3, IInvMeans, MoversAre, MoveToIsRight DEF StaysRight

LEMMA ContainerLenStaysRight ==
  ASSUME IInv, NEW a \in GoodContainers, ContainerLen(a) \/ ValueLen(a)
  PROVE  StaysRight
<1> DEFINE c == ResetTo(cursor, a)
           d == ResetTo(Start(cursor, a), a)
<1>1. Length(c, a, Counted(c, a)) \/ Length(d, a, Counted(d, a))
  BY DEF ContainerLen, ValueLen
<1>2. doc \in Inputs /\ Succeeded(cursor) /\ cursor \in GoodCursors /\ a \in OpenContainers
  BY <1>1, IInvMeans, GoodContainerMeans DEF Length, MoveTo
<1>3. c = MemberCursor(a, 0) /\ d = MemberCursor(a, 0) /\ MemberCursor(a, 0) \in GoodCursors
  BY <1>2, Resets
<1> HIDE DEF c, d
<1>4. Counted(c, a) = c /\ Counted(d, a) = d /\ Succeeded(c) /\ Succeeded(d)
  BY <1>2, <1>3, CountResets, AtMemberZero
<1>5. QED
  BY <1>1, <1>3, <1>4, LengthStaysRight

LEMMA DocumentLenStaysRight ==
  ASSUME IInv, DocumentLen
  PROVE  StaysRight
<1> DEFINE c == Start(Rewound(cursor), Root)
<1>1. Length(c, Root, Rewound(Counted(c, Root)))
  BY DEF DocumentLen
<1>2. doc \in Inputs /\ Succeeded(cursor) /\ cursor \in GoodCursors
      /\ Root \in GoodContainers /\ Root \in OpenContainers
  BY <1>1, IInvMeans, ContainerValues, GoodContainerMeans DEF Length, MoveTo
<1>3. c = MemberCursor(Root, 0) /\ MemberCursor(Root, 0) \in GoodCursors
  BY <1>2, Resets
<1> HIDE DEF c
<1>4. Counted(c, Root) = c /\ Succeeded(c)
  BY <1>2, <1>3, CountResets, AtMemberZero
<1>5. Rewound(c) \in GoodCursors
  BY <1>2, <1>3, GoodRewound
<1>6. Succeeded(Rewound(c))
  BY <1>3, <1>4 DEF Rewound, MovedTo, Succeeded, GoodCursors, Cursors
<1>7. QED
  BY <1>1, <1>2, <1>3, <1>4, <1>5, <1>6, LengthStaysRight

-----------------------------------------------------------------------------
(* Loops *)

LEMMA NewIteratorStaysRight ==
  ASSUME IInv, NEW a \in GoodContainers, NEW c, c = MemberCursor(a, 0),
         NEW gives \in {"elements", "keys", "fields"}, NEW mover \in Movers,
         NewIterator(c, a, gives, mover)
  PROVE  StaysRight
<1> DEFINE l == [container |-> a, gives |-> gives, yielded |-> << >>,
                 moved |-> {}, done |-> FALSE]
           ls == Moved(c, mover)
<1>1. /\ Usable /\ cursor' = c /\ loops' = Append(ls, l)
      /\ UNCHANGED <<doc, values, containers, answered>>
  BY DEF NewIterator
<1>2. doc \in Inputs /\ Succeeded(cursor) /\ cursor \in GoodCursors /\ a \in OpenContainers
      /\ a \in Handles
  BY <1>1, IInvMeans, GoodContainerMeans
<1>3. c \in GoodCursors
  BY <1>2, Resets
<1>4. l \in Loops
  BY <1>2 DEF Loops
<1>5. LoopIsRight(c, l)
  <2>1. l.container = a /\ l.yielded = << >> /\ l.done = FALSE
    OBVIOUS
  <2> HIDE DEF l
  <2>2. Len(l.yielded) = 0
    BY <2>1
  <2>3. Size(a.start) \in Nat
    BY <1>2, MembersOfContainer
  <2>4. LoopAlone(c, l)
    BY <2>1, <2>2, <2>3 DEF LoopAlone
  <2>5. QED
    BY <2>1, <2>4 DEF LoopIsRight
<1>6. /\ ls \in Seq(Loops) /\ DOMAIN ls = DOMAIN loops
      /\ \A k \in DOMAIN loops : LoopIsRight(c, ls[k])
  BY <1>3, MovedIsRight
<1> HIDE DEF l, ls
<1>7. loops' \in Seq(Loops) /\ \A k \in DOMAIN loops' : LoopIsRight(c, loops'[k])
  <2>1. Append(ls, l) \in Seq(Loops)
    BY <1>4, <1>6
  <2>2. ASSUME NEW k \in DOMAIN Append(ls, l) PROVE LoopIsRight(c, Append(ls, l)[k])
    <3>1. k \in 1 .. Len(ls) + 1 /\ Len(ls) \in Nat /\ DOMAIN ls = 1 .. Len(ls)
      BY <1>4, <1>6, <2>2
    <3>2. CASE k = Len(ls) + 1
      BY <1>5, <1>6, <3>2
    <3>3. CASE k # Len(ls) + 1
      <4>1. k \in DOMAIN ls
        BY <3>1, <3>3
      <4>2. Append(ls, l)[k] = ls[k]
        BY <1>6, <3>1, <4>1
      <4>3. QED
        BY <1>6, <4>1, <4>2
    <3>4. QED
      BY <3>2, <3>3
  <2>3. QED
    BY <1>1, <2>1, <2>2
<1>8. QED
  BY <1>1, <1>3, <1>7, IInvMeans DEF StaysRight, StateIsRight

LEMMA ContainerIterStaysRight ==
  ASSUME IInv, NEW a \in GoodContainers, ContainerIter(a) \/ ValueIter(a) \/ FieldsIter(a)
  PROVE  StaysRight
<1>1. \/ NewIterator(ResetTo(cursor, a), a, Given(a), "for")
      \/ NewIterator(ResetTo(Start(cursor, a), a), a, Given(a), "call")
      \/ NewIterator(ResetTo(cursor, a), a, "fields", "call")
  BY DEF ContainerIter, ValueIter, FieldsIter
<1>2. doc \in Inputs /\ Succeeded(cursor) /\ cursor \in GoodCursors
  BY <1>1, IInvMeans DEF NewIterator
<1>3. /\ ResetTo(cursor, a) = MemberCursor(a, 0)
      /\ ResetTo(Start(cursor, a), a) = MemberCursor(a, 0)
  BY <1>2, Resets
<1>4. Given(a) \in {"elements", "keys", "fields"} /\ "fields" \in {"elements", "keys", "fields"}
  BY DEF Given
<1>5. QED
  BY <1>1, <1>3, <1>4, MoversAre, NewIteratorStaysRight

LEMMA DocumentIterStaysRight ==
  ASSUME IInv, DocumentIter
  PROVE  StaysRight
<1>1. NewIterator(ResetTo(Start(Rewound(cursor), Root), Root), Root, Given(Root), "call")
  BY DEF DocumentIter
<1>2. doc \in Inputs /\ Succeeded(cursor) /\ cursor \in GoodCursors /\ Root \in GoodContainers
  BY <1>1, IInvMeans, ContainerValues DEF NewIterator
<1>3. ResetTo(Start(Rewound(cursor), Root), Root) = MemberCursor(Root, 0)
  BY <1>2, Resets, AtMemberZero
<1>4. Given(Root) \in {"elements", "keys", "fields"}
  BY DEF Given
<1>5. QED
  BY <1>1, <1>2, <1>3, <1>4, MoversAre, NewIteratorStaysRight

\* One loop goes on, and the others know that the cursor was moved.
LEMMA LoopGoesOn ==
  ASSUME IInv, NEW c \in GoodCursors, NEW k \in DOMAIN loops, NEW l \in Loops,
         LoopIsRight(c, l), cursor' = c,
         loops' = [Moved(c, "for") EXCEPT ![k] = l],
         values' \subseteq GoodHandles, containers' = containers
  PROVE  StateIsRight(cursor', values', containers', loops')
<1> DEFINE ls == Moved(c, "for")
<1>1. /\ ls \in Seq(Loops) /\ DOMAIN ls = DOMAIN loops
      /\ \A j \in DOMAIN loops : LoopIsRight(c, ls[j])
  BY MoversAre, MovedIsRight
<1> HIDE DEF ls
<1>2. [ls EXCEPT ![k] = l] \in Seq(Loops)
  BY <1>1
<1>3. \A j \in DOMAIN loops : LoopIsRight(c, [ls EXCEPT ![k] = l][j])
  BY <1>1
<1>4. DOMAIN [ls EXCEPT ![k] = l] = DOMAIN loops
  BY <1>1
<1>5. loops' = [ls EXCEPT ![k] = l]
  BY DEF ls
<1>6. QED
  BY <1>2, <1>3, <1>4, <1>5, IInvMeans DEF StateIsRight

\* What a loop alone has to give next.
LEMMA LoopAloneNext ==
  ASSUME doc \in Inputs, NEW l \in Loops, LoopIsRight(cursor, l), l.moved = {}
  PROVE  LET a == l.container
             n == Len(l.yielded)
         IN  /\ n \in Nat /\ cursor = MemberCursor(a, n)
             /\ IsOpen(cursor, a) <=> n < Size(a.start)
             /\ n < Size(a.start) =>
                  /\ cursor.pos = Members(a.start)[n + 1]
                  /\ Succeeded(Dereferenced(cursor, a))
                  /\ Increment(Dereferenced(cursor, a), a) = MemberCursor(a, n + 1)
<1> DEFINE a == l.container
           n == Len(l.yielded)
<1>1. a \in OpenContainers /\ cursor = MemberCursor(a, n)
  BY GoodContainerMeans DEF LoopIsRight, LoopAlone
<1>2. n \in Nat
  BY DEF Loops
<1> HIDE DEF a, n
<1>3. IsOpen(cursor, a) <=> n < Size(a.start)
  BY <1>1, <1>2, MemberCursorOpen
<1>4. ASSUME n < Size(a.start)
      PROVE  /\ cursor.pos = Members(a.start)[n + 1]
             /\ Succeeded(Dereferenced(cursor, a))
             /\ Increment(Dereferenced(cursor, a), a) = MemberCursor(a, n + 1)
  <2>1. cursor.pos = Members(a.start)[n + 1]
    BY <1>1, <1>4, CursorIs DEF MemberCursor
  <2>2. /\ Dereferenced(cursor, a) = Cur(Val(a.start, Members(a.start)[n + 1]), a.depth + 1)
        /\ InMember(a, Members(a.start)[n + 1], Dereferenced(cursor, a))
    BY <1>1, <1>2, <1>4, DereferencesMember
  <2>3. n + 1 \in 1 .. Size(a.start)
    BY <1>1, <1>2, <1>4, MembersOfContainer
  <2>4. Increment(Dereferenced(cursor, a), a) = MemberCursor(a, n + 1)
    BY <1>1, <2>2, <2>3, IncrementsToNext
  <2>5. QED
    BY <2>1, <2>2, <2>4, CursorIs
<1>5. QED
  BY <1>1, <1>2, <1>3, <1>4 DEF a, n

LEMMA StopIterationStaysRight ==
  ASSUME IInv, NEW k \in DOMAIN loops, StopIteration(k)
  PROVE  StaysRight
<1> DEFINE l == [loops[k] EXCEPT !.done = TRUE]
<1>1. /\ ~ IsOpen(cursor, loops[k].container) /\ loops' = [loops EXCEPT ![k] = l]
      /\ UNCHANGED <<doc, cursor, values, containers, answered>>
  BY DEF StopIteration
<1>2. loops \in Seq(Loops) /\ loops[k] \in Loops /\ LoopIsRight(cursor, loops[k])
      /\ doc \in Inputs
  BY IInvMeans
<1>3. /\ l \in Loops /\ l.container = loops[k].container /\ l.moved = loops[k].moved
      /\ l.yielded = loops[k].yielded
  BY <1>2 DEF Loops
<1>4. ASSUME loops[k].moved = {} PROVE LoopAlone(cursor, l)
  <2>1. Len(loops[k].yielded) \in Nat /\ ~ (Len(loops[k].yielded) < Size(l.container.start))
    BY <1>1, <1>2, <1>3, <1>4, LoopAloneNext
  <2>2. LoopAlone(cursor, loops[k])
    BY <1>2, <1>4 DEF LoopIsRight
  <2>3. l.container \in OpenContainers
    BY <1>2, <1>3, GoodContainerMeans DEF LoopIsRight
  <2>4. Size(l.container.start) \in Nat
    BY <1>2, <2>3, MembersOfContainer
  <2>5. Len(loops[k].yielded) <= Size(l.container.start)
    BY <1>3, <2>2 DEF LoopAlone
  <2>6. Len(l.yielded) = Size(l.container.start)
    BY <1>3, <2>1, <2>4, <2>5
  <2> HIDE DEF l
  <2>7. QED
    BY <1>3, <2>2, <2>6 DEF LoopAlone
<1> HIDE DEF l
<1>5. LoopIsRight(cursor, l)
  BY <1>2, <1>3, <1>4 DEF LoopIsRight
<1>6. loops' \in Seq(Loops) /\ \A j \in DOMAIN loops' : LoopIsRight(cursor, loops'[j])
  BY <1>1, <1>2, <1>3, <1>5, IInvMeans
<1>7. QED
  BY <1>1, <1>6, IInvMeans DEF StaysRight, StateIsRight

LEMMA RaiseErrorStaysRight ==
  ASSUME IInv, NEW k \in DOMAIN loops, RaiseError(k)
  PROVE  StaysRight
<1> DEFINE l == [loops[k] EXCEPT !.done = TRUE]
           a == loops[k].container
           after == Dereferenced(cursor, a)
<1>1. /\ IsOpen(cursor, a) /\ ~ Succeeded(after) /\ cursor' = after
      /\ loops' = [Moved(after, "for") EXCEPT ![k] = l]
      /\ UNCHANGED <<doc, values, containers, answered>>
  BY DEF RaiseError
<1>2. loops[k] \in Loops /\ LoopIsRight(cursor, loops[k]) /\ doc \in Inputs
      /\ cursor \in GoodCursors /\ a \in GoodHandles
  BY IInvMeans, GoodContainerMeans DEF LoopIsRight
<1>3. l \in Loops /\ l.container = a /\ l.moved = loops[k].moved
  BY <1>2 DEF Loops
<1>4. loops[k].moved # {}
  BY <1>1, <1>2, LoopAloneNext
<1>5. LoopIsRight(after, l)
  BY <1>2, <1>3, <1>4 DEF LoopIsRight
<1>6. after \in GoodCursors
  BY <1>2, GoodDereferenced
<1> HIDE DEF l, a, after
<1>7. StateIsRight(cursor', values', containers', loops')
  BY <1>1, <1>3, <1>5, <1>6, IInvMeans, LoopGoesOn
<1>8. QED
  BY <1>1, <1>7, IInvMeans DEF StaysRight

\* next(), whatever is made of the member.
LEMMA NextMemberStaysRight ==
  ASSUME IInv, NEW k \in DOMAIN loops, NextMember(k), values' \subseteq GoodHandles
  PROVE  StaysRight
<1> DEFINE a == loops[k].container
           n == Len(loops[k].yielded)
           moved == Increment(Dereferenced(cursor, a), a)
           l == [loops[k] EXCEPT !.yielded = Append(loops[k].yielded, cursor.pos)]
<1>1. /\ IsOpen(cursor, a) /\ cursor' = moved
      /\ loops' = [Moved(moved, "for") EXCEPT ![k] = l]
      /\ ~ loops[k].done /\ UNCHANGED <<doc, containers, answered>>
  BY DEF NextMember
<1>2. loops[k] \in Loops /\ LoopIsRight(cursor, loops[k]) /\ doc \in Inputs
      /\ cursor \in GoodCursors /\ a \in GoodHandles /\ a \in GoodContainers
      /\ cursor.pos \in Nat /\ a \in OpenContainers
  BY IInvMeans, GoodMeans, GoodContainerMeans DEF LoopIsRight
<1>3. /\ l \in Loops /\ l.container = a /\ l.moved = loops[k].moved
      /\ l.yielded = Append(loops[k].yielded, cursor.pos) /\ l.done = loops[k].done
  <2>1. loops[k].yielded \in Seq(Nat)
    BY <1>2 DEF Loops
  <2>2. Append(loops[k].yielded, cursor.pos) \in Seq(Nat)
    BY <1>2, <2>1
  <2>3. QED
    BY <1>2, <2>2 DEF Loops
<1>4. moved \in GoodCursors
  BY <1>2, GoodDereferenced, GoodIncrement
<1>5. ASSUME loops[k].moved = {} PROVE LoopAlone(moved, l)
  <2>1. n \in Nat /\ n < Size(a.start) /\ cursor.pos = Members(a.start)[n + 1]
        /\ moved = MemberCursor(a, n + 1)
    BY <1>1, <1>2, <1>5, LoopAloneNext
  <2>2. LoopAlone(cursor, loops[k])
    BY <1>2, <1>5 DEF LoopIsRight
  <2>3. \A i \in 1 .. n : loops[k].yielded[i] = Members(a.start)[i]
    BY <2>2 DEF LoopAlone
  <2>4. Size(a.start) \in Nat
    BY <1>2, MembersOfContainer
  <2>5. /\ Len(l.yielded) = n + 1 /\ l.yielded[n + 1] = cursor.pos
        /\ \A i \in 1 .. n : l.yielded[i] = loops[k].yielded[i]
    <3>1. loops[k].yielded \in Seq(Nat)
      BY <1>2 DEF Loops
    <3>2. QED
      BY <1>2, <1>3, <3>1
  <2> HIDE DEF a, n, moved, l
  <2>6. \A i \in 1 .. n + 1 : l.yielded[i] = Members(a.start)[i]
    BY <2>1, <2>3, <2>5
  <2>7. n + 1 <= Size(a.start)
    BY <2>1, <2>4
  <2>8. ~ l.done
    BY <1>1, <1>3
  <2>9. QED
    BY <1>3, <2>1, <2>5, <2>6, <2>7, <2>8 DEF LoopAlone
<1> HIDE DEF a, n, moved, l
<1>6. LoopIsRight(moved, l)
  BY <1>2, <1>3, <1>5 DEF LoopIsRight
<1>7. StateIsRight(cursor', values', containers', loops')
  BY <1>1, <1>3, <1>4, <1>6, LoopGoesOn
<1>8. QED
  BY <1>1, <1>7, IInvMeans DEF StaysRight

LEMMA NextValueStaysRight ==
  ASSUME IInv, NEW k \in DOMAIN loops, NextValue(k) \/ NextKey(k) \/ NextField(k)
  PROVE  StaysRight
<1> DEFINE a == loops[k].container
           at == Dereferenced(cursor, a)
<1>1. /\ NextMember(k)
      /\ \/ values' = values \cup {Child(cursor, a)} \/ values' = values
         \/ values' = values \cup {Child(at, a)}
  BY DEF NextValue, NextKey, NextField, HoldValue
<1>2. a \in GoodHandles /\ cursor \in GoodCursors /\ doc \in Inputs
  BY IInvMeans, GoodContainerMeans DEF LoopIsRight
<1>3. Child(cursor, a) \in GoodHandles /\ Child(at, a) \in GoodHandles
  BY <1>2, GoodDereferenced, GoodChild
<1> HIDE DEF a, at
<1>4. values' \subseteq GoodHandles
  BY <1>1, <1>3, IInvMeans
<1>5. QED
  BY <1>1, <1>4, NextMemberStaysRight

-----------------------------------------------------------------------------
(* Fields and pointers *)

LEMMA ObjectIsKeyed ==
  ASSUME doc \in Inputs, NEW o \in GoodContainers, IsObject(o)
  PROVE  o \in OpenContainers /\ Keyed(o.start) /\ o.start \in Nat
         /\ 1 \in 0 .. o.start + 1 /\ o.start \in 0 .. o.start + 1
<1>1. o \in OpenContainers /\ ~ IsArray(o)
  BY GoodContainerMeans DEF IsObject, IsArray
<1>2. Keyed(o.start) /\ o.start \in Nat
  BY <1>1, OpenContainerMeans
<1>3. QED
  BY <1>1, <1>2

\* A lookup that goes on from where the cursor is.
LEMMA ForwardLookUpStaysRight ==
  ASSUME IInv, NEW o \in GoodContainers, NEW after \in GoodCursors, NEW judged, NEW p,
         judged => Finds(after, o, p), ForwardLookUp(after, o, judged, p)
  PROVE  StaysRight
<1>1. /\ LookUp(after, o, "call")
      /\ answered' = (judged => Answers(Found(after, o), after, p))
  BY DEF ForwardLookUp
<1>2. judged => Answers(Found(after, o), after, p)
  BY FindsAnswers
<1>3. answered' = TRUE
  BY <1>1, <1>2
<1>4. QED
  BY <1>1, <1>3, MoversAre, LookUpIsRight DEF StaysRight

\* A cursor in the order of an object is where a lookup expects it.
LEMMA InOrderFinds ==
  ASSUME doc \in Inputs, NEW o \in GoodContainers, IsObject(o), cursor \in GoodCursors,
         Succeeded(cursor), InOrder(o), NEW key
  PROVE  /\ Finds(FindField(cursor, o, key), o, ValueOf(o, key, cursor.pos))
         /\ Finds(FindFieldUnordered(cursor, o, key), o, ValueOf(o, key, 1))
<1>1. o \in OpenContainers /\ Keyed(o.start) /\ cursor \in Cursors /\ Place(cursor.pos)
  BY ObjectIsKeyed, GoodMeans
<1>2. Within(cursor, o) /\ (cursor.pos \in ToSet(Members(o.start)) => AtFirstField(cursor, o))
  BY DEF InOrder
<1>3. QED
  BY <1>1, <1>2, FindsInOrder

LEMMA ObjectFindFieldStaysRight ==
  ASSUME IInv, NEW o \in GoodContainers, IsObject(o), NEW key,
         ObjectFindField(o, key) \/ ObjectFindFieldUnordered(o, key)
  PROVE  StaysRight
<1> DEFINE f == FindField(cursor, o, key)
           u == FindFieldUnordered(cursor, o, key)
           p == ValueOf(o, key, cursor.pos)
           q == ValueOf(o, key, 1)
<1>1. ForwardLookUp(f, o, InOrder(o), p) \/ ForwardLookUp(u, o, InOrder(o), q)
  BY DEF ObjectFindField, ObjectFindFieldUnordered
<1>2. doc \in Inputs /\ cursor \in GoodCursors /\ Succeeded(cursor)
  BY <1>1, IInvMeans DEF ForwardLookUp, LookUp, MoveTo
<1>3. f \in GoodCursors /\ u \in GoodCursors
  BY <1>2, GoodContainerMeans, GoodFindField
<1>4. InOrder(o) => Finds(f, o, p) /\ Finds(u, o, q)
  BY <1>2, InOrderFinds
<1> HIDE DEF f, u, p, q
<1>5. QED
  BY <1>1, <1>3, <1>4, ForwardLookUpStaysRight

\* A value is entered first, if the cursor is at it.
LEMMA ValueFindFieldStaysRight ==
  ASSUME IInv, NEW v \in GoodContainers, IsObject(v), NEW key,
         ValueFindField(v, key) \/ ValueFindFieldUnordered(v, key)
  PROVE  StaysRight
<1> DEFINE c == Resumed(v)
           f == FindField(c, v, key)
           u == FindFieldUnordered(c, v, key)
           p == ValueOf(v, key, cursor.pos)
           q == ValueOf(v, key, 1)
           judged == InOrder(v) \/ AtValue(v)
<1>1. ForwardLookUp(f, v, judged, p) \/ ForwardLookUp(u, v, judged, q)
  BY DEF ValueFindField, ValueFindFieldUnordered
<1>2. doc \in Inputs /\ cursor \in GoodCursors /\ Succeeded(cursor) /\ cursor \in Cursors
  BY <1>1, IInvMeans DEF ForwardLookUp, LookUp, MoveTo
<1>3. c \in GoodCursors
  BY <1>2, GoodContainerMeans, GoodStart DEF Resumed
<1> HIDE DEF c
<1>4. f \in GoodCursors /\ u \in GoodCursors
  BY <1>2, <1>3, GoodContainerMeans, GoodFindField
<1>5. ASSUME AtValue(v) PROVE Finds(f, v, p) /\ Finds(u, v, q)
  <2>1. AtStart(cursor, v) /\ cursor.depth = v.depth /\ cursor.pos = v.start
    BY <1>5 DEF AtValue, AtStart
  <2>2. c = MemberCursor(v, 0)
    BY <1>2, <2>1, Enters DEF c, Resumed
  <2>3. QED
    BY <1>2, <2>1, <2>2, ObjectIsKeyed, FindsFromFirst
<1>6. ASSUME InOrder(v) PROVE Finds(f, v, p) /\ Finds(u, v, q)
  <2>1. cursor.pos \in v.start + 1 .. Closing(v) + 1
    BY <1>6 DEF InOrder, Within
  <2>2. ~ AtStart(cursor, v)
    <3>1. v.start \in Nat
      BY <1>2, ObjectIsKeyed
    <3>2. QED
      BY <2>1, <3>1 DEF AtStart
  <2>3. c = cursor
    BY <2>2 DEF c, Resumed
  <2>4. QED
    BY <1>2, <1>6, <2>3, InOrderFinds
<1> HIDE DEF f, u, p, q
<1>7. QED
  BY <1>1, <1>4, <1>5, <1>6, ForwardLookUpStaysRight

\* Both kinds of lookup from the first field, whatever is done with the answer.
LEMMA FindsKey ==
  ASSUME doc \in Inputs, NEW o \in GoodContainers, IsObject(o), NEW key,
         NEW c, c = MemberCursor(o, 0), c \in GoodCursors
  PROVE  LET u == FindFieldUnordered(c, o, key)
         IN  u \in GoodCursors /\ Answers(Found(u, o), u, ValueOf(o, key, 1)) = TRUE
<1> DEFINE u == FindFieldUnordered(c, o, key)
<1>1. u \in GoodCursors
  BY GoodContainerMeans, GoodFindField
<1>2. Finds(u, o, ValueOf(o, key, 1))
  BY ObjectIsKeyed, FindsFromFirst
<1>3. Answers(Found(u, o), u, ValueOf(o, key, 1)) = TRUE
  BY <1>2, FindsAnswers
<1>4. QED
  BY <1>1, <1>3

LEMMA GetFieldStaysRight ==
  ASSUME IInv, NEW o \in GoodContainers, IsObject(o), NEW key,
         NEW c, c = MemberCursor(o, 0), GetField(c, o, key)
  PROVE  StaysRight
<1> DEFINE u == FindFieldUnordered(c, o, key)
<1>1. /\ LookUp(u, o, "call")
      /\ answered' = Answers(Found(u, o), u, ValueOf(o, key, 1))
  BY DEF GetField, Subscript
<1>2. doc \in Inputs /\ cursor \in GoodCursors /\ Succeeded(cursor)
  BY <1>1, IInvMeans DEF LookUp, MoveTo
<1>3. c \in GoodCursors
  BY <1>2, Resets
<1>4. u \in GoodCursors /\ Answers(Found(u, o), u, ValueOf(o, key, 1)) = TRUE
  BY <1>2, <1>3, FindsKey
<1> HIDE DEF u
<1>5. QED
  BY <1>1, <1>4, MoversAre, LookUpIsRight DEF StaysRight

LEMMA ObjectGetFieldStaysRight ==
  ASSUME IInv, NEW o \in GoodContainers, IsObject(o), NEW key,
         ObjectGetField(o, key) \/ ValueGetField(o, key)
  PROVE  StaysRight
<1>1. GetField(ResetTo(cursor, o), o, key) \/ GetField(ResetTo(Start(cursor, o), o), o, key)
  BY DEF ObjectGetField, ValueGetField
<1>2. doc \in Inputs /\ cursor \in GoodCursors /\ Succeeded(cursor)
  BY <1>1, IInvMeans DEF GetField, Subscript, LookUp, MoveTo
<1>3. /\ ResetTo(cursor, o) = MemberCursor(o, 0)
      /\ ResetTo(Start(cursor, o), o) = MemberCursor(o, 0)
  BY <1>2, Resets
<1>4. QED
  BY <1>1, <1>3, GetFieldStaysRight

LEMMA DocumentGetFieldStaysRight ==
  ASSUME IInv, IsObject(Root), NEW key, DocumentGetField(key)
  PROVE  StaysRight
<1>1. GetField(Start(Rewound(cursor), Root), Root, key)
  BY DEF DocumentGetField
<1>2. doc \in Inputs /\ cursor \in GoodCursors /\ Succeeded(cursor) /\ Root \in GoodContainers
  BY <1>1, IInvMeans, ContainerValues DEF GetField, Subscript, LookUp, MoveTo
<1>3. Start(Rewound(cursor), Root) = MemberCursor(Root, 0)
  BY <1>2, Resets
<1>4. QED
  BY <1>1, <1>2, <1>3, GetFieldStaysRight

LEMMA ObjectContainsStaysRight ==
  ASSUME IInv, NEW o \in GoodContainers, IsObject(o), NEW key, ObjectContains(o, key)
  PROVE  StaysRight
<1> DEFINE c == ResetTo(cursor, o)
           u == FindFieldUnordered(c, o, key)
<1>1. /\ MoveTo(u, "call") /\ answered' = Answers(Found(u, o), u, ValueOf(o, key, 1))
      /\ UNCHANGED <<doc, values, containers>>
  BY DEF ObjectContains, Told
<1>2. doc \in Inputs /\ cursor \in GoodCursors /\ Succeeded(cursor)
  BY <1>1, IInvMeans DEF MoveTo
<1>3. c = MemberCursor(o, 0) /\ c \in GoodCursors
  BY <1>2, Resets
<1> HIDE DEF c
<1>4. u \in GoodCursors /\ Answers(Found(u, o), u, ValueOf(o, key, 1)) = TRUE
  BY <1>2, <1>3, FindsKey
<1> HIDE DEF u
<1>5. QED
  BY <1>1, <1>4, IInvMeans, MoversAre, MoveToIsRight DEF StaysRight

\* keys() gives where every member starts.
LEMMA KeysAreMembers ==
  ASSUME doc \in Inputs, NEW o \in GoodContainers
  PROVE  KeysFrom(MemberCursor(o, 0), o) = Members(o.start)
<1> DEFINE c == MemberCursor(o, 0)
           n == Size(o.start)
           ms == Members(o.start)
<1>1. o \in OpenContainers /\ o.start \in 1 .. Len(doc)
  BY GoodContainerMeans, OpenContainerMeans
<1>2. Count(c, o) = n /\ n \in Nat
  BY <1>1, CountsMembers, MembersOfContainer
<1>3. ms \in Seq(Nat) /\ DOMAIN ms = 1 .. n
  BY <1>1, MembersAscend DEF Size
<1>4. ASSUME NEW k \in 1 .. n PROVE Rounds(c, o, k - 1).pos = ms[k]
  <2>1. k - 1 \in Nat /\ k - 1 < n /\ 0 + (k - 1) = k - 1 /\ (k - 1) + 1 = k /\ 0 \in Nat
    BY <1>2
  <2>2. Rounds(c, o, k - 1) = MemberCursor(o, k - 1)
    BY <1>1, <2>1, RoundsFurther
  <2>3. MemberCursor(o, k - 1).pos = ms[k]
    BY <2>1, CursorIs DEF MemberCursor
  <2>4. QED
    BY <2>2, <2>3
<1>5. KeysFrom(c, o) = [k \in 1 .. n |-> Rounds(c, o, k - 1).pos]
  BY <1>2 DEF KeysFrom
<1> HIDE DEF c, n, ms
<1>6. [k \in 1 .. n |-> Rounds(c, o, k - 1).pos] = [k \in 1 .. n |-> ms[k]]
  BY <1>4
<1>7. ms = [k \in 1 .. n |-> ms[k]]
  BY <1>3
<1>8. QED
  BY <1>5, <1>6, <1>7 DEF c, ms

LEMMA KeysStaysRight ==
  ASSUME IInv, NEW o \in GoodContainers, Keys(o)
  PROVE  StaysRight
<1> DEFINE c == ResetTo(cursor, o)
           d == Rounds(c, o, MaxRounds)
<1>1. /\ MoveTo(d, "call")
      /\ answered' = (Succeeded(cursor') /\ KeysFrom(c, o) = Members(o.start))
      /\ UNCHANGED <<doc, values, containers>>
  BY DEF Keys
<1>2. doc \in Inputs /\ cursor \in GoodCursors /\ Succeeded(cursor) /\ cursor' = d
      /\ o \in OpenContainers /\ o \in GoodHandles
  BY <1>1, IInvMeans, GoodContainerMeans DEF MoveTo
<1>3. c = MemberCursor(o, 0) /\ c \in GoodCursors
  BY <1>2, Resets
<1> HIDE DEF c
<1>4. d \in GoodCursors
  BY <1>2, <1>3, MaxRoundsNatural, GoodRounds
<1>5. Succeeded(d)
  <2>1. d = MemberCursor(o, Size(o.start)) /\ Size(o.start) \in Nat
    BY <1>2, <1>3, CountsMembers, MembersOfContainer
  <2>2. QED
    BY <1>2, <2>1, MemberCursorOpen
<1>6. KeysFrom(c, o) = Members(o.start)
  BY <1>2, <1>3, KeysAreMembers
<1> HIDE DEF d
<1>7. answered' = TRUE
  BY <1>1, <1>2, <1>5, <1>6
<1>8. QED
  BY <1>1, <1>4, <1>7, IInvMeans, MoversAre, MoveToIsRight DEF StaysRight

\* The paths asked for have a step.
IsPath(path) == path \in Seq(Nat) /\ Len(path) >= 1

LEMMA FunctionIsSequence ==
  ASSUME NEW S, NEW m \in Nat, NEW f \in [1 .. m -> S]
  PROVE  f \in Seq(S) /\ Len(f) = m
  OBVIOUS

LEMMA PointersArePaths ==
  ASSUME doc \in Inputs, NEW a \in GoodContainers, NEW path \in Pointers(a)
  PROVE  IsPath(path)
<1> DEFINE first == 0 .. Len(Members(a.start))
<1>1. path \in [1 .. 1 -> first] \/ path \in first \X {0, 1}
  BY ContainerValues DEF Pointers
<1>2. first \subseteq Nat
  OBVIOUS
<1> HIDE DEF first
<1>3. CASE path \in [1 .. 1 -> first]
  <2>1. path \in [1 .. 1 -> Nat]
    BY <1>2, <1>3
  <2>2. 1 \in Nat
    OBVIOUS
  <2>3. path \in Seq(Nat) /\ Len(path) = 1
    BY <2>1, <2>2, FunctionIsSequence
  <2>4. QED
    BY <2>3 DEF IsPath
<1>4. CASE path \in first \X {0, 1}
  <2>1. PICK x \in first, y \in {0, 1} : path = <<x, y>>
    BY <1>4
  <2>2. x \in Nat /\ y \in Nat
    BY <1>2
  <2>3. QED
    BY <2>1, <2>2 DEF IsPath
<1>5. QED
  BY <1>1, <1>3, <1>4

LEMMA PointerLookUpStaysRight ==
  ASSUME IInv, NEW a \in GoodContainers, NEW c \in GoodCursors, NEW path, IsPath(path),
         NEW judged, judged => c = MemberCursor(a, 0), PointerLookUp(c, a, path, judged)
  PROVE  StaysRight
<1> DEFINE step == AtPointer(c, a, path)
           p == PlaceOf(a.start, path)
<1>1. /\ MoveTo(step.cursor, "call")
      /\ values' = values \cup {step.value} \/ values' = values
      /\ answered' = (judged => Answers(step.found, step.cursor, p))
      /\ UNCHANGED <<doc, containers>>
  BY DEF PointerLookUp, Pointed, HoldValue
<1>2. doc \in Inputs /\ a \in OpenContainers
  BY IInvMeans, GoodContainerMeans
<1>3. step \in GoodSteps
  BY <1>2, GoodContainerMeans, GoodPointer DEF IsPath
<1>4. ASSUME judged PROVE StepAt(step, p)
  BY <1>2, <1>4, PointerFinds DEF IsPath
<1> HIDE DEF step, p
<1>5. step.cursor \in GoodCursors /\ step.value \in GoodHandles
  BY <1>3 DEF GoodSteps
<1>6. judged => Answers(step.found, step.cursor, p)
  BY <1>3, <1>4, StepAnswers
<1>7. answered' = TRUE
  BY <1>1, <1>6
<1>8. values' \subseteq GoodHandles /\ containers' \subseteq GoodContainers
  BY <1>1, <1>5, IInvMeans
<1>9. QED
  BY <1>1, <1>5, <1>7, <1>8, MoversAre, MoveToIsRight DEF StaysRight

LEMMA DocumentAtPointerStaysRight ==
  ASSUME IInv, NEW path, IsPath(path), DocumentAtPointer(path)
  PROVE  StaysRight
<1>1. PointerLookUp(Start(Rewound(cursor), Root), Root, path, TRUE)
  BY DEF DocumentAtPointer
<1>2. doc \in Inputs /\ Succeeded(cursor) /\ cursor \in GoodCursors /\ Root \in GoodContainers
  BY <1>1, IInvMeans, ContainerValues DEF PointerLookUp, Pointed, MoveTo
<1>3. /\ Start(Rewound(cursor), Root) = MemberCursor(Root, 0)
      /\ MemberCursor(Root, 0) \in GoodCursors
  BY <1>2, Resets
<1>4. QED
  BY <1>1, <1>2, <1>3, PointerLookUpStaysRight

LEMMA ContainerAtPointerStaysRight ==
  ASSUME IInv, NEW a \in GoodContainers, NEW path, IsPath(path), ContainerAtPointer(a, path)
  PROVE  StaysRight
<1>1. PointerLookUp(cursor, a, path, cursor = ResetTo(cursor, a))
  BY DEF ContainerAtPointer
<1>2. doc \in Inputs /\ Succeeded(cursor) /\ cursor \in GoodCursors
  BY <1>1, IInvMeans DEF PointerLookUp, Pointed, MoveTo
<1>3. ResetTo(cursor, a) = MemberCursor(a, 0)
  BY <1>2, Resets
<1>4. QED
  BY <1>1, <1>2, <1>3, PointerLookUpStaysRight

LEMMA ValueAtPointerStaysRight ==
  ASSUME IInv, NEW v \in GoodContainers, NEW path, IsPath(path), ValueAtPointer(v, path)
  PROVE  StaysRight
<1>1. PointerLookUp(Start(cursor, v), v, path, AtValue(v))
  BY DEF ValueAtPointer
<1>2. doc \in Inputs /\ Succeeded(cursor) /\ cursor \in GoodCursors /\ cursor \in Cursors
  BY <1>1, IInvMeans DEF PointerLookUp, Pointed, MoveTo
<1>3. Start(cursor, v) \in GoodCursors
  BY <1>2, GoodContainerMeans, GoodStart
<1>4. AtValue(v) => Start(cursor, v) = MemberCursor(v, 0)
  BY <1>2, Enters DEF AtValue
<1>5. QED
  BY <1>1, <1>3, <1>4, PointerLookUpStaysRight

-----------------------------------------------------------------------------
(* Every step *)

LEMMA IndexesAreNatural ==
  ASSUME NEW a, NEW index \in Indexes(a)
  PROVE  IsArray(a) /\ index \in Nat
<1>1. IsArray(a)
  BY DEF Indexes
<1>2. index \in 0 .. Len(Members(a.start))
  BY <1>1 DEF Indexes
<1>3. QED
  BY <1>1, <1>2

\* What a document, a container or a value is asked: one of them is where an index, a
\* key or a pointer is looked up.
LEMMA CursorNextStaysRight ==
  ASSUME IInv, CursorNext
  PROVE  StaysRight
<1>1. doc \in Inputs /\ Root \in GoodContainers /\ Root \in GoodHandles
      /\ containers \subseteq GoodContainers /\ values \subseteq GoodHandles
  BY IInvMeans, ContainerValues, GoodContainerMeans
<1>2. \A v \in GoodHandles : IsArray(v) => v \in GoodContainers
  BY <1>1, ContainerValues DEF IsContainer, IsArray, Openers
<1>3. CASE \/ Rewind \/ GetValue \/ DocumentGetContainer \/ DocumentCountMembers
           \/ DocumentRawJson \/ DocumentLen \/ DocumentIter
  <2>1. DocumentRawJson => ContainerRawJson(Root)
    BY DEF DocumentRawJson, ContainerRawJson
  <2>2. QED
    BY <1>1, <1>3, <2>1, RewindStaysRight, GetValueStaysRight, GetContainerStaysRight,
       CountMembersOfValueStaysRight, ContainerRawJsonStaysRight, DocumentLenStaysRight,
       DocumentIterStaysRight
    DEF DocumentGetContainer, DocumentCountMembers
<1>4. CASE \E index \in Indexes(Root) : DocumentGetItem(index) \/ DocumentAt(index)
  <2>1. PICK index \in Indexes(Root) : DocumentGetItem(index) \/ DocumentAt(index)
    BY <1>4
  <2>2. IsArray(Root) /\ index \in Nat
    BY IndexesAreNatural
  <2>3. QED
    BY <1>1, <2>1, <2>2, DocumentGetItemStaysRight, ValueAtStaysRight DEF DocumentAt
<1>5. ASSUME NEW a \in containers,
             \/ Reset(a) \/ CountMembers(a) \/ ContainerRawJson(a)
             \/ ContainerLen(a) \/ ContainerIter(a)
      PROVE  StaysRight
  BY <1>1, <1>5, ResetStaysRight, CountMembersStaysRight, ContainerRawJsonStaysRight,
     ContainerLenStaysRight, ContainerIterStaysRight
<1>6. ASSUME NEW a \in containers, NEW index \in Indexes(a),
             ArrayAt(a, index) \/ ArrayGetItem(a, index)
      PROVE  StaysRight
  <2>1. IsArray(a) /\ index \in Nat
    BY IndexesAreNatural
  <2>2. QED
    BY <1>1, <1>6, <2>1, ArrayAtStaysRight, ArrayGetItemStaysRight
<1>7. ASSUME NEW v \in values,
             \/ GetScalar(v) \/ GetContainer(v) \/ CountMembersOfValue(v) \/ ValueRawJson(v)
             \/ ValueLen(v) \/ ValueIter(v)
      PROVE  StaysRight
  <2>1. ValueLen(v) \/ ValueIter(v) => v \in GoodContainers
    BY <1>1, ContainerValues DEF ValueLen, ValueIter
  <2>2. QED
    BY <1>1, <1>7, <2>1, GetScalarStaysRight, GetContainerStaysRight,
       CountMembersOfValueStaysRight, ValueRawJsonStaysRight, ContainerLenStaysRight,
       ContainerIterStaysRight
<1>8. ASSUME NEW v \in values, NEW index \in Indexes(v),
             ValueGetItem(v, index) \/ ValueAt(v, index)
      PROVE  StaysRight
  <2>1. IsArray(v) /\ index \in Nat
    BY IndexesAreNatural
  <2>2. v \in GoodContainers
    BY <1>1, <1>2, <2>1
  <2>3. QED
    BY <1>8, <2>1, <2>2, ArrayGetItemStaysRight, ValueAtStaysRight
<1>9. ASSUME NEW k \in DOMAIN loops, StopIteration(k) \/ RaiseError(k) \/ NextValue(k)
      PROVE  StaysRight
  BY <1>9, StopIterationStaysRight, RaiseErrorStaysRight, NextValueStaysRight
<1>10. QED
  BY <1>3, <1>4, <1>5, <1>6, <1>7, <1>8, <1>9 DEF CursorNext

LEMMA ObjectNextStaysRight ==
  ASSUME IInv, ObjectNext
  PROVE  StaysRight
<1>1. doc \in Inputs /\ Root \in GoodContainers /\ Root \in GoodHandles
      /\ containers \subseteq GoodContainers /\ values \subseteq GoodHandles
  BY IInvMeans, ContainerValues, GoodContainerMeans
<1>2. \A v \in GoodHandles : IsObject(v) => v \in GoodContainers
  BY <1>1, ContainerValues DEF IsContainer, IsObject, Openers
<1>3. \A o, key : key \in KeysAsked(o) => IsObject(o)
  BY DEF KeysAsked
<1>4. ASSUME NEW key \in KeysAsked(Root),
             \/ DocumentGetField(key)
             \/ DocumentFindField(key) \/ DocumentFindFieldUnordered(key)
      PROVE  StaysRight
  BY <1>1, <1>3, <1>4, DocumentGetFieldStaysRight, ValueFindFieldStaysRight
  DEF DocumentFindField, DocumentFindFieldUnordered
<1>5. ASSUME NEW path \in Pointers(Root), DocumentAtPointer(path)
      PROVE  StaysRight
  BY <1>1, <1>5, PointersArePaths, DocumentAtPointerStaysRight
<1>6. ASSUME NEW o \in containers, NEW path \in Pointers(o), ContainerAtPointer(o, path)
      PROVE  StaysRight
  BY <1>1, <1>6, PointersArePaths, ContainerAtPointerStaysRight
<1>7. ASSUME NEW o \in containers, Keys(o) \/ FieldsIter(o)
      PROVE  StaysRight
  BY <1>1, <1>7, KeysStaysRight, ContainerIterStaysRight
<1>8. ASSUME NEW o \in containers, NEW key \in KeysAsked(o),
             \/ ObjectFindField(o, key) \/ ObjectFindFieldUnordered(o, key)
             \/ ObjectGetField(o, key) \/ ObjectContains(o, key)
      PROVE  StaysRight
  BY <1>1, <1>3, <1>8, ObjectFindFieldStaysRight, ObjectGetFieldStaysRight,
     ObjectContainsStaysRight
<1>9. ASSUME NEW v \in values, NEW path \in Pointers(v), ValueAtPointer(v, path)
      PROVE  StaysRight
  <2>1. v \in GoodContainers
    BY <1>1, <1>9, ContainerValues DEF ValueAtPointer
  <2>2. QED
    BY <1>1, <1>9, <2>1, PointersArePaths, ValueAtPointerStaysRight
<1>10. ASSUME NEW v \in values, NEW key \in KeysAsked(v),
              \/ ValueFindField(v, key) \/ ValueFindFieldUnordered(v, key)
              \/ ValueGetField(v, key)
       PROVE  StaysRight
  <2>1. IsObject(v) /\ v \in GoodContainers
    BY <1>1, <1>2, <1>3
  <2>2. QED
    BY <1>10, <2>1, ValueFindFieldStaysRight, ObjectGetFieldStaysRight
<1>11. ASSUME NEW k \in DOMAIN loops, NextKey(k) \/ NextField(k)
       PROVE  StaysRight
  BY <1>11, NextValueStaysRight
<1>12. QED
  BY <1>4, <1>5, <1>6, <1>7, <1>8, <1>9, <1>10, <1>11 DEF ObjectNext

-----------------------------------------------------------------------------
(* The theorems *)

LEMMA InitIsRight ==
  ASSUME Init
  PROVE  IInv
<1>1. doc \in Inputs /\ values = {} /\ containers = {} /\ loops = << >> /\ answered = TRUE
      /\ cursor = Cur(1, 1)
  BY DEF Init, Cur
<1>2. cursor \in GoodCursors
  <2>1. Place(1)
    BY <1>1, RootIsOpen DEF Root
  <2>2. cursor \in Cursors /\ cursor.pos = 1
    BY <1>1, CursorIs
  <2>3. QED
    BY <2>1, <2>2 DEF GoodCursors
<1>3. loops \in Seq(Loops) /\ DOMAIN loops = {}
  BY <1>1
<1>4. QED
  BY <1>1, <1>2, <1>3 DEF IInv, StateIsRight

LEMMA StutterKeeps ==
  ASSUME IInv, UNCHANGED vars
  PROVE  IInv'
<1>1. StaysRight
  BY DEF vars, IInv, StaysRight
<1>2. QED
  BY <1>1, IInvMeans, StaysRightKeeps

\* The invariant is kept by every call, whatever the program called before.
THEOREM OnDemandInvariant == Spec => []IInv
<1>1. Init => IInv
  BY InitIsRight
<1>2. IInv /\ [Next]_vars => IInv'
  <2>1. ASSUME IInv, Next PROVE IInv'
    <3>1. StaysRight
      BY <2>1, CursorNextStaysRight, ObjectNextStaysRight DEF Next
    <3>2. QED
      BY <2>1, <3>1, IInvMeans, StaysRightKeeps
  <2>2. QED
    BY <2>1, StutterKeeps
<1>3. QED
  BY <1>1, <1>2, PTL DEF Spec

\* Cursors, values, containers and loops have their types.
THEOREM OnDemandTypeOK == Spec => []TypeOK
<1>1. IInv => TypeOK
  <2>1. SUFFICES ASSUME IInv PROVE TypeOK
    OBVIOUS
  <2>2. values \subseteq Handles
    BY <2>1, IInvMeans DEF GoodHandles
  <2>3. containers \subseteq Handles /\ \A a \in containers : IsContainer(a)
    BY <2>1, IInvMeans, GoodContainerMeans, ContainerValues
  <2>4. QED
    BY <2>1, <2>2, <2>3, IInvMeans DEF TypeOK
<1>2. QED
  BY <1>1, OnDemandInvariant, PTL

\* Subscripts, lengths, `in`, keys() and document pointers are right wherever the cursor
\* was left; forward lookups, pointers and raw text are, from where reading the
\* container leaves it.
THEOREM OnDemandAnswersAreRight == Spec => []AnswersAreRight
<1>1. IInv => AnswersAreRight
  BY DEF IInv, AnswersAreRight
<1>2. QED
  BY <1>1, OnDemandInvariant, PTL

\* A loop that nothing else disturbs is given the members of its container, in order and
\* all of them.
THEOREM OnDemandLoopsAloneSeeTheirMembers == Spec => []LoopsAloneSeeTheirMembers
<1>1. IInv => LoopsAloneSeeTheirMembers
  <2>1. SUFFICES ASSUME IInv, NEW k \in DOMAIN loops, loops[k].moved = {}
        PROVE  /\ Usable
               /\ IsPrefix(loops[k].yielded, Members(loops[k].container.start))
               /\ loops[k].done => loops[k].yielded = Members(loops[k].container.start)
    BY DEF LoopsAloneSeeTheirMembers
  <2> DEFINE l == loops[k]
             ms == Members(l.container.start)
             n == Len(l.yielded)
  <2>2. l \in Loops /\ LoopIsRight(cursor, l) /\ l.container \in OpenContainers
        /\ doc \in Inputs
    BY <2>1, IInvMeans, GoodContainerMeans DEF LoopIsRight
  <2>3. LoopAlone(cursor, l)
    BY <2>1, <2>2 DEF LoopIsRight
  <2>4. n \in Nat /\ l.yielded \in Seq(Nat) /\ l.container.start \in 1 .. Len(doc)
    BY <2>2, OpenContainerMeans DEF Loops
  <2>5. ms \in Seq(Nat) /\ Len(ms) = Size(l.container.start) /\ Len(ms) \in Nat
    BY <2>2, <2>4, MembersAscend DEF Size
  <2>6. Usable
    <3>1. cursor = MemberCursor(l.container, n)
      BY <2>3 DEF LoopAlone
    <3>2. QED
      BY <2>2, <2>4, <3>1, MemberCursorOpen DEF Usable
  <2>7. n <= Len(ms) /\ (\A i \in 1 .. n : l.yielded[i] = ms[i]) /\ (l.done => n = Len(ms))
    BY <2>3, <2>5 DEF LoopAlone
  <2> HIDE DEF l, ms, n
  <2>8. IsPrefix(l.yielded, ms)
    BY <2>4, <2>5, <2>7 DEF IsPrefix, n
  <2>9. ASSUME l.done PROVE l.yielded = ms
    <3>1. l.yielded \in [1 .. n -> Nat] /\ ms \in [1 .. n -> Nat]
      <4>1. l.yielded \in [1 .. n -> Nat]
        BY <2>4 DEF n
      <4>2. n = Len(ms)
        BY <2>7, <2>9
      <4>3. QED
        BY <2>5, <4>1, <4>2
    <3>2. \A i \in 1 .. n : l.yielded[i] = ms[i]
      BY <2>7
    <3> HIDE DEF n
    <3>3. /\ l.yielded = [i \in 1 .. n |-> l.yielded[i]]
          /\ ms = [i \in 1 .. n |-> ms[i]]
      BY <3>1
    <3>4. [i \in 1 .. n |-> l.yielded[i]] = [i \in 1 .. n |-> ms[i]]
      BY <3>2
    <3>5. QED
      BY <3>3, <3>4
  <2>10. QED
    BY <2>6, <2>8, <2>9 DEF l, ms
<1>2. QED
  BY <1>1, OnDemandInvariant, PTL
=============================================================================
