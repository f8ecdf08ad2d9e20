--------------------------- MODULE JsonLookups_proofs ---------------------------
(***************************************************************************)
(* Two kinds of facts about the calls of JsonCursor, on a well-formed      *)
(* input of any size.  Whatever the program called before, a call leaves   *)
(* the cursor in the document, and never between the brackets of an empty  *)
(* container.  Called in order, an index, a key, a pointer or the text of  *)
(* a container finds what is there.                                        *)
(***************************************************************************)
EXTENDS JsonCursor_proofs

-----------------------------------------------------------------------------
(* Where cursors and handles can be *)

GoodCursors == {c \in Cursors : Place(c.pos)}
GoodHandles == {h \in Handles : Place(h.start) /\ h.depth >= 1}

LEMMA GoodMeans ==
  ASSUME doc \in Inputs, NEW c \in GoodCursors
  PROVE  /\ c \in Cursors /\ c.pos \in Nat /\ c.depth \in Nat /\ Place(c.pos)
         /\ c.pos \in 1 .. Len(doc) + 1
  BY DEF GoodCursors, Cursors, Place

\* What is after a token that does not open is a place.
LEMMA PlaceAfter ==
  ASSUME doc \in Inputs, NEW p \in 1 .. Len(doc), ~ Opens(p)
  PROVE  Place(p + 1)
<1>1. Len(doc) \in Nat
  BY DocLength
<1>2. (p + 1) - 1 = p /\ p + 1 \in 1 .. Len(doc) + 1
  BY <1>1
<1>3. QED
  BY <1>2 DEF Place

\* What the token at p is, is so of the input, if p is in it.
LEMMA PlaceOfToken ==
  ASSUME doc \in Inputs, NEW p
  PROVE  /\ Token(p) \in Openers <=> p \in 1 .. Len(doc) /\ Opens(p)
         /\ Token(p) \in Closers <=> p \in 1 .. Len(doc) /\ Shuts(p)
         /\ Token(p) = "," <=> p \in 1 .. Len(doc) /\ Comma(p)
         /\ Token(p) = ":" <=> p \in 1 .. Len(doc) /\ Colon(p)
<1>1. CASE p \in 1 .. Len(doc)
  BY <1>1, TokenIs DEF Opens, Shuts, Comma, Colon
<1>2. CASE p \notin 1 .. Len(doc)
  <2>1. Token(p) = "end"
    BY <1>2, TokenIs
  <2>2. QED
    BY <1>2, <2>1 DEF Openers, Closers
<1>3. QED
  BY <1>1, <1>2

LEMMA CloserShuts ==
  ASSUME NEW a
  PROVE  Closer(a) \in Closers
  BY DEF Closer, Closers

\* The cursor goes to a place, or to a depth, or is given an error.
LEMMA GoodPlace ==
  ASSUME doc \in Inputs, NEW c \in GoodCursors, NEW p, Place(p)
  PROVE  [c EXCEPT !.pos = p] \in GoodCursors /\ [c EXCEPT !.pos = p].depth = c.depth
<1>1. p \in Nat
  BY DEF Place
<1>2. QED
  BY <1>1 DEF GoodCursors, Cursors

LEMMA GoodDepth ==
  ASSUME doc \in Inputs, NEW c \in GoodCursors, NEW d \in Nat
  PROVE  [c EXCEPT !.depth = d] \in GoodCursors
  BY DEF GoodCursors, Cursors

LEMMA GoodMoves ==
  ASSUME doc \in Inputs, NEW c \in GoodCursors, NEW p, Place(p), NEW d \in Nat
  PROVE  CurTo(c, p, d) \in GoodCursors
<1>1. p \in Nat
  BY DEF Place
<1>2. QED
  BY <1>1 DEF GoodCursors, Cursors, CurTo

LEMMA GoodErrors ==
  ASSUME doc \in Inputs, NEW c \in GoodCursors
  PROVE  Failed(c) \in GoodCursors /\ Abandoned(c) \in GoodCursors
  BY DEF GoodCursors, Cursors, Failed, Abandoned

\* Anything but an opening bracket is consumed.
LEMMA GoodConsumed ==
  ASSUME doc \in Inputs, NEW c \in GoodCursors, Token(c.pos) \notin Openers
  PROVE  Consumed(c) \in GoodCursors /\ Consumed(c).depth = c.depth
<1>1. c.pos \in 1 .. Len(doc) + 1 /\ c \in Cursors /\ c.depth \in Nat
  BY GoodMeans
<1>2. Len(doc) \in Nat
  BY DocLength
<1>3. CASE c.pos > Len(doc)
  <2>1. Consumed(c) = [c EXCEPT !.pos = c.pos]
    BY <1>3 DEF Consumed
  <2>2. QED
    BY <2>1, GoodMeans, GoodPlace
<1>4. CASE ~ (c.pos > Len(doc))
  <2>1. c.pos \in 1 .. Len(doc)
    BY <1>1, <1>2, <1>4
  <2>2. ~ Opens(c.pos)
    BY <2>1, PlaceOfToken
  <2>3. Consumed(c) = [c EXCEPT !.pos = c.pos + 1]
    BY <1>4 DEF Consumed
  <2>4. Place(c.pos + 1)
    BY <2>1, <2>2, PlaceAfter
  <2>5. QED
    BY <2>3, <2>4, GoodPlace
<1>5. QED
  BY <1>3, <1>4

-----------------------------------------------------------------------------
(* Every call leaves a good cursor *)

\* After a closing bracket that was searched for.
LEMMA GoodCloses ==
  ASSUME doc \in Inputs, NEW c \in GoodCursors, NEW p \in 1 .. Len(doc) + 2,
         NEW n \in 1 .. Len(doc), NEW d \in Nat
  PROVE  ClosesAt(c, ClosesOf[doc][p][n], d) \in GoodCursors
<1> DEFINE r == ClosesOf[doc][p][n]
<1>1. CASE r = 0
  BY <1>1, GoodErrors DEF ClosesAt
<1>2. CASE r # 0
  <2>1. /\ r \in p .. Len(doc) /\ Nesting(doc, p, r) <= 0 - n
        /\ \A q \in p .. r - 1 : ~ (Nesting(doc, p, q) <= 0 - n)
    BY <1>2, ClosesAtFirst
  <2> HIDE DEF r
  <2>2. Len(doc) \in Nat
    BY DocLength
  <2>3. r \in 1 .. Len(doc) /\ r - 1 \in 0 .. Len(doc) /\ p - 1 \in 0 .. Len(doc)
        /\ r \in Nat /\ p \in Nat /\ n \in Nat /\ n >= 1
    BY <2>1, <2>2
  <2>4. Depth(r) \in Int /\ Depth(r - 1) \in Int /\ Depth(p - 1) \in Int
    BY <2>3, DepthOfDoc
  <2>5. Depth(r) - Depth(p - 1) <= 0 - n
    BY <2>1 DEF Nesting, Depth
  <2>6. Depth(r) < Depth(r - 1)
    <3>1. CASE r = p
      BY <2>3, <2>4, <2>5, <3>1
    <3>2. CASE r # p
      <4>1. r - 1 \in p .. r - 1
        BY <2>1, <2>3, <3>2
      <4>2. ~ (Depth(r - 1) - Depth(p - 1) <= 0 - n)
        BY <2>1, <4>1 DEF Nesting, Depth
      <4>3. QED
        BY <2>3, <2>4, <2>5, <4>2
    <3>3. QED
      BY <3>1, <3>2
  <2>7. ~ Opens(r)
    <3>1. Opens(r) => Depth(r) = Depth(r - 1) + 1
      BY <2>3, DepthOfDoc
    <3>2. QED
      BY <2>4, <2>6, <3>1
  <2>8. Place(r + 1)
    BY <2>3, <2>7, PlaceAfter
  <2>9. ClosesAt(c, r, d) = CurTo(c, r + 1, d)
    BY <1>2 DEF ClosesAt, CurTo, r
  <2>10. QED
    BY <2>8, <2>9, GoodMoves DEF r
<1>3. QED
  BY <1>1, <1>2

LEMMA GoodSkipChild ==
  ASSUME doc \in Inputs, NEW c \in GoodCursors, NEW d \in Nat
  PROVE  SkipChild(c, d) \in GoodCursors
<1>1. Len(doc) \in Nat /\ c.pos \in 1 .. Len(doc) + 1 /\ c.depth \in Nat
  BY DocLength, GoodMeans
<1>2. Past(c) \in Int
  <2>1. Past(c) = c.depth \/ Past(c) = c.depth - 1
    BY DEF Past
  <2>2. QED
    BY <1>1, <2>1
<1>3. CASE c.depth <= d
  BY <1>3 DEF SkipChild
<1>4. CASE ~ (c.depth <= d) /\ Past(c) <= d
  <2>1. Token(c.pos) \notin Openers
    BY <1>1, <1>4 DEF Past
  <2>2. Consumed(c) \in GoodCursors /\ Consumed(c).depth = c.depth
    BY <2>1, GoodConsumed
  <2>3. c.depth - 1 \in Nat
    BY <1>1, <1>4
  <2>4. SkipChild(c, d) = [Consumed(c) EXCEPT !.depth = c.depth - 1]
    BY <1>4, <2>2 DEF SkipChild
  <2>5. QED
    BY <2>2, <2>3, <2>4, GoodDepth
<1>5. CASE ~ (c.depth <= d) /\ ~ (Past(c) <= d) /\ Past(c) - d > Len(doc)
  BY <1>5, GoodErrors DEF SkipChild
<1>6. CASE ~ (c.depth <= d) /\ ~ (Past(c) <= d) /\ ~ (Past(c) - d > Len(doc))
  <2>1. SkipChild(c, d) = ClosesAt(c, ClosesOf[doc][c.pos + 1][Past(c) - d], d)
    BY <1>6 DEF SkipChild
  <2>2. Past(c) - d \in 1 .. Len(doc) /\ c.pos + 1 \in 1 .. Len(doc) + 2
    BY <1>1, <1>2, <1>6
  <2>3. QED
    BY <2>1, <2>2, GoodCloses
<1>7. QED
  BY <1>3, <1>4, <1>5, <1>6

LEMMA GoodDescended ==
  ASSUME doc \in Inputs, NEW c \in GoodCursors, NEW a \in Handles
  PROVE  Descended(c, a) \in GoodCursors
<1>1. a.depth + 1 \in Nat
  BY DEF Handles
<1>2. QED
  BY <1>1, GoodDepth DEF Descended

LEMMA GoodHasNext ==
  ASSUME doc \in Inputs, NEW c \in GoodCursors, NEW a \in GoodHandles
  PROVE  HasNext(c, a) \in GoodCursors
<1>1. a \in Handles /\ a.depth - 1 \in Nat
  BY DEF GoodHandles, Handles
<1>2. ASSUME Token(c.pos) = "," \/ Token(c.pos) = Closer(a)
      PROVE  Consumed(c) \in GoodCursors
  <2>1. Token(c.pos) \notin Openers
    BY <1>2 DEF Closer, Openers
  <2>2. QED
    BY <2>1, GoodConsumed
<1>3. CASE ~ Succeeded(c)
  BY <1>3 DEF HasNext
<1>4. CASE Succeeded(c) /\ Token(c.pos) = ","
  <2>1. HasNext(c, a) = Descended(Consumed(c), a)
    BY <1>4 DEF HasNext, Closer
  <2>2. QED
    BY <1>1, <1>2, <1>4, <2>1, GoodDescended
<1>5. CASE Succeeded(c) /\ Token(c.pos) = Closer(a)
  <2>1. HasNext(c, a) = [Consumed(c) EXCEPT !.depth = a.depth - 1]
    BY <1>5 DEF HasNext, Closer
  <2>2. QED
    BY <1>1, <1>2, <1>5, <2>1, GoodDepth
<1>6. CASE Succeeded(c) /\ Token(c.pos) # "," /\ Token(c.pos) # Closer(a)
  BY <1>6, GoodErrors DEF HasNext
<1>7. QED
  BY <1>3, <1>4, <1>5, <1>6

LEMMA GoodIncrement ==
  ASSUME doc \in Inputs, NEW c \in GoodCursors, NEW a \in GoodHandles
  PROVE  Increment(c, a) \in GoodCursors
<1>1. a.depth \in Nat
  BY DEF GoodHandles, Handles
<1>2. QED
  BY <1>1, GoodSkipChild, GoodHasNext DEF Increment

LEMMA GoodDereferenced ==
  ASSUME doc \in Inputs, NEW c \in GoodCursors, NEW a \in GoodHandles
  PROVE  Dereferenced(c, a) \in GoodCursors
<1>1. a.depth + 1 \in Nat
  BY DEF GoodHandles, Handles
<1>2. Abandoned(c) \in GoodCursors /\ Abandoned(Failed(c)) \in GoodCursors
  BY GoodErrors
<1>3. ASSUME IsKey(c.pos) PROVE Place(c.pos + 2)
  <2>1. c.pos + 1 \in 1 .. Len(doc) /\ Colon(c.pos + 1)
    BY <1>3, PlaceOfToken DEF IsKey
  <2>2. ~ Opens(c.pos + 1)
    BY <2>1, Kinds
  <2>3. (c.pos + 1) + 1 = c.pos + 2
    BY GoodMeans
  <2>4. QED
    BY <2>1, <2>2, <2>3, PlaceAfter
<1>4. CASE Succeeded(c) /\ ~ IsArray(a) /\ IsKey(c.pos)
  <2>1. Dereferenced(c, a) = CurTo(c, c.pos + 2, a.depth + 1)
    BY <1>4 DEF Dereferenced, CurTo
  <2>2. QED
    BY <1>1, <1>3, <1>4, <2>1, GoodMoves
<1>5. CASE ~ (Succeeded(c) /\ ~ IsArray(a) /\ IsKey(c.pos))
  BY <1>2, <1>5 DEF Dereferenced
<1>6. QED
  BY <1>4, <1>5

LEMMA ContainersAreGood ==
  ASSUME doc \in Inputs, NEW a \in OpenContainers, Place(a.start)
  PROVE  a \in GoodHandles /\ a \in Handles
  BY DEF OpenContainers, GoodHandles

\* The containers are the values that start with a bracket.
LEMMA ContainersAreOpen ==
  ASSUME doc \in Inputs, NEW a \in GoodHandles, IsContainer(a)
  PROVE  a \in OpenContainers /\ Place(a.start)
<1>1. a.start \in 1 .. Len(doc) /\ Opens(a.start)
  BY PlaceOfToken DEF IsContainer
<1>2. QED
  BY <1>1 DEF OpenContainers, GoodHandles

LEMMA GoodStarted ==
  ASSUME doc \in Inputs, NEW c \in GoodCursors, NEW a \in GoodHandles
  PROVE  Started(c, a) \in GoodCursors
<1>1. a \in Handles /\ a.depth - 1 \in Nat
  BY DEF GoodHandles, Handles
<1>2. CASE Token(c.pos) = Closer(a)
  <2>1. Token(c.pos) \notin Openers
    BY <1>2 DEF Closer, Openers
  <2>2. Started(c, a) = [Consumed(c) EXCEPT !.depth = a.depth - 1]
    BY <1>2 DEF Started
  <2>3. QED
    BY <1>1, <2>1, <2>2, GoodConsumed, GoodDepth
<1>3. CASE Token(c.pos) # Closer(a)
  BY <1>1, <1>3, GoodDescended DEF Started
<1>4. QED
  BY <1>2, <1>3

\* An opening bracket that has been consumed: what follows is a member, or the bracket
\* that closes an empty container, which is consumed too.
LEMMA GoodEntry ==
  ASSUME doc \in Inputs, NEW a \in OpenContainers, Place(a.start),
         NEW c \in Cursors, c.pos = a.start + 1
  PROVE  Started(c, a) \in GoodCursors
<1> DEFINE o == a.start
<1>1. Len(doc) \in Nat
  BY DocLength
<1>2. o \in 1 .. Len(doc) /\ Opens(o) /\ Token(Close(o)) = Closer(a) /\ a.depth - 1 \in Nat
  BY OpenContainerMeans
<1>3. Close(o) \in o + 1 .. Len(doc) /\ Shuts(Close(o))
  BY <1>2, ContainerSpan
<1>4. CASE Close(o) = o + 1
  <2>1. Started(c, a) = [Consumed(c) EXCEPT !.depth = a.depth - 1]
    BY <1>2, <1>4 DEF Started
  <2>2. o + 1 \in 1 .. Len(doc) /\ ~ (o + 1 > Len(doc)) /\ ~ Opens(o + 1)
    BY <1>1, <1>2, <1>3, <1>4, Kinds
  <2>3. Consumed(c) = [c EXCEPT !.pos = (o + 1) + 1]
    BY <2>2 DEF Consumed
  <2>4. Place((o + 1) + 1)
    BY <2>2, PlaceAfter
  <2>5. Consumed(c) \in GoodCursors
    <3>1. (o + 1) + 1 \in Nat
      BY <2>4 DEF Place
    <3>2. QED
      BY <2>3, <2>4, <3>1 DEF GoodCursors, Cursors
  <2>6. QED
    BY <1>2, <2>1, <2>5, GoodDepth
<1>5. CASE Close(o) # o + 1
  <2>1. Begins(o + 1) /\ o + 1 \in 1 .. Len(doc)
    BY <1>2, <1>5, Grammar, MemberMeans
  <2>2. Place(o + 1)
    <3>1. ~ Shuts(o + 1) /\ o + 1 \in 1 .. Len(doc) + 1
      BY <1>1, <2>1, Kinds
    <3>2. QED
      BY <3>1 DEF Place
  <2>3. c \in GoodCursors
    BY <2>2 DEF GoodCursors
  <2>4. QED
    BY <2>3, ContainersAreGood, GoodStarted
<1>6. QED
  BY <1>4, <1>5

LEMMA GoodStart ==
  ASSUME doc \in Inputs, NEW a \in OpenContainers, Place(a.start), NEW c \in GoodCursors
  PROVE  Start(c, a) \in GoodCursors
<1>1. CASE AtStart(c, a)
  <2>1. Len(doc) \in Nat /\ a.start \in 1 .. Len(doc) /\ c.pos = a.start /\ c \in Cursors
    BY <1>1, DocLength, OpenContainerMeans, GoodMeans DEF AtStart
  <2>2. Consumed(c) = [c EXCEPT !.pos = a.start + 1]
    BY <2>1 DEF Consumed
  <2>3. Consumed(c) \in Cursors /\ Consumed(c).pos = a.start + 1
    <3>1. a.start + 1 \in Nat
      BY <2>1
    <3>2. QED
      BY <2>1, <2>2, <3>1 DEF Cursors
  <2>4. Start(c, a) = Started(Consumed(c), a)
    BY <1>1 DEF Start
  <2>5. QED
    BY <2>3, <2>4, GoodEntry
<1>2. CASE ~ AtStart(c, a)
  <2>1. Start(c, a) = Started(c, a)
    BY <1>2 DEF Start
  <2>2. QED
    BY <2>1, ContainersAreGood, GoodStarted
<1>3. QED
  BY <1>1, <1>2

LEMMA GoodResetTo ==
  ASSUME doc \in Inputs, NEW a \in OpenContainers, Place(a.start), NEW c \in GoodCursors
  PROVE  ResetTo(c, a) \in GoodCursors
<1> DEFINE d == CurTo(c, a.start + 1, a.depth)
<1>1. a.start + 1 \in Nat /\ a.depth \in Nat
  BY OpenContainerMeans
<1>2. d \in Cursors /\ d.pos = a.start + 1
  BY <1>1 DEF CurTo, GoodCursors, Cursors
<1>3. ResetTo(c, a) = Started(d, a)
  BY DEF ResetTo, CurTo
<1> HIDE DEF d
<1>4. QED
  BY <1>2, <1>3, GoodEntry

LEMMA GoodMovedTo ==
  ASSUME doc \in Inputs, NEW v \in GoodHandles, NEW c \in GoodCursors
  PROVE  MovedTo(c, v) \in GoodCursors
<1>1. MovedTo(c, v) = CurTo(c, v.start, v.depth)
  BY DEF MovedTo, CurTo
<1>2. Place(v.start) /\ v.depth \in Nat
  BY DEF GoodHandles, Handles
<1>3. QED
  BY <1>1, <1>2, GoodMoves

\* The document is itself a container.
LEMMA RootIsOpen ==
  ASSUME doc \in Inputs
  PROVE  Root \in OpenContainers /\ Place(Root.start) /\ IsContainer(Root)
<1>1. Len(doc) \in Nat /\ Len(doc) >= 2
  BY DocLength
<1>2. 1 \in 1 .. Len(doc) /\ 1 \in 1 .. Len(doc) + 1
  BY <1>1
<1>3. Opens(1)
  BY InputsAssumption DEF WellFormed, Opens
<1>4. Root \in Handles /\ Root.start = 1 /\ Root.depth >= 1
  BY DEF Root, Handles
<1>5. Token(1) \in Openers
  BY <1>2, <1>3, PlaceOfToken
<1>6. QED
  BY <1>2, <1>3, <1>4, <1>5 DEF OpenContainers, Place, IsContainer

LEMMA GoodRewound ==
  ASSUME doc \in Inputs, NEW c \in GoodCursors
  PROVE  Rewound(c) \in GoodCursors
<1>1. Root \in GoodHandles
  BY RootIsOpen, ContainersAreGood
<1>2. QED
  BY <1>1, GoodMovedTo DEF Rewound

LEMMA GoodRound ==
  ASSUME doc \in Inputs, NEW c \in GoodCursors, NEW a \in GoodHandles
  PROVE  Round(c, a) \in GoodCursors
  BY GoodDereferenced, GoodIncrement DEF Round

LEMMA GoodRounds ==
  ASSUME doc \in Inputs, NEW c \in GoodCursors, NEW a \in GoodHandles, NEW n \in Nat
  PROVE  Rounds(c, a, n) \in GoodCursors
<1>1. \A x \in GoodCursors : Round(x, a) \in GoodCursors
  BY GoodRound
<1>2. AreRounds(GoodCursors, c, a, n)
  BY <1>1, RoundsIterate
<1>3. PICK f \in [0 .. n -> GoodCursors] : Rounds(c, a, n) = f[n]
  BY <1>2 DEF AreRounds
<1>4. QED
  BY <1>3

LEMMA MaxRoundsNatural ==
  ASSUME doc \in Inputs
  PROVE  MaxRounds \in Nat
<1>1. Root.start \in 1 .. Len(doc) /\ Opens(Root.start)
  BY RootIsOpen, OpenContainerMeans
<1>2. QED
  BY <1>1, RoundsEnough

LEMMA GoodCounted ==
  ASSUME doc \in Inputs, NEW a \in OpenContainers, Place(a.start), NEW c \in GoodCursors
  PROVE  Counted(c, a) \in GoodCursors
<1>1. Rounds(c, a, MaxRounds) \in GoodCursors
  BY ContainersAreGood, MaxRoundsNatural, GoodRounds
<1>2. QED
  BY <1>1, GoodErrors, GoodResetTo DEF Counted, ResetOrAbandoned

LEMMA GoodAt ==
  ASSUME doc \in Inputs, NEW a \in GoodHandles, NEW c \in GoodCursors, NEW i \in Nat
  PROVE  At(c, a, i) \in GoodCursors
  BY GoodRounds, GoodErrors DEF At

LEMMA GoodScan ==
  ASSUME doc \in Inputs, NEW a \in GoodHandles, NEW c \in GoodCursors, NEW key
  PROVE  Scan(c, a, key) \in GoodCursors
<1> DEFINE n == MaxRounds
<1>1. \A x \in GoodCursors : RoundUnlessAt(x, a, key) \in GoodCursors
  BY GoodRound DEF RoundUnlessAt
<1>2. n \in Nat /\ n = MaxRounds
  BY MaxRoundsNatural
<1> HIDE DEF n
<1>3. AreScanned(GoodCursors, c, a, key, n)
  BY <1>1, <1>2, ScanIterates
<1>4. PICK f \in [0 .. n -> GoodCursors] : Scan(c, a, key) = Entered(f[n], a, key)
  BY <1>3 DEF AreScanned
<1>5. f[n] \in GoodCursors
  BY <1>2, <1>4
<1>6. Entered(f[n], a, key) \in GoodCursors
  BY <1>5, GoodDereferenced DEF Entered
<1>7. QED
  BY <1>4, <1>6

LEMMA GoodFindField ==
  ASSUME doc \in Inputs, NEW a \in OpenContainers, Place(a.start), NEW c \in GoodCursors,
         NEW key
  PROVE  /\ FindField(c, a, key) \in GoodCursors
         /\ FindFieldUnordered(c, a, key) \in GoodCursors
<1>1. a \in GoodHandles /\ a.depth \in Nat
  BY ContainersAreGood DEF Handles
<1>2. Abandoned(Increment(c, a)) \in GoodCursors
  BY <1>1, GoodIncrement, GoodErrors
<1>3. FindField(c, a, key) \in GoodCursors
  BY <1>1, <1>2, GoodScan DEF FindField
<1>4. /\ ResetTo(c, a) \in GoodCursors /\ Scan(ResetTo(c, a), a, key) \in GoodCursors
      /\ Scan(c, a, key) \in GoodCursors /\ SkipChild(c, a.depth) \in GoodCursors
  BY <1>1, GoodResetTo, GoodScan, GoodSkipChild
<1>5. FirstFound(FindField(c, a, key), Scan(ResetTo(c, a), a, key), SkipChild(c, a.depth), a)
        \in GoodCursors
  BY <1>3, <1>4 DEF FirstFound
<1>6. QED
  BY <1>3, <1>4, <1>5 DEF FindFieldUnordered

-----------------------------------------------------------------------------
(* Pointers *)

\* A value at a good cursor is a good handle.
LEMMA GoodChild ==
  ASSUME doc \in Inputs, NEW c \in GoodCursors, NEW a \in GoodHandles
  PROVE  Child(c, a) \in GoodHandles
<1>1. c.pos \in Nat /\ Place(c.pos) /\ a.depth \in Nat
  BY GoodMeans DEF GoodHandles, Handles
<1>2. a.depth + 1 \in Nat /\ a.depth + 1 >= 1
  BY <1>1
<1>3. QED
  BY <1>1, <1>2 DEF Child, GoodHandles, Handles

\* What a pointer's steps come to.
GoodSteps == [cursor : GoodCursors, value : GoodHandles, found : BOOLEAN]

LEMMA GoodStepped ==
  ASSUME doc \in Inputs, NEW a \in OpenContainers, Place(a.start), NEW c \in GoodCursors,
         NEW i \in Nat
  PROVE  Stepped(c, a, i) \in GoodSteps
<1>1. a \in GoodHandles
  BY ContainersAreGood
<1>2. ASSUME NEW d \in GoodCursors PROVE Step(d, a) \in GoodSteps
  <2>1. Child(d, a) \in GoodHandles
    BY <1>1, GoodChild
  <2>2. Found(d, a) \in BOOLEAN
    BY DEF Found, Succeeded, IsOpen
  <2>3. QED
    BY <2>1, <2>2 DEF Step, GoodSteps
<1>3. At(c, a, i) \in GoodCursors /\ FindField(c, a, KeyAt(a, i)) \in GoodCursors
  BY <1>1, GoodAt, GoodFindField
<1>4. QED
  BY <1>2, <1>3 DEF Stepped

LEMMA GoodFurther ==
  ASSUME doc \in Inputs, NEW step \in GoodSteps, NEW i \in Nat
  PROVE  Further(step, i) \in GoodSteps
<1>1. step.cursor \in GoodCursors /\ step.value \in GoodHandles
  BY DEF GoodSteps
<1>2. CASE step.found /\ IsContainer(step.value)
  <2>1. step.value \in OpenContainers /\ Place(step.value.start)
    BY <1>1, <1>2, ContainersAreOpen
  <2>2. Start(step.cursor, step.value) \in GoodCursors
    BY <1>1, <2>1, GoodStart
  <2>3. QED
    BY <1>2, <2>1, <2>2, GoodStepped DEF Further
<1>3. CASE ~ (step.found /\ IsContainer(step.value))
  <2>1. Further(step, i) = [step EXCEPT !.found = FALSE]
    BY <1>3 DEF Further
  <2>2. QED
    BY <2>1 DEF GoodSteps
<1>4. QED
  BY <1>2, <1>3

\* A pointer's steps: the first from the container, each other from the one before.
PointerSteps(c, a, path, n, f) ==
  f = [k \in 1 .. n |-> IF k = 1 THEN Stepped(c, a, path[1]) ELSE Further(f[k - 1], path[k])]

LEMMA PointerStepsExist ==
  ASSUME NEW c, NEW a, NEW path, NEW n \in Nat
  PROVE  \E f : PointerSteps(c, a, path, n, f)
<1> DEFINE S == {m \in Nat : \E f : PointerSteps(c, a, path, m, f)}
<1>1. 0 \in S
  <2> DEFINE f == [k \in 1 .. 0 |-> Stepped(c, a, path[1])]
  <2>1. PointerSteps(c, a, path, 0, f)
    BY DEF PointerSteps
  <2>2. QED
    BY <2>1
<1>2. ASSUME NEW m \in Nat, m \in S PROVE m + 1 \in S
  <2>1. PICK f : PointerSteps(c, a, path, m, f)
    BY <1>2
  <2> DEFINE g == [k \in 1 .. m + 1 |-> IF k = 1 THEN Stepped(c, a, path[1])
                                        ELSE IF k = m + 1 THEN Further(f[m], path[m + 1])
                                        ELSE f[k]]
  <2>2. \A k \in 1 .. m : f[k] = IF k = 1 THEN Stepped(c, a, path[1])
                                 ELSE Further(f[k - 1], path[k])
    BY <2>1 DEF PointerSteps
  <2>3. ASSUME NEW k \in 1 .. m PROVE g[k] = f[k]
    BY <2>2
  <2>4. ASSUME NEW k \in 1 .. m + 1
        PROVE  g[k] = IF k = 1 THEN Stepped(c, a, path[1]) ELSE Further(g[k - 1], path[k])
    <3>1. CASE k = 1
      BY <3>1
    <3>2. CASE k # 1
      <4>1. k - 1 \in 1 .. m
        BY <3>2
      <4>2. g[k - 1] = f[k - 1]
        BY <2>3, <4>1
      <4>3. g[k] = Further(f[k - 1], path[k])
        <5>1. CASE k = m + 1
          <6>1. k - 1 = m
            BY <5>1
          <6>2. QED
            BY <3>2, <5>1, <6>1
        <5>2. CASE k # m + 1
          <6>1. k \in 1 .. m
            BY <5>2
          <6>2. QED
            BY <2>2, <2>3, <3>2, <6>1
        <5>3. QED
          BY <5>1, <5>2
      <4>4. QED
        BY <3>2, <4>2, <4>3
    <3>3. QED
      BY <3>1, <3>2
  <2>5. PointerSteps(c, a, path, m + 1, g)
    <3>1. g = [k \in 1 .. m + 1 |-> g[k]]
      OBVIOUS
    <3> HIDE DEF g
    <3>2. QED
      BY <2>4, <3>1 DEF PointerSteps
  <2>6. QED
    BY <2>5
<1> HIDE DEF S
<1>3. n \in S
  BY <1>1, <1>2, SetInduction
<1>4. QED
  BY <1>3 DEF S

\* AtPointer is the last of its steps.
LEMMA PointerIsLastStep ==
  ASSUME NEW c, NEW a, NEW path, Len(path) \in Nat, Len(path) >= 1
  PROVE  \E f : /\ f[1] = Stepped(c, a, path[1])
                /\ \A k \in 2 .. Len(path) : f[k] = Further(f[k - 1], path[k])
                /\ AtPointer(c, a, path) = f[Len(path)]
<1> DEFINE g == CHOOSE f : PointerSteps(c, a, path, Len(path), f)
<1>1. PointerSteps(c, a, path, Len(path), g)
  BY PointerStepsExist
<1>2. AtPointer(c, a, path) = g[Len(path)]
  BY DEF AtPointer, PointerSteps
<1> HIDE DEF g
<1>3. \A k \in 1 .. Len(path) : g[k] = IF k = 1 THEN Stepped(c, a, path[1])
                                      ELSE Further(g[k - 1], path[k])
  BY <1>1 DEF PointerSteps
<1>4. QED
  BY <1>2, <1>3

\* The places along a path, in the same way.
Places(p, path, n, f) ==
  f = [k \in 0 .. n |-> IF k = 0 THEN p ELSE MemberAt(f[k - 1], path[k])]

LEMMA PlacesExist ==
  ASSUME NEW p, NEW path, NEW n \in Nat
  PROVE  \E f : Places(p, path, n, f)
<1> DEFINE S == {m \in Nat : \E f : Places(p, path, m, f)}
<1>1. 0 \in S
  <2> DEFINE f == [k \in 0 .. 0 |-> p]
  <2>1. Places(p, path, 0, f)
    BY DEF Places
  <2>2. QED
    BY <2>1
<1>2. ASSUME NEW m \in Nat, m \in S PROVE m + 1 \in S
  <2>1. PICK f : Places(p, path, m, f)
    BY <1>2
  <2> DEFINE g == [k \in 0 .. m + 1 |-> IF k = m + 1 THEN MemberAt(f[m], path[m + 1])
                                        ELSE f[k]]
  <2>2. \A k \in 0 .. m : f[k] = IF k = 0 THEN p ELSE MemberAt(f[k - 1], path[k])
    BY <2>1 DEF Places
  <2>3. ASSUME NEW k \in 0 .. m PROVE g[k] = f[k]
    OBVIOUS
  <2>4. ASSUME NEW k \in 0 .. m + 1
        PROVE  g[k] = IF k = 0 THEN p ELSE MemberAt(g[k - 1], path[k])
    <3>1. CASE k = 0
      BY <2>2, <2>3, <3>1
    <3>2. CASE k # 0
      <4>1. k - 1 \in 0 .. m
        BY <3>2
      <4>2. g[k - 1] = f[k - 1]
        BY <2>3, <4>1
      <4>3. g[k] = MemberAt(f[k - 1], path[k])
        <5>1. CASE k = m + 1
          <6>1. k - 1 = m
            BY <5>1
          <6>2. QED
            BY <5>1, <6>1
        <5>2. CASE k # m + 1
          <6>1. k \in 0 .. m
            BY <5>2
          <6>2. QED
            BY <2>2, <2>3, <3>2, <6>1
        <5>3. QED
          BY <5>1, <5>2
      <4>4. QED
        BY <3>2, <4>2, <4>3
    <3>3. QED
      BY <3>1, <3>2
  <2>5. Places(p, path, m + 1, g)
    <3>1. g = [k \in 0 .. m + 1 |-> g[k]]
      OBVIOUS
    <3> HIDE DEF g
    <3>2. QED
      BY <2>4, <3>1 DEF Places
  <2>6. QED
    BY <2>5
<1> HIDE DEF S
<1>3. n \in S
  BY <1>1, <1>2, SetInduction
<1>4. QED
  BY <1>3 DEF S

\* PlaceOf is the last of them.
LEMMA PlaceIsLast ==
  ASSUME NEW p, NEW path, Len(path) \in Nat
  PROVE  \E f : /\ f[0] = p
                /\ \A k \in 1 .. Len(path) : f[k] = MemberAt(f[k - 1], path[k])
                /\ PlaceOf(p, path) = f[Len(path)]
<1> DEFINE g == CHOOSE f : Places(p, path, Len(path), f)
<1>1. Places(p, path, Len(path), g)
  BY PlacesExist
<1>2. PlaceOf(p, path) = g[Len(path)]
  BY DEF PlaceOf, Places
<1> HIDE DEF g
<1>3. \A k \in 0 .. Len(path) : g[k] = IF k = 0 THEN p ELSE MemberAt(g[k - 1], path[k])
  BY <1>1 DEF Places
<1>4. QED
  BY <1>2, <1>3

\* Whatever a pointer asks for, it leaves the cursor and a handle at places.
LEMMA GoodPointer ==
  ASSUME doc \in Inputs, NEW a \in OpenContainers, Place(a.start), NEW c \in GoodCursors,
         NEW path \in Seq(Nat), Len(path) >= 1
  PROVE  AtPointer(c, a, path) \in GoodSteps
<1> DEFINE n == Len(path)
<1>1. n \in Nat /\ \A k \in 1 .. n : path[k] \in Nat
  OBVIOUS
<1>2. PICK f : /\ f[1] = Stepped(c, a, path[1])
               /\ \A k \in 2 .. n : f[k] = Further(f[k - 1], path[k])
               /\ AtPointer(c, a, path) = f[n]
  BY <1>1, PointerIsLastStep
<1> DEFINE S == {m \in Nat : m + 1 \in 1 .. n => f[m + 1] \in GoodSteps}
<1>3. 0 \in S
  BY <1>1, <1>2, GoodStepped
<1>4. ASSUME NEW m \in Nat, m \in S PROVE m + 1 \in S
  <2>1. SUFFICES ASSUME (m + 1) + 1 \in 1 .. n PROVE f[(m + 1) + 1] \in GoodSteps
    OBVIOUS
  <2>2. m + 1 \in 1 .. n /\ (m + 1) + 1 \in 2 .. n /\ ((m + 1) + 1) - 1 = m + 1
    BY <1>1, <2>1
  <2>3. f[m + 1] \in GoodSteps /\ path[(m + 1) + 1] \in Nat
    BY <1>1, <1>4, <2>1, <2>2
  <2>4. f[(m + 1) + 1] = Further(f[m + 1], path[(m + 1) + 1])
    BY <1>2, <2>2
  <2>5. QED
    BY <2>3, <2>4, GoodFurther
<1> HIDE DEF S, n
<1>5. n - 1 \in S
  <2>1. n - 1 \in Nat
    BY <1>1 DEF n
  <2>2. QED
    BY <1>3, <1>4, <2>1, SetInduction
<1>6. QED
  <2>1. (n - 1) + 1 = n /\ n \in 1 .. n
    BY <1>1 DEF n
  <2>2. QED
    BY <1>2, <1>5, <2>1 DEF S

\* Where the member of an index is, of a container that is held.
LEMMA MemberAtIs ==
  ASSUME doc \in Inputs, NEW a \in OpenContainers, NEW i \in Nat
  PROVE  /\ i < Size(a.start) => /\ MemberAt(a.start, i) = Val(a.start, Members(a.start)[i + 1])
                                 /\ MemberAt(a.start, i) \in 1 .. Len(doc)
                                 /\ MemberAt(a.start, i) # 0
         /\ ~ (i < Size(a.start)) => MemberAt(a.start, i) = 0
<1> DEFINE o == a.start
<1>1. o \in 1 .. Len(doc) /\ Opens(o)
  BY OpenContainerMeans
<1>2. Token(o) \in Openers /\ o # 0
  <2>1. o # 0
    BY <1>1
  <2>2. Token(o) \in Openers
    BY <1>1, PlaceOfToken
  <2>3. QED
    BY <2>1, <2>2
<1>3. Size(o) \in Nat
  BY MembersOfContainer
<1>4. CASE i < Size(o)
  <2>1. MemberAt(o, i) = Val(o, Members(o)[i + 1])
    BY <1>2, <1>3, <1>4 DEF MemberAt, Val, Size
  <2>2. i + 1 \in 1 .. Size(o)
    BY <1>3, <1>4
  <2>3. QED
    BY <1>4, <2>1, <2>2, MemberPlaces
<1>5. CASE ~ (i < Size(o))
  <2>1. MemberAt(o, i) = 0
    BY <1>3, <1>5 DEF MemberAt, Size
  <2>2. QED
    BY <1>5, <2>1
<1>6. QED
  BY <1>4, <1>5

\* at(index) from the first element of an array finds the element of that index.
LEMMA AtFinds ==
  ASSUME doc \in Inputs, NEW a \in OpenContainers, ~ Keyed(a.start), NEW i \in Nat
  PROVE  Finds(At(MemberCursor(a, 0), a, i), a, MemberAt(a.start, i))
<1> DEFINE o == a.start
           c == MemberCursor(a, i)
<1>1. o \in 1 .. Len(doc) /\ Opens(o) /\ IsArray(a)
  BY OpenContainerMeans
<1>2. 0 + i = i
  OBVIOUS
<1>3. Rounds(MemberCursor(a, 0), a, i) = c
  BY <1>2, RoundsFurther
<1>4. Succeeded(c) /\ (IsOpen(c, a) <=> i < Size(o))
  BY MemberCursorOpen
<1>5. At(MemberCursor(a, 0), a, i) = c
  BY <1>3, <1>4 DEF At, Abandoned
<1>6. Found(c, a) <=> i < Size(o)
  BY <1>1, <1>4 DEF Found
<1>7. CASE i < Size(o)
  <2>1. i + 1 \in 1 .. Size(o)
    BY <1>7, MembersOfContainer
  <2>2. MemberAtPlace(o, Members(o)[i + 1])
    BY <2>1, MembersOfContainer
  <2>3. Val(o, Members(o)[i + 1]) = Members(o)[i + 1]
    BY <1>1, <2>2, ValueSpan
  <2>4. c = Cur(MemberAt(o, i), a.depth + 1)
    BY <1>1, <1>7, <2>3, MemberAtIs DEF MemberCursor
  <2>5. MemberAt(o, i) # 0
    BY <1>7, MemberAtIs
  <2> HIDE DEF c
  <2>6. QED
    BY <1>5, <1>6, <1>7, <2>4, <2>5 DEF Finds
<1>8. CASE ~ (i < Size(o))
  <2>1. MemberAt(o, i) = 0
    BY <1>8, MemberAtIs
  <2> HIDE DEF c
  <2>2. QED
    BY <1>4, <1>5, <1>6, <1>8, <2>1 DEF Finds
<1>9. QED
  BY <1>7, <1>8

\* The key of an index stands for the member of that index.
LEMMA KeyAtFinds ==
  ASSUME doc \in Inputs, NEW a \in OpenContainers, Keyed(a.start), NEW i \in Nat
  PROVE  ValueOf(a, KeyAt(a, i), 0) = MemberAt(a.start, i)
<1> DEFINE o == a.start
           key == KeyAt(a, i)
<1>1. Size(o) \in Nat /\ o \in 1 .. Len(doc)
  BY MembersOfContainer, OpenContainerMeans
<1>2. 0 \in 0 .. Size(o) /\ 0 \in 0 .. o + 1
  BY <1>1
<1>3. FromIndex(o, 0, 0)
  BY <1>2, FirstIndex
<1>4. CASE i < Size(o)
  <2>1. HasKey(a, key, i)
    BY <1>4 DEF HasKey, KeyAt, Size
  <2>2. i \in 0 .. Size(o) - 1
    BY <1>1, <1>4
  <2> HIDE DEF key
  <2>3. ValueOf(a, key, 0) = Val(o, Members(o)[i + 1])
    BY <1>2, <1>3, <2>1, <2>2, ValueOfKey
  <2>4. QED
    BY <1>4, <2>3, MemberAtIs DEF key
<1>5. CASE ~ (i < Size(o))
  <2>1. key = "no such key"
    BY <1>5 DEF KeyAt, Size
  <2> HIDE DEF key
  <2>2. ASSUME NEW h \in 0 .. Size(o) - 1 PROVE ~ HasKey(a, key, h)
    <3>1. h + 1 \in 1 .. Size(o)
      BY <1>1
    <3>2. MemberAtPlace(o, Members(o)[h + 1])
      BY <3>1, MembersOfContainer
    <3>3. Members(o)[h + 1] \in 1 .. Len(doc)
      BY <3>2, MemberMeans DEF MemberAtPlace
    <3>4. doc[Members(o)[h + 1]] # "no such key"
      BY <3>3, DocDomain, InputsAssumption DEF WellFormed
    <3>5. Token(Members(o)[h + 1]) # "no such key"
      BY <3>3, <3>4, TokenIs
    <3>6. QED
      BY <2>1, <3>5 DEF HasKey
  <2>3. ValueOf(a, key, 0) = 0
    BY <1>2, <1>3, <2>2, ValueOfKey
  <2>4. QED
    BY <1>5, <2>3, MemberAtIs DEF key
<1>6. QED
  BY <1>4, <1>5

\* One step of a pointer, from the first member of a container.
LEMMA StepFinds ==
  ASSUME doc \in Inputs, NEW a \in OpenContainers, NEW i \in Nat
  PROVE  \E c : /\ Stepped(MemberCursor(a, 0), a, i) = Step(c, a)
                /\ Finds(c, a, MemberAt(a.start, i))
<1>1. CASE ~ Keyed(a.start)
  <2>1. IsArray(a)
    BY <1>1, OpenContainerMeans
  <2>2. QED
    BY <1>1, <2>1, AtFinds DEF Stepped
<1>2. CASE Keyed(a.start)
  <2>1. ~ IsArray(a) /\ a.start \in 1 .. Len(doc)
    BY <1>2, OpenContainerMeans
  <2>2. 0 \in 0 .. a.start + 1
    BY <2>1
  <2>3. Finds(FindField(MemberCursor(a, 0), a, KeyAt(a, i)), a, ValueOf(a, KeyAt(a, i), 0))
    BY <1>2, <2>2, FindsFromFirst
  <2>4. QED
    BY <1>2, <2>1, <2>3, KeyAtFinds DEF Stepped
<1>3. QED
  BY <1>1, <1>2

\* What a pointer finds is at p, or there is nothing and p is 0.
StepAt(step, p) ==
  IF p = 0 THEN ~ step.found /\ Succeeded(step.cursor)
           ELSE step.found /\ step.cursor.pos = p

\* Where the next step starts from: the cursor is at the value that was found.
Reaches(step, p) ==
  \E c, v, found :
    /\ step = [cursor |-> c, value |-> v, found |-> found]
    /\ IF p = 0 THEN ~ found /\ Succeeded(c)
       ELSE /\ found /\ p \in 1 .. Len(doc)
            /\ \E d \in Nat \ {0} : c = Cur(p, d) /\ v = [start |-> p, depth |-> d]

LEMMA ReachesIsAt ==
  ASSUME NEW step, NEW p, Reaches(step, p)
  PROVE  StepAt(step, p)
BY CursorIs DEF Reaches, StepAt

\* The first step.
LEMMA ReachesMember ==
  ASSUME doc \in Inputs, NEW a \in OpenContainers, NEW i \in Nat
  PROVE  Reaches(Stepped(MemberCursor(a, 0), a, i), MemberAt(a.start, i))
<1> DEFINE p == MemberAt(a.start, i)
<1>1. PICK c : Stepped(MemberCursor(a, 0), a, i) = Step(c, a) /\ Finds(c, a, p)
  BY StepFinds
<1>2. Step(c, a) = [cursor |-> c, value |-> Child(c, a), found |-> Found(c, a)]
  BY DEF Step
<1>3. CASE p = 0
  <2>1. ~ Found(c, a) /\ Succeeded(c)
    BY <1>1, <1>3 DEF Finds
  <2>2. QED
    BY <1>1, <1>2, <1>3, <2>1 DEF Reaches
<1>4. CASE p # 0
  <2>1. Found(c, a) /\ c = Cur(p, a.depth + 1) /\ c.pos = p
    BY <1>1, <1>4, CursorIs DEF Finds
  <2>2. p \in 1 .. Len(doc) /\ a.depth + 1 \in Nat \ {0}
    BY <1>4, MemberAtIs, OpenContainerMeans
  <2>3. Child(c, a) = [start |-> p, depth |-> a.depth + 1]
    BY <2>1 DEF Child
  <2> HIDE DEF p
  <2>4. QED
    BY <1>1, <1>2, <1>4, <2>1, <2>2, <2>3 DEF Reaches, p
<1>5. QED
  BY <1>3, <1>4

\* The step after one that was right.
LEMMA ReachesFurther ==
  ASSUME doc \in Inputs, NEW s, NEW p, Reaches(s, p), NEW j \in Nat
  PROVE  Reaches(Further(s, j), MemberAt(p, j))
<1>1. PICK c, v, found :
        /\ s = [cursor |-> c, value |-> v, found |-> found]
        /\ IF p = 0 THEN ~ found /\ Succeeded(c)
           ELSE /\ found /\ p \in 1 .. Len(doc)
                /\ \E d \in Nat \ {0} : c = Cur(p, d) /\ v = [start |-> p, depth |-> d]
  BY DEF Reaches
<1>2. s.cursor = c /\ s.value = v /\ s.found = found
  BY <1>1
<1>3. ASSUME ~ (found /\ IsContainer(v)), MemberAt(p, j) = 0, Succeeded(c)
      PROVE  Reaches(Further(s, j), MemberAt(p, j))
  <2>1. Further(s, j) = [s EXCEPT !.found = FALSE]
    BY <1>2, <1>3 DEF Further
  <2>2. Further(s, j) = [cursor |-> c, value |-> v, found |-> FALSE]
    BY <1>1, <2>1
  <2>3. QED
    BY <1>3, <2>2 DEF Reaches
<1>4. CASE p = 0
  <2>1. MemberAt(p, j) = 0
    BY <1>4 DEF MemberAt
  <2>2. QED
    BY <1>1, <1>3, <1>4, <2>1
<1>5. CASE p # 0
  <2>1. PICK d \in Nat \ {0} : c = Cur(p, d) /\ v = [start |-> p, depth |-> d]
    BY <1>1, <1>5
  <2>2. found /\ p \in 1 .. Len(doc) /\ p \in Nat
    BY <1>1, <1>5
  <2>3. c \in Cursors /\ c.pos = p /\ Succeeded(c)
    BY <2>1, <2>2, CursorIs
  <2>4. v.start = p /\ v.depth = d /\ v \in Handles /\ d >= 1
    BY <2>1, <2>2 DEF Handles
  <2>5. CASE IsContainer(v)
    <3>1. Opens(p)
      BY <2>4, <2>5, PlaceOfToken DEF IsContainer
    <3>2. v \in OpenContainers
      BY <2>2, <2>4, <3>1 DEF OpenContainers
    <3>3. Start(c, v) = MemberCursor(v, 0)
      BY <2>1, <2>3, <2>4, <3>2, StartsAtFirst
    <3>4. Further(s, j) = Stepped(MemberCursor(v, 0), v, j)
      BY <1>2, <2>2, <2>5, <3>3 DEF Further
    <3>5. QED
      BY <2>4, <3>2, <3>4, ReachesMember
  <2>6. CASE ~ IsContainer(v)
    <3>1. MemberAt(p, j) = 0
      BY <2>4, <2>6 DEF MemberAt, IsContainer
    <3>2. QED
      BY <1>3, <2>3, <2>6, <3>1
  <2>7. QED
    BY <2>5, <2>6
<1>6. QED
  BY <1>4, <1>5

\* at_pointer() from the first member of a container finds what the path leads to, and
\* nothing if it leads nowhere: arrays by index, objects by key, at any depth.
THEOREM PointerFinds ==
  ASSUME doc \in Inputs, NEW a \in OpenContainers, NEW path \in Seq(Nat), Len(path) >= 1
  PROVE  StepAt(AtPointer(MemberCursor(a, 0), a, path), PlaceOf(a.start, path))
<1> DEFINE n == Len(path)
           c == MemberCursor(a, 0)
<1>1. n \in Nat /\ \A k \in 1 .. n : path[k] \in Nat
  OBVIOUS
<1>2. PICK f : /\ f[1] = Stepped(c, a, path[1])
               /\ \A k \in 2 .. n : f[k] = Further(f[k - 1], path[k])
               /\ AtPointer(c, a, path) = f[n]
  BY <1>1, PointerIsLastStep
<1>3. PICK g : /\ g[0] = a.start
               /\ \A k \in 1 .. n : g[k] = MemberAt(g[k - 1], path[k])
               /\ PlaceOf(a.start, path) = g[n]
  <2>1. Len(path) \in Nat
    BY <1>1
  <2>2. QED
    BY <2>1, PlaceIsLast
<1> DEFINE S == {m \in Nat : m + 1 \in 1 .. n => Reaches(f[m + 1], g[m + 1])}
<1>4. 0 \in S
  <2>1. 1 \in 1 .. n /\ 0 + 1 = 1 /\ 1 - 1 = 0
    BY <1>1
  <2>2. g[1] = MemberAt(a.start, path[1]) /\ path[1] \in Nat
    BY <1>1, <1>3, <2>1
  <2>3. Reaches(f[1], g[1])
    BY <1>2, <2>2, ReachesMember
  <2>4. QED
    BY <2>1, <2>3
<1>5. ASSUME NEW m \in Nat, m \in S PROVE m + 1 \in S
  <2>1. SUFFICES ASSUME (m + 1) + 1 \in 1 .. n
                 PROVE  Reaches(f[(m + 1) + 1], g[(m + 1) + 1])
    OBVIOUS
  <2>2. m + 1 \in 1 .. n /\ (m + 1) + 1 \in 2 .. n /\ ((m + 1) + 1) - 1 = m + 1
    BY <1>1, <2>1
  <2>3. Reaches(f[m + 1], g[m + 1]) /\ path[(m + 1) + 1] \in Nat
    BY <1>1, <1>5, <2>1, <2>2
  <2>4. /\ f[(m + 1) + 1] = Further(f[m + 1], path[(m + 1) + 1])
        /\ g[(m + 1) + 1] = MemberAt(g[m + 1], path[(m + 1) + 1])
    BY <1>2, <1>3, <2>1, <2>2
  <2>5. QED
    BY <2>3, <2>4, ReachesFurther
<1> HIDE DEF S, n, c
<1>6. n - 1 \in S
  <2>1. n - 1 \in Nat
    BY <1>1 DEF n
  <2>2. QED
    BY <1>4, <1>5, <2>1, SetInduction
<1>7. Reaches(f[n], g[n])
  <2>1. (n - 1) + 1 = n /\ n \in 1 .. n
    BY <1>1 DEF n
  <2>2. QED
    BY <1>6, <2>1 DEF S
<1>8. QED
  BY <1>2, <1>3, <1>7, ReachesIsAt DEF c

-----------------------------------------------------------------------------
(* The text of a container *)

\* Where reading a container alone can leave the cursor: at its bracket, inside, or
\* just after it.
CanSkip(a, c) ==
  \/ c = Cur(a.start, a.depth)
  \/ \E p \in a.start + 1 .. Close(a.start) :
       ~ Colon(p) /\ c = Cur(p, DepthAt(a.start, a.depth, p))
  \/ c = Cur(Close(a.start) + 1, a.depth - 1)

\* What closes a container is found from its bracket and from anywhere inside.
LEMMA ClosesContainer ==
  ASSUME doc \in Inputs, NEW o \in 1 .. Len(doc), Opens(o), NEW p \in o .. Close(o) - 1
  PROVE  /\ (Depth(p) - Depth(o)) + 1 \in 1 .. Len(doc)
         /\ ClosesOf[doc][p + 1][(Depth(p) - Depth(o)) + 1] = Close(o)
<1> DEFINE e == Close(o)
           n == (Depth(p) - Depth(o)) + 1
<1>1. Len(doc) \in Nat
  BY DocLength
<1>2. /\ e \in o + 1 .. Len(doc) /\ Depth(o) \in Int /\ Depth(o - 1) = Depth(o) - 1
      /\ Depth(e) = Depth(o) - 1
      /\ \A q \in o .. e - 1 : Depth(q) \in Int /\ Depth(q) >= Depth(o)
  BY ContainerSpan
<1>3. p \in 1 .. Len(doc) /\ p \in 0 .. Len(doc) /\ o - 1 \in 0 .. Len(doc)
      /\ e \in p + 1 .. Len(doc) /\ p \in Nat
  BY <1>1, <1>2
<1>4. Depth(p) \in Int /\ Depth(p) >= Depth(o)
  BY <1>2
<1>5. Depth(p) \in Nat /\ Depth(p) <= p /\ Depth(o - 1) \in Nat
  BY <1>3, DepthIsNatural
<1>6. n \in 1 .. Len(doc)
  <2>1. p < Len(doc)
    BY <1>1, <1>3
  <2>2. Depth(o) \in Int /\ Depth(o - 1) = Depth(o) - 1
    BY <1>2
  <2>3. QED
    BY <1>1, <1>3, <1>4, <1>5, <2>1, <2>2
<1>7. Depth(e) = Depth(p) - n
  BY <1>2, <1>4
<1>8. \A q \in p + 1 .. e - 1 : Depth(q) > Depth(p) - n
  <2>1. ASSUME NEW q \in p + 1 .. e - 1 PROVE Depth(q) > Depth(p) - n
    <3>1. q \in o .. e - 1
      BY <1>2, <1>3, <2>1
    <3>2. Depth(q) \in Int /\ Depth(q) >= Depth(o)
      BY <1>2, <3>1
    <3>3. QED
      BY <1>2, <1>4, <3>2
  <2>2. QED
    BY <2>1
<1> HIDE DEF n, e
<1>9. ClosesOf[doc][p + 1][n] = e
  BY <1>3, <1>6, <1>7, <1>8, FirstToClose
<1>10. QED
  BY <1>6, <1>9 DEF n, e

\* raw_json() of a container: skip_child() leaves the cursor after its closing bracket,
\* from wherever in the container reading left it.
THEOREM SkipsContainer ==
  ASSUME doc \in Inputs, NEW a \in OpenContainers, NEW c, CanSkip(a, c)
  PROVE  SkipChild(c, a.depth - 1) = Cur(Close(a.start) + 1, a.depth - 1)
<1> DEFINE o == a.start
           e == Close(o)
           d == a.depth - 1
<1>1. Len(doc) \in Nat
  BY DocLength
<1>2. o \in 1 .. Len(doc) /\ Opens(o) /\ o \in Nat /\ a.depth \in Nat /\ d \in Nat
  BY OpenContainerMeans
<1>3. /\ e \in o + 1 .. Len(doc) /\ Shuts(e) /\ Depth(o) \in Int
      /\ Depth(e) = Depth(o) - 1
      /\ \A q \in o .. e - 1 : Depth(q) \in Int /\ Depth(q) >= Depth(o)
  BY <1>2, ContainerSpan
<1>4. ASSUME NEW p \in o .. e - 1, c.pos = p, NEW x, c = Cur(p, x), ~ (c.depth <= d),
             Past(c) = a.depth + (Depth(p) - Depth(o))
      PROVE  SkipChild(c, d) = Cur(e + 1, d)
  <2> DEFINE n == (Depth(p) - Depth(o)) + 1
  <2>1. n \in 1 .. Len(doc) /\ ClosesOf[doc][p + 1][n] = e
    BY <1>2, ClosesContainer
  <2>2. Depth(p) \in Int
    BY <1>3
  <2>3. Past(c) - d = n
    BY <1>2, <1>3, <1>4, <2>2
  <2> HIDE DEF n
  <2>4. ~ (Past(c) <= d) /\ ~ (Past(c) - d > Len(doc))
    <3>1. Past(c) \in Int
      BY <1>2, <1>3, <1>4, <2>2
    <3>2. QED
      BY <1>1, <1>2, <2>1, <2>3, <3>1
  <2>5. SkipChild(c, d) = ClosesAt(c, ClosesOf[doc][c.pos + 1][Past(c) - d], d)
    BY <1>4, <2>4 DEF SkipChild
  <2>6. SkipChild(c, d) = ClosesAt(c, e, d)
    BY <1>4, <2>1, <2>3, <2>5
  <2>7. e # 0
    BY <1>2, <1>3
  <2>8. ClosesAt(c, e, d) = CurTo(c, e + 1, d)
    BY <2>7 DEF ClosesAt, CurTo
  <2>9. CurTo(c, e + 1, d) = Cur(e + 1, d)
    BY <1>4, CurMoves
  <2>10. QED
    BY <2>6, <2>8, <2>9
<1>5. CASE c = Cur(o, a.depth)
  <2>1. c.pos = o /\ c.depth = a.depth /\ o \in o .. e - 1
    BY <1>2, <1>3, <1>5, CursorIs
  <2>2. Token(o) \in Openers
    BY <1>2, PlaceOfToken
  <2>3. Past(c) = a.depth
    BY <2>1, <2>2 DEF Past
  <2>4. Past(c) = a.depth + (Depth(o) - Depth(o))
    BY <1>2, <1>3, <2>3
  <2>5. ~ (c.depth <= d)
    BY <1>2, <2>1
  <2>6. QED
    BY <1>4, <1>5, <2>1, <2>4, <2>5
<1>6. CASE c = Cur(e + 1, d)
  <2>1. c.depth = d
    BY <1>6, CursorIs
  <2>2. c.depth <= d
    BY <1>2, <2>1
  <2>3. QED
    BY <1>6, <2>2 DEF SkipChild
<1>7. ASSUME NEW p \in o + 1 .. e, ~ Colon(p), c = Cur(p, DepthAt(o, a.depth, p))
      PROVE  SkipChild(c, d) = Cur(e + 1, d)
  <2>1. c.pos = p /\ c.depth = DepthAt(o, a.depth, p)
    BY <1>7, CursorIs
  <2>2. p \in 1 .. Len(doc) /\ p - 1 \in o .. e - 1
    BY <1>1, <1>2, <1>3
  <2>3. Depth(p - 1) \in Int /\ Depth(p - 1) >= Depth(o)
    BY <1>3, <2>2
  <2>4. ~ (c.depth <= d)
    <3>1. Depth(o) \in Int
      BY <1>3
    <3>2. DepthAt(o, a.depth, p) >= a.depth /\ DepthAt(o, a.depth, p) \in Int
      BY <1>2, <2>3, <3>1 DEF DepthAt
    <3>3. QED
      BY <1>2, <2>1, <3>2
  <2>5. Past(c) = a.depth + Depth(p) - Depth(o)
    BY <1>2, <1>7, <2>2, PastIsDepth
  <2>6. CASE p = e
    <3>1. Depth(e) = Depth(e - 1) - 1
      BY <1>3, <2>2, <2>6, DepthOfDoc
    <3>2. DepthAt(o, a.depth, e) = a.depth
      <4>1. DepthAt(o, a.depth, e) = a.depth + Depth(e - 1) - Depth(o) + 0
        BY <1>3 DEF DepthAt
      <4>2. Depth(e - 1) \in Int
        BY <2>3, <2>6
      <4>3. QED
        BY <1>2, <1>3, <3>1, <4>1, <4>2
    <3>3. Past(c) <= d
      BY <1>2, <1>3, <2>5, <2>6
    <3>4. SkipChild(c, d) = [Consumed(c) EXCEPT !.depth = Consumed(c).depth - 1]
      BY <2>4, <3>3 DEF SkipChild
    <3>5. Consumed(c) = Cur(e + 1, a.depth)
      <4>1. c = Cur(e, a.depth) /\ ~ (e > Len(doc))
        BY <1>1, <1>2, <1>3, <1>7, <2>6, <3>2
      <4>2. QED
        BY <4>1 DEF Consumed, Cur
    <3>6. QED
      BY <3>4, <3>5 DEF Cur
  <2>7. CASE p # e
    <3>1. p \in o .. e - 1
      BY <1>2, <1>3, <2>7
    <3>2. Depth(p) \in Int
      BY <1>3, <3>1
    <3>3. Past(c) = a.depth + (Depth(p) - Depth(o))
      BY <1>2, <1>3, <2>5, <3>2
    <3>4. QED
      BY <1>4, <1>7, <2>1, <2>4, <3>1, <3>3
  <2>8. QED
    BY <2>6, <2>7
<1>8. QED
  BY <1>5, <1>6, <1>7 DEF CanSkip

\* A cursor that is in a container, or that has just entered it, can skip it.
LEMMA WithinCanSkip ==
  ASSUME doc \in Inputs, NEW a \in OpenContainers, NEW c \in Cursors, Succeeded(c),
         Within(c, a)
  PROVE  CanSkip(a, c)
  BY WithinMeans DEF CanSkip

LEMMA EnteredCanSkip ==
  ASSUME doc \in Inputs, NEW a \in OpenContainers
  PROVE  CanSkip(a, MemberCursor(a, 0))
<1> DEFINE o == a.start
<1>1. Len(doc) \in Nat /\ o \in 1 .. Len(doc) /\ Opens(o) /\ a.depth \in Nat
      /\ (IsArray(a) <=> ~ Keyed(o))
  BY DocLength, OpenContainerMeans
<1>2. Size(o) \in Nat
  BY MembersOfContainer
<1>3. CASE Size(o) = 0
  BY <1>3 DEF MemberCursor, CanSkip
<1>4. CASE Size(o) # 0
  <2>1. 0 + 1 = 1 /\ 0 < Size(o) /\ 1 \in 1 .. Size(o)
    BY <1>2, <1>4
  <2>2. MemberAtPlace(o, o + 1) /\ Members(o)[1] = o + 1
    BY <1>1, <1>4, <2>1, MembersFollow
  <2>3. o + 1 \in o + 1 .. Close(o) /\ ~ Colon(o + 1) /\ o + 1 \in 1 .. Len(doc)
    <3>1. Begins(o + 1) /\ o + 1 \in 1 .. Len(doc)
      BY <2>2, MemberMeans DEF MemberAtPlace
    <3>2. Close(o) \in o + 1 .. Len(doc)
      BY <1>1, ContainerSpan
    <3>3. ~ Colon(o + 1)
      BY <3>1, Kinds
    <3>4. QED
      BY <1>1, <3>1, <3>2, <3>3
  <2>4. DepthAt(o, a.depth, o + 1) = IF IsArray(a) THEN a.depth + 1 ELSE a.depth
    <3>1. CASE Keyed(o)
      <4>1. Colon((o + 1) + 1)
        BY <1>1, <2>2, <3>1, ValueSpan
      <4>2. (o + 1) + 1 \in 1 .. Len(doc)
        BY <2>2, <3>1, MemberMeans DEF MemberAtPlace
      <4>3. IsKey(o + 1)
        BY <4>1, <4>2, PlaceOfToken DEF IsKey
      <4>4. (o + 1) - 1 = o /\ Depth(o) \in Int
        BY <1>1, ContainerSpan
      <4>5. QED
        BY <1>1, <3>1, <4>3, <4>4 DEF DepthAt
    <3>2. CASE ~ Keyed(o)
      <4>1. Val(o, o + 1) = o + 1
        BY <1>1, <2>2, <3>2, ValueSpan
      <4>2. DepthAt(o, a.depth, Val(o, o + 1)) = a.depth + 1
        BY <2>2, DepthOfValue
      <4>3. QED
        BY <1>1, <3>2, <4>1, <4>2
    <3>3. QED
      BY <3>1, <3>2
  <2>5. MemberCursor(a, 0) = Cur(o + 1, DepthAt(o, a.depth, o + 1))
    BY <2>1, <2>2, <2>4 DEF MemberCursor
  <2>6. QED
    BY <2>3, <2>5 DEF CanSkip
<1>5. QED
  BY <1>3, <1>4
=============================================================================
