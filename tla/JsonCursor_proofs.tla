--------------------------- MODULE JsonCursor_proofs ---------------------------
(***************************************************************************)
(* What the cursor of JsonCursor does on a well-formed input of any size:  *)
(* where a loop over a container takes it, and which member a lookup       *)
(* finds, from where the program may have left it.                         *)
(***************************************************************************)
EXTENDS JsonCursor, FiniteSetTheorems, WellFoundedInduction, TLAPS

-----------------------------------------------------------------------------
(* Induction, and functions defined by it *)

\* A set of naturals has a least element.
LEMMA LeastNatural ==
  ASSUME NEW S \in SUBSET Nat, S # {}
  PROVE  \E m \in S : \A n \in S : m <= n
<1> DEFINE R == OpToRel(<, Nat)
<1>1. IsWellFoundedOn(R, Nat)
  BY NatLessThanWellFounded
<1>2. \A x, y \in Nat : x < y => <<x, y>> \in R
  BY DEF OpToRel
<1> HIDE DEF R
<1>3. PICK m \in S : \A n \in S : ~ (<<n, m>> \in R)
  BY <1>1, WFMin
<1>4. ASSUME NEW n \in S PROVE m <= n
  <2>1. ~ (n < m)
    BY <1>2, <1>3
  <2>2. QED
    BY <2>1
<1>5. QED
  BY <1>4

\* A set that has 0, and n + 1 if it has n, has every natural.
LEMMA SetInduction ==
  ASSUME NEW S, 0 \in S, \A n \in Nat : n \in S => n + 1 \in S
  PROVE  \A n \in Nat : n \in S
<1> SUFFICES ASSUME NEW n \in Nat, n \notin S PROVE FALSE
  OBVIOUS
<1>1. PICK m \in Nat \ S : \A k \in Nat \ S : m <= k
  <2>1. Nat \ S \in SUBSET Nat /\ Nat \ S # {}
    OBVIOUS
  <2>2. QED
    BY <2>1, LeastNatural
<1>2. m - 1 \in Nat
  BY <1>1
<1>3. m - 1 \in S
  BY <1>1, <1>2
<1>4. QED
  BY <1>1, <1>2, <1>3

\* A step on the elements of C can be iterated.
Iterable(C, c, step, n) ==
  \E f \in [0 .. n -> C] : f[0] = c /\ \A k \in 1 .. n : f[k] = step[f[k - 1]]

LEMMA IteratesExist ==
  ASSUME NEW C, NEW c \in C, NEW step \in [C -> C], NEW n \in Nat
  PROVE  Iterable(C, c, step, n)
<1> DEFINE Good(m) == \E f \in [0 .. m -> C] :
                        f[0] = c /\ \A k \in 1 .. m : f[k] = step[f[k - 1]]
           S == {m \in Nat : Good(m)}
<1>1. 0 \in S
  <2> DEFINE f == [k \in 0 .. 0 |-> c]
  <2>1. f \in [0 .. 0 -> C] /\ f[0] = c /\ \A k \in 1 .. 0 : f[k] = step[f[k - 1]]
    OBVIOUS
  <2> HIDE DEF f
  <2>2. Good(0)
    BY <2>1
  <2>3. QED
    BY <2>2
<1>2. ASSUME NEW m \in Nat, m \in S PROVE m + 1 \in S
  <2>1. PICK f \in [0 .. m -> C] : f[0] = c /\ \A k \in 1 .. m : f[k] = step[f[k - 1]]
    BY <1>2
  <2> DEFINE g == [k \in 0 .. m + 1 |-> IF k = m + 1 THEN step[f[m]] ELSE f[k]]
  <2>2. g \in [0 .. m + 1 -> C] /\ g[0] = c
    BY <2>1
  <2>3. ASSUME NEW k \in 1 .. m + 1 PROVE g[k] = step[g[k - 1]]
    BY <2>1
  <2> HIDE DEF g
  <2>4. Good(m + 1)
    BY <2>2, <2>3
  <2>5. QED
    BY <2>4
<1> HIDE DEF S
<1>3. n \in S
  BY <1>1, <1>2, SetInduction
<1>4. QED
  BY <1>3 DEF S, Iterable

\* The numbers of a finite set can be put in order.
LEMMA AscendingExists ==
  ASSUME NEW S \in SUBSET Nat, IsFiniteSet(S)
  PROVE  \E s \in [1 .. Cardinality(S) -> S] :
           \A i, j \in 1 .. Cardinality(S) : i < j => s[i] < s[j]
<1> DEFINE Sorted(T, n) == \E s \in [1 .. n -> T] : \A i, j \in 1 .. n : i < j => s[i] < s[j]
           P(n) == \A T \in SUBSET Nat : IsFiniteSet(T) /\ Cardinality(T) = n => Sorted(T, n)
           N == {n \in Nat : P(n)}
<1>1. 0 \in N
  <2>1. ASSUME NEW T \in SUBSET Nat, IsFiniteSet(T), Cardinality(T) = 0 PROVE Sorted(T, 0)
    <3> DEFINE s == [k \in 1 .. 0 |-> k]
    <3>1. s \in [1 .. 0 -> T] /\ \A i, j \in 1 .. 0 : i < j => s[i] < s[j]
      OBVIOUS
    <3> HIDE DEF s
    <3>2. QED
      BY <3>1
  <2> HIDE DEF Sorted
  <2>2. QED
    BY <2>1
<1>2. ASSUME NEW n \in Nat, n \in N PROVE n + 1 \in N
  <2>1. ASSUME NEW T \in SUBSET Nat, IsFiniteSet(T), Cardinality(T) = n + 1
        PROVE  Sorted(T, n + 1)
    <3>1. T # {}
      BY <2>1, FS_EmptySet
    <3>2. PICK m \in T : \A k \in T : m <= k
      BY <3>1, LeastNatural
    <3> DEFINE U == T \ {m}
    <3>3. U \in SUBSET Nat /\ IsFiniteSet(U) /\ Cardinality(U) = n
      <4>1. IsFiniteSet(U) /\ Cardinality(U) = Cardinality(T) - 1
        BY <2>1, FS_RemoveElement
      <4>2. QED
        BY <4>1, <2>1
    <3>4. Sorted(U, n)
      BY <1>2, <3>3
    <3>5. PICK s \in [1 .. n -> U] : \A i, j \in 1 .. n : i < j => s[i] < s[j]
      BY <3>4
    <3> DEFINE t == [k \in 1 .. n + 1 |-> IF k = 1 THEN m ELSE s[k - 1]]
    <3>6. t \in [1 .. n + 1 -> T]
      BY <3>5
    <3>7. ASSUME NEW i \in 1 .. n + 1, NEW j \in 1 .. n + 1, i < j PROVE t[i] < t[j]
      <4>1. CASE i = 1
        <5>1. j - 1 \in 1 .. n
          BY <3>7, <4>1
        <5>2. s[j - 1] \in U
          BY <5>1, <3>5
        <5>3. s[j - 1] \in Nat /\ m \in Nat /\ s[j - 1] # m /\ m <= s[j - 1]
          BY <5>2, <3>2
        <5>4. QED
          BY <5>3, <4>1, <3>7
      <4>2. CASE i # 1
        BY <4>2, <3>5, <3>7
      <4>3. QED
        BY <4>1, <4>2
    <3> HIDE DEF t
    <3>8. QED
      BY <3>6, <3>7
  <2> HIDE DEF Sorted
  <2>2. QED
    BY <2>1
<1>3. Cardinality(S) \in Nat
  BY FS_CardinalityType
<1> HIDE DEF N
<1>4. Cardinality(S) \in N
  BY <1>1, <1>2, <1>3, SetInduction
<1>5. QED
  BY <1>4 DEF N

-----------------------------------------------------------------------------
(* Depths *)

LEMMA InputIsSequence ==
  ASSUME NEW input \in Inputs
  PROVE  /\ input \in Seq(STRING)
         /\ Len(input) \in Nat /\ Len(input) >= 2 /\ DOMAIN input = 1 .. Len(input)
<1>1. input \in Seq(STRING) /\ Len(input) >= 2
  BY InputsAssumption DEF WellFormed
<1>2. QED
  BY <1>1

\* The depth is a number that one token changes by one at most.
LEMMA DepthStep ==
  ASSUME NEW input \in Inputs
  PROVE  /\ DepthOf[input] \in [0 .. Len(input) -> Int]
         /\ DepthOf[input][0] = 0
         /\ \A q \in 0 .. Len(input) : DepthOf[input][q] <= q
         /\ \A q \in 1 .. Len(input) :
              DepthOf[input][q] =
                DepthOf[input][q - 1] + (IF input[q] \in Openers THEN 1
                                         ELSE IF input[q] \in Closers THEN -1 ELSE 0)
<1> DEFINE Some(S, q) == {k \in 1 .. q : input[k] \in S}
           Number(S, q) == Cardinality(Some(S, q))
<1>0. Len(input) \in Nat
  BY InputIsSequence
<1>1. ASSUME NEW S, NEW q \in Nat
      PROVE  IsFiniteSet(Some(S, q)) /\ Number(S, q) \in Nat /\ Number(S, q) <= q
  <2>1. IsFiniteSet(1 .. q) /\ Cardinality(1 .. q) = q
    BY FS_Interval
  <2>2. Some(S, q) \in SUBSET (1 .. q)
    OBVIOUS
  <2> HIDE DEF Some
  <2>3. IsFiniteSet(Some(S, q)) /\ Cardinality(Some(S, q)) <= q
    BY <2>1, <2>2, FS_Subset
  <2>4. QED
    BY <2>3, FS_CardinalityType
<1>2. ASSUME NEW S, NEW q \in Nat \ {0}
      PROVE  Number(S, q) = Number(S, q - 1) + (IF input[q] \in S THEN 1 ELSE 0)
  <2>1. CASE input[q] \in S
    <3>1. Some(S, q) = Some(S, q - 1) \cup {q} /\ q \notin Some(S, q - 1)
      BY <2>1
    <3>2. IsFiniteSet(Some(S, q - 1)) /\ Number(S, q - 1) \in Nat
      BY <1>1
    <3> HIDE DEF Some
    <3>3. QED
      BY <2>1, <3>1, <3>2, FS_AddElement
  <2>2. CASE input[q] \notin S
    <3>1. Some(S, q) = Some(S, q - 1)
      BY <2>2
    <3>2. Number(S, q - 1) \in Nat
      <4>1. q - 1 \in Nat
        OBVIOUS
      <4>2. QED
        BY <4>1, <1>1
    <3> HIDE DEF Some
    <3>3. QED
      BY <2>2, <3>1, <3>2
  <2>3. QED
    BY <2>1, <2>2
<1>3. DepthOf[input] = [q \in 0 .. Len(input) |-> Number(Openers, q) - Number(Closers, q)]
  BY DEF DepthOf
<1>4. Number(Openers, 0) = 0 /\ Number(Closers, 0) = 0
  <2>1. Some(Openers, 0) = {} /\ Some(Closers, 0) = {}
    OBVIOUS
  <2> HIDE DEF Some
  <2>2. QED
    BY <2>1, FS_EmptySet
<1> HIDE DEF Number
<1>5. \A q \in 0 .. Len(input) : Number(Openers, q) \in Nat /\ Number(Closers, q) \in Nat
                                /\ Number(Openers, q) <= q
  <2>1. \A q \in Nat : Number(Openers, q) \in Nat /\ Number(Openers, q) <= q
    BY <1>1 DEF Number
  <2>2. \A q \in Nat : Number(Closers, q) \in Nat
    BY <1>1 DEF Number
  <2>3. QED
    BY <1>0, <2>1, <2>2
<1>6. \A q \in 1 .. Len(input) :
        /\ Number(Openers, q) = Number(Openers, q - 1) + (IF input[q] \in Openers THEN 1 ELSE 0)
        /\ Number(Closers, q) = Number(Closers, q - 1) + (IF input[q] \in Closers THEN 1 ELSE 0)
  BY <1>0, <1>2
<1>7. \A x : ~ (x \in Openers /\ x \in Closers)
  BY DEF Openers, Closers
<1>8. \A q \in 0 .. Len(input) : DepthOf[input][q] = Number(Openers, q) - Number(Closers, q)
  BY <1>3
<1>9. DepthOf[input] \in [0 .. Len(input) -> Int] /\ DepthOf[input][0] = 0
  BY <1>0, <1>3, <1>4, <1>5
<1>10. ASSUME NEW q \in 0 .. Len(input) PROVE DepthOf[input][q] <= q
  BY <1>5, <1>8
<1>11. ASSUME NEW q \in 1 .. Len(input)
       PROVE  DepthOf[input][q] =
                DepthOf[input][q - 1] + (IF input[q] \in Openers THEN 1
                                         ELSE IF input[q] \in Closers THEN -1 ELSE 0)
  <2>1. q \in 0 .. Len(input) /\ q - 1 \in 0 .. Len(input)
    BY <1>0
  <2>2. /\ Number(Openers, q - 1) \in Nat /\ Number(Closers, q - 1) \in Nat
        /\ DepthOf[input][q] = Number(Openers, q) - Number(Closers, q)
        /\ DepthOf[input][q - 1] = Number(Openers, q - 1) - Number(Closers, q - 1)
    BY <1>5, <1>8, <2>1
  <2>3. QED
    BY <1>6, <1>7, <2>2
<1>12. QED
  BY <1>9, <1>10, <1>11

\* ClosesOf is the first place where that many brackets are closed, or 0.
LEMMA ClosesAtFirst ==
  ASSUME NEW input \in Inputs, NEW p \in 1 .. Len(input) + 2, NEW n \in 1 .. Len(input)
  PROVE  LET r == ClosesOf[input][p][n]
         IN  \/ /\ r = 0
                /\ \A q \in p .. Len(input) : ~ (Nesting(input, p, q) <= 0 - n)
             \/ /\ r \in p .. Len(input) /\ Nesting(input, p, r) <= 0 - n
                /\ \A q \in p .. r - 1 : ~ (Nesting(input, p, q) <= 0 - n)
<1> DEFINE ends == {q \in p .. Len(input) : Nesting(input, p, q) <= 0 - n}
           r == ClosesOf[input][p][n]
<1>0. Len(input) \in Nat
  BY InputIsSequence
<1>1. r = IF ends = {} THEN 0 ELSE Min(ends)
  BY DEF ClosesOf
<1>2. CASE ends = {}
  BY <1>1, <1>2
<1>3. CASE ends # {}
  <2>1. ends \in SUBSET Nat
    BY <1>0
  <2>2. \E m \in ends : \A q \in ends : m <= q
    BY <2>1, <1>3, LeastNatural
  <2>3. r \in ends /\ \A q \in ends : r <= q
    BY <1>1, <1>3, <2>2 DEF Min
  <2>4. r \in p .. Len(input) /\ Nesting(input, p, r) <= 0 - n
    BY <2>3
  <2>5. ASSUME NEW q \in p .. r - 1 PROVE ~ (Nesting(input, p, q) <= 0 - n)
    <3>1. q \in p .. Len(input) /\ ~ (r <= q)
      BY <1>0, <2>4
    <3>2. q \notin ends
      BY <2>3, <3>1
    <3>3. QED
      BY <3>1, <3>2
  <2>6. QED
    BY <2>4, <2>5
<1>4. QED
  BY <1>2, <1>3

-----------------------------------------------------------------------------
(* Containers and their members *)

Depth(q) == DepthOf[doc][q]
Close(o) == ClosesOf[doc][o + 1][1]
After(o, m) == AfterValue(doc, ValueStart(doc, o, m))

\* Kinds of tokens: what opens, what shuts, what begins a value or a key.
Opens(q) == doc[q] \in Openers
Shuts(q) == doc[q] \in Closers
Comma(q) == doc[q] = ","
Colon(q) == doc[q] = ":"
Begins(q) == doc[q] \notin Closers \cup {",", ":"}

LEMMA Kinds ==
  ASSUME NEW q
  PROVE  /\ Opens(q) => Begins(q) /\ ~ Shuts(q)
         /\ Begins(q) <=> ~ Shuts(q) /\ ~ Comma(q) /\ ~ Colon(q)
         /\ Comma(q) => ~ Opens(q) /\ ~ Shuts(q) /\ ~ Colon(q)
         /\ Colon(q) => ~ Opens(q) /\ ~ Shuts(q)
BY DEF Opens, Shuts, Comma, Colon, Begins, Openers, Closers

LEMMA DocLength ==
  ASSUME doc \in Inputs
  PROVE  Len(doc) \in Nat /\ Len(doc) >= 2
BY InputIsSequence

LEMMA DocDomain ==
  ASSUME doc \in Inputs
  PROVE  DOMAIN doc = 1 .. Len(doc)
BY InputIsSequence

\* Depths of the document at hand.
LEMMA DepthOfDoc ==
  ASSUME doc \in Inputs
  PROVE  /\ Depth(0) = 0
         /\ \A q \in 0 .. Len(doc) : Depth(q) \in Int /\ Depth(q) <= q
         /\ \A q \in 1 .. Len(doc) :
              /\ Opens(q) => Depth(q) = Depth(q - 1) + 1
              /\ Shuts(q) => Depth(q) = Depth(q - 1) - 1
              /\ ~ Opens(q) /\ ~ Shuts(q) => Depth(q) = Depth(q - 1)
<1>1. Depth(0) = 0 /\ \A q \in 0 .. Len(doc) : Depth(q) \in Int /\ Depth(q) <= q
  BY DepthStep DEF Depth
<1>2. ASSUME NEW q \in 1 .. Len(doc)
      PROVE  /\ Opens(q) => Depth(q) = Depth(q - 1) + 1
             /\ Shuts(q) => Depth(q) = Depth(q - 1) - 1
             /\ ~ Opens(q) /\ ~ Shuts(q) => Depth(q) = Depth(q - 1)
  <2>1. q - 1 \in 0 .. Len(doc)
    BY DocLength
  <2>2. Depth(q - 1) \in Int
    BY <1>1, <2>1
  <2>3. Depth(q) = Depth(q - 1) + (IF Opens(q) THEN 1 ELSE IF Shuts(q) THEN -1 ELSE 0)
    BY DepthStep DEF Depth, Opens, Shuts
  <2>4. ~ (Opens(q) /\ Shuts(q))
    BY Kinds
  <2>5. QED
    BY <2>2, <2>3, <2>4
<1>3. QED
  BY <1>1, <1>2

\* A container is deeper than what is around it up to its closing bracket.
LEMMA ContainerSpan ==
  ASSUME doc \in Inputs, NEW o \in 1 .. Len(doc), Opens(o)
  PROVE  /\ Close(o) \in o + 1 .. Len(doc) /\ Shuts(Close(o))
         /\ Depth(o) \in Int /\ Depth(o - 1) = Depth(o) - 1
         /\ Depth(Close(o)) = Depth(o) - 1
         /\ \A q \in o .. Close(o) - 1 : Depth(q) \in Int /\ Depth(q) >= Depth(o)
<1>1. WellFormedContainer(doc, o)
  BY DocDomain, InputsAssumption DEF WellFormed, Opens
<1>2. Close(o) # 0 /\ Shuts(Close(o))
  BY <1>1 DEF WellFormedContainer, Close, Shuts, Closers
<1>3. Len(doc) \in Nat /\ Len(doc) >= 2
  BY DocLength
<1>4. /\ Close(o) \in o + 1 .. Len(doc) /\ Nesting(doc, o + 1, Close(o)) <= 0 - 1
      /\ \A q \in o + 1 .. Close(o) - 1 : ~ (Nesting(doc, o + 1, q) <= 0 - 1)
  <2>1. o + 1 \in 1 .. Len(doc) + 2 /\ 1 \in 1 .. Len(doc)
    BY <1>3
  <2>2. QED
    BY <2>1, <1>2, ClosesAtFirst DEF Close
<1>5. \A q \in o + 1 .. Len(doc) : Nesting(doc, o + 1, q) = Depth(q) - Depth(o)
  BY <1>3 DEF Nesting, Depth
<1>6. Depth(o) \in Int /\ Depth(o - 1) = Depth(o) - 1
  <2>1. o \in 0 .. Len(doc) /\ o - 1 \in 0 .. Len(doc)
    BY <1>3
  <2>2. Depth(o) \in Int /\ Depth(o - 1) \in Int /\ Depth(o) = Depth(o - 1) + 1
    BY <2>1, DepthOfDoc
  <2>3. QED
    BY <2>2
<1>7. ASSUME NEW q \in o .. Close(o) - 1 PROVE Depth(q) \in Int /\ Depth(q) >= Depth(o)
  <2>1. q \in 0 .. Len(doc) /\ (q = o \/ q \in o + 1 .. Close(o) - 1)
    BY <1>3, <1>4
  <2>2. Depth(q) \in Int
    BY <2>1, DepthOfDoc
  <2>3. CASE q = o
    BY <2>3, <1>6
  <2>4. CASE q \in o + 1 .. Close(o) - 1
    <3>0. q \in o + 1 .. Len(doc)
      BY <1>3, <1>4, <2>4
    <3>1. ~ (Depth(q) - Depth(o) <= 0 - 1)
      BY <1>4, <1>5, <2>4, <3>0
    <3>2. QED
      BY <3>1, <2>2, <1>6
  <2>5. QED
    BY <2>1, <2>3, <2>4
<1>8. Depth(Close(o)) = Depth(o) - 1
  <2> DEFINE e == Close(o)
  <2>1. e \in 1 .. Len(doc) /\ e - 1 \in o .. Close(o) - 1 /\ e \in 0 .. Len(doc)
    BY <1>3, <1>4
  <2>2. Depth(e - 1) \in Int /\ Depth(e - 1) >= Depth(o)
    BY <2>1, <1>7
  <2>3. Depth(e) \in Int /\ Depth(e) = Depth(e - 1) - 1
    BY <1>2, <2>1, DepthOfDoc
  <2>4. Depth(e) - Depth(o) <= 0 - 1
    BY <1>4, <1>5
  <2> HIDE DEF e
  <2>5. Depth(e) = Depth(o) - 1
    BY <1>6, <2>2, <2>3, <2>4
  <2>6. QED
    BY <2>5 DEF e
<1>9. QED
  BY <1>2, <1>4, <1>6, <1>7, <1>8

\* Members are the starts of members, in order.
LEMMA MembersAscend ==
  ASSUME doc \in Inputs, NEW o \in 1 .. Len(doc)
  PROVE  /\ Members(o) \in Seq(Nat)
         /\ Len(Members(o)) \in Nat /\ DOMAIN Members(o) = 1 .. Len(Members(o))
         /\ \A k \in 1 .. Len(Members(o)) : Members(o)[k] \in MemberStarts(doc, o)
         /\ \A m \in MemberStarts(doc, o) : \E k \in 1 .. Len(Members(o)) : Members(o)[k] = m
         /\ \A j, k \in 1 .. Len(Members(o)) : j < k => Members(o)[j] < Members(o)[k]
<1> DEFINE S == MemberStarts(doc, o)
           n == Cardinality(S)
           M == Members(o)
<1>1. Len(doc) \in Nat /\ Len(doc) >= 2
  BY DocLength
<1>2. \A q \in S : q \in Nat /\ q \in 1 .. Len(doc)
  <2>1. \A q \in S : q \in o + 1 .. Len(doc)
    BY DEF MemberStarts
  <2> HIDE DEF S
  <2>2. QED
    BY <1>1, <2>1
<1>4. M = Ascending(S)
  BY <1>1 DEF Members, MembersOf
<1> HIDE DEF S
<1>3. IsFiniteSet(S) /\ S \in SUBSET Nat
  <2>1. IsFiniteSet(1 .. Len(doc))
    BY <1>1, FS_Interval
  <2>2. S \in SUBSET (1 .. Len(doc))
    BY <1>2
  <2>3. QED
    BY <1>2, <2>1, <2>2, FS_Subset
<1>5. M \in [1 .. n -> S] /\ \A j, k \in 1 .. n : j < k => M[j] < M[k]
  BY <1>3, <1>4, AscendingExists DEF Ascending
<1>6. n \in Nat
  BY <1>3, FS_CardinalityType
<1> HIDE DEF M, n
<1>7. M \in Seq(Nat) /\ Len(M) = n
  <2>1. M \in [1 .. n -> Nat]
    BY <1>2, <1>5
  <2>2. QED
    BY <1>6, <2>1
<1>8. ASSUME NEW m \in S PROVE \E k \in 1 .. n : M[k] = m
  <2>1. M \in Injection(1 .. n, S)
    <3>1. \A j, k \in 1 .. n : M[j] = M[k] => j = k
      <4> SUFFICES ASSUME NEW j \in 1 .. n, NEW k \in 1 .. n, M[j] = M[k], j # k
                   PROVE  FALSE
        OBVIOUS
      <4>1. j < k \/ k < j
        BY <1>6
      <4>2. M[j] \in Nat /\ M[k] \in Nat
        BY <1>2, <1>5
      <4>3. QED
        BY <4>1, <4>2, <1>5
    <3>2. QED
      BY <3>1, <1>5 DEF Injection, IsInjective
  <2>2. IsFiniteSet(1 .. n) /\ Cardinality(1 .. n) = n
    BY <1>6, FS_Interval
  <2>3. M \in Surjection(1 .. n, S)
    BY <2>1, <2>2, <1>3, FS_Injection DEF n
  <2>4. QED
    BY <2>3, <1>8 DEF Surjection
<1>9. QED
  BY <1>5, <1>6, <1>7, <1>8 DEF S, M

\* The first bracket closes with the last token: nothing is closed that was not opened.
LEMMA DepthIsNatural ==
  ASSUME doc \in Inputs, NEW q \in 0 .. Len(doc)
  PROVE  Depth(q) \in Nat /\ Depth(q) <= q
<1>1. Len(doc) \in Nat /\ Len(doc) >= 2
  BY DocLength
<1>2. 1 \in 1 .. Len(doc) /\ Opens(1) /\ Close(1) = Len(doc)
  <2>1. WellFormed(doc)
    BY InputsAssumption
  <2>2. doc[1] \in Openers /\ ClosesOf[doc][2][1] = Len(doc)
    BY <2>1 DEF WellFormed
  <2>3. 1 + 1 = 2
    OBVIOUS
  <2>4. QED
    BY <1>1, <2>2, <2>3 DEF Opens, Close
<1>3. /\ Depth(Len(doc)) = Depth(1) - 1 /\ Depth(1 - 1) = Depth(1) - 1 /\ Depth(1) \in Int
      /\ \A k \in 1 .. Len(doc) - 1 : Depth(k) >= Depth(1)
  BY <1>2, ContainerSpan
<1>4. Depth(q) \in Int /\ Depth(q) <= q /\ Depth(0) = 0
  BY DepthOfDoc
<1>5. q = 0 \/ q = Len(doc) \/ q \in 1 .. Len(doc) - 1
  BY <1>1
<1>6. QED
  BY <1>3, <1>4, <1>5

\* A member starts where the container is open and nothing in it is.
LEMMA MemberStartsInside ==
  ASSUME doc \in Inputs, NEW o \in 1 .. Len(doc), Opens(o), NEW q
  PROVE  q \in MemberStarts(doc, o) <=>
           q \in o + 1 .. Close(o) - 1 /\ Begins(q) /\ ~ Colon(q - 1) /\ Depth(q - 1) = Depth(o)
<1>1. Len(doc) \in Nat /\ Len(doc) >= 2
  BY DocLength
<1>2. /\ Close(o) \in o + 1 .. Len(doc) /\ Shuts(Close(o))
      /\ Depth(o) \in Int /\ Depth(o - 1) = Depth(o) - 1
      /\ Depth(Close(o)) = Depth(o) - 1
      /\ \A k \in o .. Close(o) - 1 : Depth(k) \in Int /\ Depth(k) >= Depth(o)
  BY ContainerSpan
<1>3. \A k \in o .. Len(doc) : Nesting(doc, o, k) = Depth(k) - Depth(o) + 1
  <2>1. \A k \in o .. Len(doc) : Nesting(doc, o, k) = Depth(k) - Depth(o - 1)
    BY DEF Nesting, Depth
  <2>2. \A k \in o .. Len(doc) : Depth(k) \in Int
    <3>1. \A k \in o .. Len(doc) : k \in 0 .. Len(doc)
      BY <1>1
    <3>2. QED
      BY <3>1, DepthOfDoc
  <2>3. QED
    BY <1>2, <2>1, <2>2
<1>4. q \in MemberStarts(doc, o) <=>
        /\ q \in o + 1 .. Len(doc) /\ Begins(q) /\ ~ Colon(q - 1)
        /\ \A k \in o .. q - 1 : Nesting(doc, o, k) >= 1
        /\ Nesting(doc, o, q - 1) = 1
  BY DEF MemberStarts, Begins, Colon
<1>5. ASSUME q \in o + 1 .. Len(doc), Begins(q),
             \A k \in o .. q - 1 : Nesting(doc, o, k) >= 1, Nesting(doc, o, q - 1) = 1
      PROVE  q \in o + 1 .. Close(o) - 1 /\ Depth(q - 1) = Depth(o)
  <2>1. q - 1 \in o .. Len(doc) /\ q - 1 \in 0 .. Len(doc)
    BY <1>1, <1>5
  <2>2. Depth(q - 1) \in Int
    BY <2>1, DepthOfDoc
  <2>3. Depth(q - 1) = Depth(o)
    <3>1. Nesting(doc, o, q - 1) = Depth(q - 1) - Depth(o) + 1
      BY <1>3, <2>1
    <3>2. Depth(o) \in Int
      BY <1>2
    <3>3. Nesting(doc, o, q - 1) = 1
      BY <1>5
    <3>4. QED
      BY <2>2, <3>1, <3>2, <3>3
  <2>4. ~ (Close(o) <= q - 1)
    <3>1. SUFFICES ASSUME Close(o) <= q - 1 PROVE FALSE
      OBVIOUS
    <3>2. Close(o) \in o .. q - 1 /\ Close(o) \in o .. Len(doc)
      BY <1>1, <1>2, <1>5, <3>1
    <3>3. Depth(Close(o)) - Depth(o) + 1 >= 1
      BY <1>3, <1>5, <3>2
    <3>4. QED
      BY <1>2, <3>3
  <2>5. q # Close(o)
    BY <1>2, <1>5, Kinds
  <2>6. QED
    BY <1>1, <1>2, <1>5, <2>3, <2>4, <2>5
<1>6. ASSUME q \in o + 1 .. Close(o) - 1, Depth(q - 1) = Depth(o)
      PROVE  /\ q \in o + 1 .. Len(doc)
             /\ \A k \in o .. q - 1 : Nesting(doc, o, k) >= 1
             /\ Nesting(doc, o, q - 1) = 1
  <2>1. q \in o + 1 .. Len(doc) /\ q - 1 \in o .. Len(doc)
    BY <1>1, <1>2, <1>6
  <2>2. ASSUME NEW k \in o .. q - 1 PROVE Nesting(doc, o, k) >= 1
    <3>1. k \in o .. Close(o) - 1 /\ k \in o .. Len(doc)
      BY <1>1, <1>2, <1>6
    <3>2. Depth(k) \in Int /\ Depth(k) >= Depth(o) /\ Nesting(doc, o, k) = Depth(k) - Depth(o) + 1
      BY <1>2, <1>3, <3>1
    <3>3. QED
      BY <1>2, <3>2
  <2>3. Nesting(doc, o, q - 1) = 1
    BY <1>2, <1>3, <1>6, <2>1
  <2>4. QED
    BY <2>1, <2>2, <2>3
<1>7. QED
  BY <1>4, <1>5, <1>6

\* What a member is read as: its key, if the container is keyed, then its value, up to
\* what comes after the value.
Keyed(o) == doc[o] = "{"
Val(o, m) == ValueStart(doc, o, m)
MemberAtPlace(o, m) ==
  m \in MemberStarts(doc, o) /\ BeginsMember(doc, o, m)

LEMMA Grammar ==
  ASSUME doc \in Inputs, NEW o \in 1 .. Len(doc), Opens(o)
  PROVE  /\ Close(o) = o + 1 \/ BeginsMember(doc, o, o + 1)
         /\ \A m \in MemberStarts(doc, o) :
              \/ After(o, m) = Close(o)
              \/ Comma(After(o, m)) /\ BeginsMember(doc, o, After(o, m) + 1)
<1>1. WellFormedContainer(doc, o)
  BY DocDomain, InputsAssumption DEF WellFormed, Opens
<1>2. QED
  BY <1>1 DEF WellFormedContainer, Close, After, Comma

LEMMA MemberMeans ==
  ASSUME doc \in Inputs, NEW o, NEW p, BeginsMember(doc, o, p)
  PROVE  /\ p \in 1 .. Len(doc) /\ Begins(p)
         /\ Keyed(o) => /\ ~ Opens(p) /\ Colon(p + 1)
                        /\ p + 2 \in 1 .. Len(doc) /\ Begins(p + 2)
<1>1. DOMAIN doc = 1 .. Len(doc)
  BY DocDomain
<1>2. QED
  BY <1>1 DEF BeginsMember, BeginsValue, Keyed, Opens, Begins, Colon

LEMMA ValueAndAfter ==
  ASSUME NEW o, NEW m
  PROVE  /\ Val(o, m) = IF Keyed(o) THEN m + 2 ELSE m
         /\ After(o, m) = (IF Opens(Val(o, m)) THEN Close(Val(o, m)) ELSE Val(o, m)) + 1
BY DEF Val, After, ValueStart, AfterValue, Keyed, Opens, Close

\* Where the value of a member is.
LEMMA ValueSpan ==
  ASSUME doc \in Inputs, NEW o \in 1 .. Len(doc), Opens(o), NEW m, MemberAtPlace(o, m)
  PROVE  /\ m \in o + 1 .. Close(o) - 1 /\ Val(o, m) \in m .. Close(o) - 1
         /\ Begins(Val(o, m)) /\ Depth(Val(o, m) - 1) = Depth(o)
         /\ Keyed(o) => ~ Opens(m) /\ Colon(m + 1) /\ Val(o, m) = m + 2
         /\ ~ Keyed(o) => Val(o, m) = m
<1>1. Len(doc) \in Nat /\ Len(doc) >= 2
  BY DocLength
<1>2. Close(o) \in o + 1 .. Len(doc) /\ Shuts(Close(o))
  BY ContainerSpan
<1>3. m \in o + 1 .. Close(o) - 1 /\ Depth(m - 1) = Depth(o)
  BY MemberStartsInside DEF MemberAtPlace
<1>4. /\ Begins(m)
      /\ Keyed(o) => ~ Opens(m) /\ Colon(m + 1) /\ m + 2 \in 1 .. Len(doc) /\ Begins(m + 2)
  BY MemberMeans DEF MemberAtPlace
<1>5. CASE ~ Keyed(o)
  <2>1. Val(o, m) = m
    BY <1>5, ValueAndAfter
  <2>2. QED
    BY <1>1, <1>2, <1>3, <1>4, <1>5, <2>1
<1>6. CASE Keyed(o)
  <2>1. Val(o, m) = m + 2
    BY <1>6, ValueAndAfter
  <2>2. m + 1 # Close(o) /\ m + 2 # Close(o)
    BY <1>2, <1>4, <1>6, Kinds
  <2>3. m \in 1 .. Len(doc) /\ m + 1 \in 1 .. Len(doc)
    BY <1>1, <1>2, <1>3, <1>4, <1>6
  <2>4. ~ Opens(m) /\ ~ Shuts(m) /\ ~ Opens(m + 1) /\ ~ Shuts(m + 1)
    BY <1>4, <1>6, Kinds
  <2>5. Depth(m) = Depth(m - 1) /\ Depth(m + 1) = Depth((m + 1) - 1)
    BY <2>3, <2>4, DepthOfDoc
  <2>6. (m + 1) - 1 = m /\ (m + 2) - 1 = m + 1
    BY <1>3
  <2>7. Depth((m + 2) - 1) = Depth(o)
    BY <1>3, <2>5, <2>6
  <2>8. QED
    BY <1>1, <1>2, <1>3, <1>4, <1>6, <2>1, <2>2, <2>7
<1>7. QED
  BY <1>5, <1>6

\* Inside a value is deeper, and after it is as deep as before.
LEMMA AfterSpan ==
  ASSUME doc \in Inputs, NEW o \in 1 .. Len(doc), Opens(o), NEW m, MemberAtPlace(o, m)
  PROVE  /\ After(o, m) \in Val(o, m) + 1 .. Close(o) /\ Depth(After(o, m) - 1) = Depth(o)
         /\ \A q \in Val(o, m) .. After(o, m) - 2 :
              Depth(q) \in Int /\ Depth(q) >= Depth(o) + 1
         /\ ~ Opens(Val(o, m)) => After(o, m) = Val(o, m) + 1
<1> DEFINE v == Val(o, m)
           t == After(o, m)
           e == Close(o)
<1>1. Len(doc) \in Nat /\ Len(doc) >= 2
  BY DocLength
<1>2. e \in o + 1 .. Len(doc) /\ Depth(e) = Depth(o) - 1 /\ Depth(o) \in Int
  BY ContainerSpan
<1>3. m \in o + 1 .. e - 1 /\ v \in m .. e - 1 /\ Begins(v) /\ Depth(v - 1) = Depth(o)
  BY ValueSpan
<1>4. t = (IF Opens(v) THEN Close(v) ELSE v) + 1
  BY ValueAndAfter
<1> HIDE DEF v, t, e
<1>5. v \in 1 .. Len(doc)
  BY <1>1, <1>2, <1>3
<1>6. CASE Opens(v)
  <2> DEFINE f == Close(v)
  <2>1. /\ f \in v + 1 .. Len(doc)
        /\ Depth(v) \in Int /\ Depth(v - 1) = Depth(v) - 1 /\ Depth(f) = Depth(v) - 1
        /\ \A q \in v .. f - 1 : Depth(q) \in Int /\ Depth(q) >= Depth(v)
    BY <1>5, <1>6, ContainerSpan
  <2>2. t = f + 1
    BY <1>4, <1>6
  <2> HIDE DEF f
  <2>3. e # f
    BY <1>2, <1>3, <2>1
  <2>4. ~ (e \in v .. f - 1)
    BY <1>2, <1>3, <2>1
  <2>5. f < e
    BY <1>1, <1>2, <1>3, <2>1, <2>3, <2>4
  <2>6. t - 1 = f /\ t \in v + 1 .. e /\ t - 2 = f - 1
    BY <1>1, <1>2, <1>3, <2>1, <2>2, <2>5
  <2>7. Depth(t - 1) = Depth(o)
    BY <1>3, <2>1, <2>6
  <2>8. \A q \in v .. t - 2 : Depth(q) \in Int /\ Depth(q) >= Depth(o) + 1
    BY <1>2, <1>3, <2>1, <2>6
  <2>9. QED
    BY <1>6, <2>6, <2>7, <2>8 DEF t, v, e
<1>7. CASE ~ Opens(v)
  <2>1. t = v + 1 /\ t - 1 = v
    BY <1>3, <1>4, <1>7
  <2>2. ~ Shuts(v)
    BY <1>3, Kinds
  <2>3. Depth(t - 1) = Depth(o)
    BY <1>3, <1>5, <1>7, <2>1, <2>2, DepthOfDoc
  <2>4. t \in v + 1 .. e
    BY <1>2, <1>3, <2>1
  <2>5. \A q : q \notin v .. t - 2
    BY <1>3, <2>1
  <2>6. QED
    BY <2>1, <2>3, <2>4, <2>5 DEF t, v, e
<1>8. QED
  BY <1>6, <1>7

\* After a member comes the end of the container, or a comma and the next member.
LEMMA NextAfter ==
  ASSUME doc \in Inputs, NEW o \in 1 .. Len(doc), Opens(o), NEW m, MemberAtPlace(o, m)
  PROVE  /\ \A q \in MemberStarts(doc, o) : q > m => q > After(o, m)
         /\ \/ After(o, m) = Close(o)
            \/ Comma(After(o, m)) /\ MemberAtPlace(o, After(o, m) + 1)
<1> DEFINE v == Val(o, m)
           t == After(o, m)
           e == Close(o)
<1>1. Len(doc) \in Nat /\ Len(doc) >= 2
  BY DocLength
<1>2. /\ e \in o + 1 .. Len(doc) /\ Shuts(e) /\ Depth(o) \in Int
      /\ \A q \in o .. e - 1 : Depth(q) \in Int /\ Depth(q) >= Depth(o)
  BY ContainerSpan
<1>3. /\ m \in o + 1 .. e - 1 /\ v \in m .. e - 1
      /\ Keyed(o) => Colon(m + 1) /\ v = m + 2
      /\ ~ Keyed(o) => v = m
  BY ValueSpan
<1>4. /\ t \in v + 1 .. e /\ Depth(t - 1) = Depth(o)
      /\ \A q \in v .. t - 2 : Depth(q) \in Int /\ Depth(q) >= Depth(o) + 1
  BY AfterSpan
<1>5. t = e \/ (Comma(t) /\ BeginsMember(doc, o, t + 1))
  BY Grammar DEF MemberAtPlace
<1> HIDE DEF v, t, e
<1>6. ASSUME NEW q \in MemberStarts(doc, o), q > m PROVE q > t
  <2>1. q \in o + 1 .. e - 1 /\ Begins(q) /\ ~ Colon(q - 1) /\ Depth(q - 1) = Depth(o)
    BY MemberStartsInside DEF e
  <2>2. q # t
    BY <1>5, <2>1, Kinds
  <2>3. ~ (q \in v + 1 .. t - 1)
    <3>1. SUFFICES ASSUME q \in v + 1 .. t - 1 PROVE FALSE
      OBVIOUS
    <3>2. q - 1 \in v .. t - 2
      BY <1>1, <1>2, <1>3, <1>4, <2>1, <3>1
    <3>3. QED
      BY <1>2, <1>4, <2>1, <3>2
  <2>4. ~ (q \in m + 1 .. v)
    <3>1. CASE ~ Keyed(o)
      BY <1>3, <3>1
    <3>2. CASE Keyed(o)
      <4>2. q # m + 1
        BY <1>3, <2>1, <3>2, Kinds
      <4>3. q # m + 2
        <5>1. (m + 2) - 1 = m + 1
          BY <1>3
        <5>2. QED
          BY <1>3, <2>1, <3>2, <5>1
      <4>4. QED
        BY <1>3, <3>2, <4>2, <4>3
    <3>3. QED
      BY <3>1, <3>2
  <2>5. QED
    BY <1>3, <1>4, <1>6, <2>1, <2>2, <2>3, <2>4
<1>7. ASSUME Comma(t), BeginsMember(doc, o, t + 1), t # e PROVE MemberAtPlace(o, t + 1)
  <2>1. Begins(t + 1) /\ t + 1 \in 1 .. Len(doc)
    BY <1>7, MemberMeans
  <2>2. t \in 1 .. Len(doc) /\ t \in o + 1 .. e - 1
    BY <1>1, <1>2, <1>3, <1>4, <1>7
  <2>3. ~ Opens(t) /\ ~ Shuts(t) /\ ~ Colon(t)
    BY <1>7, Kinds
  <2>4. Depth(t) = Depth(o)
    BY <1>4, <2>2, <2>3, DepthOfDoc
  <2>5. (t + 1) - 1 = t
    BY <2>2
  <2>6. t + 1 # e
    BY <1>2, <2>1, Kinds
  <2>7. t + 1 \in o + 1 .. e - 1
    BY <1>1, <1>2, <2>2, <2>6
  <2>8. t + 1 \in MemberStarts(doc, o)
    BY <2>1, <2>3, <2>4, <2>5, <2>7, MemberStartsInside DEF e
  <2>9. QED
    BY <1>7, <2>8 DEF MemberAtPlace
<1>8. QED
  BY <1>5, <1>6, <1>7 DEF t, e

\* The members, one after the other: the first follows the bracket, each other one the
\* comma after the one before it, and the last is followed by the closing bracket.
Size(o) == Len(Members(o))

LEMMA MembersFollow ==
  ASSUME doc \in Inputs, NEW o \in 1 .. Len(doc), Opens(o)
  PROVE  /\ Size(o) \in Nat
         /\ Size(o) = 0 <=> Close(o) = o + 1
         /\ Size(o) # 0 => Members(o)[1] = o + 1
         /\ \A k \in 1 .. Size(o) : MemberAtPlace(o, Members(o)[k])
         /\ \A k \in 1 .. Size(o) - 1 :
              /\ Comma(After(o, Members(o)[k]))
              /\ Members(o)[k + 1] = After(o, Members(o)[k]) + 1
         /\ Size(o) # 0 => After(o, Members(o)[Size(o)]) = Close(o)
<1> DEFINE n == Size(o)
           e == Close(o)
           S == MemberStarts(doc, o)
           Nth(k) == Members(o)[k]
<1>1. Len(doc) \in Nat /\ Len(doc) >= 2
  BY DocLength
<1>2. /\ n \in Nat
      /\ \A k \in 1 .. n : Nth(k) \in S
      /\ \A m \in S : \E k \in 1 .. n : Nth(k) = m
      /\ \A j, k \in 1 .. n : j < k => Nth(j) < Nth(k)
  BY MembersAscend DEF Size
<1>3. e \in o + 1 .. Len(doc) /\ Shuts(e) /\ Depth(o) \in Int
  BY ContainerSpan
<1>4. \A m \in S : m \in o + 1 .. e - 1
  BY MemberStartsInside
<1>5. e = o + 1 \/ BeginsMember(doc, o, o + 1)
  BY Grammar
<1>6. ASSUME BeginsMember(doc, o, o + 1), e # o + 1 PROVE MemberAtPlace(o, o + 1)
  <2>1. Begins(o + 1)
    BY <1>6, MemberMeans
  <2>2. ~ Colon(o)
    BY Kinds
  <2>3. o + 1 \in o + 1 .. e - 1 /\ (o + 1) - 1 = o
    BY <1>1, <1>3, <1>6
  <2>4. o + 1 \in S
    BY <2>1, <2>2, <2>3, MemberStartsInside
  <2>5. QED
    BY <1>6, <2>4 DEF MemberAtPlace
<1> HIDE DEF n, e, S, Nth
<1>7. n = 0 <=> e = o + 1
  <2>1. ASSUME e = o + 1 PROVE n = 0
    <3>1. SUFFICES ASSUME n # 0 PROVE FALSE
      OBVIOUS
    <3>2. 1 \in 1 .. n
      BY <1>2, <3>1
    <3>3. Nth(1) \in o + 1 .. e - 1
      BY <1>2, <1>4, <3>2
    <3>4. QED
      BY <2>1, <3>3
  <2>2. ASSUME e # o + 1 PROVE n # 0
    <3>1. o + 1 \in S
      BY <1>5, <1>6, <2>2 DEF MemberAtPlace, S
    <3>2. PICK k \in 1 .. n : Nth(k) = o + 1
      BY <1>2, <3>1
    <3>3. QED
      BY <1>2, <3>2
  <2>3. QED
    BY <2>1, <2>2
<1>8. ASSUME n # 0 PROVE Nth(1) = o + 1 /\ MemberAtPlace(o, Nth(1))
  <2>1. MemberAtPlace(o, o + 1) /\ o + 1 \in S
    BY <1>5, <1>6, <1>7, <1>8 DEF MemberAtPlace, S
  <2>2. PICK k \in 1 .. n : Nth(k) = o + 1
    BY <1>2, <2>1
  <2>3. 1 \in 1 .. n
    BY <1>2, <1>8
  <2>4. Nth(1) \in o + 1 .. e - 1
    BY <1>2, <1>4, <2>3
  <2>5. Nth(1) = o + 1
    BY <1>2, <2>2, <2>3, <2>4
  <2>6. QED
    BY <2>1, <2>5
<1>9. ASSUME NEW k \in 1 .. n, MemberAtPlace(o, Nth(k))
      PROVE  /\ k < n => /\ Comma(After(o, Nth(k))) /\ Nth(k + 1) = After(o, Nth(k)) + 1
                         /\ MemberAtPlace(o, Nth(k + 1))
             /\ k = n => After(o, Nth(k)) = e
  <2> DEFINE t == After(o, Nth(k))
  <2>1. /\ \A q \in S : q > Nth(k) => q > t
        /\ t = e \/ (Comma(t) /\ MemberAtPlace(o, t + 1))
    BY <1>9, NextAfter DEF S, e
  <2>2. /\ Val(o, Nth(k)) \in Nth(k) .. e - 1 /\ t \in Val(o, Nth(k)) + 1 .. e
        /\ Nth(k) \in o + 1 .. e - 1
    BY <1>9, ValueSpan, AfterSpan DEF e
  <2>3. MemberAtPlace(o, t + 1) => t + 1 \in S
    BY DEF MemberAtPlace, S
  <2> HIDE DEF t
  <2>4. t > Nth(k) /\ t \in o + 1 .. e /\ Nth(k) \in Int
    BY <1>1, <1>3, <2>2
  <2>5. ASSUME k < n PROVE Comma(t) /\ Nth(k + 1) = t + 1 /\ MemberAtPlace(o, t + 1)
    <3>1. k + 1 \in 1 .. n /\ k < k + 1
      BY <1>2, <2>5
    <3>2. Nth(k + 1) \in S /\ Nth(k + 1) > Nth(k) /\ Nth(k + 1) \in o + 1 .. e - 1
      BY <1>2, <1>4, <3>1, <2>4
    <3>3. Nth(k + 1) > t
      BY <2>1, <3>2
    <3>4. t # e
      BY <3>2, <3>3, <1>3
    <3>5. Comma(t) /\ MemberAtPlace(o, t + 1) /\ t + 1 \in S
      BY <2>1, <2>3, <3>4
    <3>6. PICK j \in 1 .. n : Nth(j) = t + 1
      BY <1>2, <3>5
    <3>7. ~ (j <= k)
      <4>1. SUFFICES ASSUME j <= k PROVE FALSE
        OBVIOUS
      <4>2. j = k \/ j < k
        BY <1>2, <4>1
      <4>3. Nth(j) = Nth(k) \/ Nth(j) < Nth(k)
        BY <1>2, <4>2
      <4>4. QED
        BY <2>4, <3>6, <4>3
    <3>8. Nth(k + 1) = Nth(j) \/ Nth(k + 1) < Nth(j)
      <4>1. j = k + 1 \/ k + 1 < j
        BY <1>2, <3>7
      <4>2. QED
        BY <1>2, <3>1, <4>1
    <3>9. QED
      BY <2>4, <3>2, <3>3, <3>5, <3>6, <3>8
  <2>6. ASSUME k = n PROVE t = e
    <3>1. SUFFICES ASSUME MemberAtPlace(o, t + 1) PROVE FALSE
      BY <2>1
    <3>2. PICK j \in 1 .. n : Nth(j) = t + 1
      BY <1>2, <2>3, <3>1
    <3>3. j = k \/ j < k
      BY <1>2, <2>6
    <3>4. Nth(j) = Nth(k) \/ Nth(j) < Nth(k)
      BY <1>2, <3>3
    <3>5. QED
      BY <2>4, <3>2, <3>4
  <2>7. QED
    BY <2>5, <2>6 DEF t
<1>10. ASSUME NEW k \in 1 .. n PROVE MemberAtPlace(o, Nth(k))
  <2> DEFINE T == {i \in Nat : i + 1 \in 1 .. n => MemberAtPlace(o, Nth(i + 1))}
  <2>1. 0 \in T
    <3>1. 0 + 1 = 1
      OBVIOUS
    <3>2. QED
      BY <1>2, <1>8, <3>1
  <2>2. ASSUME NEW i \in Nat, i \in T PROVE i + 1 \in T
    <3>1. SUFFICES ASSUME (i + 1) + 1 \in 1 .. n PROVE MemberAtPlace(o, Nth((i + 1) + 1))
      OBVIOUS
    <3>2. i + 1 \in 1 .. n /\ i + 1 < n
      BY <1>2, <3>1
    <3>3. MemberAtPlace(o, Nth(i + 1))
      BY <2>2, <3>2
    <3>4. QED
      BY <1>9, <3>2, <3>3
  <2> HIDE DEF T
  <2>3. k - 1 \in T
    <3>1. k - 1 \in Nat
      BY <1>2
    <3>2. QED
      BY <2>1, <2>2, <3>1, SetInduction
  <2>4. (k - 1) + 1 = k
    BY <1>2
  <2>5. QED
    BY <2>3, <2>4 DEF T
<1>11. ASSUME NEW k \in 1 .. n - 1
       PROVE  Comma(After(o, Nth(k))) /\ Nth(k + 1) = After(o, Nth(k)) + 1
  <2>1. k \in 1 .. n /\ k < n
    BY <1>2
  <2>2. QED
    BY <1>9, <1>10, <2>1
<1>12. n # 0 => After(o, Nth(n)) = e
  BY <1>2, <1>9, <1>10
<1>13. QED
  BY <1>2, <1>7, <1>8, <1>10, <1>11, <1>12 DEF n, e, Nth

\* A loop over a container has rounds enough: there is a comma before every member but
\* the first.
LEMMA RoundsEnough ==
  ASSUME doc \in Inputs, NEW o \in 1 .. Len(doc), Opens(o)
  PROVE  MaxRounds \in Nat /\ MaxRounds >= 1 /\ Size(o) <= MaxRounds
<1> DEFINE n == Size(o)
           commas == {p \in 1 .. Len(doc) : doc[p] = ","}
           f == [k \in 1 .. n - 1 |-> After(o, Members(o)[k])]
<1>1. MaxRounds = 1 + Cardinality(commas)
  <2>1. DOMAIN doc = 1 .. Len(doc)
    BY DocDomain
  <2>2. MaxRounds = 1 + Cardinality({p \in DOMAIN doc : doc[p] = ","})
    BY DEF MaxRounds, RoundsOf
  <2>3. QED
    BY <2>1, <2>2
<1>2. Len(doc) \in Nat
  BY DocLength
<1>3. IsFiniteSet(commas)
  <2>1. commas \in SUBSET (1 .. Len(doc))
    OBVIOUS
  <2>2. IsFiniteSet(1 .. Len(doc))
    BY <1>2, FS_Interval
  <2> HIDE DEF commas
  <2>3. QED
    BY <2>1, <2>2, FS_Subset
<1>4. n \in Nat
  BY MembersFollow
<1>5. ASSUME NEW k \in 1 .. n - 1
      PROVE  /\ Members(o)[k + 1] = After(o, Members(o)[k]) + 1
             /\ After(o, Members(o)[k]) \in 1 .. Len(doc) /\ Comma(After(o, Members(o)[k]))
  <2>1. k \in 1 .. n
    BY <1>4
  <2>2. MemberAtPlace(o, Members(o)[k])
    BY <2>1, MembersFollow
  <2>3. /\ Members(o)[k] \in o + 1 .. Close(o) - 1
        /\ Val(o, Members(o)[k]) \in Members(o)[k] .. Close(o) - 1
        /\ After(o, Members(o)[k]) \in Val(o, Members(o)[k]) + 1 .. Close(o)
    BY <2>2, ValueSpan, AfterSpan
  <2>4. Close(o) \in o + 1 .. Len(doc)
    BY ContainerSpan
  <2>5. After(o, Members(o)[k]) \in 1 .. Len(doc)
    BY <1>2, <2>3, <2>4
  <2>6. QED
    BY <2>5, MembersFollow
<1>6. f \in Injection(1 .. n - 1, commas)
  <2>1. f \in [1 .. n - 1 -> commas]
    BY <1>5 DEF Comma
  <2>2. ASSUME NEW j \in 1 .. n - 1, NEW k \in 1 .. n - 1, f[j] = f[k] PROVE j = k
    <3>1. f[j] = After(o, Members(o)[j]) /\ f[k] = After(o, Members(o)[k])
      OBVIOUS
    <3> HIDE DEF f
    <3>2. Members(o)[j + 1] = Members(o)[k + 1]
      <4>1. Members(o)[j + 1] = f[j] + 1 /\ Members(o)[k + 1] = f[k] + 1
        BY <1>5, <3>1
      <4>2. QED
        BY <2>2, <4>1
    <3>3. j + 1 \in 1 .. n /\ k + 1 \in 1 .. n
      BY <1>4
    <3>4. /\ j + 1 < k + 1 => Members(o)[j + 1] < Members(o)[k + 1]
          /\ k + 1 < j + 1 => Members(o)[k + 1] < Members(o)[j + 1]
      BY <3>3, MembersAscend DEF Size
    <3>5. Members(o)[k + 1] \in Int
      BY <3>3, MembersAscend DEF Size
    <3>6. ~ (j < k) /\ ~ (k < j)
      BY <1>4, <3>2, <3>4, <3>5
    <3>7. QED
      BY <3>6
  <2> HIDE DEF f, commas
  <2>3. QED
    BY <2>1, <2>2 DEF Injection, IsInjective
<1> HIDE DEF f, commas
<1>7. CASE n = 0
  BY <1>1, <1>3, <1>7, FS_CardinalityType
<1>8. CASE n # 0
  <2>1. IsFiniteSet(1 .. n - 1) /\ Cardinality(1 .. n - 1) = n - 1
    <3>1. n - 1 \in Nat
      BY <1>4, <1>8
    <3> HIDE DEF n
    <3>2. QED
      BY <3>1, FS_Interval
  <2>2. Cardinality(1 .. n - 1) <= Cardinality(commas)
    BY <1>3, <1>6, <2>1, FS_Injection
  <2>3. Cardinality(commas) \in Nat
    BY <1>3, FS_CardinalityType
  <2>4. QED
    BY <1>1, <1>4, <2>1, <2>2, <2>3
<1>9. QED
  BY <1>7, <1>8

-----------------------------------------------------------------------------
(* The tokens a cursor looks at *)

LEMMA TokenIs ==
  ASSUME doc \in Inputs
  PROVE  /\ \A p \in 1 .. Len(doc) : Token(p) = doc[p] /\ doc[p] # "end"
         /\ \A p : p \notin 1 .. Len(doc) => Token(p) = "end"
<1>1. DOMAIN doc = 1 .. Len(doc)
  BY DocDomain
<1>2. \A p \in DOMAIN doc : doc[p] # "end"
  BY InputsAssumption DEF WellFormed
<1>3. QED
  BY <1>1, <1>2 DEF Token

\* Only a scalar has a colon after it.
LEMMA KeyIsScalar ==
  ASSUME doc \in Inputs, NEW p \in 1 .. Len(doc), IsKey(p)
  PROVE  ~ Opens(p) /\ ~ Shuts(p) /\ p + 1 \in 1 .. Len(doc) /\ Colon(p + 1)
<1>1. Len(doc) \in Nat /\ Len(doc) >= 2
  BY DocLength
<1>2. Token(p + 1) = ":"
  BY DEF IsKey
<1>3. p + 1 \in 1 .. Len(doc) /\ Colon(p + 1)
  BY <1>2, TokenIs DEF Colon
<1>4. ~ Shuts(p)
  <2>1. SUFFICES ASSUME Shuts(p) PROVE FALSE
    OBVIOUS
  <2>2. p \in DOMAIN doc /\ p # Len(doc)
    <3>1. p # Len(doc)
      BY <1>1, <1>3
    <3>2. p \in DOMAIN doc
      BY DocDomain
    <3>3. QED
      BY <3>1, <3>2
  <2>3. doc[p + 1] \in Closers \cup {","}
    BY <2>1, <2>2, InputsAssumption DEF WellFormed, Shuts
  <2>4. QED
    BY <1>3, <2>3 DEF Colon, Closers
<1>5. ~ Opens(p)
  <2>1. SUFFICES ASSUME Opens(p) PROVE FALSE
    OBVIOUS
  <2>2. Close(p) # p + 1
    BY <1>3, <2>1, ContainerSpan, Kinds
  <2>3. Begins(p + 1)
    BY <2>1, <2>2, Grammar, MemberMeans
  <2>4. QED
    BY <1>3, <2>3, Kinds
<1>6. QED
  BY <1>3, <1>4, <1>5

\* The first token to close as many brackets as those of p that are deeper.
LEMMA FirstToClose ==
  ASSUME doc \in Inputs, NEW p \in 1 .. Len(doc), NEW f \in p + 1 .. Len(doc),
         NEW n \in 1 .. Len(doc), Depth(f) = Depth(p) - n,
         \A q \in p + 1 .. f - 1 : Depth(q) > Depth(p) - n
  PROVE  ClosesOf[doc][p + 1][n] = f
<1> DEFINE r == ClosesOf[doc][p + 1][n]
<1>1. Len(doc) \in Nat /\ Len(doc) >= 2
  BY DocLength
<1>2. p + 1 \in 1 .. Len(doc) + 2
  BY <1>1
<1>3. \/ r = 0 /\ \A q \in p + 1 .. Len(doc) : ~ (Nesting(doc, p + 1, q) <= 0 - n)
      \/ /\ r \in p + 1 .. Len(doc) /\ Nesting(doc, p + 1, r) <= 0 - n
         /\ \A q \in p + 1 .. r - 1 : ~ (Nesting(doc, p + 1, q) <= 0 - n)
  BY <1>2, ClosesAtFirst
<1>4. \A q \in p + 1 .. Len(doc) : Nesting(doc, p + 1, q) = Depth(q) - Depth(p)
  BY DEF Nesting, Depth
<1>5. Depth(p) \in Int /\ \A q \in p + 1 .. Len(doc) : Depth(q) \in Int
  <2>1. p \in 0 .. Len(doc) /\ \A q \in p + 1 .. Len(doc) : q \in 0 .. Len(doc)
    BY <1>1
  <2>2. QED
    BY <2>1, DepthOfDoc
<1> HIDE DEF r
<1>6. Nesting(doc, p + 1, f) <= 0 - n
  BY <1>4, <1>5
<1>7. r \in p + 1 .. Len(doc) /\ Nesting(doc, p + 1, r) <= 0 - n
  BY <1>3, <1>6
<1>8. ~ (f < r)
  BY <1>1, <1>3, <1>6, <1>7
<1>9. ~ (r < f)
  <2>1. SUFFICES ASSUME r < f PROVE FALSE
    OBVIOUS
  <2>2. r \in p + 1 .. f - 1
    BY <1>1, <1>7, <2>1
  <2>3. Depth(r) \in Int /\ Nesting(doc, p + 1, r) = Depth(r) - Depth(p)
    BY <1>4, <1>5, <1>7
  <2>4. QED
    BY <1>5, <1>7, <2>2, <2>3
<1>10. r = f
  BY <1>1, <1>7, <1>8, <1>9
<1>11. QED
  BY <1>10 DEF r

\* A cursor without an error.
Cur(p, d) == [pos |-> p, depth |-> d, error |-> "SUCCESS"]

\* The containers of the document, as deep as any value is.
OpenContainers ==
  {a \in Handles : a.start \in 1 .. Len(doc) /\ Opens(a.start) /\ a.depth >= 1}

\* Reading the container at o, whose members are one deeper than d, leaves the cursor
\* at p this deep.
DepthAt(o, d, p) ==
  d + Depth(p - 1) - Depth(o) + (IF IsKey(p) \/ Shuts(p) \/ Comma(p) THEN 0 ELSE 1)

\* What the cursor has come to is as deep as the document.
LEMMA PastIsDepth ==
  ASSUME doc \in Inputs, NEW o \in 1 .. Len(doc), NEW p \in 1 .. Len(doc), ~ Colon(p),
         NEW d \in Nat
  PROVE  /\ DepthAt(o, d, p) \in Int
         /\ Past(Cur(p, DepthAt(o, d, p))) = d + Depth(p) - Depth(o)
<1> DEFINE c == Cur(p, DepthAt(o, d, p))
<1>1. Depth(o) \in Int /\ Depth(p) \in Int /\ Depth(p - 1) \in Int
  <2>1. o \in 0 .. Len(doc) /\ p \in 0 .. Len(doc) /\ p - 1 \in 0 .. Len(doc)
    BY DocLength
  <2>2. QED
    BY <2>1, DepthOfDoc
<1>2. Token(p) \in Openers \cup {",", ":"} <=> Opens(p) \/ Comma(p)
  BY TokenIs DEF Opens, Comma, Colon
<1>3. c.pos = p /\ c.depth = DepthAt(o, d, p)
  BY DEF Cur
<1>4. Past(c) = IF Opens(p) \/ Comma(p) \/ IsKey(p) THEN DepthAt(o, d, p)
                                                    ELSE DepthAt(o, d, p) - 1
  BY <1>2, <1>3 DEF Past
<1>5. IsKey(p) => ~ Opens(p) /\ ~ Shuts(p)
  BY KeyIsScalar
<1>6. /\ Opens(p) => Depth(p) = Depth(p - 1) + 1
      /\ Shuts(p) => Depth(p) = Depth(p - 1) - 1
      /\ ~ Opens(p) /\ ~ Shuts(p) => Depth(p) = Depth(p - 1)
  BY DepthOfDoc
<1>7. (Opens(p) => ~ Shuts(p) /\ ~ Comma(p)) /\ (Comma(p) => ~ Opens(p) /\ ~ Shuts(p))
  BY Kinds
<1>8. CASE Opens(p)
  BY <1>1, <1>4, <1>5, <1>6, <1>7, <1>8 DEF DepthAt
<1>9. CASE Shuts(p)
  BY <1>1, <1>4, <1>5, <1>6, <1>7, <1>9 DEF DepthAt
<1>10. CASE ~ Opens(p) /\ ~ Shuts(p)
  BY <1>1, <1>4, <1>6, <1>10 DEF DepthAt
<1>11. QED
  BY <1>8, <1>9, <1>10

LEMMA OpenContainerMeans ==
  ASSUME doc \in Inputs, NEW a \in OpenContainers
  PROVE  /\ a \in Handles /\ a.start \in 1 .. Len(doc) /\ Opens(a.start)
         /\ a.start \in Nat /\ a.depth \in Nat /\ a.depth >= 1
         /\ IsArray(a) <=> ~ Keyed(a.start)
         /\ Closing(a) = Close(a.start)
         /\ Token(Close(a.start)) = Closer(a)
         /\ \A p : Begins(p) \/ Comma(p) => Token(p) # Closer(a)
<1> DEFINE o == a.start
           e == Close(o)
<1>1. a \in Handles /\ o \in 1 .. Len(doc) /\ Opens(o) /\ o \in Nat /\ a.depth \in Nat
      /\ a.depth >= 1
  BY DEF OpenContainers, Handles
<1>2. Token(o) = doc[o]
  BY <1>1, TokenIs
<1>3. IsArray(a) <=> ~ Keyed(o)
  BY <1>1, <1>2 DEF IsArray, Keyed, Opens, Openers
<1>4. Closing(a) = e
  BY DEF Closing, Close
<1>5. e \in 1 .. Len(doc)
  BY <1>1, DocLength, ContainerSpan
<1>6. <<doc[o], doc[e]>> \in {<<"[", "]">>, <<"{", "}">>}
  <2>1. WellFormedContainer(doc, o)
    BY <1>1, DocDomain, InputsAssumption DEF WellFormed, Opens
  <2>2. QED
    BY <2>1 DEF WellFormedContainer, Close
<1>7. Token(e) = doc[e]
  BY <1>5, TokenIs
<1>8. Token(e) = Closer(a)
  BY <1>2, <1>6, <1>7 DEF Closer, IsArray
<1>9. Closer(a) \in Closers /\ Closer(a) # "end"
  BY DEF Closer, Closers
<1>10. ASSUME NEW p, Begins(p) \/ Comma(p) PROVE Token(p) # Closer(a)
  <2>1. CASE p \in 1 .. Len(doc)
    <3>1. Token(p) = doc[p] /\ ~ Shuts(p)
      BY <1>10, <2>1, TokenIs, Kinds
    <3>2. QED
      BY <1>9, <3>1 DEF Shuts
  <2>2. CASE p \notin 1 .. Len(doc)
    BY <1>9, <2>2, TokenIs
  <2>3. QED
    BY <2>1, <2>2
<1>11. QED
  BY <1>1, <1>3, <1>4, <1>8, <1>10

\* A value is one deeper than the container it is in.
LEMMA DepthOfValue ==
  ASSUME doc \in Inputs, NEW a \in OpenContainers, NEW m, MemberAtPlace(a.start, m)
  PROVE  DepthAt(a.start, a.depth, Val(a.start, m)) = a.depth + 1
<1> DEFINE o == a.start
           v == Val(o, m)
           t == After(o, m)
<1>1. Len(doc) \in Nat /\ Len(doc) >= 2
  BY DocLength
<1>2. o \in 1 .. Len(doc) /\ Opens(o) /\ a.depth \in Nat
  BY OpenContainerMeans
<1>3. Close(o) \in o + 1 .. Len(doc) /\ Shuts(Close(o)) /\ Depth(o) \in Int
  BY <1>2, ContainerSpan
<1>4. m \in o + 1 .. Close(o) - 1 /\ v \in m .. Close(o) - 1 /\ Begins(v)
      /\ Depth(v - 1) = Depth(o)
  BY <1>2, ValueSpan
<1>5. ~ Opens(v) => t = v + 1
  BY <1>2, AfterSpan
<1>6. t = Close(o) \/ Comma(t)
  BY <1>2, NextAfter
<1> HIDE DEF v, t
<1>7. ~ IsKey(v)
  <2>1. SUFFICES ASSUME IsKey(v) PROVE FALSE
    OBVIOUS
  <2>2. v \in 1 .. Len(doc)
    BY <1>1, <1>2, <1>3, <1>4
  <2>3. Colon(t)
    BY <1>5, <2>1, <2>2, KeyIsScalar
  <2>4. QED
    BY <1>3, <1>6, <2>3, Kinds
<1>8. ~ Shuts(v) /\ ~ Comma(v)
  BY <1>4, Kinds
<1>9. QED
  BY <1>2, <1>3, <1>4, <1>7, <1>8 DEF DepthAt, v

\* A cursor in the value of a member, or just after it.
InMember(a, m, c) ==
  \E p \in Val(a.start, m) .. After(a.start, m) :
    ~ Colon(p) /\ c = Cur(p, DepthAt(a.start, a.depth, p))

\* What is left of a member is skipped.
LEMMA SkipsMember ==
  ASSUME doc \in Inputs, NEW a \in OpenContainers, NEW m, MemberAtPlace(a.start, m),
         NEW c, InMember(a, m, c)
  PROVE  SkipChild(c, a.depth) = Cur(After(a.start, m), a.depth)
<1> DEFINE o == a.start
           d == a.depth
           v == Val(o, m)
           t == After(o, m)
<1>1. Len(doc) \in Nat /\ Len(doc) >= 2
  BY DocLength
<1>2. o \in 1 .. Len(doc) /\ Opens(o) /\ o \in Nat /\ d \in Nat /\ d >= 1
  BY OpenContainerMeans
<1>3. /\ Close(o) \in o + 1 .. Len(doc) /\ Shuts(Close(o)) /\ Depth(o) \in Int
      /\ \A q \in o .. Close(o) - 1 : Depth(q) \in Int /\ Depth(q) >= Depth(o)
  BY <1>2, ContainerSpan
<1>0. Depth(o) \in Int
  BY <1>3
<1>4. /\ m \in o + 1 .. Close(o) - 1 /\ v \in m .. Close(o) - 1 /\ Begins(v)
      /\ Depth(v - 1) = Depth(o)
  BY <1>2, ValueSpan
<1>5. /\ t \in v + 1 .. Close(o) /\ Depth(t - 1) = Depth(o)
      /\ \A q \in v .. t - 2 : Depth(q) \in Int /\ Depth(q) >= Depth(o) + 1
      /\ ~ Opens(v) => t = v + 1
  BY <1>2, AfterSpan
<1>6. Comma(t) \/ Shuts(t)
  <2>1. t = Close(o) \/ Comma(t)
    BY <1>2, NextAfter
  <2>2. QED
    BY <1>3, <2>1
<1>7. PICK p \in v .. t : ~ Colon(p) /\ c = Cur(p, DepthAt(o, d, p))
  BY DEF InMember
<1> HIDE DEF v, t
<1>8. p \in 1 .. Len(doc) /\ p \in Nat /\ t \in 1 .. Len(doc)
  <2>1. Close(o) \in o + 1 .. Len(doc) /\ v \in m .. Close(o) - 1 /\ m \in o + 1 .. Close(o) - 1
    BY <1>3, <1>4
  <2>2. v \in Nat /\ v >= 1
    BY <1>1, <1>2, <2>1
  <2>3. t \in v + 1 .. Close(o) /\ p \in v .. t
    BY <1>5, <1>7
  <2>4. QED
    BY <1>1, <1>2, <2>1, <2>2, <2>3
<1>9. DepthAt(o, d, p) \in Int /\ Past(c) = d + Depth(p) - Depth(o)
  BY <1>2, <1>7, <1>8, PastIsDepth
<1>10. c.pos = p /\ c.depth = DepthAt(o, d, p)
  BY <1>7 DEF Cur
<1>11. Depth(p) \in Int /\ Depth(p) <= p /\ Depth(p - 1) \in Int
  <2>1. p \in 0 .. Len(doc) /\ p - 1 \in 0 .. Len(doc)
    BY <1>1, <1>8
  <2>2. QED
    BY <2>1, DepthOfDoc
<1>12. CASE p = t
  <2>1. DepthAt(o, d, p) = d
    <3>1. Depth(t - 1) = Depth(o)
      BY <1>5
    <3>2. QED
      BY <1>0, <1>2, <1>6, <1>12, <3>1 DEF DepthAt
  <2>2. SkipChild(c, d) = c
    BY <1>2, <1>10, <2>1 DEF SkipChild
  <2>3. QED
    BY <1>7, <1>12, <2>1, <2>2 DEF t
<1>13. CASE p # t
  <2>1. p \in v .. t - 1
    BY <1>4, <1>5, <1>8, <1>13
  <2>2. DepthAt(o, d, p) >= d + 1
    <3>1. CASE p = v
      BY <1>2, <3>1, DepthOfValue DEF v
    <3>2. CASE p # v
      <4>1. p - 1 \in v .. t - 2
        BY <1>4, <1>5, <1>8, <2>1, <3>2
      <4>2. Depth(p - 1) >= Depth(o) + 1
        BY <1>5, <4>1
      <4>3. QED
        BY <1>0, <1>2, <1>11, <4>2 DEF DepthAt
    <3>3. QED
      BY <3>1, <3>2
  <2>3. CASE p = t - 1
    <3>1. Depth(p) = Depth(o)
      BY <1>5, <2>3
    <3>2. Past(c) = d
      BY <1>0, <1>2, <1>9, <3>1
    <3>3. DepthAt(o, d, p) - 1 = d
      <4>1. Past(c) = c.depth \/ Past(c) = c.depth - 1
        BY DEF Past
      <4>2. QED
        BY <1>2, <1>9, <1>10, <2>2, <3>2, <4>1
    <3>4. SkipChild(c, d) = [Consumed(c) EXCEPT !.depth = @ - 1]
      BY <1>2, <1>9, <1>10, <2>2, <3>2 DEF SkipChild
    <3>5. ~ (p > Len(doc)) /\ p + 1 = t
      BY <1>1, <1>5, <1>8, <2>3
    <3>6. QED
      BY <1>7, <3>3, <3>4, <3>5 DEF Consumed, Cur, t
  <2>4. CASE p # t - 1
    <3> DEFINE n == Past(c) - d
    <3>1. p \in v .. t - 2
      BY <1>4, <1>5, <1>8, <2>1, <2>4
    <3>2. Depth(p) >= Depth(o) + 1 /\ n = Depth(p) - Depth(o) /\ Depth(o) >= 0
      <4>1. Depth(o) \in Nat
        BY <1>1, <1>2, DepthIsNatural
      <4>2. Depth(p) >= Depth(o) + 1
        BY <1>5, <3>1
      <4>3. n = Depth(p) - Depth(o)
        BY <1>0, <1>2, <1>9, <1>11
      <4>4. QED
        BY <4>1, <4>2, <4>3
    <3>3. n \in 1 .. Len(doc)
      BY <1>0, <1>1, <1>8, <1>11, <3>2
    <3>4. ClosesOf[doc][p + 1][n] = t - 1
      <4>1. t - 1 \in p + 1 .. Len(doc)
        BY <1>1, <1>4, <1>5, <1>8, <3>1
      <4>2. Depth(t - 1) = Depth(p) - n
        <5>1. Depth(t - 1) = Depth(o)
          BY <1>5
        <5>2. QED
          BY <1>0, <1>11, <3>2, <5>1
      <4>3. ASSUME NEW q \in p + 1 .. (t - 1) - 1 PROVE Depth(q) > Depth(p) - n
        <5>1. q \in v .. t - 2
          BY <1>4, <1>5, <1>8, <3>1
        <5>2. QED
          <6>1. Depth(q) \in Int /\ Depth(q) >= Depth(o) + 1
            BY <1>5, <5>1
          <6>2. QED
            BY <1>0, <1>11, <3>2, <6>1
      <4> HIDE DEF n
      <4>4. QED
        BY <1>8, <3>3, <4>1, <4>2, <4>3, FirstToClose
    <3>5. ~ (c.depth <= d) /\ ~ (Past(c) <= d) /\ ~ (Past(c) - d > Len(doc))
      <4>1. ~ (c.depth <= d)
        BY <1>2, <1>9, <1>10, <2>2
      <4>2. Past(c) \in Int
        BY <1>0, <1>2, <1>9, <1>11
      <4>3. n = Past(c) - d /\ n >= 1 /\ n <= Len(doc)
        BY <1>1, <3>3
      <4>4. QED
        BY <1>1, <1>2, <4>1, <4>2, <4>3
    <3>6. SkipChild(c, d) = ClosesAt(c, t - 1, d)
      BY <1>10, <3>4, <3>5 DEF SkipChild
    <3>7. t - 1 # 0 /\ (t - 1) + 1 = t
      BY <1>4, <1>5, <1>8, <3>1
    <3>8. QED
      BY <1>7, <3>6, <3>7 DEF ClosesAt, Cur, t
  <2>5. QED
    BY <2>3, <2>4
<1>14. QED
  BY <1>12, <1>13

-----------------------------------------------------------------------------
(* Loops *)

\* Where a loop that has been given k members of a has left the cursor.
MemberCursor(a, k) ==
  IF k < Size(a.start)
  THEN Cur(Members(a.start)[k + 1], IF IsArray(a) THEN a.depth + 1 ELSE a.depth)
  ELSE Cur(Close(a.start) + 1, a.depth - 1)

\* What the members are, of a container that is held.
LEMMA MembersOfContainer ==
  ASSUME doc \in Inputs, NEW a \in OpenContainers
  PROVE  /\ Size(a.start) \in Nat
         /\ \A k \in 1 .. Size(a.start) :
              MemberAtPlace(a.start, Members(a.start)[k])
BY OpenContainerMeans, MembersFollow

\* The cursor goes on to the next member.
LEMMA HasNextMember ==
  ASSUME doc \in Inputs, NEW a \in OpenContainers, NEW k \in 1 .. Size(a.start)
  PROVE  HasNext(Cur(After(a.start, Members(a.start)[k]), a.depth), a) = MemberCursor(a, k)
<1> DEFINE o == a.start
           n == Size(o)
           t == After(o, Members(o)[k])
           c == Cur(t, a.depth)
<1>1. Len(doc) \in Nat /\ Len(doc) >= 2
  BY DocLength
<1>2. /\ o \in 1 .. Len(doc) /\ Opens(o) /\ a.depth \in Nat
      /\ Token(Close(o)) = Closer(a)
      /\ \A p : Comma(p) => Token(p) # Closer(a)
  BY OpenContainerMeans
<1>3. Close(o) \in 1 .. Len(doc) /\ Shuts(Close(o))
  BY <1>1, <1>2, ContainerSpan
<1>4. /\ n \in Nat
      /\ k < n => Comma(t) /\ Members(o)[k + 1] = t + 1
      /\ k = n => t = Close(o)
  <2>1. n \in Nat
    BY MembersOfContainer
  <2>2. k < n => k \in 1 .. n - 1
    BY <2>1
  <2>3. k = n => n # 0
    BY <2>1
  <2>4. QED
    BY <1>2, <2>1, <2>2, <2>3, MembersFollow
<1>5. t \in 1 .. Len(doc)
  <2>1. MemberAtPlace(o, Members(o)[k])
    BY MembersOfContainer
  <2>2. /\ Members(o)[k] \in o + 1 .. Close(o) - 1
        /\ Val(o, Members(o)[k]) \in Members(o)[k] .. Close(o) - 1
        /\ t \in Val(o, Members(o)[k]) + 1 .. Close(o)
    BY <1>2, <2>1, ValueSpan, AfterSpan
  <2>3. QED
    BY <1>1, <1>2, <1>3, <2>2
<1> HIDE DEF t, n, o
<1>6. Succeeded(c) /\ c.pos = t /\ c.depth = a.depth
  BY DEF Succeeded, Cur
<1>7. Consumed(c) = Cur(t + 1, a.depth)
  BY <1>1, <1>5 DEF Consumed, Cur
<1>8. CASE k < n
  <2>1. Token(t) = "," /\ Token(t) # Closer(a)
    BY <1>2, <1>4, <1>5, <1>8, TokenIs DEF Comma
  <2>2. HasNext(c, a) = Descended(Consumed(c), a)
    BY <1>6, <2>1 DEF HasNext
  <2>3. Descended(Cur(t + 1, a.depth), a) = Cur(t + 1, IF IsArray(a) THEN a.depth + 1 ELSE a.depth)
    BY DEF Descended, Cur
  <2>4. MemberCursor(a, k) = Cur(t + 1, IF IsArray(a) THEN a.depth + 1 ELSE a.depth)
    BY <1>4, <1>8 DEF MemberCursor, o, n
  <2>5. QED
    BY <1>7, <2>2, <2>3, <2>4 DEF t, o
<1>9. CASE k = n
  <2>1. Token(t) = Closer(a) /\ Token(t) # ","
    <3>1. Token(t) = Closer(a)
      BY <1>2, <1>4, <1>9
    <3>2. QED
      BY <3>1 DEF Closer
  <2>2. HasNext(c, a) = [Consumed(c) EXCEPT !.depth = a.depth - 1]
    BY <1>6, <2>1 DEF HasNext
  <2>3. [Cur(t + 1, a.depth) EXCEPT !.depth = a.depth - 1] = Cur(t + 1, a.depth - 1)
    BY DEF Cur
  <2>4. MemberCursor(a, k) = Cur(Close(o) + 1, a.depth - 1)
    BY <1>4, <1>9 DEF MemberCursor, n, o
  <2>5. QED
    BY <1>4, <1>7, <1>9, <2>2, <2>3, <2>4 DEF t, o
<1>10. QED
  BY <1>4, <1>8, <1>9 DEF n, o

\* ++ of an iterator goes from anywhere in a member to the next.
LEMMA IncrementsToNext ==
  ASSUME doc \in Inputs, NEW a \in OpenContainers, NEW k \in 1 .. Size(a.start),
         NEW c, InMember(a, Members(a.start)[k], c)
  PROVE  Increment(c, a) = MemberCursor(a, k)
<1>1. Succeeded(c)
  BY DEF InMember, Succeeded, Cur
<1>2. SkipChild(c, a.depth) = Cur(After(a.start, Members(a.start)[k]), a.depth)
  BY MembersOfContainer, SkipsMember
<1>3. QED
  BY <1>1, <1>2, HasNextMember DEF Increment

\* * of an iterator goes to the value of a member.
LEMMA DereferencesMember ==
  ASSUME doc \in Inputs, NEW a \in OpenContainers, NEW k \in Nat, k < Size(a.start)
  PROVE  /\ Dereferenced(MemberCursor(a, k), a) =
              Cur(Val(a.start, Members(a.start)[k + 1]), a.depth + 1)
         /\ InMember(a, Members(a.start)[k + 1], Dereferenced(MemberCursor(a, k), a))
<1> DEFINE o == a.start
           m == Members(o)[k + 1]
           c == MemberCursor(a, k)
<1>1. Len(doc) \in Nat /\ Len(doc) >= 2
  BY DocLength
<1>2. /\ o \in 1 .. Len(doc) /\ Opens(o) /\ a.depth \in Nat
      /\ IsArray(a) <=> ~ Keyed(o)
  BY OpenContainerMeans
<1>3. MemberAtPlace(o, m)
  <2>1. k + 1 \in 1 .. Size(o)
    BY MembersOfContainer
  <2>2. QED
    BY <2>1, MembersOfContainer
<1>4. /\ m \in o + 1 .. Close(o) - 1 /\ Begins(Val(o, m))
      /\ Keyed(o) => ~ Opens(m) /\ Colon(m + 1) /\ Val(o, m) = m + 2
      /\ ~ Keyed(o) => Val(o, m) = m
      /\ Val(o, m) \in m .. Close(o) - 1
  BY <1>2, <1>3, ValueSpan
<1>5. c = Cur(m, IF IsArray(a) THEN a.depth + 1 ELSE a.depth)
  BY DEF MemberCursor
<1> HIDE DEF c, m
<1>6. Succeeded(c) /\ c.pos = m
  BY <1>5 DEF Succeeded, Cur
<1>7. Dereferenced(c, a) = Cur(Val(o, m), a.depth + 1)
  <2>1. CASE IsArray(a)
    BY <1>2, <1>4, <1>5, <1>6, <2>1 DEF Dereferenced, Abandoned
  <2>2. CASE ~ IsArray(a)
    <3>1. IsKey(m)
      <4>1. m + 1 \in 1 .. Len(doc)
        <5>1. Close(o) \in o + 1 .. Len(doc)
          BY <1>2, ContainerSpan
        <5>2. QED
          BY <1>1, <1>2, <1>4, <5>1
      <4>2. QED
        BY <1>2, <1>4, <2>2, <4>1, TokenIs DEF IsKey, Colon
    <3>2. Dereferenced(c, a) = [c EXCEPT !.pos = @ + 2, !.depth = a.depth + 1]
      BY <1>6, <2>2, <3>1 DEF Dereferenced
    <3>3. QED
      BY <1>2, <1>4, <1>5, <2>2, <3>2 DEF Cur
  <2>3. QED
    BY <2>1, <2>2
<1>8. ~ Colon(Val(o, m)) /\ DepthAt(o, a.depth, Val(o, m)) = a.depth + 1
  BY <1>3, <1>4, Kinds, DepthOfValue
<1>9. Val(o, m) \in Val(o, m) .. After(o, m)
  <2>1. After(o, m) \in Val(o, m) + 1 .. Close(o)
    BY <1>2, <1>3, AfterSpan
  <2>2. QED
    BY <1>4, <2>1
<1>10. InMember(a, m, Dereferenced(c, a))
  BY <1>7, <1>8, <1>9 DEF InMember
<1>11. QED
  BY <1>7, <1>10 DEF c, m

LEMMA MemberCursorOpen ==
  ASSUME doc \in Inputs, NEW a \in OpenContainers, NEW k \in Nat
  PROVE  /\ IsOpen(MemberCursor(a, k), a) <=> k < Size(a.start)
         /\ Succeeded(MemberCursor(a, k))
<1>1. a.depth \in Nat
  BY OpenContainerMeans
<1>2. QED
  BY <1>1 DEF MemberCursor, IsOpen, Succeeded, Cur

\* A round of a loop goes from one member to the next, and stays at the end.
LEMMA RoundToNext ==
  ASSUME doc \in Inputs, NEW a \in OpenContainers, NEW k \in Nat
  PROVE  Round(MemberCursor(a, k), a) = MemberCursor(a, k + 1)
<1>1. Size(a.start) \in Nat
  BY MembersOfContainer
<1>2. CASE k < Size(a.start)
  <2>1. k + 1 \in 1 .. Size(a.start)
    BY <1>1, <1>2
  <2>2. InMember(a, Members(a.start)[k + 1], Dereferenced(MemberCursor(a, k), a))
    BY <1>2, DereferencesMember
  <2>3. Increment(Dereferenced(MemberCursor(a, k), a), a) = MemberCursor(a, k + 1)
    BY <2>1, <2>2, IncrementsToNext
  <2>4. QED
    BY <1>2, <2>3, MemberCursorOpen DEF Round
<1>3. CASE ~ (k < Size(a.start))
  <2>1. ~ (k + 1 < Size(a.start))
    BY <1>1, <1>3
  <2>2. MemberCursor(a, k + 1) = MemberCursor(a, k)
    BY <1>3, <2>1 DEF MemberCursor
  <2>3. QED
    BY <1>3, <2>2, MemberCursorOpen DEF Round
<1>4. QED
  BY <1>2, <1>3

CurTo(c, q, e) == [c EXCEPT !.pos = q, !.depth = e]

LEMMA CurMoves ==
  ASSUME NEW c, NEW p, NEW d, c = Cur(p, d), NEW q, NEW e
  PROVE  CurTo(c, q, e) = Cur(q, e)
<1>1. CurTo(c, q, e) = [[c EXCEPT !.pos = q] EXCEPT !.depth = e]
  BY DEF CurTo
<1>2. [Cur(p, d) EXCEPT !.pos = q] = Cur(q, d) /\ [Cur(q, d) EXCEPT !.depth = e] = Cur(q, e)
  BY DEF Cur
<1>3. QED
  BY <1>1, <1>2

LEMMA CursorIs ==
  /\ \A c \in Cursors : Succeeded(c) => c = Cur(c.pos, c.depth)
  /\ \A p, d : Succeeded(Cur(p, d)) /\ Cur(p, d).pos = p /\ Cur(p, d).depth = d
  /\ \A p, d : p \in Nat /\ d \in Nat => Cur(p, d) \in Cursors
<1>1. \A c \in Cursors : Succeeded(c) => c = Cur(c.pos, c.depth)
  <2>1. ASSUME NEW c \in Cursors, Succeeded(c) PROVE c = Cur(c.pos, c.depth)
    <3>1. c = [pos |-> c.pos, depth |-> c.depth, error |-> c.error]
      BY DEF Cursors
    <3>2. c.error = "SUCCESS"
      BY <2>1 DEF Succeeded
    <3>3. QED
      BY <3>1, <3>2 DEF Cur
  <2>2. QED
    BY <2>1
<1>3. \A p, d : Succeeded(Cur(p, d)) /\ Cur(p, d).pos = p /\ Cur(p, d).depth = d
  BY DEF Cur, Succeeded
<1>4. \A p, d : p \in Nat /\ d \in Nat => Cur(p, d) \in Cursors
  BY DEF Cur, Cursors
<1>5. QED
  BY <1>1, <1>3, <1>4

\* reset() and, if the cursor is at it, entering: the cursor goes to the first member.
LEMMA ResetsToFirst ==
  ASSUME doc \in Inputs, NEW a \in OpenContainers, NEW c \in Cursors, Succeeded(c)
  PROVE  ResetTo(c, a) = MemberCursor(a, 0)
<1> DEFINE o == a.start
           f == CurTo(c, a.start + 1, a.depth)
<1>1. Len(doc) \in Nat /\ Len(doc) >= 2
  BY DocLength
<1>2. /\ o \in 1 .. Len(doc) /\ Opens(o) /\ a.depth \in Nat /\ o \in Nat
      /\ Token(Close(o)) = Closer(a)
      /\ \A p : Begins(p) => Token(p) # Closer(a)
  BY OpenContainerMeans
<1>3. Close(o) \in o + 1 .. Len(doc)
  BY <1>2, ContainerSpan
<1>4. f = Cur(o + 1, a.depth)
  <2>1. c = Cur(c.pos, c.depth)
    BY CursorIs
  <2>2. QED
    BY <2>1, CurMoves
<1> HIDE DEF f, o
<1>5. f.pos = o + 1
  BY <1>4 DEF Cur
<1>6. CASE Size(o) = 0
  <2>1. Close(o) = o + 1
    BY <1>2, <1>6, MembersFollow
  <2>2. Started(f, a) = [Consumed(f) EXCEPT !.depth = a.depth - 1]
    BY <1>2, <1>5, <2>1 DEF Started
  <2>3. Consumed(f) = Cur((o + 1) + 1, a.depth)
    BY <1>1, <1>2, <1>3, <1>4, <2>1 DEF Consumed, Cur
  <2>4. Started(f, a) = Cur((o + 1) + 1, a.depth - 1)
    BY <2>2, <2>3 DEF Cur
  <2>5. MemberCursor(a, 0) = Cur((o + 1) + 1, a.depth - 1)
    BY <1>6, <2>1 DEF MemberCursor, o
  <2>6. QED
    BY <2>4, <2>5 DEF ResetTo, f, CurTo
<1>7. CASE Size(o) # 0
  <2>1. Size(o) \in Nat /\ Members(o)[1] = o + 1
    BY <1>2, <1>7, MembersFollow
  <2>2. MemberAtPlace(o, o + 1)
    <3>1. 1 \in 1 .. Size(o)
      BY <1>7, <2>1
    <3>2. QED
      BY <2>1, <3>1, MembersOfContainer DEF o
  <2>3. Begins(o + 1)
    BY <2>2, MemberMeans DEF MemberAtPlace
  <2>4. Started(f, a) = Descended(f, a)
    BY <1>2, <1>5, <2>3 DEF Started
  <2>5. Descended(f, a) = Cur(o + 1, IF IsArray(a) THEN a.depth + 1 ELSE a.depth)
    BY <1>4 DEF Descended, Cur
  <2>6. MemberCursor(a, 0) = Cur(o + 1, IF IsArray(a) THEN a.depth + 1 ELSE a.depth)
    <3>1. 0 < Size(o) /\ 0 + 1 = 1
      BY <1>7, <2>1
    <3>2. QED
      BY <2>1, <3>1 DEF MemberCursor, o
  <2>7. QED
    BY <2>4, <2>5, <2>6 DEF ResetTo, f, CurTo
<1>8. QED
  BY <1>6, <1>7

LEMMA StartsAtFirst ==
  ASSUME doc \in Inputs, NEW a \in OpenContainers, NEW c \in Cursors,
         c = Cur(a.start, a.depth)
  PROVE  Start(c, a) = MemberCursor(a, 0)
<1>1. Len(doc) \in Nat /\ a.start \in 1 .. Len(doc)
  BY DocLength, OpenContainerMeans
<1>2. AtStart(c, a) /\ Succeeded(c)
  BY DEF AtStart, Succeeded, Cur
<1>3. Consumed(c) = CurTo(c, a.start + 1, a.depth)
  <2>1. Consumed(c) = Cur(a.start + 1, a.depth)
    BY <1>1 DEF Consumed, Cur
  <2>2. CurTo(c, a.start + 1, a.depth) = Cur(a.start + 1, a.depth)
    BY CurMoves
  <2>3. QED
    BY <2>1, <2>2
<1>4. Start(c, a) = ResetTo(c, a)
  BY <1>2, <1>3 DEF Start, ResetTo, CurTo
<1>5. QED
  BY <1>2, <1>4, ResetsToFirst

\* The rounds of a loop are the iterates of a round.
AreRounds(C, c, a, n) ==
  \E f \in [0 .. n -> C] :
    /\ f[0] = c /\ \A k \in 1 .. n : f[k] = Round(f[k - 1], a)
    /\ Rounds(c, a, n) = f[n]

LEMMA RoundsIterate ==
  ASSUME NEW C, NEW c \in C, NEW a, \A x \in C : Round(x, a) \in C, NEW n \in Nat
  PROVE  AreRounds(C, c, a, n)
<1> DEFINE IsRound(f) == f = [k \in 0 .. n |-> IF k = 0 THEN c ELSE Round(f[k - 1], a)]
           g == CHOOSE f : IsRound(f)
<1>1. PICK f \in [0 .. n -> C] : f[0] = c /\ \A k \in 1 .. n : f[k] = Round(f[k - 1], a)
  <2> DEFINE step == [x \in C |-> Round(x, a)]
  <2>1. step \in [C -> C] /\ \A x \in C : step[x] = Round(x, a)
    OBVIOUS
  <2> HIDE DEF step
  <2>2. PICK f \in [0 .. n -> C] : f[0] = c /\ \A k \in 1 .. n : f[k] = step[f[k - 1]]
    <3>1. Iterable(C, c, step, n)
      BY <2>1, IteratesExist
    <3>2. QED
      BY <3>1 DEF Iterable
  <2>3. ASSUME NEW k \in 1 .. n PROVE f[k] = Round(f[k - 1], a)
    <3>1. k - 1 \in 0 .. n
      OBVIOUS
    <3>2. f[k - 1] \in C
      BY <2>2, <3>1
    <3>3. QED
      BY <2>1, <2>2, <3>2
  <2>4. QED
    BY <2>2, <2>3
<1>2. IsRound(f)
  <2>1. ASSUME NEW k \in 0 .. n
        PROVE  f[k] = IF k = 0 THEN c ELSE Round(f[k - 1], a)
    <3>1. CASE k = 0
      BY <1>1, <3>1
    <3>2. CASE k # 0
      <4>1. k \in 1 .. n /\ k - 1 \in 0 .. n
        BY <3>2
      <4>2. f[k - 1] \in C
        BY <1>1, <4>1
      <4>3. QED
        BY <1>1, <3>2, <4>1, <4>2
    <3>3. QED
      BY <3>1, <3>2
  <2>2. QED
    BY <1>1, <2>1
<1>3. IsRound(g)
  BY <1>2
<1>4. Rounds(c, a, n) = g[n]
  BY DEF Rounds
<1> HIDE DEF g
<1>5. /\ DOMAIN g = 0 .. n /\ g = [k \in 0 .. n |-> g[k]]
      /\ g[0] = c /\ \A k \in 1 .. n : g[k] = Round(g[k - 1], a)
  <2>1. /\ DOMAIN g = 0 .. n /\ g = [k \in 0 .. n |-> g[k]]
        /\ \A k \in 0 .. n : g[k] = IF k = 0 THEN c ELSE Round(g[k - 1], a)
    BY <1>3
  <2>2. 0 \in 0 .. n /\ \A k \in 1 .. n : k \in 0 .. n /\ k # 0
    OBVIOUS
  <2> HIDE DEF IsRound
  <2>3. QED
    BY <2>1, <2>2
<1>6. ASSUME NEW i \in 0 .. n PROVE g[i] \in C
  <2> DEFINE T == {k \in Nat : k \in 0 .. n => g[k] \in C}
  <2>1. 0 \in T
    BY <1>5
  <2>2. ASSUME NEW k \in Nat, k \in T PROVE k + 1 \in T
    <3>1. SUFFICES ASSUME k + 1 \in 0 .. n PROVE g[k + 1] \in C
      OBVIOUS
    <3>2. k + 1 \in 1 .. n /\ k \in 0 .. n /\ (k + 1) - 1 = k
      BY <3>1
    <3>3. g[k + 1] = Round(g[k], a) /\ g[k] \in C
      BY <1>5, <2>2, <3>2
    <3>4. QED
      BY <3>3
  <2> HIDE DEF T
  <2>3. i \in T
    BY <2>1, <2>2, SetInduction
  <2>4. QED
    BY <2>3 DEF T
<1>7. g \in [0 .. n -> C]
  BY <1>5, <1>6
<1>8. QED
  BY <1>4, <1>5, <1>7 DEF AreRounds

\* A loop over a container, and at() of an array: from one member, n rounds of
\* dereferencing and incrementing the iterator go n members further.
THEOREM RoundsFurther ==
  ASSUME doc \in Inputs, NEW a \in OpenContainers, NEW j \in Nat, NEW n \in Nat
  PROVE  Rounds(MemberCursor(a, j), a, n) = MemberCursor(a, j + n)
<1> DEFINE C == {MemberCursor(a, k) : k \in Nat}
           c == MemberCursor(a, j)
<1>1. \A x \in C : Round(x, a) \in C
  <2>1. ASSUME NEW k \in Nat PROVE Round(MemberCursor(a, k), a) \in C
    <3>1. Round(MemberCursor(a, k), a) = MemberCursor(a, k + 1) /\ k + 1 \in Nat
      BY RoundToNext
    <3>2. QED
      BY <3>1
  <2>2. QED
    BY <2>1
<1>2. c \in C
  OBVIOUS
<1> HIDE DEF C
<1>3. PICK f \in [0 .. n -> C] :
        /\ f[0] = c /\ \A k \in 1 .. n : f[k] = Round(f[k - 1], a)
        /\ Rounds(c, a, n) = f[n]
  <2> HIDE DEF c
  <2>1. AreRounds(C, c, a, n)
    BY <1>1, <1>2, RoundsIterate
  <2>2. QED
    BY <2>1 DEF AreRounds
<1> DEFINE T == {k \in Nat : k <= n => f[k] = MemberCursor(a, j + k)}
<1>4. 0 \in T
  <2>1. j + 0 = j
    OBVIOUS
  <2>2. QED
    BY <1>3, <2>1
<1>5. ASSUME NEW k \in Nat, k \in T PROVE k + 1 \in T
  <2>1. SUFFICES ASSUME k + 1 <= n PROVE f[k + 1] = MemberCursor(a, j + (k + 1))
    OBVIOUS
  <2>2. k + 1 \in 1 .. n /\ (k + 1) - 1 = k /\ k <= n /\ j + (k + 1) = (j + k) + 1 /\ j + k \in Nat
    BY <2>1
  <2>3. f[k + 1] = Round(f[k], a) /\ f[k] = MemberCursor(a, j + k)
    BY <1>3, <1>5, <2>2
  <2>4. QED
    BY <2>2, <2>3, RoundToNext
<1> HIDE DEF T
<1>6. n \in T
  BY <1>4, <1>5, SetInduction
<1>7. QED
  BY <1>3, <1>6 DEF T

\* count_elements() and count_fields() from the first member count the members.
THEOREM CountsMembers ==
  ASSUME doc \in Inputs, NEW a \in OpenContainers
  PROVE  /\ Count(MemberCursor(a, 0), a) = Size(a.start)
         /\ Rounds(MemberCursor(a, 0), a, MaxRounds) = MemberCursor(a, Size(a.start))
<1> DEFINE n == Size(a.start)
           c == MemberCursor(a, 0)
<1>1. n \in Nat /\ MaxRounds \in Nat /\ n <= MaxRounds
  BY OpenContainerMeans, RoundsEnough, MembersFollow
<1>2. \A k \in Nat : Rounds(c, a, k) = MemberCursor(a, k)
  <2>1. ASSUME NEW k \in Nat PROVE Rounds(c, a, k) = MemberCursor(a, k)
    <3>1. 0 + k = k
      OBVIOUS
    <3>2. Rounds(c, a, k) = MemberCursor(a, 0 + k)
      BY RoundsFurther
    <3>3. QED
      BY <3>1, <3>2
  <2>2. QED
    BY <2>1
<1>3. \A k \in 0 .. MaxRounds - 1 : IsOpen(Rounds(c, a, k), a) <=> k < n
  BY <1>1, <1>2, MemberCursorOpen
<1> HIDE DEF c
<1>4. {k \in 0 .. MaxRounds - 1 : IsOpen(Rounds(c, a, k), a)} = 0 .. n - 1
  BY <1>1, <1>3
<1>5. Cardinality(0 .. n - 1) = n
  <2>1. CASE n = 0
    <3>1. 0 .. n - 1 = {}
      BY <2>1
    <3>2. QED
      BY <2>1, <3>1, FS_EmptySet
  <2>2. CASE n # 0
    <3>1. n - 1 \in Nat /\ 0 \in Int /\ n - 1 \in Int /\ 0 <= n - 1 /\ (n - 1) - 0 + 1 = n
      BY <1>1, <2>2
    <3> HIDE DEF n
    <3>2. QED
      BY <3>1, FS_Interval
  <2>3. QED
    BY <2>1, <2>2
<1>6. Count(c, a) = n
  BY <1>4, <1>5 DEF Count
<1>7. MemberCursor(a, MaxRounds) = MemberCursor(a, n)
  BY <1>1 DEF MemberCursor
<1>8. QED
  BY <1>1, <1>2, <1>6, <1>7 DEF c

\* Where members are, and what index or key they have.
LEMMA MemberPlaces ==
  ASSUME doc \in Inputs, NEW a \in OpenContainers
  PROVE  /\ MemberCursor(a, 0) \in Cursors
         /\ \A k \in Nat : MemberCursor(a, k) \in Cursors
         /\ \A k \in 1 .. Size(a.start) :
              /\ Members(a.start)[k] \in Nat
              /\ Val(a.start, Members(a.start)[k]) \in Nat
              /\ Val(a.start, Members(a.start)[k]) \in 1 .. Len(doc)
              /\ Val(a.start, Members(a.start)[k]) # 0
<1> DEFINE o == a.start
           n == Size(o)
<1>1. Len(doc) \in Nat /\ Len(doc) >= 2 /\ o \in 1 .. Len(doc) /\ Opens(o)
      /\ a.depth \in Nat /\ a.depth >= 1
  BY DocLength, OpenContainerMeans
<1>2. Close(o) \in o + 1 .. Len(doc)
  BY <1>1, ContainerSpan
<1>3. ASSUME NEW k \in 1 .. n
      PROVE  /\ Members(o)[k] \in Nat /\ Val(o, Members(o)[k]) \in 1 .. Len(doc)
  <2>1. MemberAtPlace(o, Members(o)[k])
    BY MembersOfContainer
  <2>2. /\ Members(o)[k] \in o + 1 .. Close(o) - 1
        /\ Val(o, Members(o)[k]) \in Members(o)[k] .. Close(o) - 1
    BY <1>1, <2>1, ValueSpan
  <2>3. QED
    BY <1>1, <1>2, <2>2
<1>4. ASSUME NEW k \in Nat PROVE MemberCursor(a, k) \in Cursors
  <2>1. CASE k < n
    <3>1. k + 1 \in 1 .. n
      BY <2>1, MembersOfContainer
    <3>2. Members(o)[k + 1] \in Nat /\ (IF IsArray(a) THEN a.depth + 1 ELSE a.depth) \in Nat
      BY <1>1, <1>3, <3>1
    <3>3. QED
      BY <2>1, <3>2, CursorIs DEF MemberCursor
  <2>2. CASE ~ (k < n)
    <3>1. Close(o) + 1 \in Nat /\ a.depth - 1 \in Nat
      BY <1>1, <1>2
    <3>2. QED
      BY <2>2, <3>1, CursorIs DEF MemberCursor
  <2>3. QED
    BY <2>1, <2>2
<1>5. 0 \in Nat /\ \A v \in 1 .. Len(doc) : v \in Nat /\ v # 0
  BY <1>1
<1>6. QED
  BY <1>3, <1>4, <1>5

LEMMA CountResets ==
  ASSUME doc \in Inputs, NEW a \in OpenContainers
  PROVE  Counted(MemberCursor(a, 0), a) = MemberCursor(a, 0)
<1> DEFINE n == Size(a.start)
<1>1. n \in Nat
  BY MembersOfContainer
<1>2. Rounds(MemberCursor(a, 0), a, MaxRounds) = MemberCursor(a, n)
  BY CountsMembers
<1>3. Succeeded(MemberCursor(a, n)) /\ MemberCursor(a, n) \in Cursors
  BY <1>1, MemberCursorOpen, MemberPlaces
<1> HIDE DEF n
<1>4. Counted(MemberCursor(a, 0), a) = ResetTo(MemberCursor(a, n), a)
  BY <1>2, <1>3 DEF Counted, ResetOrAbandoned
<1>5. QED
  BY <1>3, <1>4, ResetsToFirst

\* A lookup by key goes on round by round in the same way.
AreScanned(C, c, a, key, n) ==
  \E f \in [0 .. n -> C] :
    /\ f[0] = c /\ \A k \in 1 .. n : f[k] = RoundUnlessAt(f[k - 1], a, key)
    /\ Scan(c, a, key) = Entered(f[n], a, key)

LEMMA ScanIterates ==
  ASSUME NEW C, NEW c \in C, NEW a, NEW key,
         \A x \in C : RoundUnlessAt(x, a, key) \in C, NEW n \in Nat, n = MaxRounds
  PROVE  AreScanned(C, c, a, key, n)
<1> DEFINE IsScan(f) ==
             f = [k \in 0 .. n |-> IF k = 0 THEN c ELSE RoundUnlessAt(f[k - 1], a, key)]
           g == CHOOSE f : IsScan(f)
<1>1. PICK f \in [0 .. n -> C] :
        f[0] = c /\ \A k \in 1 .. n : f[k] = RoundUnlessAt(f[k - 1], a, key)
  <2> DEFINE step == [x \in C |-> RoundUnlessAt(x, a, key)]
  <2>1. step \in [C -> C] /\ \A x \in C : step[x] = RoundUnlessAt(x, a, key)
    OBVIOUS
  <2> HIDE DEF step
  <2>2. PICK f \in [0 .. n -> C] : f[0] = c /\ \A k \in 1 .. n : f[k] = step[f[k - 1]]
    <3>1. Iterable(C, c, step, n)
      BY <2>1, IteratesExist
    <3>2. QED
      BY <3>1 DEF Iterable
  <2>3. ASSUME NEW k \in 1 .. n PROVE f[k] = RoundUnlessAt(f[k - 1], a, key)
    <3>1. k - 1 \in 0 .. n
      OBVIOUS
    <3>2. f[k - 1] \in C
      BY <2>2, <3>1
    <3>3. QED
      BY <2>1, <2>2, <3>2
  <2>4. QED
    BY <2>2, <2>3
<1>2. IsScan(f)
  <2>1. ASSUME NEW k \in 0 .. n
        PROVE  f[k] = IF k = 0 THEN c ELSE RoundUnlessAt(f[k - 1], a, key)
    <3>1. CASE k = 0
      BY <1>1, <3>1
    <3>2. CASE k # 0
      <4>1. k \in 1 .. n /\ k - 1 \in 0 .. n
        BY <3>2
      <4>2. f[k - 1] \in C
        BY <1>1, <4>1
      <4>3. QED
        BY <1>1, <3>2, <4>1, <4>2
    <3>3. QED
      BY <3>1, <3>2
  <2>2. QED
    BY <1>1, <2>1
<1>3. IsScan(g)
  BY <1>2
<1>4. Scan(c, a, key) = Entered(g[n], a, key)
  BY DEF Scan
<1> HIDE DEF g
<1>5. /\ DOMAIN g = 0 .. n /\ g = [k \in 0 .. n |-> g[k]]
      /\ g[0] = c /\ \A k \in 1 .. n : g[k] = RoundUnlessAt(g[k - 1], a, key)
  <2>1. /\ DOMAIN g = 0 .. n /\ g = [k \in 0 .. n |-> g[k]]
        /\ \A k \in 0 .. n : g[k] = IF k = 0 THEN c ELSE RoundUnlessAt(g[k - 1], a, key)
    BY <1>3
  <2>2. 0 \in 0 .. n /\ \A k \in 1 .. n : k \in 0 .. n /\ k # 0
    OBVIOUS
  <2> HIDE DEF IsScan
  <2>3. QED
    BY <2>1, <2>2
<1>6. ASSUME NEW i \in 0 .. n PROVE g[i] \in C
  <2> DEFINE T == {k \in Nat : k \in 0 .. n => g[k] \in C}
  <2>1. 0 \in T
    BY <1>5
  <2>2. ASSUME NEW k \in Nat, k \in T PROVE k + 1 \in T
    <3>1. SUFFICES ASSUME k + 1 \in 0 .. n PROVE g[k + 1] \in C
      OBVIOUS
    <3>2. k + 1 \in 1 .. n /\ k \in 0 .. n /\ (k + 1) - 1 = k
      BY <3>1
    <3>3. g[k + 1] = RoundUnlessAt(g[k], a, key) /\ g[k] \in C
      BY <1>5, <2>2, <3>2
    <3>4. QED
      BY <3>3
  <2> HIDE DEF T
  <2>3. i \in T
    BY <2>1, <2>2, SetInduction
  <2>4. QED
    BY <2>3 DEF T
<1>7. g \in [0 .. n -> C]
  BY <1>5, <1>6
<1>8. QED
  BY <1>4, <1>5, <1>7 DEF AreScanned


\* The member of index i has that key.
HasKey(a, key, i) ==
  i < Size(a.start) /\ Token(Members(a.start)[i + 1]) = key

LEMMA AtKeyIs ==
  ASSUME doc \in Inputs, NEW a \in OpenContainers, Keyed(a.start), NEW key, NEW i \in Nat
  PROVE  AtKey(MemberCursor(a, i), a, key) <=> HasKey(a, key, i)
<1> DEFINE o == a.start
           m == Members(o)[i + 1]
<1>1. Len(doc) \in Nat /\ Len(doc) >= 2 /\ o \in 1 .. Len(doc) /\ Opens(o)
  BY DocLength, OpenContainerMeans
<1>2. CASE i < Size(o)
  <2>1. i + 1 \in 1 .. Size(o)
    BY <1>2, MembersOfContainer
  <2>2. MemberAtPlace(o, m)
    BY <2>1, MembersOfContainer
  <2>3. m \in o + 1 .. Close(o) - 1 /\ Colon(m + 1)
    BY <1>1, <2>2, ValueSpan
  <2>4. Close(o) \in o + 1 .. Len(doc)
    BY <1>1, ContainerSpan
  <2>5. m + 1 \in 1 .. Len(doc)
    BY <1>1, <2>3, <2>4
  <2>6. IsKey(m)
    BY <2>3, <2>5, TokenIs DEF IsKey, Colon
  <2>7. MemberCursor(a, i).pos = m
    BY <1>2, CursorIs DEF MemberCursor
  <2>8. QED
    BY <1>2, <2>6, <2>7, MemberCursorOpen DEF AtKey, HasKey
<1>3. CASE ~ (i < Size(o))
  BY <1>3, MemberCursorOpen DEF AtKey, HasKey
<1>4. QED
  BY <1>2, <1>3

\* A lookup stops at the first member that has the key, from the one it is at.
LEMMA ScanStops ==
  ASSUME doc \in Inputs, NEW a \in OpenContainers, Keyed(a.start), NEW key,
         NEW j \in 0 .. Size(a.start), NEW h \in j .. Size(a.start),
         h = Size(a.start) \/ HasKey(a, key, h),
         \A i \in j .. h - 1 : ~ HasKey(a, key, i)
  PROVE  Scan(MemberCursor(a, j), a, key) = Entered(MemberCursor(a, h), a, key)
<1> DEFINE n == Size(a.start)
           R == MaxRounds
           C == {MemberCursor(a, k) : k \in Nat}
           c == MemberCursor(a, j)
<1>1. n \in Nat /\ R \in Nat /\ n <= R
  BY OpenContainerMeans, RoundsEnough, MembersFollow
<1>2. ASSUME NEW k \in Nat
      PROVE  RoundUnlessAt(MemberCursor(a, k), a, key) =
               IF HasKey(a, key, k) THEN MemberCursor(a, k) ELSE MemberCursor(a, k + 1)
  BY <1>2, AtKeyIs, RoundToNext DEF RoundUnlessAt
<1>3. \A x \in C : RoundUnlessAt(x, a, key) \in C
  <2>1. ASSUME NEW k \in Nat PROVE RoundUnlessAt(MemberCursor(a, k), a, key) \in C
    <3>1. k + 1 \in Nat
      OBVIOUS
    <3>2. QED
      BY <1>2, <3>1
  <2>2. QED
    BY <2>1
<1>4. c \in C
  BY <1>1
<1> HIDE DEF C, R
<1>5. PICK f \in [0 .. R -> C] :
        /\ f[0] = c /\ \A k \in 1 .. R : f[k] = RoundUnlessAt(f[k - 1], a, key)
        /\ Scan(c, a, key) = Entered(f[R], a, key)
  <2> HIDE DEF c
  <2>1. AreScanned(C, c, a, key, R)
    BY <1>1, <1>3, <1>4, ScanIterates DEF R
  <2>2. QED
    BY <2>1 DEF AreScanned
<1> DEFINE Reached(k) == IF j + k <= h THEN MemberCursor(a, j + k) ELSE MemberCursor(a, h)
           T == {k \in Nat : k <= R => f[k] = Reached(k)}
<1>6. 0 \in T
  <2>1. j + 0 = j /\ j <= h
    BY <1>1
  <2>2. QED
    BY <1>5, <2>1
<1>7. ASSUME NEW k \in Nat, k \in T PROVE k + 1 \in T
  <2>1. SUFFICES ASSUME k + 1 <= R PROVE f[k + 1] = Reached(k + 1)
    OBVIOUS
  <2>2. k + 1 \in 1 .. R /\ (k + 1) - 1 = k /\ k <= R
    BY <1>1, <2>1
  <2>3. f[k + 1] = RoundUnlessAt(Reached(k), a, key)
    BY <1>5, <1>7, <2>2
  <2>4. CASE j + k < h
    <3>1. j + k \in j .. h - 1 /\ j + k \in Nat /\ j + (k + 1) = (j + k) + 1 /\ j + (k + 1) <= h
          /\ j + k <= h
      BY <1>1, <2>4
    <3>2. QED
      BY <1>2, <2>3, <3>1
  <2>5. CASE ~ (j + k < h)
    <3>1. Reached(k) = MemberCursor(a, h) /\ Reached(k + 1) = MemberCursor(a, h) /\ h \in Nat
      <4>1. h \in Nat /\ j + k \in Nat /\ ~ (j + (k + 1) <= h) /\ (j + k <= h => j + k = h)
        BY <1>1, <2>5
      <4>2. QED
        BY <4>1
    <3>2. RoundUnlessAt(MemberCursor(a, h), a, key) = MemberCursor(a, h)
      <4>1. CASE HasKey(a, key, h)
        BY <1>2, <3>1, <4>1
      <4>2. CASE h = n
        <5>1. ~ (h < n) /\ ~ (h + 1 < n)
          BY <1>1, <4>2
        <5>2. MemberCursor(a, h + 1) = MemberCursor(a, h)
          BY <5>1 DEF MemberCursor
        <5>3. QED
          BY <1>2, <3>1, <5>2
      <4>3. QED
        BY <4>1, <4>2
    <3>3. QED
      BY <2>3, <3>1, <3>2
  <2>6. QED
    BY <2>4, <2>5
<1> HIDE DEF T
<1>8. R \in T
  BY <1>1, <1>6, <1>7, SetInduction
<1>9. f[R] = Reached(R)
  BY <1>1, <1>8 DEF T
<1>10. Reached(R) = MemberCursor(a, h)
  <2>1. j + R >= h /\ (j + R <= h => j + R = h)
    BY <1>1
  <2>2. QED
    BY <2>1
<1>11. QED
  BY <1>5, <1>9, <1>10

-----------------------------------------------------------------------------
(* What lookups find *)

\* A lookup in a finds the value at p, or nothing if p is 0.
Finds(c, a, p) ==
  IF p = 0 THEN ~ Found(c, a) /\ Succeeded(c)
           ELSE Found(c, a) /\ c = Cur(p, a.depth + 1)

\* The members from p on are those of index j and more.
FromIndex(o, p, j) ==
  \A i \in 1 .. Size(o) : Members(o)[i] >= p <=> i > j

\* The field of a key is the one member that has it.
LEMMA ValueOfKey ==
  ASSUME doc \in Inputs, NEW a \in OpenContainers, Keyed(a.start), NEW key,
         NEW j \in 0 .. Size(a.start), NEW p, FromIndex(a.start, p, j)
  PROVE  /\ \A h \in j .. Size(a.start) - 1 :
              HasKey(a, key, h) => ValueOf(a, key, p) = Val(a.start, Members(a.start)[h + 1])
         /\ (\A i \in j .. Size(a.start) - 1 : ~ HasKey(a, key, i)) => ValueOf(a, key, p) = 0
<1> DEFINE o == a.start
           n == Size(o)
           keys == {q \in ToSet(Members(o)) : q >= p /\ Token(q) = key}
<1>1. o \in 1 .. Len(doc) /\ Opens(o)
  BY OpenContainerMeans
<1>2. n \in Nat
  BY MembersOfContainer
<1>3. /\ \A q \in ToSet(Members(o)) : \E i \in 1 .. n : q = Members(o)[i]
      /\ \A i \in 1 .. n : Members(o)[i] \in ToSet(Members(o))
  <2>1. DOMAIN Members(o) = 1 .. n
    BY <1>1, MembersAscend DEF Size
  <2>2. QED
    BY <2>1 DEF ToSet
<1>4. ValueOf(a, key, p) = IF keys = {} THEN 0 ELSE (CHOOSE q \in keys : TRUE) + 2
  BY DEF ValueOf
<1>5. \A q \in keys : \E i \in 1 .. n : q = Members(o)[i] /\ i > j /\ Token(q) = key
  BY <1>3 DEF FromIndex
<1>6. \A i \in 1 .. n : i > j /\ Token(Members(o)[i]) = key => Members(o)[i] \in keys
  BY <1>3 DEF FromIndex
<1> HIDE DEF keys
<1>7. ASSUME NEW h \in j .. n - 1, HasKey(a, key, h)
      PROVE  ValueOf(a, key, p) = Val(o, Members(o)[h + 1])
  <2> DEFINE m == Members(o)[h + 1]
  <2>1. h + 1 \in 1 .. n /\ h + 1 > j
    BY <1>2
  <2>2. Token(m) = key
    BY <1>7 DEF HasKey
  <2>3. m \in keys
    BY <1>6, <2>1, <2>2
  <2>4. ASSUME NEW q \in keys PROVE q = m
    <3>1. PICK i \in 1 .. n : q = Members(o)[i] /\ Token(q) = key
      BY <1>5
    <3>2. q \in MemberStarts(doc, o) /\ m \in MemberStarts(doc, o)
      BY <1>1, <2>1, <3>1, MembersAscend DEF Size
    <3>3. q \in 1 .. Len(doc) /\ m \in 1 .. Len(doc)
      <4>1. \A x \in MemberStarts(doc, o) : x \in 1 .. Len(doc)
        <5>1. Close(o) \in o + 1 .. Len(doc) /\ Len(doc) \in Nat
          BY <1>1, ContainerSpan, DocLength
        <5>2. ASSUME NEW x \in MemberStarts(doc, o) PROVE x \in 1 .. Len(doc)
          <6>1. x \in o + 1 .. Close(o) - 1
            BY <1>1, MemberStartsInside
          <6>2. QED
            BY <1>1, <5>1, <6>1
        <5>3. QED
          BY <5>2
      <4>2. QED
        BY <3>2, <4>1
    <3>4. doc[q] = doc[m]
      BY <2>2, <3>1, <3>3, TokenIs
    <3>5. WellFormedContainer(doc, o)
      BY <1>1, DocDomain, InputsAssumption DEF WellFormed, Opens
    <3>6. QED
      BY <3>2, <3>4, <3>5 DEF WellFormedContainer, Keyed
  <2>5. (CHOOSE q \in keys : TRUE) = m
    BY <2>3, <2>4
  <2>6. Val(o, m) = m + 2
    <3>1. MemberAtPlace(o, m)
      BY <2>1, MembersOfContainer
    <3>2. QED
      BY <1>1, <3>1, ValueSpan
  <2>7. QED
    BY <1>4, <2>3, <2>5, <2>6
<1>8. ASSUME \A i \in j .. n - 1 : ~ HasKey(a, key, i) PROVE ValueOf(a, key, p) = 0
  <2>1. SUFFICES ASSUME NEW q \in keys PROVE FALSE
    BY <1>4
  <2>2. PICK i \in 1 .. n : q = Members(o)[i] /\ i > j /\ Token(q) = key
    BY <1>5
  <2>3. i - 1 \in j .. n - 1 /\ (i - 1) + 1 = i /\ i - 1 < n
    BY <1>2, <2>2
  <2>4. HasKey(a, key, i - 1)
    BY <2>2, <2>3 DEF HasKey
  <2>5. QED
    BY <1>8, <2>3, <2>4
<1>9. QED
  BY <1>7, <1>8

\* So a lookup from the member of index j finds what is there from p on.
LEMMA ScanFinds ==
  ASSUME doc \in Inputs, NEW a \in OpenContainers, Keyed(a.start), NEW key,
         NEW j \in 0 .. Size(a.start), NEW p, FromIndex(a.start, p, j)
  PROVE  Finds(Scan(MemberCursor(a, j), a, key), a, ValueOf(a, key, p))
<1> DEFINE o == a.start
           n == Size(o)
           Stops(h) == h \in Nat /\ h >= j /\ (h = n \/ HasKey(a, key, h))
           S == {h \in Nat : Stops(h)}
           r == Scan(MemberCursor(a, j), a, key)
<1>1. n \in Nat /\ j \in Nat /\ j <= n
  BY MembersOfContainer
<1>2. PICK h \in S : \A i \in S : h <= i
  <2>1. n \in S
    BY <1>1
  <2>2. S \in SUBSET Nat /\ S # {}
    BY <2>1
  <2> HIDE DEF S
  <2>3. QED
    BY <2>2, LeastNatural
<1>3. h \in j .. n /\ (h = n \/ HasKey(a, key, h)) /\ \A i \in j .. h - 1 : ~ HasKey(a, key, i)
  <2>1. h <= n
    BY <1>1, <1>2
  <2>2. ASSUME NEW i \in j .. h - 1 PROVE ~ HasKey(a, key, i)
    <3>1. i \in Nat /\ i >= j /\ ~ (h <= i)
      BY <1>1, <1>2
    <3>2. QED
      BY <1>2, <3>1
  <2>3. QED
    BY <1>1, <1>2, <2>1, <2>2
<1> HIDE DEF S, Stops
<1>4. r = Entered(MemberCursor(a, h), a, key)
  BY <1>3, ScanStops
<1>5. AtKey(MemberCursor(a, h), a, key) <=> HasKey(a, key, h)
  BY <1>1, <1>3, AtKeyIs
<1>6. ~ IsArray(a) /\ a.depth \in Nat
  BY OpenContainerMeans
<1>7. CASE HasKey(a, key, h)
  <2>1. h < n /\ h \in Nat /\ h \in j .. n - 1 /\ h + 1 \in 1 .. n
    <3>1. h < n
      BY <1>7 DEF HasKey
    <3>2. QED
      BY <1>1, <1>3, <3>1
  <2>2. r = Cur(Val(o, Members(o)[h + 1]), a.depth + 1)
    BY <1>4, <1>5, <1>7, <2>1, DereferencesMember DEF Entered
  <2>3. ValueOf(a, key, p) = Val(o, Members(o)[h + 1])
    BY <1>7, <2>1, ValueOfKey
  <2>4. Val(o, Members(o)[h + 1]) # 0
    BY <2>1, MemberPlaces
  <2>5. Found(r, a)
    BY <1>6, <2>2, CursorIs DEF Found
  <2>6. QED
    BY <2>2, <2>3, <2>4, <2>5 DEF Finds
<1>8. CASE ~ HasKey(a, key, h)
  <2>1. h = n /\ ~ (h < n)
    BY <1>1, <1>3, <1>8
  <2>2. r = Cur(Close(o) + 1, a.depth - 1)
    BY <1>4, <1>5, <1>8, <2>1 DEF Entered, MemberCursor
  <2>3. \A i \in j .. n - 1 : ~ HasKey(a, key, i)
    BY <1>3, <2>1
  <2>4. ValueOf(a, key, p) = 0
    BY <2>3, ValueOfKey
  <2>5. ~ Found(r, a) /\ Succeeded(r)
    BY <1>6, <2>2, CursorIs DEF Found
  <2>6. QED
    BY <2>4, <2>5 DEF Finds
<1>9. QED
  BY <1>7, <1>8

\* Before the end of a container is some member, or nothing.
LEMMA InSomeMember ==
  ASSUME doc \in Inputs, NEW o \in 1 .. Len(doc), Opens(o), Size(o) # 0,
         NEW p \in o + 1 .. Close(o)
  PROVE  \E i \in 1 .. Size(o) : /\ Members(o)[i] <= p /\ p <= After(o, Members(o)[i])
                                 /\ FromIndex(o, p + 1, i)
<1> DEFINE n == Size(o)
           M(i) == Members(o)[i]
           S == {k \in Nat : k >= 1 /\ (k \in 1 .. n => M(k) > p)}
<1>1. /\ n \in Nat /\ M(1) = o + 1 /\ After(o, M(n)) = Close(o)
      /\ \A k \in 1 .. n - 1 : M(k + 1) = After(o, M(k)) + 1
  BY MembersFollow
<1>2. /\ \A k \in 1 .. n : M(k) \in Nat
      /\ \A j, k \in 1 .. n : j < k => M(j) < M(k)
  <2>1. \A k \in 1 .. n : M(k) \in MemberStarts(doc, o)
    BY MembersAscend DEF Size
  <2>2. \A k \in 1 .. n : M(k) \in o + 1 .. Close(o) - 1
    BY <2>1, MemberStartsInside
  <2>3. \A j, k \in 1 .. n : j < k => M(j) < M(k)
    BY MembersAscend DEF Size
  <2>4. Close(o) \in o + 1 .. Len(doc) /\ Len(doc) \in Nat
    BY ContainerSpan, DocLength
  <2>5. \A k \in 1 .. n : M(k) \in Nat
    BY <2>2, <2>4
  <2>6. QED
    BY <2>3, <2>5
<1>3. p \in Nat /\ p <= Close(o) /\ p >= o + 1 /\ Close(o) \in Nat
  BY ContainerSpan, DocLength
<1> HIDE DEF n, M
<1>4. PICK k \in S : \A j \in S : k <= j
  <2>1. n + 1 \in S
    BY <1>1
  <2>2. S \in SUBSET Nat /\ S # {}
    BY <2>1
  <2> HIDE DEF S
  <2>3. QED
    BY <2>2, LeastNatural
<1>5. k <= n + 1 /\ k \in Nat /\ k # 1
  <2>1. n + 1 \in S
    BY <1>1
  <2>2. 1 \notin S
    <3>1. 1 \in 1 .. n
      BY <1>1 DEF n
    <3>2. QED
      BY <1>1, <1>3, <3>1
  <2>3. QED
    BY <1>4, <2>1, <2>2
<1> DEFINE i == k - 1
<1>6. i \in 1 .. n /\ i \in Nat /\ i + 1 = k
  BY <1>1, <1>4, <1>5
<1>7. M(i) <= p
  <2>1. i \notin S
    BY <1>4, <1>6
  <2>2. QED
    BY <1>2, <1>3, <1>6, <2>1
<1>8. k \in 1 .. n => M(k) > p
  BY <1>4
<1> HIDE DEF S, i
<1>9. p <= After(o, M(i))
  <2>1. CASE i = n
    BY <1>1, <1>3, <2>1
  <2>2. CASE i # n
    <3>1. i \in 1 .. n - 1 /\ k \in 1 .. n
      BY <1>1, <1>6, <2>2
    <3>2. M(k) = After(o, M(i)) + 1 /\ M(k) > p /\ M(k) \in Nat
      BY <1>1, <1>2, <1>6, <1>8, <3>1
    <3>3. After(o, M(i)) \in Int
      <4>1. MemberAtPlace(o, M(i))
        BY <1>6, MembersFollow DEF n, M
      <4>2. After(o, M(i)) \in Val(o, M(i)) + 1 .. Close(o)
        BY <4>1, AfterSpan
      <4>3. Val(o, M(i)) \in M(i) .. Close(o) - 1
        BY <4>1, ValueSpan
      <4>4. QED
        BY <1>2, <1>3, <1>6, <4>2, <4>3
    <3>4. QED
      BY <1>3, <3>2, <3>3
  <2>3. QED
    BY <2>1, <2>2
<1>10. ASSUME NEW j \in 1 .. n PROVE M(j) >= p + 1 <=> j > i
  <2>1. CASE j > i
    <3>1. j = k \/ k < j
      BY <1>1, <1>6, <2>1
    <3>2. k \in 1 .. n
      BY <1>1, <1>6, <2>1
    <3>3. M(k) > p /\ (j = k \/ M(k) < M(j)) /\ M(k) \in Nat /\ M(j) \in Nat
      BY <1>2, <1>8, <3>1, <3>2
    <3>4. QED
      BY <1>3, <2>1, <3>3
  <2>2. CASE ~ (j > i)
    <3>1. j = i \/ j < i
      BY <1>1, <1>6, <2>2
    <3>2. j = i \/ M(j) < M(i)
      BY <1>2, <1>6, <3>1
    <3>3. QED
      BY <1>2, <1>3, <1>6, <1>7, <2>2, <3>2
  <2>3. QED
    BY <2>1, <2>2
<1>11. QED
  BY <1>6, <1>7, <1>9, <1>10 DEF FromIndex, n, M

\* A place the cursor can be at: after the bracket of an empty container it goes on.
Place(p) == p \in 1 .. Len(doc) + 1 /\ (p > 1 /\ Opens(p - 1) => ~ Shuts(p))

\* Where a cursor is that is in a container as deep as it should be.
LEMMA WithinMeans ==
  ASSUME doc \in Inputs, NEW a \in OpenContainers, NEW c \in Cursors, Succeeded(c),
         Within(c, a)
  PROVE  \/ c = Cur(Close(a.start) + 1, a.depth - 1)
         \/ /\ c.pos \in a.start + 1 .. Close(a.start) /\ ~ Colon(c.pos)
            /\ c = Cur(c.pos, DepthAt(a.start, a.depth, c.pos))
<1> DEFINE o == a.start
           p == c.pos
           e == Close(o)
<1>1. Len(doc) \in Nat /\ Len(doc) >= 2
  BY DocLength
<1>2. o \in 1 .. Len(doc) /\ Opens(o) /\ Closing(a) = e /\ a.depth \in Nat
  BY OpenContainerMeans
<1>3. /\ e \in o + 1 .. Len(doc) /\ Shuts(e) /\ Depth(o) \in Int
      /\ Depth(o - 1) = Depth(o) - 1 /\ Depth(e) = Depth(o) - 1
  BY <1>2, ContainerSpan
<1>4. /\ a.depth = NaturalDepth(o) /\ p \in o + 1 .. e + 1
      /\ c.depth = NaturalDepth(p) /\ Token(p) # ":"
  BY <1>2 DEF Within, Proper
<1>5. c = Cur(p, c.depth)
  BY CursorIs
<1>6. ASSUME NEW q \in 1 .. Len(doc)
      PROVE  NaturalDepth(q) = Depth(q - 1) + (IF IsKey(q) \/ Shuts(q) \/ Comma(q) THEN 0 ELSE 1)
  <2>1. Token(q) \in Closers \cup {",", "end"} <=> Shuts(q) \/ Comma(q)
    BY TokenIs DEF Shuts, Comma
  <2>2. QED
    BY <2>1 DEF NaturalDepth, Depth
<1>7. a.depth = Depth(o)
  <2>1. ~ IsKey(o) /\ ~ Shuts(o) /\ ~ Comma(o)
    BY <1>2, KeyIsScalar, Kinds
  <2>2. QED
    BY <1>2, <1>3, <1>4, <1>6, <2>1
<1>8. CASE p = e + 1
  <2>1. Token(p) \in Closers \cup {",", "end"}
    <3>1. CASE e = Len(doc)
      <4>1. p \notin 1 .. Len(doc)
        BY <1>1, <1>8, <3>1
      <4>2. QED
        BY <4>1, TokenIs
    <3>2. CASE e # Len(doc)
      <4>1. p \in 1 .. Len(doc) /\ e \in 1 .. Len(doc)
        BY <1>1, <1>2, <1>3, <1>8, <3>2
      <4>2. doc[e + 1] \in Closers \cup {","}
        BY <1>3, <3>2, <4>1, DocDomain, InputsAssumption DEF WellFormed, Shuts
      <4>3. QED
        BY <1>8, <4>1, <4>2, TokenIs
    <3>3. QED
      BY <3>1, <3>2
  <2>2. NaturalDepth(p) = Depth(p - 1) + 0
    BY <2>1 DEF NaturalDepth, Depth
  <2>3. p - 1 = e
    BY <1>1, <1>2, <1>3, <1>8
  <2>4. c.depth = a.depth - 1
    BY <1>3, <1>4, <1>7, <2>2, <2>3
  <2>5. QED
    BY <1>5, <1>8, <2>4
<1>9. CASE p # e + 1
  <2>1. p \in o + 1 .. e /\ p \in 1 .. Len(doc)
    <3>1. o \in Nat /\ e \in Nat /\ p \in Nat /\ e <= Len(doc)
      BY <1>1, <1>2, <1>3 DEF Cursors
    <3>2. p \in o + 1 .. e + 1
      BY <1>4
    <3>3. QED
      BY <1>1, <1>9, <3>1, <3>2
  <2>2. ~ Colon(p)
    BY <1>4, <2>1, TokenIs DEF Colon
  <2>3. Depth(p - 1) \in Int
    <3>1. p - 1 \in 0 .. Len(doc)
      BY <1>1, <2>1
    <3>2. QED
      BY <3>1, DepthOfDoc
  <2>4. c.depth = DepthAt(o, a.depth, p)
    BY <1>3, <1>4, <1>6, <1>7, <2>1, <2>3 DEF DepthAt
  <2>5. QED
    BY <1>5, <2>1, <2>2, <2>4
<1>10. QED
  BY <1>8, <1>9

\* A cursor from which an object is searched: at its first field, in or after the value
\* of one, or past its end.
LEMMA InOrderMeans ==
  ASSUME doc \in Inputs, NEW a \in OpenContainers, Keyed(a.start),
         NEW c \in Cursors, Succeeded(c), Within(c, a), Place(c.pos),
         c.pos \in ToSet(Members(a.start)) => AtFirstField(c, a)
  PROVE  \/ c = MemberCursor(a, 0) /\ FromIndex(a.start, c.pos, 0)
         \/ /\ c = MemberCursor(a, Size(a.start)) /\ FromIndex(a.start, c.pos, Size(a.start))
         \/ /\ IsOpen(c, a) /\ ~ AtFirstField(c, a)
            /\ \E i \in 1 .. Size(a.start) :
                 InMember(a, Members(a.start)[i], c) /\ FromIndex(a.start, c.pos, i)
<1> DEFINE o == a.start
           n == Size(o)
           p == c.pos
           e == Close(o)
<1>1. Len(doc) \in Nat /\ Len(doc) >= 2
  BY DocLength
<1>2. o \in 1 .. Len(doc) /\ Opens(o) /\ ~ IsArray(a) /\ a.depth \in Nat
  BY OpenContainerMeans
<1>3. /\ e \in o + 1 .. Len(doc) /\ Shuts(e) /\ Depth(o) \in Int
      /\ \A q \in o .. e - 1 : Depth(q) \in Int /\ Depth(q) >= Depth(o)
  BY <1>2, ContainerSpan
<1>4. n \in Nat /\ (n = 0 <=> e = o + 1) /\ (n # 0 => Members(o)[1] = o + 1)
  BY <1>2, MembersFollow
<1>5. \A i \in 1 .. n : /\ Members(o)[i] \in o + 1 .. e - 1 /\ Members(o)[i] \in ToSet(Members(o))
                        /\ MemberAtPlace(o, Members(o)[i])
                        /\ i # 1 => Members(o)[i] > o + 1
  <2>1. DOMAIN Members(o) = 1 .. n
    BY <1>2, MembersAscend DEF Size
  <2>2. ASSUME NEW i \in 1 .. n
        PROVE  /\ Members(o)[i] \in o + 1 .. e - 1 /\ Members(o)[i] \in ToSet(Members(o))
               /\ MemberAtPlace(o, Members(o)[i])
               /\ i # 1 => Members(o)[i] > o + 1
    <3>1. MemberAtPlace(o, Members(o)[i])
      BY MembersOfContainer
    <3>2. Members(o)[i] \in o + 1 .. e - 1
      BY <1>2, <3>1, ValueSpan
    <3>3. Members(o)[i] \in ToSet(Members(o))
      BY <2>1 DEF ToSet
    <3>4. ASSUME i # 1 PROVE Members(o)[i] > o + 1
      <4>1. 1 \in 1 .. n /\ 1 < i /\ n # 0
        BY <1>4, <3>4
      <4>2. Members(o)[1] < Members(o)[i]
        BY <1>2, <4>1, MembersAscend DEF Size
      <4>3. QED
        BY <1>4, <4>1, <4>2
    <3>5. QED
      BY <3>1, <3>2, <3>3, <3>4
  <2>3. QED
    BY <2>2
<1>6. CASE c = Cur(e + 1, a.depth - 1)
  <2>1. c = MemberCursor(a, n)
    BY <1>4, <1>6 DEF MemberCursor
  <2>2. p = e + 1
    BY <1>6, CursorIs
  <2>3. FromIndex(o, p, n)
    <3>1. \A i \in 1 .. n : ~ (Members(o)[i] >= p) /\ ~ (i > n)
      BY <1>1, <1>2, <1>3, <1>4, <1>5, <2>2
    <3>2. QED
      BY <3>1 DEF FromIndex
  <2>4. QED
    BY <2>1, <2>3
<1>7. CASE p \in o + 1 .. e /\ ~ Colon(p) /\ c = Cur(p, DepthAt(o, a.depth, p))
  <2>1. p \in 1 .. Len(doc) /\ p - 1 \in o .. e - 1
    BY <1>1, <1>2, <1>3, <1>7
  <2>2. n # 0
    <3>1. SUFFICES ASSUME n = 0 PROVE FALSE
      OBVIOUS
    <3>2. p = e /\ p - 1 = o /\ p > 1
      BY <1>1, <1>2, <1>3, <1>4, <1>7, <3>1
    <3>3. QED
      BY <1>2, <1>3, <3>2 DEF Place
  <2>3. CASE p = o + 1
    <3>1. FromIndex(o, p, 0)
      <4>1. \A i \in 1 .. n : Members(o)[i] >= p /\ i > 0
        BY <1>2, <1>3, <1>5, <2>3
      <4>2. QED
        BY <4>1 DEF FromIndex
    <3>2. IsKey(p)
      <4>1. 1 \in 1 .. n
        BY <1>4, <2>2
      <4>2. MemberAtPlace(o, p)
        BY <1>4, <1>5, <2>2, <2>3, <4>1
      <4>3. Colon(p + 1) /\ Val(o, p) = p + 2 /\ Val(o, p) \in p .. e - 1
        BY <1>2, <4>2, ValueSpan
      <4>4. p + 1 \in 1 .. Len(doc)
        <5>1. e \in Nat /\ e <= Len(doc)
          BY <1>1, <1>2, <1>3
        <5>2. p \in Nat /\ p + 2 \in p .. e - 1
          BY <2>1, <4>3
        <5>3. QED
          BY <1>1, <5>1, <5>2
      <4>5. QED
        BY <4>3, <4>4, TokenIs DEF IsKey, Colon
    <3>3. p - 1 = o
      BY <1>2, <2>3
    <3>4. DepthAt(o, a.depth, p) = a.depth
      BY <1>2, <1>3, <3>2, <3>3 DEF DepthAt
    <3>5. MemberCursor(a, 0) = Cur(o + 1, a.depth)
      <4>1. 0 < n /\ 0 + 1 = 1
        BY <1>4, <2>2
      <4>2. QED
        BY <1>2, <1>4, <2>2, <4>1 DEF MemberCursor
    <3>6. QED
      BY <1>7, <2>3, <3>1, <3>4, <3>5
  <2>4. CASE p # o + 1
    <3>1. PICK i \in 1 .. n : /\ Members(o)[i] <= p /\ p <= After(o, Members(o)[i])
                              /\ FromIndex(o, p + 1, i)
      BY <1>2, <1>7, <2>2, InSomeMember
    <3> DEFINE m == Members(o)[i]
    <3>2. p \notin ToSet(Members(o))
      BY <2>4 DEF AtFirstField
    <3>3. FromIndex(o, p, i)
      <4>1. \A j \in 1 .. n : Members(o)[j] # p /\ Members(o)[j] \in Int
        BY <1>2, <1>3, <1>5, <3>2
      <4>2. \A j \in 1 .. n : Members(o)[j] >= p <=> Members(o)[j] >= p + 1
        BY <2>1, <4>1
      <4>3. QED
        BY <3>1, <4>2 DEF FromIndex
    <3>4. p \in Val(o, m) .. After(o, m)
      <4>1. MemberAtPlace(o, m)
        BY <1>5
      <4>2. /\ Colon(m + 1) /\ Val(o, m) = m + 2 /\ Val(o, m) \in m .. e - 1
            /\ m \in o + 1 .. e - 1 /\ After(o, m) \in Val(o, m) + 1 .. e
        BY <1>2, <4>1, ValueSpan, AfterSpan
      <4>3. p # m + 1
        BY <1>7, <4>2
      <4>4. p # m
        BY <1>5, <3>2
      <4> HIDE DEF m
      <4>5. m <= p /\ p <= After(o, m)
        BY <3>1 DEF m
      <4>6. m \in Nat /\ p \in Nat /\ After(o, m) \in Nat
        <5>1. o \in Nat /\ e \in Nat
          BY <1>2, <1>3
        <5> HIDE DEF o, e, p
        <5>2. m \in Nat
          BY <4>2, <5>1
        <5>3. p \in Nat
          BY <2>1, <5>1
        <5>4. Val(o, m) \in Nat
          BY <4>2, <5>1, <5>2
        <5>5. After(o, m) \in Nat
          BY <4>2, <5>1, <5>4
        <5>6. QED
          BY <5>2, <5>3, <5>5
      <4>7. p >= m + 2
        BY <4>3, <4>4, <4>5, <4>6
      <4>8. QED
        BY <4>2, <4>5, <4>6, <4>7
    <3>5. InMember(a, m, c)
      BY <1>7, <3>4 DEF InMember
    <3>6. IsOpen(c, a)
      <4>1. Depth(p - 1) \in Int /\ Depth(p - 1) >= Depth(o)
        BY <1>3, <2>1
      <4>2. DepthAt(o, a.depth, p) >= a.depth
        BY <1>2, <1>3, <4>1 DEF DepthAt
      <4>3. c.depth = DepthAt(o, a.depth, p)
        BY <1>7, CursorIs
      <4>4. QED
        BY <4>2, <4>3 DEF IsOpen
    <3>7. ~ AtFirstField(c, a)
      BY <2>4 DEF AtFirstField
    <3>8. QED
      BY <3>3, <3>5, <3>6, <3>7
  <2>5. QED
    BY <2>3, <2>4
<1>8. QED
  BY <1>6, <1>7, WithinMeans

LEMMA FirstIndex ==
  ASSUME doc \in Inputs, NEW a \in OpenContainers, NEW p \in 0 .. a.start + 1
  PROVE  FromIndex(a.start, p, 0)
<1>1. a.start \in 1 .. Len(doc) /\ Opens(a.start)
  BY OpenContainerMeans
<1>2. Size(a.start) \in Nat
  BY MembersOfContainer
<1>3. ASSUME NEW i \in 1 .. Size(a.start) PROVE Members(a.start)[i] >= p /\ i > 0
  <2>1. MemberAtPlace(a.start, Members(a.start)[i])
    BY MembersOfContainer
  <2>2. Members(a.start)[i] \in a.start + 1 .. Close(a.start) - 1
    BY <1>1, <2>1, ValueSpan
  <2>3. Close(a.start) \in a.start + 1 .. Len(doc) /\ Len(doc) \in Nat
    BY <1>1, ContainerSpan, DocLength
  <2>4. QED
    BY <1>1, <1>2, <2>2, <2>3
<1>4. QED
  BY <1>3 DEF FromIndex

\* find_field() and find_field_unordered() at the start of an object find any field.
LEMMA FindsFromFirst ==
  ASSUME doc \in Inputs, NEW a \in OpenContainers, Keyed(a.start), NEW key,
         NEW p \in 0 .. a.start + 1
  PROVE  /\ Finds(FindField(MemberCursor(a, 0), a, key), a, ValueOf(a, key, p))
         /\ Finds(FindFieldUnordered(MemberCursor(a, 0), a, key), a, ValueOf(a, key, p))
<1> DEFINE c == MemberCursor(a, 0)
<1>1. Size(a.start) \in Nat /\ 0 \in 0 .. Size(a.start)
  BY MembersOfContainer
<1>2. IsOpen(c, a) => AtFirstField(c, a)
  <2>1. SUFFICES ASSUME IsOpen(c, a) PROVE AtFirstField(c, a)
    OBVIOUS
  <2>2. 0 < Size(a.start)
    BY <2>1, MemberCursorOpen
  <2>3. a.start \in 1 .. Len(doc) /\ Opens(a.start) /\ Size(a.start) # 0 /\ 0 + 1 = 1
    BY <1>1, <2>2, OpenContainerMeans
  <2>4. Members(a.start)[0 + 1] = a.start + 1
    BY <2>3, MembersFollow
  <2>5. QED
    BY <2>2, <2>4, CursorIs DEF AtFirstField, MemberCursor
<1>3. ResetTo(c, a) = c
  BY MemberPlaces, MemberCursorOpen, ResetsToFirst
<1> HIDE DEF c
<1>4. FindField(c, a, key) = Scan(c, a, key)
  BY <1>2 DEF FindField
<1>5. FindFieldUnordered(c, a, key) = Scan(c, a, key)
  BY <1>2, <1>3 DEF FindFieldUnordered
<1>6. Finds(Scan(c, a, key), a, ValueOf(a, key, p))
  BY <1>1, FirstIndex, ScanFinds DEF c
<1>7. QED
  BY <1>4, <1>5, <1>6 DEF c

\* From wherever reading the object leaves the cursor, find_field() finds a field that is
\* ahead and find_field_unordered() any; what is not there they do not find, and neither
\* raises.  Of the keys the cursor may be at the first alone, before which no comma is.
THEOREM FindsInOrder ==
  ASSUME doc \in Inputs, NEW a \in OpenContainers, Keyed(a.start), NEW key,
         NEW c \in Cursors, Succeeded(c), Within(c, a), Place(c.pos),
         c.pos \in ToSet(Members(a.start)) => AtFirstField(c, a)
  PROVE  /\ Finds(FindField(c, a, key), a, ValueOf(a, key, c.pos))
         /\ Finds(FindFieldUnordered(c, a, key), a, ValueOf(a, key, 1))
<1> DEFINE n == Size(a.start)
<1>1. n \in Nat /\ 0 \in 0 .. n /\ n \in 0 .. n /\ 1 \in 0 .. a.start + 1
  BY MembersOfContainer, OpenContainerMeans
<1>2. ResetTo(c, a) = MemberCursor(a, 0)
  BY ResetsToFirst
<1>3. Finds(Scan(MemberCursor(a, 0), a, key), a, ValueOf(a, key, 1))
  BY <1>1, FirstIndex, ScanFinds
<1> HIDE DEF n
<1>4. CASE c = MemberCursor(a, 0) /\ FromIndex(a.start, c.pos, 0)
  <2>1. Finds(FindFieldUnordered(c, a, key), a, ValueOf(a, key, 1))
    BY <1>1, <1>4, FindsFromFirst
  <2>2. FindField(c, a, key) = Scan(MemberCursor(a, 0), a, key)
    <3>1. IsOpen(c, a) => AtFirstField(c, a)
      <4>1. SUFFICES ASSUME IsOpen(c, a) PROVE AtFirstField(c, a)
        OBVIOUS
      <4>2. 0 < n
        BY <1>4, <4>1, MemberCursorOpen DEF n
      <4>3. a.start \in 1 .. Len(doc) /\ Opens(a.start) /\ n # 0 /\ 0 + 1 = 1
        BY <1>1, <4>2, OpenContainerMeans
      <4>4. Members(a.start)[0 + 1] = a.start + 1
        BY <4>3, MembersFollow DEF n
      <4>5. QED
        BY <1>4, <4>2, <4>4, CursorIs DEF AtFirstField, MemberCursor, n
    <3>2. QED
      BY <1>4, <3>1 DEF FindField
  <2>3. Finds(FindField(c, a, key), a, ValueOf(a, key, c.pos))
    BY <1>1, <1>4, <2>2, ScanFinds DEF n
  <2>4. QED
    BY <2>1, <2>3
<1>5. CASE c = MemberCursor(a, n) /\ FromIndex(a.start, c.pos, n)
  <2>1. ~ IsOpen(c, a)
    BY <1>1, <1>5, MemberCursorOpen DEF n
  <2>2. FindField(c, a, key) = Scan(c, a, key)
    BY <2>1 DEF FindField
  <2>3. FindFieldUnordered(c, a, key) = Scan(MemberCursor(a, 0), a, key)
    BY <1>2, <2>1 DEF FindFieldUnordered
  <2>4. Finds(Scan(c, a, key), a, ValueOf(a, key, c.pos))
    BY <1>1, <1>5, ScanFinds DEF n
  <2>5. QED
    BY <1>3, <2>2, <2>3, <2>4
<1>6. CASE /\ IsOpen(c, a) /\ ~ AtFirstField(c, a)
           /\ \E i \in 1 .. n :
                InMember(a, Members(a.start)[i], c) /\ FromIndex(a.start, c.pos, i)
  <2>1. PICK i \in 1 .. n :
               InMember(a, Members(a.start)[i], c) /\ FromIndex(a.start, c.pos, i)
    BY <1>6
  <2> DEFINE ahead == FindField(c, a, key)
             behind == Scan(ResetTo(c, a), a, key)
             neither == SkipChild(c, a.depth)
             p == ValueOf(a, key, c.pos)
             q == ValueOf(a, key, 1)
  <2>2. i \in 0 .. n /\ i \in Nat
    BY <1>1
  <2>3. ahead = Scan(MemberCursor(a, i), a, key)
    <3>1. Increment(c, a) = MemberCursor(a, i)
      BY <2>1, IncrementsToNext DEF n
    <3>2. Abandoned(MemberCursor(a, i)) = MemberCursor(a, i)
      BY <2>2, MemberCursorOpen DEF Abandoned
    <3>3. QED
      BY <1>6, <3>1, <3>2 DEF FindField
  <2>4. Finds(ahead, a, p)
    BY <2>1, <2>2, <2>3, ScanFinds DEF n
  <2>5. Finds(behind, a, q)
    BY <1>2, <1>3
  <2>6. p # 0 => p = q
    <3>1. SUFFICES ASSUME p # 0 PROVE p = q
      OBVIOUS
    <3>2. PICK h \in i .. n - 1 : HasKey(a, key, h)
      BY <2>1, <2>2, <3>1, ValueOfKey DEF n
    <3>3. p = Val(a.start, Members(a.start)[h + 1])
      BY <2>1, <2>2, <3>2, ValueOfKey DEF n
    <3>4. h \in 0 .. n - 1 /\ FromIndex(a.start, 1, 0)
      BY <1>1, <2>2, FirstIndex
    <3>5. q = Val(a.start, Members(a.start)[h + 1])
      BY <1>1, <3>2, <3>4, ValueOfKey DEF n
    <3>6. QED
      BY <3>3, <3>5
  <2>7. ~ Found(neither, a) /\ Succeeded(neither)
    <3>1. neither = Cur(After(a.start, Members(a.start)[i]), a.depth)
      BY <2>1, MembersOfContainer, SkipsMember DEF n
    <3>2. ~ IsArray(a) /\ a.depth \in Nat /\ a.depth # a.depth + 1
      BY OpenContainerMeans
    <3>3. QED
      BY <3>1, <3>2, CursorIs DEF Found
  <2>8. FindFieldUnordered(c, a, key) = FirstFound(ahead, behind, neither, a)
    BY <1>6 DEF FindFieldUnordered
  <2> HIDE DEF ahead, behind, neither, p, q
  <2>9. Finds(FirstFound(ahead, behind, neither, a), a, q)
    <3>1. Succeeded(ahead)
      BY <2>4, CursorIs DEF Finds
    <3>2. CASE p # 0
      <4>1. Found(ahead, a) /\ ahead = Cur(q, a.depth + 1) /\ q # 0
        BY <2>4, <2>6, <3>2 DEF Finds
      <4>2. Found(behind, a) => behind = ahead
        BY <2>5, <4>1 DEF Finds
      <4>3. FirstFound(ahead, behind, neither, a) = ahead
        BY <4>1, <4>2 DEF FirstFound
      <4>4. QED
        BY <4>1, <4>3 DEF Finds
    <3>3. CASE p = 0 /\ q # 0
      <4>1. ~ Found(ahead, a) /\ Found(behind, a)
        BY <2>4, <2>5, <3>3 DEF Finds
      <4>2. FirstFound(ahead, behind, neither, a) = behind
        BY <3>1, <4>1 DEF FirstFound
      <4>3. QED
        BY <2>5, <4>2
    <3>4. CASE p = 0 /\ q = 0
      <4>1. ~ Found(ahead, a) /\ ~ Found(behind, a)
        BY <2>4, <2>5, <3>4 DEF Finds
      <4>2. FirstFound(ahead, behind, neither, a) = neither
        BY <3>1, <4>1 DEF FirstFound
      <4>3. QED
        BY <2>7, <3>4, <4>2 DEF Finds
    <3>5. QED
      BY <3>2, <3>3, <3>4
  <2>10. QED
    BY <2>4, <2>8, <2>9 DEF ahead, p, q
<1>7. QED
  BY <1>4, <1>5, <1>6, InOrderMeans DEF n
=============================================================================
