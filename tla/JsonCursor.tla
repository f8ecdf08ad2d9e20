----------------------------- MODULE JsonCursor -----------------------------
(***************************************************************************)
(* simdjson's On-Demand cursor, from how the bindings call it.             *)
(*                                                                         *)
(* A document is a sequence of tokens.  The cursor is simdjson's           *)
(* json_iterator: a position in the tokens, a depth and a sticky error.    *)
(* Values, arrays, objects and their iterators are handles: where they     *)
(* start and how deep they are, and no position of their own.  Every       *)
(* operator here takes a cursor and gives the cursor that the call leaves. *)
(*                                                                         *)
(* The input is well formed and the keys of one object are distinct.       *)
(***************************************************************************)
EXTENDS Integers, SequencesExt

CONSTANT Inputs \* the documents explored: sequences of tokens, each a container

Openers == {"[", "{"}
Closers == {"]", "}"}

VARIABLE doc \* the tokens of the input

Handles == [start : Nat, depth : Nat]
Cursors == [pos : Nat, depth : Nat, error : {"SUCCESS", "TAPE_ERROR"}]

Root == [start |-> 1, depth |-> 1]

Token(p) == IF p \in DOMAIN doc THEN doc[p] ELSE "end"

IsArray(v) == Token(v.start) = "["
IsObject(v) == Token(v.start) = "{"
IsContainer(v) == Token(v.start) \in Openers
IsScalar(v) == Token(v.start) \notin Openers \cup Closers \cup {",", ":", "end"}
IsKey(p) == Token(p + 1) = ":"

-----------------------------------------------------------------------------
(* What the tokens mean, by their brackets alone *)

\* Brackets opened and not closed by the first q tokens of an input, and by those
\* from p to q.
DepthOf ==
  [input \in Inputs |-> [q \in 0 .. Len(input) |->
     Cardinality({k \in 1 .. q : input[k] \in Openers})
     - Cardinality({k \in 1 .. q : input[k] \in Closers})]]
Nesting(input, p, q) == DepthOf[input][q] - DepthOf[input][p - 1]

\* Where the members of the container at p start: the elements of an array, the keys
\* of an object.
MemberStarts(input, p) ==
  {q \in p + 1 .. Len(input) :
     /\ input[q] \notin Closers \cup {",", ":"}
     /\ input[q - 1] # ":"
     /\ \A k \in p .. q - 1 : Nesting(input, p, k) >= 1
     /\ Nesting(input, p, q - 1) = 1}

\* The numbers of S in increasing order.
Ascending(S) ==
  CHOOSE s \in [1 .. Cardinality(S) -> S] :
    \A i, j \in 1 .. Cardinality(S) : i < j => s[i] < s[j]

MembersOf ==
  [input \in Inputs |->
    [p \in 1 .. Len(input) |-> Ascending(MemberStarts(input, p))]]
Members(p) == MembersOf[doc][p]

\* Where the tokens of an input from p on have closed n brackets more than they opened;
\* 0 if they never do.
ClosesOf ==
  [input \in Inputs |-> [p \in 1 .. Len(input) + 2 |-> [n \in 1 .. Len(input) |->
     LET ends == {q \in p .. Len(input) : Nesting(input, p, q) <= 0 - n}
     IN  IF ends = {} THEN 0 ELSE Min(ends)]]]

-----------------------------------------------------------------------------
(* JSON's grammar, of an input as a sequence of tokens *)

BeginsValue(input, p) == p \in DOMAIN input /\ input[p] \notin Closers \cup {",", ":"}

\* What the members of the container opened at o begin with: a value, or a key.
BeginsMember(input, o, p) ==
  /\ BeginsValue(input, p)
  /\ input[o] = "{" => /\ input[p] \notin Openers
                       /\ p + 1 \in DOMAIN input /\ input[p + 1] = ":"
                       /\ BeginsValue(input, p + 2)

\* Where the value of the member at m starts, and what comes after that value.
ValueStart(input, o, m) == IF input[o] = "{" THEN m + 2 ELSE m
AfterValue(input, v) == (IF input[v] \in Openers THEN ClosesOf[input][v + 1][1] ELSE v) + 1

\* The container opened at o: a bracket that matches, and members between commas.
WellFormedContainer(input, o) ==
  LET close == ClosesOf[input][o + 1][1]
  IN
  /\ close # 0 /\ <<input[o], input[close]>> \in {<<"[", "]">>, <<"{", "}">>}
  /\ close = o + 1 \/ BeginsMember(input, o, o + 1)
  /\ \A m \in MemberStarts(input, o) :
       LET after == AfterValue(input, ValueStart(input, o, m))
       IN  after = close \/ (input[after] = "," /\ BeginsMember(input, o, after + 1))
  /\ input[o] = "{" =>
       \A m, n \in MemberStarts(input, o) : input[m] = input[n] => m = n

\* A container and no more.  Two words are not tokens: they stand for what no input has.
WellFormed(input) ==
  /\ input \in Seq(STRING) /\ Len(input) >= 2
  /\ input[1] \in Openers /\ ClosesOf[input][2][1] = Len(input)
  /\ \A p \in DOMAIN input :
       /\ input[p] \in Openers => WellFormedContainer(input, p)
       /\ input[p] \in Closers /\ p # Len(input) => input[p + 1] \in Closers \cup {","}
       /\ input[p] \notin {"end", "no such key"}

ASSUME InputsAssumption == \A input \in Inputs : WellFormed(input)

-----------------------------------------------------------------------------
(* What an answer is compared with *)

\* The closing bracket of a container.
Closing(a) == ClosesOf[doc][a.start + 1][1]

\* The depth of a cursor that came to p by reading: a value is one deeper than what
\* separates it from the next.
NaturalDepth(p) ==
  DepthOf[doc][p - 1]
  + (IF IsKey(p) \/ Token(p) \in Closers \cup {",", "end"} THEN 0 ELSE 1)

\* A handle taken while the cursor was out of order may start where a value does and
\* have another depth.
Proper(a) == a.depth = NaturalDepth(a.start)

\* The cursor is in container a or has just left it, as deep as it should be.
Within(c, a) ==
  /\ Proper(a)
  /\ c.pos \in a.start + 1 .. Closing(a) + 1
  /\ c.depth = NaturalDepth(c.pos) /\ Token(c.pos) # ":"

\* Where the value is of the field of object o with that key, looked for from p on;
\* 0 if there is none.
ValueOf(o, key, p) ==
  LET keys == {q \in ToSet(Members(o.start)) : q >= p /\ Token(q) = key}
  IN  IF keys = {} THEN 0 ELSE (CHOOSE q \in keys : TRUE) + 2

\* Where the value is of the member of index i of what starts at p; 0 if there is none.
MemberAt(p, i) ==
  IF p = 0 \/ Token(p) \notin Openers \/ i >= Len(Members(p)) THEN 0
  ELSE ValueStart(doc, p, Members(p)[i + 1])

\* The same along a path of indexes.
PlaceOf(p, path) ==
  LET place[n \in 0 .. Len(path)] ==
        IF n = 0 THEN p ELSE MemberAt(place[n - 1], path[n])
  IN  place[Len(path)]

-----------------------------------------------------------------------------
(* Containers of both kinds *)

\* What is read beyond the last token is not modelled: there is no second `end`.
Consumed(c) == [c EXCEPT !.pos = IF @ > Len(doc) THEN @ ELSE @ + 1]
Failed(c) == [c EXCEPT !.error = "TAPE_ERROR"]
Succeeded(c) == c.error = "SUCCESS"

\* An error met by an iterator or a lookup abandons the document.
Abandoned(c) == IF Succeeded(c) THEN c ELSE [c EXCEPT !.depth = 0]

AtStart(c, v) == c.pos = v.start

\* iterator != end: the cursor is in the container, or deeper; where, it does not
\* matter.
IsOpen(c, a) == c.depth >= a.depth

Closer(a) == IF IsArray(a) THEN "]" ELSE "}"

\* An element is one deeper than its array from the start; a field only from its
\* colon on.
Descended(c, a) == IF IsArray(a) THEN [c EXCEPT !.depth = a.depth + 1] ELSE c

\* The value at the cursor.
Child(c, a) == [start |-> c.pos, depth |-> a.depth + 1]

\* Entering a container whose bracket has been consumed; an empty one is left again.
Started(c, a) ==
  IF Token(c.pos) = Closer(a) THEN [Consumed(c) EXCEPT !.depth = a.depth - 1]
                              ELSE Descended(c, a)

\* get_array(), get_object(): a value the cursor is not at is taken as started,
\* wherever the cursor is.
Start(c, v) == Started(IF AtStart(c, v) THEN Consumed(c) ELSE c, v)

\* The cursor goes to the first member, the value itself, or the root.
ResetTo(c, a) == Started([c EXCEPT !.pos = a.start + 1, !.depth = a.depth], a)
MovedTo(c, v) == [c EXCEPT !.pos = v.start, !.depth = v.depth]
Rewound(c) == MovedTo(c, Root)

\* How deep the cursor is once it has read the token it is at.
Past(c) ==
  IF Token(c.pos) \in Openers \cup {",", ":"} \/ IsKey(c.pos) THEN c.depth
                                                            ELSE c.depth - 1

\* After the bracket at p, if there is one.
ClosesAt(c, p, depth) ==
  IF p = 0 THEN Failed(c) ELSE [c EXCEPT !.pos = p + 1, !.depth = depth]

\* What is left of the values deeper than depth.
SkipChild(c, depth) ==
  IF c.depth <= depth THEN c
  ELSE IF Past(c) <= depth THEN [Consumed(c) EXCEPT !.depth = @ - 1]
  ELSE IF Past(c) - depth > Len(doc) THEN Failed(c)
  ELSE ClosesAt(c, ClosesOf[doc][c.pos + 1][Past(c) - depth], depth)

\* The comma before the next member, or the end.
HasNext(c, a) ==
  IF ~ Succeeded(c) THEN c
  ELSE CASE Token(c.pos) = ","       -> Descended(Consumed(c), a)
         [] Token(c.pos) = Closer(a) -> [Consumed(c) EXCEPT !.depth = a.depth - 1]
         [] OTHER                    -> Failed(c)

\* ++iterator, which does nothing once there is an error.
Increment(c, a) == IF Succeeded(c) THEN HasNext(SkipChild(c, a.depth), a) ELSE c

\* *iterator: an element is the value at the cursor; a field has its key and colon
\* consumed, if that is what the cursor is at.
Dereferenced(c, a) ==
  IF ~ Succeeded(c) \/ IsArray(a) THEN Abandoned(c)
  ELSE IF IsKey(c.pos) THEN [c EXCEPT !.pos = @ + 2, !.depth = a.depth + 1]
  ELSE Abandoned(Failed(c))

\* Each round but the last consumes a comma.
RoundsOf == [input \in Inputs |-> 1 + Cardinality({p \in DOMAIN input : input[p] = ","})]
MaxRounds == RoundsOf[doc]

\* One round of a loop over a, which ends when a is closed.
Round(c, a) == IF IsOpen(c, a) THEN Increment(Dereferenced(c, a), a) ELSE c

\* The cursor after n rounds.
Rounds(c, a, n) ==
  LET round[k \in 0 .. n] == IF k = 0 THEN c ELSE Round(round[k - 1], a)
  IN  round[n]

\* count_elements() and count_fields(): the number, and the cursor, which is reset.
Count(c, a) ==
  Cardinality({n \in 0 .. MaxRounds - 1 : IsOpen(Rounds(c, a, n), a)})
ResetOrAbandoned(c, a) == IF Succeeded(c) THEN ResetTo(c, a) ELSE Abandoned(c)
Counted(c, a) == ResetOrAbandoned(Rounds(c, a, MaxRounds), a)

\* A lookup that found its member leaves the cursor at the member's value: an array
\* gives whatever it is at, if it is not past its end.
Found(c, a) ==
  Succeeded(c) /\ (IF IsArray(a) THEN IsOpen(c, a) ELSE c.depth = a.depth + 1)

\* at(index) of an array.
At(c, a, index) == Abandoned(Rounds(c, a, index))

-----------------------------------------------------------------------------
(* Fields by key *)

AtFirstField(c, o) == c.pos = o.start + 1

AtKey(c, o, key) == IsOpen(c, o) /\ IsKey(c.pos) /\ Token(c.pos) = key

\* From one key to the next until the key is met or the object ends.
RoundUnlessAt(c, o, key) == IF AtKey(c, o, key) THEN c ELSE Round(c, o)
Entered(c, o, key) == IF AtKey(c, o, key) THEN Dereferenced(c, o) ELSE c
Scan(c, o, key) ==
  LET scan[k \in 0 .. MaxRounds] ==
        IF k = 0 THEN c ELSE RoundUnlessAt(scan[k - 1], o, key)
  IN  Entered(scan[MaxRounds], o, key)

\* find_field(): forward from the field after the one the cursor is in.
FindField(c, o, key) ==
  Scan(IF AtFirstField(c, o) \/ ~ IsOpen(c, o) THEN c ELSE Abandoned(Increment(c, o)),
       o, key)

\* find_field_unordered(): the same, and then once more from the first field to
\* where it began.
FirstFound(ahead, behind, neither, o) ==
  IF Found(ahead, o) \/ ~ Succeeded(ahead) THEN ahead
  ELSE IF Found(behind, o) THEN behind ELSE neither
FindFieldUnordered(c, o, key) ==
  IF IsOpen(c, o) /\ ~ AtFirstField(c, o)
  THEN FirstFound(FindField(c, o, key), Scan(ResetTo(c, o), o, key),
                  SkipChild(c, o.depth), o)
  ELSE Scan(IF IsOpen(c, o) THEN c ELSE ResetTo(c, o), o, key)

-----------------------------------------------------------------------------
(* JSON pointers and paths.  A step is the index of an element, or of the field *)
(* whose key is asked for.                                                      *)

KeyAt(o, i) ==
  IF i < Len(Members(o.start)) THEN Token(Members(o.start)[i + 1]) ELSE "no such key"

\* at(index) or find_field(key): the cursor, what it found, and whether it did.
Step(after, a) ==
  [cursor |-> after, value |-> Child(after, a), found |-> Found(after, a)]
Stepped(c, a, i) ==
  Step(IF IsArray(a) THEN At(c, a, i) ELSE FindField(c, a, KeyAt(a, i)), a)

\* A value that was found is entered, if it is a container.
Further(step, i) ==
  IF step.found /\ IsContainer(step.value)
  THEN Stepped(Start(step.cursor, step.value), step.value, i)
  ELSE [step EXCEPT !.found = FALSE]

\* at_pointer() of the container the cursor is in.
AtPointer(c, a, path) ==
  LET step[n \in 1 .. Len(path)] ==
        IF n = 1 THEN Stepped(c, a, path[1]) ELSE Further(step[n - 1], path[n])
  IN  step[Len(path)]
=============================================================================
