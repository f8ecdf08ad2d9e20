-------------------------- MODULE OnDemandObjects ---------------------------
(***************************************************************************)
(* Objects of an On-Demand document, and documents as a whole.             *)
(*                                                                         *)
(* A field is looked up by key in four ways: forward (find_field), forward *)
(* and then round (find_field_unordered), by subscript and by `in`, which  *)
(* reset first, and by JSON pointer.  keys() and two iterators go through  *)
(* the fields.  All of it moves the one cursor of OnDemandCursor.          *)
(***************************************************************************)
EXTENDS OnDemandCursor

\* find_field and find_field_unordered go on from where the cursor is.  They are
\* judged if it is in the object, as deep as reading leaves it, and not at a key
\* that an iterator's ++ went on to: simdjson expects a comma there.
InOrder(o) ==
  /\ Within(cursor, o)
  /\ cursor.pos \in ToSet(Members(o.start)) => AtFirstField(cursor, o)

ForwardLookUp(after, o, judged, p) ==
  /\ LookUp(after, o, "call")
  /\ answered' = (judged => Answers(Found(after, o), after, p))

\* OnDemandObject.find_field(), .find_field_unordered()
ObjectFindField(o, key) ==
  ForwardLookUp(FindField(cursor, o, key), o, InOrder(o), ValueOf(o, key, cursor.pos))
ObjectFindFieldUnordered(o, key) ==
  ForwardLookUp(FindFieldUnordered(cursor, o, key), o, InOrder(o), ValueOf(o, key, 1))

\* The same of values and documents, which are entered if the cursor is at them.
Resumed(v) == IF AtStart(cursor, v) THEN Start(cursor, v) ELSE cursor

ValueFindField(v, key) ==
  ForwardLookUp(FindField(Resumed(v), v, key), v,
                InOrder(v) \/ AtValue(v), ValueOf(v, key, cursor.pos))
ValueFindFieldUnordered(v, key) ==
  ForwardLookUp(FindFieldUnordered(Resumed(v), v, key), v,
                InOrder(v) \/ AtValue(v), ValueOf(v, key, 1))

DocumentFindField(key) == ValueFindField(Root, key)
DocumentFindFieldUnordered(key) == ValueFindFieldUnordered(Root, key)

-----------------------------------------------------------------------------
(* Python's protocols *)

GetField(c, o, key) ==
  Subscript(FindFieldUnordered(c, o, key), o, ValueOf(o, key, 1))

\* document[key], object[key], value[key]
DocumentGetField(key) == GetField(Start(Rewound(cursor), Root), Root, key)
ObjectGetField(o, key) == GetField(ResetTo(cursor, o), o, key)
ValueGetField(v, key) == GetField(ResetTo(Start(cursor, v), v), v, key)

\* NO_SUCH_FIELD is the answer false, any other error is raised.
Told(after, o, key) ==
  /\ MoveTo(after, "call")
  /\ answered' = Answers(Found(after, o), after, ValueOf(o, key, 1))
  /\ UNCHANGED <<doc, values, containers>>

\* Fault: `in` without the reset, forward only.
ContainsFromHere(o, key) == Told(FindField(cursor, o, key), o, key)

\* key in object
ObjectContains(o, key) ==
  Told(FindFieldUnordered(ResetTo(cursor, o), o, key), o, key)

\* object.keys()
KeysFrom(c, o) == [k \in 1 .. Count(c, o) |-> Rounds(c, o, k - 1).pos]
Keys(o) ==
  /\ MoveTo(Rounds(ResetTo(cursor, o), o, MaxRounds), "call")
  /\ answered' = (/\ Succeeded(cursor')
                  /\ KeysFrom(ResetTo(cursor, o), o) = Members(o.start))
  /\ UNCHANGED <<doc, values, containers>>

\* object.fields()
FieldsIter(o) == NewIterator(ResetTo(cursor, o), o, "fields", "call")

\* next() of the iterators over keys and over fields.  A field is held as its value,
\* which OnDemandField.value copies; its key was consumed by the iterator.
NextKey(k) == loops[k].gives = "keys" /\ NextMember(k) /\ UNCHANGED values
NextField(k) ==
  /\ loops[k].gives = "fields"
  /\ NextMember(k)
  /\ LET a == loops[k].container IN HoldValue(Child(Dereferenced(cursor, a), a))

\* at_pointer() and at_path(): from the root of a document, from wherever the cursor
\* is in a value, array or object.
Pointed(step, p, judged) ==
  /\ MoveTo(step.cursor, "call")
  /\ IF step.found THEN HoldValue(step.value) ELSE UNCHANGED values
  /\ answered' = (judged => Answers(step.found, step.cursor, p))
  /\ UNCHANGED <<doc, containers>>

PointerLookUp(c, a, path, judged) ==
  Pointed(AtPointer(c, a, path), PlaceOf(a.start, path), judged)

DocumentAtPointer(path) ==
  PointerLookUp(Start(Rewound(cursor), Root), Root, path, TRUE)
ContainerAtPointer(a, path) ==
  PointerLookUp(cursor, a, path, cursor = ResetTo(cursor, a))
ValueAtPointer(v, path) ==
  IsContainer(v) /\ PointerLookUp(Start(cursor, v), v, path, AtValue(v))

-----------------------------------------------------------------------------

\* Keys and pointers worth asking for: those of the document, and one of neither.
KeysAsked(o) ==
  IF IsObject(o) THEN {doc[p] : p \in {q \in DOMAIN doc : IsKey(q)}} \cup {"no such key"}
                 ELSE {}
Pointers(a) ==
  IF IsContainer(a)
  THEN LET first == 0 .. Len(Members(a.start)) IN [1 .. 1 -> first] \cup (first \X {0, 1})
  ELSE {}

ObjectNext ==
  \/ \E key \in KeysAsked(Root) :
       \/ DocumentGetField(key)
       \/ DocumentFindField(key) \/ DocumentFindFieldUnordered(key)
  \/ \E path \in Pointers(Root) : DocumentAtPointer(path)
  \/ \E o \in containers :
       \/ \E path \in Pointers(o) : ContainerAtPointer(o, path)
       \/ IsObject(o) /\ (Keys(o) \/ FieldsIter(o))
       \/ \E key \in KeysAsked(o) :
            \/ ObjectFindField(o, key) \/ ObjectFindFieldUnordered(o, key)
            \/ ObjectGetField(o, key) \/ ObjectContains(o, key)
  \/ \E v \in values :
       \/ \E path \in Pointers(v) : ValueAtPointer(v, path)
       \/ \E key \in KeysAsked(v) :
            \/ ValueFindField(v, key) \/ ValueFindFieldUnordered(v, key)
            \/ ValueGetField(v, key)
  \/ \E k \in DOMAIN loops : NextKey(k) \/ NextField(k)

Next == CursorNext \/ ObjectNext

Spec == Init /\ [][Next]_vars

-----------------------------------------------------------------------------
(* Safety *)

\* A subscript gives the member of that index or key, or raises because there is none;
\* `in`, len() and keys() tell what the container holds; a pointer into the document
\* finds its value: wherever earlier calls and loops, finished or not, left the cursor.
\* A forward lookup, a pointer into a container and its raw text are right while the
\* cursor is where reading that container alone can leave it.
AnswersAreRight == answered

\* A loop is given the elements, keys or fields of its container, in order and all of
\* them, without an error, if nothing else moves the cursor while it runs.  All of them,
\* wherever the cursor was: a loop begins with a reset, which the documentation of
\* arrays denies (LoopsGoForward).
LoopsAloneSeeTheirMembers ==
  \A k \in DOMAIN loops : loops[k].moved = {} =>
    /\ Usable
    /\ IsPrefix(loops[k].yielded, Members(loops[k].container.start))
    /\ loops[k].done => loops[k].yielded = Members(loops[k].container.start)

\* docs/ondemand.md on arrays: "Plain `for v in arr` iterates from the current cursor
\* position - it is forward-only and will not rewind by itself".  So a loop whose cursor
\* only such loops move is given elements further and further on.
LoopsGoForward ==
  \A k \in DOMAIN loops :
    loops[k].gives = "elements" /\ loops[k].moved \subseteq {"for"} =>
      \A i, j \in DOMAIN loops[k].yielded :
        i < j => loops[k].yielded[i] < loops[k].yielded[j]

\* docs/ondemand.md on fields: "`find_field_unordered` resets the cursor to the start
\* of the object and searches everywhere".  It finds the field wherever in the object
\* the cursor is.
UnorderedLookupsSearchEverywhere ==
  [][\A o \in containers, key \in KeysAsked(Root) :
       ObjectFindFieldUnordered(o, key) /\ Within(cursor, o) =>
         Answers(Found(cursor', o), cursor', ValueOf(o, key, 1))]_vars
=============================================================================
