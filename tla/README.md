# simdjsonpy: a verification development in TLA+

simdjsonpy binds the C++ library simdjson to Python with nanobind. The parsing is
simdjson's; what the bindings add, and what can go wrong in them, is *lifetime and
sharing*: several Python objects stand for one parser, one tape or one cursor,
Python threads share them, and the code relies on mutexes, counters and resets to make
that look like ordinary Python. The models are of that layer.

Paths such as `src/src/bind_dom.cpp:129` are those of the repository under `src/`.
The lines a definition models are listed in `PROJECT.json` under `map`.

    cd tla
    tlc -config DocumentStream.cfg MCDocumentStream     # a run
    tlapm DocumentStream_proofs.tla                     # the proofs of a module

## 1. The system

### Components, their state, and what makes them right

| component | state | operations | what has to hold |
|---|---|---|---|
| **Document streams**, DOM and On-Demand (`bind_dom.cpp`, `bind_ondemand.cpp`) | one simdjson parser with one document, overwritten by every advance; `generation`, `item_revision`; a mutex; per iterator `started`, `finished` | `parse_many`, `load_many`, `iterate_many`, `iter`, `next`, every access through an item | an item is usable until the next one is handed out and never again; what it shows is its own document; loops see the input in order, for as long as reads leave an On-Demand stream its way, and end |
| **DOM parsers and documents** (`bind_dom.cpp`) | parser: mutex and scratch memory; document: mutex and tape | `parse`, `parse_into`, `load`, `load_into`, `allocate`, `set_max_capacity`, clones for streams, all reads | no data race; no deadlock; a document holds what the last call that parsed into it reported |
| **`loads`** (`bind_common.cpp`) | one `thread_local` parser per thread | `loads`, which may run Python code of its argument | a call returns the value of its own input |
| **On-Demand documents** (`bind_ondemand.cpp`) | one cursor: position, depth, sticky error; handles (values, arrays, objects, iterators) without a position of their own | `rewind`, `get_array`, `get_object`, `reset`, `at`, `find_field`, `find_field_unordered`, pointers and paths, `raw_json`, `keys`, subscripts, `in`, `len`, `for`, scalar getters | subscripts, `in` and lengths are right wherever the cursor is, forward lookups and `raw_json` while it is in order; loops give the members in order |
| **On-Demand parser settings** (`bind_ondemand.cpp`) | `max_capacity`, `allocated_capacity`, `max_depth`, `threaded`; a mutex | `allocate`, `set_max_capacity`, `threaded`, `iterate`, `iterate_many` | documents are made of settings that belong together |
| **Padded strings and builder** (`bind_common.cpp`) | storages, shared by strings, documents, streams and calls; a buffer with padding in each storage and builder | construction, sharing, `append`, `PaddedStringBuilder.append`, `build`, `convert`; making and dropping documents and streams | a buffer has one owner and is freed once, not under a reader; a text is what was written |
| **Borrowed bytes** (`bind_common.cpp`) | a Python buffer view, for the time of a call | conversion and release of an argument | the view outlives the parse |
| **Errors** (`bind_common.cpp`, `common.h`) | none | codes of simdjson to Python exceptions | - |
| **Number and raw string wrappers** (`bind_ondemand.cpp`) | one token | conversions | - |
| **Implementations, minify, UTF-8 validation** (`bind_common.cpp`) | simdjson's active implementation | calls of simdjson | - |
| **Python package** (`src/simdjsonpy/*.py`) | none | one-line functions over the bindings | - |

simdjson and nanobind are git submodules and not in the tree. What the models say of
them is taken from how the bindings call them; those definitions are marked `external`
in the map (48 of 200), as are the steps of the Python program and of an argument's Python code.

### How components interact

* `DOMParser.parse` makes a document and calls `parse_into`: two mutexes, parser first,
  then document; the argument is converted (Python code may run) with both held, and
  the parse runs with the GIL released.
* `parse_many` clones the DOM parser under its mutex; `iterate` and `iterate_many`
  copy the On-Demand parser's settings under its mutex and configure a new parser after
  it is free. A stream and an On-Demand document share nothing with the parser object
  they came from.
* On-Demand documents and both kinds of streams share the storage of a `PaddedString`
  they are given; any other argument is copied to a storage of their own.
* Arrays, objects, values, fields and iterators keep an *owner* (`dom_owner`,
  `ondemand_owner`): a reference that keeps the document or stream alive and, for
  streams, the two counters. Every method goes through `with_dom_owner` or
  `with_ondemand_owner`, which lock the owner's mutex and compare the counters.
* `loads` uses no object of the above but a parser private to the thread.

### What is hard

1. *Overwritten in place.* A stream has one document; an old item reads the new one
   unless a counter says no. The test and the read must be in one section, and methods
   made of several sections are exposed in between.
2. *Two mutexes, the GIL, and callbacks.* A parse holds a mutex while it waits for
   another, runs Python code with both held, which may lock more, and gives the GIL away
   in between. In a build with a GIL `nb::ft_mutex` is an empty class.
3. *Nested calls.* `__buffer__` and `__release_buffer__` of an argument are Python code
   in the middle of a C++ function.
4. *One cursor, many handles.* What a loop or a subscript finds depends on every call
   made before, on any object of the same document. The bindings hide it by resetting,
   and do so in some operations and not in others. An On-Demand stream goes on from the
   cursor of its item, wherever the reads of that item have left it.
5. *One buffer, many readers.* A storage outlives the `PaddedString` that made it; its
   buffer does not outlive an `append`.
6. *Failure halfway.* Errors are thrown after the document was overwritten, or after a
   trial `allocate`.

`PROJECT.json` lists these hazards, each at its line, with the properties that watch
it or the reason why none does.

## 2. Modules

    ItemLease            the promise of a stream about its items (abstract)
      ^ implemented by
    DocumentStream       streams, iterators, items, reads in several sections
    DomLocking           DOM parsers, documents, mutexes, the GIL
    Loads                simdjsonpy.loads and nested calls
    JsonCursor           simdjson's On-Demand cursor (external)
      ^ extended by
    OnDemandCursor       the Python objects that move it; arrays
      ^ extended by
    OnDemandObjects      fields, pointers, and the specification of documents
    PaddedInput          padded strings, their builder, and what reads them
    ParserConfig         the settings of an On-Demand parser
    MC<module>           the small instances TLC checks (OnDemandCursor is in MCOnDemandObjects)
    <module>_proofs      theorems, for every value of the constants
    JsonLookups_proofs   those about lookups, pointers and raw text; extends JsonCursor_proofs
                         and is extended by OnDemandObjects_proofs

The components that meet share an object only for the length of one section (a clone, a
copy of settings, a borrowed view), so each module stands alone; the steps in which they
meet (`Clone` in `DomLocking`, `Configure` in `ParserConfig`, `Borrow` in `Loads`,
`Convert` in `DomLocking`) are in the module of the component that is locked. What a
document reads its input from is shared for longer: `PaddedInput` has the readers
(documents, streams, calls in progress) with the strings.

### DocumentStream

One locked section of the code is one action.

| state | code |
|---|---|
| `api` | whose stream it is: `parse_many`'s or `iterate_many`'s |
| `docs` | the input, document by document: "ok", "malformed" (its brackets and quotes are right and it is not JSON), or "bad" (not even that) |
| `stream` | simdjson's `document_stream`: sticky `error`, position, `tape` (what the one document of the parser now holds), and `astray` (skipping on from the document's cursor does not lead to the next document) |
| `item_revision` | the field of that name; `generation` never changes |
| `iterators` | `started`, `finished` of the wrappers; `ended` and `got` are history |
| `items` | the counters in each item's owner, and the document it was issued for (history) |
| `readers`, `last` | calls in progress and what their sections saw (history) |

`NextItem` is the whole of `next()`: `Advance` chooses `begin()` or `operator++`, then
exactly one of `StopIteration`, `RaiseError`, `HandOut` follows from where simdjson
came to. `Call`, `Section`, `RaiseStale`, `Return` are a method of an item made of one
or more `with_*_owner` sections: `size_hint` has up to four. The DOM and On-Demand
streams are the same bindings with other names over different streams of simdjson.

* The DOM parses a document when it is reached (`ParseAt`): one that is not JSON stops the
  stream, and `next()` raises.
* On-Demand has only indexed it. A malformed document is handed out and fails when it is
  read; only what stage 1 refuses stops the stream.
* `operator++` of an On-Demand stream skips what is left of the item from the item's own
  cursor on. Any read may leave that cursor where skipping does not end at the next
  document (`CursorLeft`), and may bring it back; a malformed document may be so from the
  start. The next advance then goes astray (`GoAstray`): to an error, to the end, or to
  somewhere in the input, which is handed out as an item. The model has a *piece* for it,
  a number beyond those of the documents, and says nothing of what it is; pieces follow
  pieces until the stream ends or an iterator begins again.

`DocumentsInOrder` says what is left of the order then. In an On-Demand stream a document
still follows the one before it, or is the first one; what is not a document comes after
some item, and after it comes no document before an iterator begins.

`ItemLease` states what a stream promises without any counter: the latest lease may be
used and shows its document; earlier ones are refused; a closed stream may show a torn
document but never another one. `DocumentStream` implements it with
`leases <- the documents of the items`, `open <- no error yet`, `shown <- last`.

### DomLocking

A call is split wherever two threads can be told apart: before each lock, around the
conversion and the parse, before each unlock.

| state | code |
|---|---|
| `pc`, `call` | the point in `parse_into`/`load_into`, in a call on a parser, or in a read |
| `outer` | the call whose argument's Python code makes that call, and whether it does so in `__buffer__` or in `__release_buffer__` |
| `parser_mutex`, `document_mutex` | the `nb::ft_mutex` of each, empty when `FreeThreaded` is false |
| `gil` | its holder, in a build that has one |
| `scratch`, `tape` | which input the parser's memory and the document's tape were written from; `Torn` while they are written |
| `reported`, `result` | what the caller was told (history) |

`parse` and `load` are `parse_into` with a document nobody else has. `Read` stands for
every method of documents, elements and their iterators: all of them take the document's
mutex, read and leave. `Configure` is `allocate` and `set_max_capacity`; `Clone` is
`make_dom_parser_from_template` and the getters. A parse of the DOM writes the parser's
`scratch` and then the tape *from* it, so that a second thread inside the parser would
corrupt the document of the first.

`borrowed_bytes` runs Python code of the argument with both mutexes held, when it takes
the view (`Convert`) and when it gives it back (`Report`). `EnterPython` is the beginning
of that code: from then on the GIL may be anyone's. While it runs, `CallBack` begins a
call like any other, with all its steps and locks, and `Return` comes back to the code
that made it. It may call any number of times, return, or raise (`PythonReturns`).
`Callbacks` says which calls the arguments of which calls may make.

The code has no order of locking but "the parser, then the document". With callbacks that
is none: it is for programs to have one. `Rank` is a program's order, and
`CallsAreOrdered` says that it keeps to it: parsers before the documents they parse into,
and both before all that the argument uses. A program whose arguments call nothing always
does (parsers 0, documents 1).

### Loads

Each thread has a parser (what it holds) and a stack of calls in progress. A call is
`Borrow`, `Parse`, `Release`, `Convert`; a `PaddedString` skips the borrow and the
release. While a call is in `Borrow` or `Release`, and the argument is a buffer with
Python code there (`Hooks`), the same thread may push another `Call`. Exceptions leave
by `Leave`, after the view is released.

### JsonCursor, OnDemandCursor, OnDemandObjects

| state | code |
|---|---|
| `doc` | the input, as a sequence of tokens |
| `cursor` | simdjson's `json_iterator`: position, depth, sticky error |
| `values`, `containers` | the `OnDemandValue`s, and the `OnDemandArray`s and `OnDemandObject`s the program holds: where each starts, how deep |
| `loops` | the iterators, and what each has given (`yielded`) and what else moved the cursor meanwhile (`moved`: the program's other loops, "for", or its calls, "call"), which are history |
| `answered` | whether the last answer of a call was the right one (history) |

`JsonCursor` has the operations of the cursor (`Start`, `ResetTo`, `SkipChild`,
`Increment`, `FindField`, ...) as operators from cursor to cursor: they are simdjson's and
external. It also has what the tokens mean by their brackets alone (`Members`,
`Closing`, `ValueOf`, `PlaceOf`), without a cursor: that is what answers are compared
with. `WellFormed` is JSON's grammar over those tokens (brackets match, members are
between commas, a field is a key, a colon and a value, keys are distinct), which
`InputsAssumption` assumes of every input: it is what simdjson's first stage and the
restriction of section 5 leave.

The actions of the other two modules are the bindings: which cursor operations a Python
operation calls, in which order and with which early return. `array[i]` is a reset and
an `at`; `document[i]` a rewind, a `get_array`, a reset and an `at`; `next()` moves past
the member before it returns it. An action is named for the Python class and method:
`ContainerIter` is `for m in array` and `for m in object`, which are the same code.

Subscripts, `in`, `len`, `keys()` and pointers of documents reset or rewind and are always
judged. `find_field`, `find_field_unordered`, pointers of values and containers, and
`raw_json` start from the cursor, so they are judged when the cursor is at the value or
in the container, as deep as reading leaves it (`Within`, `InOrder`); elsewhere they are
modelled, and what they answer is left open.

### PaddedInput

| state | code |
|---|---|
| `strings` | the `shared_ptr` of each `PaddedString` to its `padded_string_storage` |
| `buffer`, `heap`, `allocated` | the buffer each storage and each builder owns, what it holds, and which buffers are not free; addresses are used again |
| `readers` | the `input` of documents and streams, the buffer their cursor points into, the text they were made for (history) |
| `written` | what the program has given each string and builder (history) |

A storage is released with the last string or reader that shares it. `AppendString` puts
the longer text into another buffer and frees the old one; a builder's `BuilderAppend` may
also write in place. `Build` copies, `Convert` moves. An append is one step.

### ParserConfig

The fields are read and written one by one under the mutex, so that exclusion has
something to do. `found` is what the holder of the mutex found in them (history): an
`allocate` that returns is compared with it, and one that raises.
`Allocate` is the trial and the first assignment, `AllocateDepth` the
second; `ReadCapacities` and `ReadRest` are the copy; `Configure` is
`configure_ondemand_parser` on the new parser, after the mutex is free.
In a build with a GIL `mutex` stands for the GIL, which no section here releases.

## 3. Runs

### What holds

| run | checks | bounds |
|---|---|---|
| `DocumentStream` | `OnlyLatestItemIsFresh`, `ReadsOwnDocument`, `DocumentsInOrder`, `StaleItemsStayStale`, `ImplementsItemLease`, `LoopsTerminate` | both kinds of stream; 2 iterators, 1 reader of 2 sections, every input of up to 3 documents of which at most one is not JSON, 1 piece, 8 items |
| `DomLocking` | `NoDataRace`, `DocumentsHoldWhatWasReported`, `LockOrder`, `CallsReturn` | free-threaded; 2 threads, 2 parsers, 2 documents, 2 inputs of which one does not parse; the order p1, d1, p2, d2, and all calls but `p2.parse_into(d1)`; arguments of `p1.parse_into(d1)` use p2 and d2 |
| `Loads` | `LoadsReturnsItsInput`, `ParserHoldsInnermostInput` | 2 threads, 2 calls deep, 3 inputs of which one does not parse |
| `OnDemandCursor` | `AnswersAreRight`, `LoopsAloneSeeTheirMembers` | `{"x":{"y":a},"y":b}`, `[[a,b],c]`, `{"x":[a]}`, `[[],{}]`, `[]`, `{}`; 3 values, containers and loops in all, 2 members a loop |
| `PaddedInput` | `BuffersHaveOneOwner`, `TextsAreWhatWasWritten`, `ReadersReadTheirInput` | 2 strings, 1 builder, 2 readers, 3 storages, 4 buffers, 2 pieces of text, 2 of them in a text |
| `ParserConfig` | `CopiesAreWhole`, `AllocateIsAllOrNothing` | 2 threads, capacities 0 to 2, 2 depths |

Every module's `TypeOK` is checked too, in the run of its name.

*Why the bounds are enough.* Two iterators are enough for one to restart the stream
under the other, and eight items are all that two loops over three documents and a piece
can be given (four, and four more after a restart), so that `MaxRevision` stops nobody.
Readers meet only in the cursor of an On-Demand item, which one reader leaves anywhere
already; two sections let an advance fall between them. An input has at most
one document that is not JSON: the DOM stops at it, and after it an On-Demand stream may go
astray, as it may after any other. One piece stands for those of a document that is left in the
middle: each has at least one token of the input, so there is an end to them. In
`DomLocking` the two parsers let two parses meet at
one document, and the two documents let two threads parse with one parser, where each
would find the other's input; two threads are enough for one to overtake the other for
ever, which is what strong fairness excludes. One call is the smallest whose argument can
use a parser and a document that others use too, and `p2.parse_into(d1)` is the one call
that does not keep to the order. A callback's own argument calls nobody
(`EnterPython`): calls nested deeper would hold more mutexes that come earlier. A cycle of
more threads would have to break `LockOrder`, which the theorem has for any number of
threads, parsers, documents and orders. Two calls deep is enough for a nested call to replace
a document; a third would do the same to the second. The documents of
`OnDemandCursor` have a container in first and in last position, empty containers, an
object in an object with a key of the same name, an array in an object, a container that
ends where its parent does and a scalar last, so that every case of `SkipChild`,
`Started` and `FindFieldUnordered` is met; three handles allow two nested loops and a value
in hand, or a loop with a container and a value, and no container has more than two
members. Three storages and four buffers allow both readers and a string to have their
own and an append to find a free buffer, and buffers run out so that addresses are used
again; strings, readers, storages, buffers and pieces are interchangeable, which is the
symmetry. Two threads and two pairs of settings are what it takes to mix a copy, capacity
0 is the special one, and 1 and 2 make a capacity above and below the maximum.

`MaxRevision`, `MaxPieces`, `MaxNesting`, `MaxHandles`, `MaxYields`, `MaxLength` and, in
`DomLocking`, the one level of callbacks (`EnterPython`) are the only bounds that guard
actions.

*Deadlock* is checked except with the On-Demand documents: simdjson abandons a document
whose iterator met an error, and nothing is done with it any more.

### Where documentation and code disagree

Each of these runs ends in a counterexample.

| run | the documentation | the code |
|---|---|---|
| `DocumentStreamAdvance` | "once you advance, earlier items are invalid" (docs/streaming.md:55) | an advance that raises for a malformed document has overwritten the document and not incremented `item_revision`: the earlier item passes the test and shows a torn document |
| `OnDemandStreamMalformed` | "Malformed document inside the batch", "raised on `next()` for that item" (docs/streaming.md:123) | an On-Demand stream hands the document out, and reading it raises |
| `DomLockingGil` | "only one thread is inside the parser at a time" (docs/threading.md:46), in GIL builds "because the GIL provides the same guarantee" (:92) | the parse releases the GIL, and the mutex is empty: a second thread enters the parser |
| `OnDemandLoopsRewind` | "Plain `for v in arr` iterates from the current cursor position — it is forward-only and will not rewind by itself" (docs/ondemand.md:136) | making the iterator resets the array: a second `for` over it rewinds the cursor of the first, which is given an element again |
| `OnDemandUnordered` | "`find_field_unordered` resets the cursor to the start of the object and searches everywhere" (docs/ondemand.md:60) | it goes on from the cursor; after a loop over keys or fields that was left early it raises for a field that is there, and the document is abandoned |
| `PaddedInputAppend` | "The document holds the input buffer alive" (docs/ondemand.md:197) | it holds the storage; `append` frees the storage's buffer and gives it another |

In `OnDemandLoopsRewind` and `OnDemandUnordered` the documents are flat, `[a,b]` and
`{"x":a,"y":b}`. That a `for` loop resets is also what `LoopsAloneSeeTheirMembers` rests
on: a loop nothing disturbs is given all the members wherever the cursor was before.

Two more configurations drop an assumption of the proofs and end in a counterexample:

* `DomLockingReentry.cfg` (module `MCDomLocking`): the argument's `__buffer__` uses the
  parser it is given to, whose mutex is held and not recursive; in a free-threaded build
  the thread waits for itself, and `CallsReturn` fails. `CallsAreOrdered` does not hold
  there. docs/threading.md:4 says that "misuse degrades to serialization". The run stops
  there, so deadlock is not checked.
* `LoadsRelease.cfg` (module `MCLoads`): `__release_buffer__` runs between the parse and
  the conversion, and a `loads` in it replaces the document; docs/loads.md:13 says that
  `loads` returns what `json.loads` would "on the same input".

Met on the way, and in the models without a run of their own:

* A subscript, `len()` or lookup in the body of a loop moves the cursor of the loop, as
  docs/ondemand.md:200 warns: the loop may end early, repeat members or raise.
* `max_depth` is applied to a new parser only together with a capacity other than 0
  (bind_ondemand.cpp:25), so that after `allocate(0, depth)` the parser reports a depth its
  documents do not have.
* `set_max_capacity` below the allocated capacity is accepted and makes every later
  `iterate` raise (bind_ondemand.cpp:1221).

### Fairness

* `DocumentStream`: weak fairness of `next()` for an iterator that has been started and
  has not raised. That is a `for` loop; an iterator nobody calls next is not required to
  be. It ends because `begin()` is called once per iterator, so that a finite number of
  restarts can set it back.
* `DomLocking`: weak fairness of the steps that wait for nobody (`Proceed`), strong
  fairness of those that take a mutex or the GIL (`Acquire`) and of the end of an
  argument's Python code (`PythonReturns`), which calls back a finite number of times. nanobind's mutex is
  `PyMutex`, which is handed to a waiter after a millisecond, and a thread that wants the
  GIL has the holder drop it. With weak fairness of `Acquire` a thread could be overtaken
  for ever. No fairness is assumed of `Call` and `CallBack`: a thread need
  not call anything.

## 4. Proofs

TLAPS checks these for every value of the constants that meets the modules' assumptions.

| theorem | states | also assumes |
|---|---|---|
| `StreamTypeOK`, `StreamOnlyLatestItemIsFresh`, `StreamReadsOwnDocument`, `StreamStaleItemsStayStale` | the properties of those names | - |
| `StreamDocumentsInOrder` | `DocumentsInOrder` | - |
| `StreamImplementsItemLease` | `Spec => Lease!Spec` | - |
| `DomTypeOK` | `TypeOK`, in both builds | - |
| `DomNoDataRace`, `DomDocumentsHoldWhatWasReported` | the properties of those names, whatever arguments call back | `FreeThreaded` |
| `DomLockOrder` | `LockOrder` | `FreeThreaded`, `CallsAreOrdered` |
| `LoadsTypeOK`, `LoadsReturnsOwnValue`, `LoadsParserHoldsInnermostInput` | `TypeOK`, `LoadsReturnsItsInput`, `ParserHoldsInnermostInput` | `"release" \notin Hooks` |
| `ConfigTypeOK`, `ConfigCopiesAreWhole`, `ConfigAllocateIsAllOrNothing` | the properties of those names | - |
| `TypeCorrect`, `OneOwnerEach`, `TextsKept`, `InputsKept` (`PaddedInput_proofs`) | `TypeOK`, `BuffersHaveOneOwner`, `TextsAreWhatWasWritten`, `ReadersReadTheirInput` | - |
| `OnDemandTypeOK`, `OnDemandAnswersAreRight`, `OnDemandLoopsAloneSeeTheirMembers` | the properties of those names | - |
| `RoundsFurther`, `CountsMembers`, `FindsInOrder` (`JsonCursor_proofs`), `PointerFinds`, `SkipsContainer` (`JsonLookups_proofs`) | what one call of the cursor does, from where it may be | - |

The hypotheses of the last row are on the cursor of the call and not on the constants;
`OnDemandInvariant` is what provides them at every call.

The extra assumptions are those the counterexamples of `DomLockingGil`,
`DomLockingReentry.cfg` and `LoadsRelease.cfg` show to be needed: the same properties, or
what they rest on, without them.

*The arguments.*

* **Streams.** That only the latest item is fresh is not inductive. The invariant adds
  that the revision of item *k* is *k* and the counter is the number of items
  (`RevisionsCountItems`), so a test of the counters is a test of the position in the
  sequence; that the tape holds the document of the latest item as long as the stream
  has no error (`LatestItemIsParsed`); that an iterator is finished only after an error
  (`FinishedOnlyAfterError`), which is why a successful parse is always handed out and
  the counter always moves with the tape; and that calls hold items that exist
  (`CallsHoldItems`). `ReadsOwnDocument` then follows section by section, and the
  refinement action by action: `HandOut` is `Grant`, a failure is `Close`, `Section` is
  `Use`, `RaiseStale` is `Refuse`, all else stutters.
* **Order of a stream.** `DocumentsInOrder` speaks of items, and `HandOut` adds the document
  simdjson came to: the proof needs that the stream, while it has no error, is at the
  document of the latest item (`StreamIsAtLatestItem`), so that an advance adds the next
  one or begins again; that an iterator which has started has given something or met an
  error (`StartedIteratorsGive`), so that the first document follows nothing only at a
  first call; and that without restarts items count documents while the stream keeps its
  place (`LoneLoopsCount`). An advance from an astray stream is at a piece or has stopped
  (`AstrayResult`), and the DOM is never astray (`DomIsNeverAstray`).
* **DOM.** `Ownership`: a thread owns a mutex exactly if it is between the lock and the
  unlock in its call, or in the call whose argument makes that call. For an unlock to give
  back the mutex of the right call, the two must not hold the same one
  (`NestedLocksDiffer`), which is so because the mutexes are not recursive. Two threads
  inside one parser or document would both be its owner, so parses share neither
  (`ParsesApart`). `ParseProgress` says what a parse has written at each point, scratch
  first, and is stable for that reason; `DocumentsHoldWhatWasReported` follows at `Report`.
  `DomLockOrder` compares ranks: what a waiting thread holds is its own call's parser, or
  the parser and the document of the call it is made in (`NestedCallsMayBe`), and
  `CallsAreOrdered` puts both before the mutex it waits for.
* **loads.** `OuterCallsBorrow`: all but the innermost call of a thread are still
  borrowing, so none of them has a document to lose. It is broken exactly if Python code
  can run at a release.
* **Settings.** `Exclusion`, and what holds of the fields halfway through an `allocate`
  (`AllocateHalfway`, and `AllocateWrites` of what it found) and a copy (`CopyHalfway`);
  with no call in the middle of a
  section the pair in the fields was accepted together (`ConfigIsWhole`).
  A clone takes its settings from a whole copy, or keeps those of a new parser
  (`CloneWhole`).
* **Padded strings.** `BuffersHaveOneOwner` and `TextsAreWhatWasWritten` are inductive
  together: an action writes only the buffer of the owner it is about, and because no
  buffer has two owners it changes no other text. A storage taken for a new string is
  fresh because one that owns a buffer is held (`OwnersAreHeld`). A reader holds its
  storage, so its buffer is freed by an append to that storage alone
  (`ReadersReadTheirInput`).
* **On-Demand documents.** The invariant has to hold whatever the program calls, in any
  order, so it says little of the cursor: it is at a *place* (`Place`: in the input or just
  after it, and not between the brackets of an empty container, where a call would
  consume a bracket that is not its own); handles start at places and are at least one
  deep, so that no depth leaves the naturals (`GoodCursors`, `GoodHandles`). Of a loop that
  nothing else has moved it says where the cursor is exactly: before the member that
  comes next (`MemberCursor(container, Len(yielded))`), the earlier ones yielded.
  `AnswersAreRight` then is proved call by call: a call that rewinds or resets first has
  the cursor at a first member whatever it was before, and one that does not is judged
  only in order.
  What the calls then do is the work of `JsonCursor_proofs` and `JsonLookups_proofs`.
  From the grammar: a member's value ends where the next comma or its container's bracket
  is, and the members in increasing order are the first and then what follows a comma
  (`MembersFollow`); the depth before a token is that of reading (`DepthOfValue`). From
  that, one round of a loop goes from one member to the next (`RoundToNext`, over
  `SkipsMember`), and *n* rounds *n* members further (`RoundsFurther`). A scan for a key
  stops at the first member with that key, so a lookup finds `ValueOf` (`ScanFinds`,
  `FindsInOrder`); an index finds `MemberAt`, a path `PlaceOf` (`AtFinds`, `KeyAtFinds`,
  `PointerFinds`); the token at which the depth first falls below the container's is its
  closing bracket (`FirstToClose`), so `raw_json` is the container's text
  (`SkipsContainer`).
  The recursive functions (`Rounds`, `Scan`, `AtPointer`) are not unfolded for every
  input: that a function with their equation exists is proved once (`IteratesExist`), and
  induction over the rounds is induction on a set of naturals (`SetInduction`), from the
  well-foundedness of `<`. A path of any length is proved the same way, by induction on
  its steps (`Reaches`, over `PointerStepsExist` and `PlacesExist`); the runs ask for
  those of one and two steps (`Pointers`).

*Only model-checked.* `LoopsTerminate` and `CallsReturn`, which are liveness under
fairness and out of the prover's reach. Every invariant and action property of a passing
run is a theorem.

## 5. Not modelled

* On-Demand documents that are a single scalar, input that is not well formed past stage
  1, objects in which a key is repeated, and `get_value` of a document whose cursor is not
  at the root. What forward lookups, pointers and `raw_json` of a container answer when
  the cursor is elsewhere is modelled and not judged.
* Calls that only read the cursor: type probes, `current_location`, `current_depth`,
  `at_end`, `is_alive`.
* simdjson's string buffer, which unescaped strings and keys fill until a rewind.
* Two threads on one On-Demand document or appending to one `PaddedString`, which the
  documentation rules out; allocations that fail.
* Elements of a DOM document kept across a `parse_into`, which the documentation says are
  no longer valid: which place of the tape an element reads.
* The contents of an input changing while they are parsed (a `bytearray` that another
  thread writes).
* Error tables, number and raw string wrappers, implementation selection, `minify`,
  UTF-8 validation and the Python functions: stateless, or one call of simdjson.
* What a DOM read returns, beyond which document it is read from.
* What an On-Demand stream hands out once it is astray, and whether it is: the model has
  every case after a read, although most reads leave the cursor where skipping works.
* Which promises a build with a GIL keeps. `DomLocking` has that build, with the GIL free
  while a parse or an argument's Python code runs; `DomTypeOK` covers it and `DomLockingGil`
  shows what it does not give.

## 6. Plan

1. Sections of DOM documents: `DOMObject.get`, `keys` and iterators as several sections
   against a `parse_into`, with an abstract document whose reads are atomic.
2. More of what the proofs about the cursor already give: that it is never deeper than
   the document, and that an operation called in order leaves it in order.
