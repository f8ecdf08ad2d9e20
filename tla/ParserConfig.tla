---------------------------- MODULE ParserConfig ----------------------------
(***************************************************************************)
(* The settings of an OnDemandParser shared by threads.                    *)
(*                                                                         *)
(* An OnDemandParser never parses.  It keeps four settings, and every      *)
(* iterate or iterate_many makes a simdjson parser of its own from them:   *)
(* it copies them under the wrapper's mutex and configures the new parser  *)
(* after the mutex is free again.  allocate is the one call that writes    *)
(* two settings, after it has tried them on a parser it throws away.       *)
(*                                                                         *)
(* The fields are read and written one after another, so that what the     *)
(* mutex is for can be seen.  In a build with a GIL the mutex is empty and *)
(* `mutex` stands for the GIL, which no section below releases.            *)
(***************************************************************************)
EXTENDS Naturals

CONSTANTS
  Threads,
  Sizes,         \* the capacities explored
  Depths,        \* the nesting limits explored
  DefaultDepth,  \* simdjson::DEFAULT_MAX_DEPTH
  NoThread       \* the owner of a free mutex

ASSUME SizesAssumption    == Sizes \subseteq Nat /\ 0 \in Sizes
ASSUME DepthsAssumption   == DefaultDepth \in Depths
ASSUME NoThreadAssumption == NoThread \notin Threads

VARIABLES
  config,    \* the fields of ondemand_parser_wrapper
  mutex,     \* its holder
  pc,        \* where each thread is in its call
  call,      \* the call of each thread
  copy,      \* what an iterate of each thread has read
  clone,     \* the simdjson parser it has made of that
  accepted,  \* the capacities and depths allocate has tried with success
  found      \* what config was when its holder locked the mutex

vars == <<config, mutex, pc, call, copy, clone, accepted, found>>

Configs == [max_capacity : Sizes, allocated_capacity : Sizes, max_depth : Depths,
            threaded : BOOLEAN]

Calls == [op : {"allocate"}, capacity : Sizes, depth : Depths]
         \cup [op : {"set_max_capacity"}, capacity : Sizes]
         \cup [op : {"set_threaded"}, threaded : BOOLEAN]
         \cup [op : {"iterate"}]

Idle == [op |-> "none"]

Points == {"idle", "lock", "locked", "halfway", "unlock", "raise", "configure", "parse"}

Ops(t) == IF pc[t] = "idle" THEN {"none"}
          ELSE IF pc[t] \in {"configure", "parse"} THEN {"iterate"}
          ELSE IF pc[t] = "halfway" THEN {"iterate", "allocate"}
          ELSE IF pc[t] = "raise" THEN {"allocate"}
          ELSE {"iterate", "allocate", "set_max_capacity", "set_threaded"}

TypeOK ==
  /\ config \in Configs
  /\ mutex \in Threads \cup {NoThread}
  /\ pc \in [Threads -> Points]
  /\ call \in [Threads -> Calls \cup {Idle}]
  /\ \A t \in Threads : call[t].op \in Ops(t)
  /\ copy \in [Threads -> Configs]
  /\ clone \in [Threads -> Configs]
  /\ accepted \subseteq Sizes \X Depths
  /\ found \in Configs

\* A parser as it is made: no capacity and the default depth.
NewParser(max_capacity) ==
  [max_capacity |-> max_capacity, allocated_capacity |-> 0,
   max_depth |-> DefaultDepth, threaded |-> TRUE]

Init ==
  /\ config \in {NewParser(size) : size \in Sizes}
  /\ mutex = NoThread
  /\ pc = [t \in Threads |-> "idle"]
  /\ call = [t \in Threads |-> Idle]
  /\ copy = [t \in Threads |-> NewParser(0)]
  /\ clone = [t \in Threads |-> NewParser(0)]
  /\ accepted = {<<0, DefaultDepth>>}
  /\ found = NewParser(0)

-----------------------------------------------------------------------------
(* Calls and the mutex *)

Goto(t, point) == pc' = [pc EXCEPT ![t] = point]

\* A call ends, and what it had made for itself is gone.
Leave(t) ==
  /\ Goto(t, "idle")
  /\ call' = [call EXCEPT ![t] = Idle]
  /\ copy' = [copy EXCEPT ![t] = NewParser(0)]
  /\ clone' = [clone EXCEPT ![t] = NewParser(0)]

Call(t) ==
  /\ pc[t] = "idle"
  /\ \E c \in Calls : call' = [call EXCEPT ![t] = c]
  /\ Goto(t, "lock")
  /\ UNCHANGED <<config, mutex, copy, clone, accepted, found>>

\* Fault: no nb::ft_lock_guard.
LockUnguarded(t) ==
  /\ pc[t] = "lock"
  /\ mutex' = t
  /\ found' = config
  /\ Goto(t, "locked")
  /\ UNCHANGED <<config, call, copy, clone, accepted>>

\* nb::ft_lock_guard guard(mutex)
Lock(t) ==
  /\ pc[t] = "lock"
  /\ mutex = NoThread
  /\ mutex' = t
  /\ found' = config
  /\ Goto(t, "locked")
  /\ UNCHANGED <<config, call, copy, clone, accepted>>

\* Fault: whatever the call, it goes on to make a parser.
UnlockConfigures(t) ==
  /\ pc[t] = "unlock"
  /\ mutex' = NoThread
  /\ found' = NewParser(0)
  /\ Goto(t, "configure")
  /\ UNCHANGED <<config, call, copy, clone, accepted>>

\* The guard is destroyed, on return and on an exception.  An iterate goes on.
Unlock(t) ==
  /\ pc[t] \in {"unlock", "raise"}
  /\ mutex' = NoThread
  /\ found' = NewParser(0)
  /\ IF call[t].op = "iterate"
     THEN Goto(t, "configure") /\ UNCHANGED <<call, copy, clone>>
     ELSE Leave(t)
  /\ UNCHANGED <<config, accepted>>

-----------------------------------------------------------------------------
(* Under the mutex *)

\* simdjson's allocate refuses a capacity beyond the parser's maximum.
Accepts(max_capacity, capacity) == capacity <= max_capacity

\* Fault: the field is written before the capacity is tried.
AllocateAssignsFirst(t) ==
  LET accepts == Accepts(config.max_capacity, call[t].capacity)
  IN
  /\ pc[t] = "locked" /\ call[t].op = "allocate"
  /\ config' = [config EXCEPT !.allocated_capacity = call[t].capacity]
  /\ accepted' = IF accepts THEN accepted \cup {<<call[t].capacity, call[t].depth>>}
                 ELSE accepted
  /\ Goto(t, IF accepts THEN "halfway" ELSE "raise")
  /\ UNCHANGED <<mutex, call, copy, clone, found>>

\* allocate: the trial, which may raise, then allocated_capacity_ = capacity.
Allocate(t) ==
  /\ pc[t] = "locked" /\ call[t].op = "allocate"
  /\ IF Accepts(config.max_capacity, call[t].capacity)
     THEN /\ config' = [config EXCEPT !.allocated_capacity = call[t].capacity]
          /\ accepted' = accepted \cup {<<call[t].capacity, call[t].depth>>}
          /\ Goto(t, "halfway")
     ELSE UNCHANGED <<config, accepted>> /\ Goto(t, "raise")
  /\ UNCHANGED <<mutex, call, copy, clone, found>>

\* allocate: max_depth_ = max_depth
AllocateDepth(t) ==
  /\ pc[t] = "halfway" /\ call[t].op = "allocate"
  /\ config' = [config EXCEPT !.max_depth = call[t].depth]
  /\ Goto(t, "unlock")
  /\ UNCHANGED <<mutex, call, copy, clone, accepted, found>>

SetMaxCapacity(t) ==
  /\ pc[t] = "locked" /\ call[t].op = "set_max_capacity"
  /\ config' = [config EXCEPT !.max_capacity = call[t].capacity]
  /\ Goto(t, "unlock")
  /\ UNCHANGED <<mutex, call, copy, clone, accepted, found>>

SetThreaded(t) ==
  /\ pc[t] = "locked" /\ call[t].op = "set_threaded"
  /\ config' = [config EXCEPT !.threaded = call[t].threaded]
  /\ Goto(t, "unlock")
  /\ UNCHANGED <<mutex, call, copy, clone, accepted, found>>

\* read_ondemand_parser_config: the two capacities, then the rest.
ReadCapacities(t) ==
  /\ pc[t] = "locked" /\ call[t].op = "iterate"
  /\ copy' = [copy EXCEPT ![t].max_capacity = config.max_capacity,
                          ![t].allocated_capacity = config.allocated_capacity]
  /\ Goto(t, "halfway")
  /\ UNCHANGED <<config, mutex, call, clone, accepted, found>>

ReadRest(t) ==
  /\ pc[t] = "halfway" /\ call[t].op = "iterate"
  /\ copy' = [copy EXCEPT ![t].max_depth = config.max_depth,
                          ![t].threaded = config.threaded]
  /\ Goto(t, "unlock")
  /\ UNCHANGED <<config, mutex, call, clone, accepted, found>>

-----------------------------------------------------------------------------
(* After the mutex: iterate and iterate_many *)

\* configure_ondemand_parser, on a new parser: without a capacity there is no
\* allocate, and a capacity that is now beyond the maximum raises.
Configure(t) ==
  LET read == copy[t]
      new  == [NewParser(read.max_capacity) EXCEPT !.threaded = read.threaded]
  IN
  /\ pc[t] = "configure"
  /\ IF Accepts(read.max_capacity, read.allocated_capacity)
     THEN /\ clone' = [clone EXCEPT ![t] =
                         IF read.allocated_capacity = 0 THEN new ELSE read]
          /\ Goto(t, "parse")
          /\ UNCHANGED <<call, copy>>
     ELSE Leave(t)
  /\ UNCHANGED <<config, mutex, accepted, found>>

\* parser.iterate, which returns a document or raises; either way the call is over.
Parse(t) ==
  /\ pc[t] = "parse"
  /\ Leave(t)
  /\ UNCHANGED <<config, mutex, accepted, found>>

-----------------------------------------------------------------------------

Next == \E t \in Threads :
  \/ Call(t) \/ Lock(t) \/ Unlock(t)
  \/ Allocate(t) \/ AllocateDepth(t) \/ SetMaxCapacity(t) \/ SetThreaded(t)
  \/ ReadCapacities(t) \/ ReadRest(t) \/ Configure(t) \/ Parse(t)

Spec == Init /\ [][Next]_vars

-----------------------------------------------------------------------------
(* Safety *)

Pair(c) == <<c.allocated_capacity, c.max_depth>>

\* What iterate has copied, and the parser it makes of that, have a capacity and a
\* depth that one call of allocate asked for together, and got (or those of a new
\* parser): never the settings of two calls of other threads, nor of one that raised.
CopiesAreWhole ==
  \A t \in Threads :
    /\ pc[t] \in {"configure", "parse"} => Pair(copy[t]) \in accepted
    /\ pc[t] = "parse" => Pair(clone[t]) \in accepted

\* A call of allocate that returns has changed the two settings it was given and no
\* other, and one that raises has changed none, although other threads call the parser
\* at the same time: neither finds what it tried half done, or undone by another.
AllocateIsAllOrNothing ==
  \A t \in Threads : call[t].op = "allocate" =>
    /\ pc[t] = "unlock" => config = [found EXCEPT !.allocated_capacity = call[t].capacity,
                                                 !.max_depth = call[t].depth]
    /\ pc[t] = "raise" => config = found
=============================================================================
