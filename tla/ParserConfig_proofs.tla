------------------------ MODULE ParserConfig_proofs ------------------------
(***************************************************************************)
(* Proofs about ParserConfig for any number of threads, capacities and     *)
(* depths.                                                                 *)
(*                                                                         *)
(* The invariant says what a thread inside its section can rely on: it is  *)
(* the holder of the mutex, so the settings are whole but for the half it  *)
(* has itself written, and a half it has read still is in the parser.      *)
(***************************************************************************)
EXTENDS ParserConfig, TLAPS

Inside(t) == pc[t] \in {"locked", "halfway", "unlock", "raise"}

\* Only the holder of the mutex is in a section.
Exclusion == \A t \in Threads : Inside(t) => mutex = t

\* An allocate that is halfway has been accepted and has written its capacity.
HalfAllocated(t) ==
  /\ pc[t] = "halfway" /\ call[t].op = "allocate"
  /\ config.allocated_capacity = call[t].capacity
  /\ <<call[t].capacity, call[t].depth>> \in accepted

\* The settings are whole, or one thread is about to make them so.
ConfigIsWhole == Pair(config) \in accepted \/ \E t \in Threads : HalfAllocated(t)

AllocateHalfway ==
  \A t \in Threads : pc[t] = "halfway" /\ call[t].op = "allocate" => HalfAllocated(t)

\* What a copy has of the settings.
CopyHalfway ==
  \A t \in Threads : pc[t] = "halfway" /\ call[t].op = "iterate" =>
    copy[t].allocated_capacity = config.allocated_capacity

CopyWhole ==
  \A t \in Threads :
    pc[t] \in {"configure", "parse"} \/ (pc[t] = "unlock" /\ call[t].op = "iterate") =>
      Pair(copy[t]) \in accepted

\* A clone has the settings of the copy or, without a capacity, those it began with.
CloneWhole ==
  /\ <<0, DefaultDepth>> \in accepted
  /\ \A t \in Threads : pc[t] = "parse" => Pair(clone[t]) \in accepted

\* What an allocate has done to the settings it found, at each point of its section.
AllocateWrites ==
  \A t \in Threads : call[t].op = "allocate" =>
    /\ pc[t] \in {"locked", "raise"} => config = found
    /\ pc[t] = "halfway" =>
         config = [found EXCEPT !.allocated_capacity = call[t].capacity]
    /\ pc[t] = "unlock" => config = [found EXCEPT !.allocated_capacity = call[t].capacity,
                                                 !.max_depth = call[t].depth]

IInv ==
  /\ TypeOK
  /\ Exclusion
  /\ ConfigIsWhole
  /\ AllocateHalfway
  /\ CopyHalfway
  /\ CopyWhole
  /\ CloneWhole
  /\ AllocateWrites

-----------------------------------------------------------------------------

LEMMA NewParserType ==
  ASSUME NEW size \in Sizes PROVE NewParser(size) \in Configs
  BY SizesAssumption, DepthsAssumption DEF NewParser, Configs

LEMMA LeaveType ==
  ASSUME TypeOK, NEW t \in Threads, Leave(t)
  PROVE  /\ pc' \in [Threads -> Points]
         /\ call' \in [Threads -> Calls \cup {Idle}]
         /\ copy' \in [Threads -> Configs] /\ clone' \in [Threads -> Configs]
         /\ \A u \in Threads : u # t => Ops(u)' = Ops(u) /\ call'[u] = call[u]
         /\ call'[t].op \in Ops(t)'
  BY NewParserType, SizesAssumption DEF TypeOK, Leave, Goto, Points, Idle, Ops

LEMMA InitIInv == Init => IInv
  <1>. SUFFICES ASSUME Init PROVE IInv
    OBVIOUS
  <1>1. TypeOK
    <2>1. config \in Configs
      BY NewParserType DEF Init
    <2>2. NewParser(0) \in Configs
      BY NewParserType, SizesAssumption
    <2>. QED
      BY <2>1, <2>2, SizesAssumption, DepthsAssumption DEF Init, TypeOK, Points, Idle, Ops
  <1>2. ConfigIsWhole
    BY DEF Init, ConfigIsWhole, Pair, NewParser
  <1>. QED
    BY <1>1, <1>2 DEF Init, IInv, Exclusion, Inside, AllocateHalfway, CopyHalfway,
                      CopyWhole, CloneWhole, AllocateWrites

\* Types are kept by every step.
LEMMA NextTypeOK == TypeOK /\ [Next]_vars => TypeOK'
  <1>. SUFFICES ASSUME TypeOK, [Next]_vars PROVE TypeOK'
    OBVIOUS
  <1>. USE DEF TypeOK, Goto, Points
  <1>1. ASSUME NEW t \in Threads, Call(t) PROVE TypeOK'
    <2>1. PICK c \in Calls : call' = [call EXCEPT ![t] = c]
      BY <1>1 DEF Call
    <2>2. c.op \in {"iterate", "allocate", "set_max_capacity", "set_threaded"}
      BY DEF Calls
    <2>. QED  BY <1>1, <2>1, <2>2 DEF Call, Ops
  <1>2. ASSUME NEW t \in Threads, Lock(t) PROVE TypeOK'
    BY <1>2 DEF Lock, Ops
  <1>3. ASSUME NEW t \in Threads, Unlock(t) PROVE TypeOK'
    <2>1. found' \in Configs
      BY <1>3, NewParserType, SizesAssumption DEF Unlock
    <2>2. CASE call[t].op = "iterate"
      BY <1>3, <2>1, <2>2 DEF Unlock, Ops
    <2>3. CASE Leave(t)
      BY <1>3, <2>1, <2>3, LeaveType DEF Unlock
    <2>. QED  BY <1>3, <2>2, <2>3 DEF Unlock
  <1>4. ASSUME NEW t \in Threads, Allocate(t) PROVE TypeOK'
    <2>1. call[t].capacity \in Sizes /\ call[t].depth \in Depths
      BY <1>4 DEF Allocate, Calls, Idle
    <2>2. CASE Accepts(config.max_capacity, call[t].capacity)
      <3>1. config' \in Configs
        BY <1>4, <2>1, <2>2 DEF Allocate, Configs
      <3>. QED  BY <1>4, <2>1, <2>2, <3>1 DEF Allocate, Ops
    <2>3. CASE ~ Accepts(config.max_capacity, call[t].capacity)
      BY <1>4, <2>3 DEF Allocate, Ops
    <2>. QED  BY <2>2, <2>3
  <1>5. ASSUME NEW t \in Threads, AllocateDepth(t) PROVE TypeOK'
    <2>1. call[t].depth \in Depths
      BY <1>5 DEF AllocateDepth, Calls, Idle
    <2>. QED  BY <1>5, <2>1 DEF AllocateDepth, Ops, Configs
  <1>6. ASSUME NEW t \in Threads, SetMaxCapacity(t) PROVE TypeOK'
    <2>1. call[t].capacity \in Sizes
      BY <1>6 DEF SetMaxCapacity, Calls, Idle
    <2>. QED  BY <1>6, <2>1 DEF SetMaxCapacity, Ops, Configs
  <1>7. ASSUME NEW t \in Threads, SetThreaded(t) PROVE TypeOK'
    <2>1. call[t].threaded \in BOOLEAN
      BY <1>7 DEF SetThreaded, Calls, Idle
    <2>. QED  BY <1>7, <2>1 DEF SetThreaded, Ops, Configs
  <1>8. ASSUME NEW t \in Threads, ReadCapacities(t) PROVE TypeOK'
    BY <1>8 DEF ReadCapacities, Ops, Configs
  <1>9. ASSUME NEW t \in Threads, ReadRest(t) PROVE TypeOK'
    BY <1>9 DEF ReadRest, Ops, Configs
  <1>10. ASSUME NEW t \in Threads, Configure(t) PROVE TypeOK'
    <2>1. CASE Leave(t)
      BY <1>10, <2>1, LeaveType DEF Configure
    <2>2. CASE Goto(t, "parse")
      <3>1. [NewParser(copy[t].max_capacity) EXCEPT !.threaded = copy[t].threaded] \in Configs
        BY NewParserType DEF Configs
      <3>2. /\ clone' \in [Threads -> Configs]
            /\ UNCHANGED <<config, mutex, accepted, call, copy>>
        BY <1>10, <2>2, <3>1 DEF Configure, Leave
      <3>. QED  BY <1>10, <2>2, <3>2 DEF Configure, Ops
    <2>. QED  BY <1>10, <2>1, <2>2 DEF Configure
  <1>11. ASSUME NEW t \in Threads, Parse(t) PROVE TypeOK'
    BY <1>11, LeaveType DEF Parse
  <1>12. CASE UNCHANGED vars
    BY <1>12 DEF vars, Ops
  <1>. QED
    BY <1>1, <1>2, <1>3, <1>4, <1>5, <1>6, <1>7, <1>8, <1>9, <1>10, <1>11, <1>12
       DEF Next

\* Configure is the one step that makes a clone, from a whole copy.
LEMMA NextCloneWhole == IInv /\ [Next]_vars => CloneWhole'
  <1>. SUFFICES ASSUME IInv, [Next]_vars PROVE CloneWhole'
    OBVIOUS
  <1>. USE DEF IInv, TypeOK, Goto
  <1>1. ASSUME NEW t \in Threads,
               \/ Call(t) \/ Lock(t) \/ Unlock(t)
               \/ Allocate(t) \/ AllocateDepth(t) \/ SetMaxCapacity(t)
               \/ SetThreaded(t) \/ ReadCapacities(t) \/ ReadRest(t) \/ Parse(t)
        PROVE  CloneWhole'
    <2>1. \A u \in Threads :
           pc'[u] = "parse" => pc[u] = "parse" /\ clone'[u] = clone[u]
      BY <1>1 DEF Call, Lock, Unlock, Leave, Allocate, AllocateDepth, SetMaxCapacity,
                  SetThreaded, ReadCapacities, ReadRest, Parse
    <2>2. accepted \subseteq accepted'
      BY <1>1 DEF Call, Lock, Unlock, Allocate, AllocateDepth, SetMaxCapacity,
                  SetThreaded, ReadCapacities, ReadRest, Parse
    <2>. QED  BY <2>1, <2>2 DEF CloneWhole
  <1>2. ASSUME NEW t \in Threads, Configure(t) PROVE CloneWhole'
    <2>1. CASE Leave(t) /\ UNCHANGED accepted
      BY <2>1 DEF Leave, CloneWhole
    <2>2. CASE Goto(t, "parse") /\ UNCHANGED accepted
      <3>1. Pair(copy[t]) \in accepted
        BY <1>2 DEF Configure, CopyWhole
      <3>2. /\ clone'[t].allocated_capacity = copy[t].allocated_capacity
            /\ clone'[t].max_depth = IF copy[t].allocated_capacity = 0
                                     THEN DefaultDepth ELSE copy[t].max_depth
        BY <1>2, <2>2 DEF Configure, Leave, NewParser, Configs, Points
      <3>3. Pair(clone'[t]) \in accepted'
        BY <2>2, <3>1, <3>2 DEF Pair, CloneWhole
      <3>4. \A u \in Threads : u # t => pc'[u] = pc[u] /\ clone'[u] = clone[u]
        BY <1>2, <2>2 DEF Configure, Leave
      <3>. QED  BY <2>2, <3>3, <3>4 DEF CloneWhole
    <2>. QED  BY <1>2, <2>1, <2>2 DEF Configure
  <1>3. CASE UNCHANGED vars
    BY <1>3 DEF vars, CloneWhole
  <1>. QED
    BY <1>1, <1>2, <1>3 DEF Next

\* Nobody but the holder of the mutex writes a setting, or what was found.
LEMMA NextAllocateWrites == IInv /\ [Next]_vars => AllocateWrites'
  <1>. SUFFICES ASSUME IInv, [Next]_vars PROVE AllocateWrites'
    OBVIOUS
  <1>. USE DEF IInv, TypeOK, Goto, Exclusion, Inside
  <1>1. ASSUME NEW t \in Threads,
               \/ Call(t) \/ Configure(t) \/ Parse(t)
        PROVE  AllocateWrites'
    <2>1. /\ ~ Inside(t)' /\ UNCHANGED <<config, found>>
          /\ \A u \in Threads : u # t => pc'[u] = pc[u] /\ call'[u] = call[u]
      BY <1>1 DEF Call, Configure, Parse, Leave
    <2>. QED  BY <2>1 DEF AllocateWrites
  <1>2. ASSUME NEW t \in Threads, Lock(t) PROVE AllocateWrites'
    <2>1. \A u \in Threads : u # t => ~ Inside(u)'
      BY <1>2, NoThreadAssumption DEF Lock
    <2>2. config' = found' /\ pc'[t] = "locked"
      BY <1>2 DEF Lock
    <2>. QED  BY <2>1, <2>2 DEF AllocateWrites
  <1>3. ASSUME NEW t \in Threads, Unlock(t) PROVE AllocateWrites'
    <2>1. \A u \in Threads : ~ Inside(u)'
      BY <1>3 DEF Unlock, Leave
    <2>. QED  BY <2>1 DEF AllocateWrites
  <1>4. ASSUME NEW t \in Threads,
               \/ Allocate(t) \/ AllocateDepth(t) \/ SetMaxCapacity(t)
               \/ SetThreaded(t) \/ ReadCapacities(t) \/ ReadRest(t)
        PROVE  AllocateWrites'
    <2>1. \A u \in Threads : u # t => ~ Inside(u)'
      BY <1>4 DEF Allocate, AllocateDepth, SetMaxCapacity, SetThreaded, ReadCapacities,
                  ReadRest
    <2>2. UNCHANGED <<call, found>>
      BY <1>4 DEF Allocate, AllocateDepth, SetMaxCapacity, SetThreaded, ReadCapacities,
                  ReadRest
    <2>3. CASE call[t].op # "allocate"
      BY <2>1, <2>2, <2>3 DEF AllocateWrites
    <2>4. CASE Allocate(t)
      <3>1. CASE Accepts(config.max_capacity, call[t].capacity)
        <4>1. /\ config' = [found EXCEPT !.allocated_capacity = call[t].capacity]
              /\ pc'[t] = "halfway"
          BY <2>4, <3>1 DEF Allocate, AllocateWrites
        <4>. QED  BY <2>1, <2>2, <4>1 DEF AllocateWrites
      <3>2. CASE ~ Accepts(config.max_capacity, call[t].capacity)
        <4>1. config' = found /\ pc'[t] = "raise"
          BY <2>4, <3>2 DEF Allocate, AllocateWrites
        <4>. QED  BY <2>1, <2>2, <4>1 DEF AllocateWrites
      <3>. QED  BY <3>1, <3>2
    <2>5. CASE AllocateDepth(t)
      <3>1. config' = [[found EXCEPT !.allocated_capacity = call[t].capacity]
                         EXCEPT !.max_depth = call[t].depth]
        BY <2>5 DEF AllocateDepth, AllocateWrites
      <3>2. pc'[t] = "unlock"
        BY <2>5 DEF AllocateDepth
      <3>. QED  BY <2>1, <2>2, <3>1, <3>2 DEF AllocateWrites, Configs
    <2>. QED
      BY <1>4, <2>3, <2>4, <2>5
         DEF SetMaxCapacity, SetThreaded, ReadCapacities, ReadRest
  <1>5. CASE UNCHANGED vars
    BY <1>5 DEF vars, AllocateWrites
  <1>. QED
    BY <1>1, <1>2, <1>3, <1>4, <1>5 DEF Next

LEMMA NextIInv == IInv /\ [Next]_vars => IInv'
  <1>. SUFFICES ASSUME IInv, [Next]_vars PROVE IInv'
    OBVIOUS
  <1>. USE DEF IInv
  <1>0. TypeOK' /\ CloneWhole' /\ AllocateWrites'
    BY NextTypeOK, NextCloneWhole, NextAllocateWrites
  <1>. USE DEF TypeOK, Goto, Exclusion, Inside, AllocateHalfway, HalfAllocated,
               CopyHalfway, CopyWhole, Pair
  <1>1. ASSUME NEW t \in Threads, Call(t) PROVE IInv'
    <2>1. ConfigIsWhole'
      BY <1>1 DEF Call, ConfigIsWhole
    <2>. QED  BY <1>0, <1>1, <2>1 DEF Call
  <1>2. ASSUME NEW t \in Threads, Lock(t) PROVE IInv'
    <2>1. ConfigIsWhole'
      BY <1>2 DEF Lock, ConfigIsWhole
    <2>. QED  BY <1>0, <1>2, <2>1, NoThreadAssumption DEF Lock
  <1>3. ASSUME NEW t \in Threads, Unlock(t) PROVE IInv'
    <2>1. ConfigIsWhole'
      BY <1>3 DEF Unlock, Leave, ConfigIsWhole
    <2>2. CASE call[t].op = "iterate"
      <3>1. pc[t] = "unlock"
        BY <1>3, <2>2 DEF Unlock, Ops
      <3>. QED  BY <1>0, <1>3, <2>1, <2>2, <3>1, NoThreadAssumption DEF Unlock
    <2>3. CASE call[t].op # "iterate"
      BY <1>0, <1>3, <2>1, <2>3, NoThreadAssumption DEF Unlock, Leave
    <2>. QED  BY <2>2, <2>3
  <1>4. ASSUME NEW t \in Threads, Allocate(t) PROVE IInv'
    <2>1. CASE Accepts(config.max_capacity, call[t].capacity)
      <3>1. config'.allocated_capacity = call[t].capacity
        BY <1>4, <2>1 DEF Allocate, Configs
      <3>2. HalfAllocated(t)'
        BY <1>4, <2>1, <3>1 DEF Allocate
      <3>3. \A u \in Threads : u # t => ~ Inside(u) /\ ~ Inside(u)'
        BY <1>4, <2>1 DEF Allocate
      <3>. QED
        <4>1. ConfigIsWhole'
          BY <3>2 DEF ConfigIsWhole
        <4>2. \A u \in Threads : u # t =>
                pc'[u] = pc[u] /\ call'[u] = call[u] /\ copy'[u] = copy[u]
          BY <1>4, <2>1 DEF Allocate
        <4>3. /\ pc'[t] = "halfway" /\ call'[t].op = "allocate" /\ mutex' = t
              /\ accepted \subseteq accepted'
          BY <1>4, <2>1 DEF Allocate
        <4>4. AllocateHalfway' /\ CopyHalfway' /\ CopyWhole' /\ Exclusion'
          BY <3>2, <3>3, <4>2, <4>3
        <4>. QED  BY <1>0, <4>1, <4>4
    <2>2. CASE ~ Accepts(config.max_capacity, call[t].capacity)
      BY <1>0, <1>4, <2>2 DEF Allocate, ConfigIsWhole
    <2>. QED  BY <2>1, <2>2
  <1>5. ASSUME NEW t \in Threads, AllocateDepth(t) PROVE IInv'
    <2>1. HalfAllocated(t)
      BY <1>5 DEF AllocateDepth
    <2>2. /\ config'.allocated_capacity = call[t].capacity
          /\ config'.max_depth = call[t].depth
      BY <1>5, <2>1 DEF AllocateDepth, Configs
    <2>3. ConfigIsWhole'
      BY <1>5, <2>1, <2>2 DEF AllocateDepth, ConfigIsWhole
    <2>. QED  BY <1>0, <1>5, <2>3 DEF AllocateDepth
  <1>6. ASSUME NEW t \in Threads, SetMaxCapacity(t) PROVE IInv'
    <2>1. Pair(config') = Pair(config)
      BY <1>6 DEF SetMaxCapacity, Configs
    <2>2. Pair(config) \in accepted /\ accepted' = accepted
      BY <1>6 DEF SetMaxCapacity, ConfigIsWhole
    <2>3. ConfigIsWhole'
      BY <2>1, <2>2 DEF ConfigIsWhole
    <2>4. config'.allocated_capacity = config.allocated_capacity
      BY <2>1
    <2>. QED  BY <1>0, <1>6, <2>3, <2>4 DEF SetMaxCapacity
  <1>7. ASSUME NEW t \in Threads, SetThreaded(t) PROVE IInv'
    <2>1. Pair(config') = Pair(config)
      BY <1>7 DEF SetThreaded, Configs
    <2>2. Pair(config) \in accepted /\ accepted' = accepted
      BY <1>7 DEF SetThreaded, ConfigIsWhole
    <2>3. ConfigIsWhole'
      BY <2>1, <2>2 DEF ConfigIsWhole
    <2>4. config'.allocated_capacity = config.allocated_capacity
      BY <2>1
    <2>. QED  BY <1>0, <1>7, <2>3, <2>4 DEF SetThreaded
  <1>8. ASSUME NEW t \in Threads, ReadCapacities(t) PROVE IInv'
    <2>1. copy'[t].allocated_capacity = config.allocated_capacity
      BY <1>8 DEF ReadCapacities, Configs
    <2>2. ConfigIsWhole'
      BY <1>8 DEF ReadCapacities, ConfigIsWhole
    <2>. QED  BY <1>0, <1>8, <2>1, <2>2 DEF ReadCapacities
  <1>9. ASSUME NEW t \in Threads, ReadRest(t) PROVE IInv'
    <2>1. Pair(config) \in accepted
      BY <1>9 DEF ReadRest, ConfigIsWhole
    <2>2. Pair(copy'[t]) = Pair(config)
      BY <1>9 DEF ReadRest, Configs
    <2>3. ConfigIsWhole'
      BY <1>9, <2>1 DEF ReadRest, ConfigIsWhole
    <2>4. CopyWhole'
      BY <1>9, <2>1, <2>2 DEF ReadRest
    <2>5. AllocateHalfway' /\ CopyHalfway' /\ Exclusion'
      BY <1>9 DEF ReadRest
    <2>. QED  BY <1>0, <2>3, <2>4, <2>5
  <1>10. ASSUME NEW t \in Threads, Configure(t) PROVE IInv'
    <2>1. ConfigIsWhole'
      BY <1>10 DEF Configure, Leave, ConfigIsWhole
    <2>2. CASE Leave(t)
      BY <1>0, <1>10, <2>1, <2>2 DEF Configure, Leave
    <2>3. CASE Goto(t, "parse") /\ UNCHANGED <<call, copy>>
      BY <1>0, <1>10, <2>1, <2>3 DEF Configure
    <2>. QED  BY <1>10, <2>2, <2>3 DEF Configure
  <1>11. ASSUME NEW t \in Threads, Parse(t) PROVE IInv'
    <2>1. ConfigIsWhole'
      BY <1>11 DEF Parse, Leave, ConfigIsWhole
    <2>. QED  BY <1>0, <1>11, <2>1 DEF Parse, Leave
  <1>12. CASE UNCHANGED vars
    BY <1>0, <1>12 DEF vars, ConfigIsWhole
  <1>. QED
    BY <1>1, <1>2, <1>3, <1>4, <1>5, <1>6, <1>7, <1>8, <1>9, <1>10, <1>11, <1>12
       DEF Next

-----------------------------------------------------------------------------
(* Theorems *)

LEMMA ConfigInvariant == Spec => []IInv
  BY InitIInv, NextIInv, PTL DEF Spec

\* The settings, the copies and the clones are well formed, and each thread is in
\* the part of the call it is making.
THEOREM ConfigTypeOK == Spec => []TypeOK
  BY ConfigInvariant, PTL DEF IInv

\* No parser is made of a capacity and a depth that were not asked for together.
THEOREM ConfigCopiesAreWhole == Spec => []CopiesAreWhole
  <1>1. CopyWhole /\ CloneWhole => CopiesAreWhole
    BY DEF CopiesAreWhole, CopyWhole, CloneWhole
  <1>2. IInv => CopiesAreWhole
    BY <1>1 DEF IInv
  <1>. QED  BY ConfigInvariant, <1>2, PTL

\* An allocate that is about to return has changed the two settings it was given in
\* what it found, and no other; one that is about to raise has changed nothing.
THEOREM ConfigAllocateIsAllOrNothing == Spec => []AllocateIsAllOrNothing
  <1>1. AllocateWrites => AllocateIsAllOrNothing
    BY DEF AllocateWrites, AllocateIsAllOrNothing
  <1>2. IInv => AllocateIsAllOrNothing
    BY <1>1 DEF IInv
  <1>. QED  BY ConfigInvariant, <1>2, PTL
=============================================================================
