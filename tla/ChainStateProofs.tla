--------------------------- MODULE ChainStateProofs ---------------------------
(***************************************************************************)
(* Theorems about ChainState, for every set of threads and headers.        *)
(***************************************************************************)
EXTENDS ChainState, TLAPS

\* Every step any of the specifications can take.
AnyStep ==
  \/ Crash
  \/ \E saved \in BOOLEAN : BootFromTip(saved) \/ BootSaveGenesis(saved) \/ BootSetTip(saved)
  \/ \E t \in Threads :
       \/ AnyOrder(t) \/ Progress(t) \/ Reset(t) \/ ResetFault(t)
       \/ LoadParentFails(t) \/ SaveHeaderFails(t) \/ AdvanceTip(t, FALSE)

LEMMA EveryNextIsAnyStep ==
  /\ Next => AnyStep
  /\ InOrderNext => AnyStep
  /\ ResettableNext => AnyStep
  /\ FaultyNext => AnyStep
BY DEF AnyStep, Next, InOrderNext, FaultyNext, ResettableNext, Boot, WriteFault,
       ReadFault, ParentFirst, AnyOrder

-------------------------------------------------------------------------------
(* Types *)

LEMMA InitTypeOK == Init => TypeOK
BY ConstantsAssumption
   DEF Init, TypeOK, Heights, NothingKnown, NoTip, BlockIndex, Idle, Step, Operations,
       Absent, AddSteps, ResetSteps

\* Moving thread t to a step of add_block_index or reset keeps op well typed.
LEMMA BecomeTyped ==
  ASSUME TypeOK, NEW t \in Threads, NEW pc \in {"idle"} \cup AddSteps \cup ResetSteps,
         NEW h \in Hashes \cup {NoHash}, NEW n \in Heights,
         pc \in AddSteps => h \in Hashes,
         pc \in {"load", "cache"} => Parent[h] \in Hashes,
         pc \in {"save", "insert", "tip"} => n \in Nat,
         pc = "cache" => n \in Nat \ {0},
         Become(t, pc, h, n)
  PROVE  /\ op' \in [Threads -> Operations]
         /\ \A u \in Threads :
              /\ op'[u].pc \in AddSteps => op'[u].hash \in Hashes
              /\ op'[u].pc \in {"load", "cache"} => Parent[op'[u].hash] \in Hashes
              /\ op'[u].pc \in {"save", "insert", "tip"} => op'[u].height \in Nat
              /\ op'[u].pc = "cache" => op'[u].height \in Nat \ {0}
BY DEF TypeOK, Become, Step, Operations

LEMMA ReturnTyped ==
  ASSUME TypeOK, NEW t \in Threads, Return(t)
  PROVE  /\ op' \in [Threads -> Operations]
         /\ \A u \in Threads :
              /\ op'[u].pc \in AddSteps => op'[u].hash \in Hashes
              /\ op'[u].pc \in {"load", "cache"} => Parent[op'[u].hash] \in Hashes
              /\ op'[u].pc \in {"save", "insert", "tip"} => op'[u].height \in Nat
              /\ op'[u].pc = "cache" => op'[u].height \in Nat \ {0}
BY DEF TypeOK, Return, Idle, Step, Operations, Heights, Absent, AddSteps, ResetSteps

\* One step of any specification keeps the types.
LEMMA TypeStep == TypeOK /\ [AnyStep]_vars => TypeOK'
<1> SUFFICES ASSUME TypeOK, [AnyStep]_vars PROVE TypeOK'
  OBVIOUS
<1> USE ConstantsAssumption DEF Heights, Absent
<1>1. CASE Crash
  BY <1>1 DEF Crash, TypeOK, NothingKnown, NoTip, BlockIndex, Idle, Step, Operations,
              AddSteps, ResetSteps, database
<1>2. ASSUME NEW saved \in BOOLEAN, BootFromTip(saved) PROVE TypeOK'
  <2>1. dbTip \in Hashes /\ dbHeader[dbTip] \in Nat
    BY <1>2 DEF BootFromTip, TipIsLoadable, TypeOK
  <2> QED
    BY <1>2, <2>1 DEF BootFromTip, TypeOK, NothingKnown, BlockIndex, budget
<1>3. ASSUME NEW saved \in BOOLEAN, BootSaveGenesis(saved) PROVE TypeOK'
  BY <1>3 DEF BootSaveGenesis, TypeOK, memory, budget
<1>4. ASSUME NEW saved \in BOOLEAN, BootSetTip(saved) PROVE TypeOK'
  BY <1>4 DEF BootSetTip, TypeOK, NothingKnown, GenesisIndex, BlockIndex, budget
<1>5. ASSUME NEW t \in Threads, AnyOrder(t) PROVE TypeOK'
  <2>1. PICK h \in Hashes : CheckKnown(t, h)
    BY <1>5 DEF AnyOrder
  <2>2. Become(t, "parent", h, Absent)
    BY <2>1 DEF CheckKnown
  <2> QED
    BY <2>1, <2>2, BecomeTyped DEF CheckKnown, TypeOK, memory, database, budget, AddSteps
<1>6. ASSUME NEW t \in Threads, Progress(t) PROVE TypeOK'
  <2> DEFINE h == op[t].hash
             n == op[t].height
  <2>0. op[t] \in Operations
    BY DEF TypeOK
  <2> USE <2>0 DEF memory, database, budget, Operations, AddSteps
  <2>1. CASE ParentInIndex(t)
    <3>1. h \in Hashes /\ Parent[h] \in Hashes /\ index[Parent[h]] + 1 \in Nat
      BY <2>1 DEF ParentInIndex, At, TypeOK
    <3>2. Become(t, "save", h, index[Parent[h]] + 1)
      BY <2>1 DEF ParentInIndex
    <3> QED
      BY <2>1, <3>1, <3>2, BecomeTyped DEF ParentInIndex, TypeOK
  <2>2. CASE ParentNotInIndex(t)
    <3>1. h \in Hashes /\ Parent[h] \in Hashes
      BY <2>2 DEF ParentNotInIndex, At, TypeOK
    <3>2. Become(t, "load", h, Absent)
      BY <2>2 DEF ParentNotInIndex
    <3> QED
      BY <2>2, <3>1, <3>2, BecomeTyped DEF ParentNotInIndex, TypeOK
  <2>3. CASE NoParent(t)
    <3>1. h \in Hashes
      BY <2>3 DEF NoParent, At, TypeOK
    <3>2. Become(t, "estimate", h, Absent)
      BY <2>3 DEF NoParent
    <3> QED
      BY <2>3, <3>1, <3>2, BecomeTyped DEF NoParent, TypeOK
  <2>4. CASE LoadParent(t)
    <3>1. h \in Hashes /\ Parent[h] \in Hashes /\ dbHeader[Parent[h]] + 1 \in Nat \ {0}
      BY <2>4 DEF LoadParent, At, TypeOK
    <3>2. Become(t, "cache", h, dbHeader[Parent[h]] + 1)
      BY <2>4 DEF LoadParent
    <3> QED
      BY <2>4, <3>1, <3>2, BecomeTyped DEF LoadParent, TypeOK
  <2>5. CASE ParentUnknown(t)
    <3>1. h \in Hashes
      BY <2>5 DEF ParentUnknown, At, TypeOK
    <3>2. Become(t, "estimate", h, Absent)
      BY <2>5 DEF ParentUnknown
    <3> QED
      BY <2>5, <3>1, <3>2, BecomeTyped DEF ParentUnknown, TypeOK
  <2>6. CASE CacheParent(t)
    <3>1. h \in Hashes /\ Parent[h] \in Hashes /\ n \in Nat \ {0} /\ n - 1 \in Nat
      BY <2>6 DEF CacheParent, At, TypeOK
    <3>2. Become(t, "save", h, n)
      BY <2>6 DEF CacheParent
    <3> QED
      BY <2>6, <3>1, <3>2, BecomeTyped DEF CacheParent, TypeOK
  <2>7. CASE EstimateHeight(t)
    <3> DEFINE e == IF h = Genesis THEN 0 ELSE tip.height + 1
    <3>1. h \in Hashes /\ e \in Nat
      BY <2>7 DEF EstimateHeight, At, TypeOK
    <3>2. Become(t, "save", h, e)
      BY <2>7 DEF EstimateHeight
    <3> HIDE DEF e
    <3> QED
      BY <2>7, <3>1, <3>2, BecomeTyped DEF EstimateHeight, TypeOK
  <2>8. CASE SaveHeader(t)
    <3>1. h \in Hashes /\ n \in Nat
      BY <2>8 DEF SaveHeader, At, TypeOK
    <3>2. Become(t, "insert", h, n)
      BY <2>8 DEF SaveHeader
    <3> QED
      BY <2>8, <3>1, <3>2, BecomeTyped DEF SaveHeader, TypeOK
  <2>9. CASE InsertIndex(t)
    <3>1. h \in Hashes /\ n \in Nat
      BY <2>9 DEF InsertIndex, At, TypeOK
    <3>2. Become(t, "tip", h, n)
      BY <2>9 DEF InsertIndex
    <3> QED
      BY <2>9, <3>1, <3>2, BecomeTyped DEF InsertIndex, TypeOK
  <2>10. CASE AdvanceTip(t, TRUE)
    BY <2>10, ReturnTyped DEF AdvanceTip, At, TypeOK, BlockIndex
  <2>11. CASE KeepTip(t)
    BY <2>11, ReturnTyped DEF KeepTip, TypeOK
  <2> QED
    BY <1>6, <2>1, <2>2, <2>3, <2>4, <2>5, <2>6, <2>7, <2>8, <2>9, <2>10, <2>11
       DEF Progress
<1>7. ASSUME NEW t \in Threads, Reset(t) \/ ResetFault(t) PROVE TypeOK'
  <2> USE DEF memory, database, budget, ResetSteps
  <2>1. CASE ResetDatabase(t)
    <3>1. Become(t, "reset_index", NoHash, Absent)
      BY <2>1 DEF ResetDatabase
    <3> QED
      BY <2>1, <3>1, BecomeTyped DEF ResetDatabase, TypeOK, NothingKnown, AddSteps
  <2>2. CASE ResetIndex(t)
    <3>1. Become(t, "reset_genesis", NoHash, Absent)
      BY <2>2 DEF ResetIndex
    <3> QED
      BY <2>2, <3>1, BecomeTyped DEF ResetIndex, TypeOK, NothingKnown, AddSteps
  <2>3. ASSUME NEW saved \in BOOLEAN, ResetSaveGenesis(t, saved) PROVE TypeOK'
    <3>1. Become(t, "reset_dbtip", NoHash, Absent)
      BY <2>3 DEF ResetSaveGenesis
    <3> QED
      BY <2>3, <3>1, BecomeTyped DEF ResetSaveGenesis, TypeOK, AddSteps
  <2>4. ASSUME NEW saved \in BOOLEAN, ResetSetTipHash(t, saved) PROVE TypeOK'
    <3>1. Become(t, "reset_tip", NoHash, Absent)
      BY <2>4 DEF ResetSetTipHash
    <3> QED
      BY <2>4, <3>1, BecomeTyped DEF ResetSetTipHash, TypeOK, AddSteps
  <2>5. CASE ResetTip(t)
    BY <2>5, ReturnTyped DEF ResetTip, TypeOK, GenesisIndex, BlockIndex
  <2> QED
    BY <1>7, <2>1, <2>2, <2>3, <2>4, <2>5 DEF Reset, ResetFault
<1>8. ASSUME NEW t \in Threads, LoadParentFails(t) \/ SaveHeaderFails(t) \/ AdvanceTip(t, FALSE)
      PROVE TypeOK'
  <2> USE DEF memory, database, budget, AddSteps
  <2>1. CASE LoadParentFails(t)
    <3>1. op[t].hash \in Hashes /\ Become(t, "estimate", op[t].hash, Absent)
      BY <2>1 DEF LoadParentFails, At, TypeOK
    <3> QED
      BY <2>1, <3>1, BecomeTyped DEF LoadParentFails, TypeOK
  <2>2. CASE SaveHeaderFails(t)
    BY <2>2, ReturnTyped DEF SaveHeaderFails, TypeOK
  <2>3. CASE AdvanceTip(t, FALSE)
    BY <2>3, ReturnTyped DEF AdvanceTip, At, TypeOK, BlockIndex
  <2> QED
    BY <1>8, <2>1, <2>2, <2>3
<1>9. CASE UNCHANGED vars
  BY <1>9 DEF vars, TypeOK
<1> QED
  BY <1>1, <1>2, <1>3, <1>4, <1>5, <1>6, <1>7, <1>8, <1>9 DEF AnyStep

\* The state of the header index stays well typed: in every environment a step
\* of add_block_index finds the hash, parent and height it needs.
THEOREM TypeCorrect ==
  /\ Spec => []TypeOK
  /\ InOrderSpec => []TypeOK
  /\ FaultySpec => []TypeOK
  /\ ResettableSpec => []TypeOK
<1>1. Spec => []TypeOK
  BY InitTypeOK, TypeStep, EveryNextIsAnyStep, PTL DEF Spec
<1>2. InOrderSpec => []TypeOK
  BY InitTypeOK, TypeStep, EveryNextIsAnyStep, PTL DEF InOrderSpec
<1>3. FaultySpec => []TypeOK
  BY InitTypeOK, TypeStep, EveryNextIsAnyStep, PTL DEF FaultySpec
<1>4. ResettableSpec => []TypeOK
  BY InitTypeOK, TypeStep, EveryNextIsAnyStep, PTL DEF ResettableSpec
<1> QED
  BY <1>1, <1>2, <1>3, <1>4

-------------------------------------------------------------------------------
(* The tip only grows *)

\* Everything but a comparison that wins and the end of a reset leaves the tip of
\* a running node alone; a thread ends a reset only if there was one.
ResetsCounted == \A t \in Threads : op[t].pc \in ResetSteps => resets > 0

LEMMA ResetsCountedStep ==
  ASSUME TypeOK, ResetsCounted, FaultyNext \/ InOrderNext \/ UNCHANGED vars
  PROVE  ResetsCounted'
<1> USE DEF ResetsCounted, ResetSteps
<1>1. CASE UNCHANGED vars
  BY <1>1 DEF vars
<1>2. CASE Crash
  BY <1>2 DEF Crash, Idle, Step
<1>3. ASSUME NEW saved \in BOOLEAN,
             BootFromTip(saved) \/ BootSaveGenesis(saved) \/ BootSetTip(saved)
      PROVE  ResetsCounted'
  BY <1>3 DEF BootFromTip, BootSaveGenesis, BootSetTip, budget
<1>4. ASSUME NEW t \in Threads, AnyOrder(t) \/ ParentFirst(t) PROVE ResetsCounted'
  BY <1>4 DEF AnyOrder, ParentFirst, CheckKnown, Become, Step, TypeOK, budget
<1>5. ASSUME NEW t \in Threads,
             Progress(t) \/ LoadParentFails(t) \/ SaveHeaderFails(t) \/ AdvanceTip(t, FALSE)
      PROVE  ResetsCounted'
  BY <1>5 DEF Progress, ParentInIndex, ParentNotInIndex, NoParent, LoadParent, ParentUnknown,
              CacheParent, EstimateHeight, SaveHeader, InsertIndex, AdvanceTip, KeepTip,
              LoadParentFails, SaveHeaderFails, Become, Return, Idle, Step, TypeOK, budget
<1>6. ASSUME NEW t \in Threads, Reset(t) \/ ResetFault(t) PROVE ResetsCounted'
  <2>1. CASE ResetDatabase(t)
    BY <2>1 DEF ResetDatabase, TypeOK
  <2>2. CASE ~ResetDatabase(t)
    BY <1>6, <2>2 DEF Reset, ResetFault, ResetIndex, ResetSaveGenesis, ResetSetTipHash, ResetTip,
                      At, Become, Return, Idle, Step, TypeOK, budget
  <2> QED
    BY <2>1, <2>2
<1> QED
  BY <1>1, <1>2, <1>3, <1>4, <1>5, <1>6
     DEF FaultyNext, ResettableNext, InOrderNext, Next, Boot, WriteFault, ReadFault

LEMMA TipStep ==
  ASSUME ResetsCounted, FaultyNext \/ InOrderNext, node = "up", node' = "up"
  PROVE  \/ tip' = tip
         \/ tip'.height > tip.height
         \/ resets > 0 /\ tip' = GenesisIndex
<1> DEFINE Allowed == \/ tip' = tip
                      \/ tip'.height > tip.height
                      \/ resets > 0 /\ tip' = GenesisIndex
<1>1. CASE Boot \/ Crash \/ WriteFault \/ ReadFault
  BY <1>1 DEF Boot, Crash, WriteFault, ReadFault, BootFromTip, BootSaveGenesis, BootSetTip,
              LoadParentFails, SaveHeaderFails, AdvanceTip, BlockIndex, memory
<1>2. ASSUME NEW t \in Threads, AnyOrder(t) \/ ParentFirst(t) PROVE Allowed
  BY <1>2 DEF AnyOrder, ParentFirst, CheckKnown, memory
<1>3. ASSUME NEW t \in Threads, Progress(t) PROVE Allowed
  BY <1>3 DEF Progress, ParentInIndex, ParentNotInIndex, NoParent, LoadParent, ParentUnknown,
              CacheParent, EstimateHeight, SaveHeader, InsertIndex, AdvanceTip, KeepTip,
              BlockIndex, memory
<1>4. ASSUME NEW t \in Threads, Reset(t) \/ ResetFault(t) PROVE Allowed
  BY <1>4 DEF Reset, ResetFault, ResetDatabase, ResetIndex, ResetSaveGenesis, ResetSetTipHash,
              ResetTip, ResetsCounted, ResetSteps, At, memory
<1> QED
  BY <1>1, <1>2, <1>3, <1>4 DEF FaultyNext, ResettableNext, InOrderNext, Next

\* While the process runs no interleaving of calls, and no failed read or write,
\* makes get_tip go back or change between headers of the same height, except
\* that a reset takes it to genesis.
THEOREM TipNeverFallsButByReset == FaultySpec => TipFallsOnlyByReset
<1> DEFINE Inv == TypeOK /\ ResetsCounted
<1>1. Init => Inv
  BY InitTypeOK DEF Init, ResetsCounted, ResetSteps, Idle, Step
<1>2. Inv /\ [FaultyNext]_vars => Inv'
  BY TypeStep, EveryNextIsAnyStep, ResetsCountedStep
<1>3. Inv /\ [FaultyNext]_vars =>
        [node = "up" /\ node' = "up" =>
           \/ tip' = tip
           \/ tip'.height > tip.height
           \/ resets > 0 /\ tip' = GenesisIndex]_vars
  BY TipStep
<1> QED
  BY <1>1, <1>2, <1>3, PTL DEF FaultySpec, TipFallsOnlyByReset

-------------------------------------------------------------------------------
(* The tip is the best header *)

\* What holds in every environment: genesis is in the index of a
\* running node at height 0 and is never re-added; a stopped node has no memory.
NodeInv ==
  /\ dbHeader[Genesis] \in {Absent, 0}
  /\ node = "up" => index[Genesis] = 0 /\ tip.height \in Nat
  /\ node # "up" => /\ index = NothingKnown
                    /\ tip = NoTip
                    /\ \A t \in Threads : op[t] = Idle
  /\ \A t \in Threads :
       /\ op[t].pc \in AddSteps => op[t].hash # Genesis
       /\ op[t].pc \in {"load", "cache"} => Parent[op[t].hash] # Genesis

LEMMA InitNodeInv == Init => NodeInv
BY ConstantsAssumption
   DEF Init, NodeInv, NothingKnown, Idle, Step, AddSteps, ResetSteps

LEMMA NodeInvStep ==
  ASSUME TypeOK, NodeInv, FaultyNext \/ InOrderNext \/ UNCHANGED vars
  PROVE  NodeInv'
<1> USE ConstantsAssumption DEF Absent
<1>1. CASE UNCHANGED vars
  BY <1>1 DEF vars, NodeInv
<1>2. CASE Crash
  BY <1>2 DEF Crash, NodeInv, database, Idle, Step, AddSteps, ResetSteps
<1>3. ASSUME NEW saved \in BOOLEAN, BootFromTip(saved) PROVE NodeInv'
  <2>1. dbTip \in Hashes /\ dbHeader[dbTip] \in Nat
    BY <1>3 DEF BootFromTip, TipIsLoadable, TypeOK, Heights
  <2> QED
    BY <1>3, <2>1 DEF BootFromTip, NodeInv, NothingKnown, BlockIndex, Idle, Step, TypeOK,
                      AddSteps, ResetSteps
<1>4. ASSUME NEW saved \in BOOLEAN, BootSaveGenesis(saved) PROVE NodeInv'
  BY <1>4 DEF BootSaveGenesis, NodeInv, memory, TypeOK
<1>5. ASSUME NEW saved \in BOOLEAN, BootSetTip(saved) PROVE NodeInv'
  BY <1>5 DEF BootSetTip, NodeInv, NothingKnown, GenesisIndex, BlockIndex
<1>6. ASSUME NEW t \in Threads, AnyOrder(t) \/ ParentFirst(t) PROVE NodeInv'
  <2>1. PICK h \in Hashes : CheckKnown(t, h)
    BY <1>6 DEF AnyOrder, ParentFirst
  <2> QED
    BY <2>1 DEF CheckKnown, At, NodeInv, Become, Step, TypeOK, memory, database, AddSteps,
                ResetSteps
<1>7. ASSUME NEW t \in Threads,
             Progress(t) \/ LoadParentFails(t) \/ SaveHeaderFails(t) \/ AdvanceTip(t, FALSE)
      PROVE  NodeInv'
  <2> USE DEF At, NodeInv, Become, Step, TypeOK, memory, database, AddSteps, ResetSteps
  <2>1. CASE ParentInIndex(t) \/ ParentNotInIndex(t) \/ NoParent(t)
    BY <2>1 DEF ParentInIndex, ParentNotInIndex, NoParent
  <2>2. CASE LoadParent(t) \/ ParentUnknown(t) \/ LoadParentFails(t)
    BY <2>2 DEF LoadParent, ParentUnknown, LoadParentFails
  <2>3. CASE CacheParent(t)
    BY <2>3 DEF CacheParent
  <2>4. CASE EstimateHeight(t)
    BY <2>4 DEF EstimateHeight
  <2>5. CASE SaveHeader(t)
    BY <2>5 DEF SaveHeader
  <2>6. CASE InsertIndex(t)
    BY <2>6 DEF InsertIndex
  <2>7. CASE AdvanceTip(t, TRUE) \/ AdvanceTip(t, FALSE)
    BY <2>7 DEF AdvanceTip, Return, Idle, BlockIndex
  <2>8. CASE KeepTip(t) \/ SaveHeaderFails(t)
    BY <2>8 DEF KeepTip, SaveHeaderFails, Return, Idle
  <2> QED
    BY <1>7, <2>1, <2>2, <2>3, <2>4, <2>5, <2>6, <2>7, <2>8 DEF Progress
<1>8. ASSUME NEW t \in Threads, Reset(t) \/ ResetFault(t) PROVE NodeInv'
  <2> USE DEF At, NodeInv, Become, Step, TypeOK, memory, database, AddSteps, NothingKnown
  <2>1. CASE ResetDatabase(t) \/ ResetIndex(t)
    BY <2>1 DEF ResetDatabase, ResetIndex
  <2>2. ASSUME NEW saved \in BOOLEAN, ResetSaveGenesis(t, saved) \/ ResetSetTipHash(t, saved)
        PROVE  NodeInv'
    BY <2>2 DEF ResetSaveGenesis, ResetSetTipHash
  <2>3. CASE ResetTip(t)
    BY <2>3 DEF ResetTip, Return, Idle, GenesisIndex, BlockIndex
  <2> QED
    BY <1>8, <2>1, <2>2, <2>3 DEF Reset, ResetFault
<1> QED
  BY <1>1, <1>2, <1>3, <1>4, <1>5, <1>6, <1>7, <1>8
     DEF FaultyNext, ResettableNext, InOrderNext, Next, Boot, WriteFault, ReadFault

\* A running node has genesis in its index at height 0, through resets, crashes and
\* failing calls: a locator can always end in genesis.
THEOREM GenesisIsAlwaysIndexed == FaultySpec => []GenesisIsIndexed
<1> DEFINE Inv == TypeOK /\ NodeInv
<1>1. Init => Inv
  BY InitTypeOK, InitNodeInv
<1>2. Inv /\ [FaultyNext]_vars => Inv'
  BY TypeStep, EveryNextIsAnyStep, NodeInvStep
<1>3. Inv => GenesisIsIndexed
  BY DEF NodeInv, GenesisIsIndexed
<1> QED
  BY <1>1, <1>2, <1>3, PTL DEF FaultySpec

LEMMA InitTipIsBest == Init => TipIsBest
BY ConstantsAssumption DEF Init, TipIsBest, NothingKnown, NoTip, BlockIndex, Absent

\* A thread that still carries its height covers the entries it covered before.
LEMMA TipIsBestStep ==
  ASSUME TypeOK, NodeInv, TipIsBest, Next \/ UNCHANGED vars
  PROVE  TipIsBest'
<1> USE ConstantsAssumption DEF Absent, Heights
<1>1. CASE UNCHANGED vars
  BY <1>1 DEF vars, TipIsBest, Carries
<1>2. CASE Crash
  BY <1>2 DEF Crash, TipIsBest, NothingKnown, NoTip, BlockIndex
<1>3. CASE BootFromTip(TRUE)
  <2>1. dbTip \in Hashes /\ dbHeader[dbTip] \in Nat
    BY <1>3 DEF BootFromTip, TipIsLoadable, TypeOK
  <2> QED
    BY <1>3, <2>1 DEF BootFromTip, TipIsBest, NodeInv, NothingKnown, BlockIndex, TypeOK
<1>4. CASE BootSaveGenesis(TRUE)
  BY <1>4 DEF BootSaveGenesis, TipIsBest, Carries, memory
<1>5. CASE BootSetTip(TRUE)
  BY <1>5 DEF BootSetTip, TipIsBest, NothingKnown, GenesisIndex, BlockIndex
<1>6. ASSUME NEW t \in Threads, AnyOrder(t) PROVE TipIsBest'
  <2>1. PICK h \in Hashes : CheckKnown(t, h)
    BY <1>6 DEF AnyOrder
  <2> QED
    BY <2>1 DEF CheckKnown, At, TipIsBest, Carries, Become, Step, TypeOK, memory
<1>7. ASSUME NEW t \in Threads, Progress(t) PROVE TipIsBest'
  <2> USE DEF At, TipIsBest, Carries, Become, Step, TypeOK, Operations, memory, AddSteps
  <2>1. CASE ParentInIndex(t) \/ ParentNotInIndex(t) \/ NoParent(t) \/ LoadParent(t) \/ ParentUnknown(t)
    BY <2>1 DEF ParentInIndex, ParentNotInIndex, NoParent, LoadParent, ParentUnknown
  <2>2. CASE CacheParent(t)
    BY <2>2 DEF CacheParent
  <2>3. CASE EstimateHeight(t)
    BY <2>3 DEF EstimateHeight
  <2>4. CASE SaveHeader(t)
    BY <2>4 DEF SaveHeader
  <2>5. CASE InsertIndex(t)
    BY <2>5 DEF InsertIndex
  <2>6. CASE AdvanceTip(t, TRUE)
    BY <2>6 DEF AdvanceTip, Return, Idle, BlockIndex, NodeInv
  <2>7. CASE KeepTip(t)
    BY <2>7 DEF KeepTip, Return, Idle, NodeInv
  <2> QED
    BY <1>7, <2>1, <2>2, <2>3, <2>4, <2>5, <2>6, <2>7 DEF Progress
<1> QED
  BY <1>1, <1>2, <1>3, <1>4, <1>5, <1>6, <1>7 DEF Next, Boot

\* For every number of threads and every delivery order: a header heavier than
\* the tip is indexed only while some call is about to compare at least that
\* height with the tip, so the tip is the best header whenever all calls returned.
THEOREM TipIsAlwaysBest == Spec => []TipIsBest
<1> DEFINE IInv == TypeOK /\ NodeInv /\ TipIsBest
<1>1. Init => IInv
  BY InitTypeOK, InitNodeInv, InitTipIsBest
<1>2. IInv /\ [Next]_vars => IInv'
  <2>1. ASSUME IInv, [Next]_vars PROVE TypeOK'
    BY <2>1, TypeStep, EveryNextIsAnyStep
  <2>2. ASSUME IInv, [Next]_vars PROVE NodeInv'
    BY <2>2, NodeInvStep DEF FaultyNext, ResettableNext
  <2>3. ASSUME IInv, [Next]_vars PROVE TipIsBest'
    BY <2>3, TipIsBestStep
  <2> QED
    BY <2>1, <2>2, <2>3
<1>3. IInv => TipIsBest
  OBVIOUS
<1> QED
  BY <1>1, <1>2, <1>3, PTL DEF Spec

\* Without failed writes the database names the tip that get_tip returns.
THEOREM TipIsAlwaysPersisted == Spec => []TipIsPersisted
<1>1. Init => TipIsPersisted
  BY DEF Init, TipIsPersisted
<1>2. TipIsPersisted /\ [Next]_vars => TipIsPersisted'
  <2> SUFFICES ASSUME TipIsPersisted, [Next]_vars PROVE TipIsPersisted'
    OBVIOUS
  <2>1. CASE UNCHANGED vars
    BY <2>1 DEF vars, TipIsPersisted
  <2>2. CASE Boot \/ Crash
    BY <2>2 DEF Boot, Crash, BootFromTip, BootSaveGenesis, BootSetTip, GenesisIndex,
                BlockIndex, TipIsPersisted
  <2>3. ASSUME NEW t \in Threads, AnyOrder(t) PROVE TipIsPersisted'
    BY <2>3 DEF AnyOrder, CheckKnown, TipIsPersisted, memory, database
  <2>4. ASSUME NEW t \in Threads, Progress(t) PROVE TipIsPersisted'
    BY <2>4 DEF Progress, ParentInIndex, ParentNotInIndex, NoParent, LoadParent, ParentUnknown,
                CacheParent, EstimateHeight, SaveHeader, InsertIndex, AdvanceTip, KeepTip,
                BlockIndex, TipIsPersisted, memory, database
  <2> QED
    BY <2>1, <2>2, <2>3, <2>4 DEF Next
<1> QED
  BY <1>1, <1>2, PTL DEF Spec

-------------------------------------------------------------------------------
(* What is in memory is on disk *)

\* Until a reset, a thread past save_header, or holding a parent row, relies on
\* rows that are there and stay there.
DurableInv ==
  /\ IndexIsDurable
  /\ DbTipHasHeader
  /\ ResetsCounted
  /\ resets = 0 =>
       \A t \in Threads :
         /\ op[t].pc \in {"insert", "tip"} => dbHeader[op[t].hash] # Absent
         /\ op[t].pc = "cache" => dbHeader[Parent[op[t].hash]] # Absent

LEMMA InitDurableInv == Init => DurableInv
BY ConstantsAssumption
   DEF Init, DurableInv, IndexIsDurable, DbTipHasHeader, ResetsCounted, ResetSteps,
       NothingKnown, Idle, Step

LEMMA DurableInvStep ==
  ASSUME TypeOK, NodeInv, DurableInv, FaultyNext \/ InOrderNext \/ UNCHANGED vars
  PROVE  DurableInv'
<1> USE ConstantsAssumption DEF Absent, DurableInv, IndexIsDurable, DbTipHasHeader
<1>0. ResetsCounted'
  BY ResetsCountedStep
<1> USE <1>0 DEF budget
<1>1. CASE UNCHANGED vars
  BY <1>1 DEF vars
<1>2. CASE Crash
  BY <1>2 DEF Crash, database, NothingKnown, Idle, Step
<1>3. ASSUME NEW saved \in BOOLEAN, BootFromTip(saved) PROVE DurableInv'
  <2>1. dbTip \in Hashes /\ dbHeader[dbTip] \in Nat
    BY <1>3 DEF BootFromTip, TipIsLoadable, TypeOK, Heights
  <2> QED
    BY <1>3, <2>1 DEF BootFromTip, NodeInv, NothingKnown, TypeOK, Idle, Step
<1>4. ASSUME NEW saved \in BOOLEAN, BootSaveGenesis(saved) PROVE DurableInv'
  BY <1>4 DEF BootSaveGenesis, NodeInv, memory, TypeOK
<1>5. ASSUME NEW saved \in BOOLEAN, BootSetTip(saved) PROVE DurableInv'
  BY <1>5 DEF BootSetTip, NodeInv, NothingKnown
<1>6. ASSUME NEW t \in Threads, AnyOrder(t) \/ ParentFirst(t) PROVE DurableInv'
  <2>1. PICK h \in Hashes : CheckKnown(t, h)
    BY <1>6 DEF AnyOrder, ParentFirst
  <2> QED
    BY <2>1 DEF CheckKnown, At, Become, Step, TypeOK, memory, database
<1>7. ASSUME NEW t \in Threads,
             Progress(t) \/ LoadParentFails(t) \/ SaveHeaderFails(t) \/ AdvanceTip(t, FALSE)
      PROVE  DurableInv'
  <2> USE DEF At, Become, Step, TypeOK, memory, database, AddSteps
  <2>1. CASE ParentInIndex(t) \/ ParentNotInIndex(t) \/ NoParent(t) \/ EstimateHeight(t)
    BY <2>1 DEF ParentInIndex, ParentNotInIndex, NoParent, EstimateHeight
  <2>2. CASE LoadParent(t) \/ ParentUnknown(t) \/ LoadParentFails(t)
    BY <2>2 DEF LoadParent, ParentUnknown, LoadParentFails
  <2>3. CASE CacheParent(t)
    BY <2>3 DEF CacheParent
  <2>5. CASE SaveHeader(t)
    BY <2>5 DEF SaveHeader
  <2>6. CASE InsertIndex(t)
    BY <2>6 DEF InsertIndex
  <2>7. CASE AdvanceTip(t, TRUE) \/ AdvanceTip(t, FALSE)
    BY <2>7 DEF AdvanceTip, Return, Idle
  <2>8. CASE KeepTip(t) \/ SaveHeaderFails(t)
    BY <2>8 DEF KeepTip, SaveHeaderFails, Return, Idle
  <2> QED
    BY <1>7, <2>1, <2>2, <2>3, <2>5, <2>6, <2>7, <2>8 DEF Progress
<1>8. ASSUME NEW t \in Threads, Reset(t) \/ ResetFault(t) PROVE DurableInv'
  <2>1. resets' # 0
    <3>1. CASE ResetDatabase(t)
      BY <3>1 DEF ResetDatabase, TypeOK
    <3>2. CASE ~ResetDatabase(t)
      BY <1>8, <3>2 DEF Reset, ResetFault, ResetIndex, ResetSaveGenesis, ResetSetTipHash,
                        ResetTip, At, ResetsCounted, ResetSteps
    <3> QED
      BY <3>1, <3>2
  <2> QED
    BY <2>1
<1> QED
  BY <1>1, <1>2, <1>3, <1>4, <1>5, <1>6, <1>7, <1>8
     DEF FaultyNext, ResettableNext, InOrderNext, Next, Boot, WriteFault, ReadFault

LEMMA FaultyInv == FaultySpec => [](TypeOK /\ NodeInv /\ DurableInv)
<1> DEFINE IInv == TypeOK /\ NodeInv /\ DurableInv
<1>1. Init => IInv
  BY InitTypeOK, InitNodeInv, InitDurableInv
<1>2. IInv /\ [FaultyNext]_vars => IInv'
  BY TypeStep, EveryNextIsAnyStep, NodeInvStep, DurableInvStep
<1> QED
  BY <1>1, <1>2, PTL DEF FaultySpec

\* Until a reset, through crashes and failing reads and writes, whatever
\* get_block_locator or a restart looks up in the database after finding it in
\* memory is there.
THEOREM IndexIsAlwaysDurable == FaultySpec => []IndexIsDurable
<1>1. DurableInv => IndexIsDurable
  BY DEF DurableInv
<1> QED
  BY <1>1, FaultyInv, PTL

\* Through the same faults the database never names a tip it has no header for.
THEOREM DbTipAlwaysHasHeader == FaultySpec => []DbTipHasHeader
<1>1. DurableInv => DbTipHasHeader
  BY DEF DurableInv
<1> QED
  BY <1>1, FaultyInv, PTL

-------------------------------------------------------------------------------
(* Headers delivered parent first *)

\* Every height in flight is the block's position, a parent once known stays
\* known, and nobody has to guess a height.
HeightInv ==
  /\ HeightsAreDepths
  /\ node = "up" => tip.hash \in Hashes
  /\ \A t \in Threads :
       /\ op[t].pc \in {"cache", "save", "insert", "tip"} => op[t].height = Depth[op[t].hash]
       /\ op[t].pc = "parent" => Known(Parent[op[t].hash])
       /\ op[t].pc = "load" => dbHeader[Parent[op[t].hash]] # Absent
       /\ op[t].pc # "estimate"

\* The parent of a header that is stored, or that a thread is about to store, is there.
AncestryInv ==
  /\ \A h \in Hashes \ {Genesis} : dbHeader[h] # Absent => ParentIsStored(h)
  /\ \A t \in Threads : op[t].pc \in AddSteps => ParentIsStored(op[t].hash)

\* The durable tip is never ahead of the tip in memory, and start-up falls back
\* to genesis only when there was no better tip.
DurableTipInv ==
  /\ resets = 0
  /\ node = "up" /\ dbTip # NoHash => Depth[dbTip] <= tip.height
  /\ node = "saved_genesis" => dbTip \in {NoHash, Genesis}

InOrderInv == TypeOK /\ NodeInv /\ DurableInv /\ HeightInv /\ DurableTipInv /\ AncestryInv

LEMMA HeightInvStep ==
  ASSUME TypeOK, NodeInv, HeightInv, InOrderNext \/ UNCHANGED vars
  PROVE  HeightInv'
<1> USE ConstantsAssumption, DepthAssumption
    DEF Absent, Heights, HeightInv, HeightsAreDepths, Known
<1>1. CASE UNCHANGED vars
  BY <1>1 DEF vars
<1>2. CASE Crash
  BY <1>2 DEF Crash, database, NothingKnown, Idle, Step
<1>3. ASSUME NEW saved \in BOOLEAN, BootFromTip(saved) PROVE HeightInv'
  <2>1. dbTip \in Hashes /\ dbHeader[dbTip] \in Nat
    BY <1>3 DEF BootFromTip, TipIsLoadable, TypeOK
  <2> QED
    BY <1>3, <2>1 DEF BootFromTip, NodeInv, NothingKnown, BlockIndex, TypeOK, Idle, Step
<1>4. ASSUME NEW saved \in BOOLEAN, BootSaveGenesis(saved) PROVE HeightInv'
  BY <1>4 DEF BootSaveGenesis, NodeInv, memory, TypeOK, Idle, Step
<1>5. ASSUME NEW saved \in BOOLEAN, BootSetTip(saved) PROVE HeightInv'
  BY <1>5 DEF BootSetTip, NodeInv, NothingKnown, GenesisIndex, BlockIndex, Idle, Step
<1>6. ASSUME NEW t \in Threads, ParentFirst(t) PROVE HeightInv'
  <2>1. PICK h \in Hashes : Known(Parent[h]) /\ CheckKnown(t, h)
    BY <1>6 DEF ParentFirst
  <2> QED
    BY <2>1 DEF CheckKnown, At, Become, Step, TypeOK, memory, database
<1>7. ASSUME NEW t \in Threads,
             Progress(t) \/ SaveHeaderFails(t) \/ AdvanceTip(t, FALSE)
      PROVE  HeightInv'
  <2> USE DEF At, Become, Step, TypeOK, memory, database, AddSteps
  <2>1. CASE ParentInIndex(t)
    BY <2>1 DEF ParentInIndex
  <2>2. CASE ParentNotInIndex(t) \/ NoParent(t) \/ ParentUnknown(t) \/ EstimateHeight(t)
    BY <2>2 DEF ParentNotInIndex, NoParent, ParentUnknown, EstimateHeight
  <2>3. CASE LoadParent(t)
    BY <2>3 DEF LoadParent
  <2>4. CASE CacheParent(t)
    BY <2>4 DEF CacheParent
  <2>5. CASE SaveHeader(t)
    BY <2>5 DEF SaveHeader
  <2>6. CASE InsertIndex(t)
    BY <2>6 DEF InsertIndex
  <2>7. CASE AdvanceTip(t, TRUE) \/ AdvanceTip(t, FALSE)
    BY <2>7 DEF AdvanceTip, Return, Idle, BlockIndex
  <2>8. CASE KeepTip(t) \/ SaveHeaderFails(t)
    BY <2>8 DEF KeepTip, SaveHeaderFails, Return, Idle
  <2> QED
    BY <1>7, <2>1, <2>2, <2>3, <2>4, <2>5, <2>6, <2>7, <2>8 DEF Progress
<1> QED
  BY <1>1, <1>2, <1>3, <1>4, <1>5, <1>6, <1>7 DEF InOrderNext, Boot, WriteFault

LEMMA DurableTipInvStep ==
  ASSUME InOrderInv, InOrderNext \/ UNCHANGED vars
  PROVE  DurableTipInv'
<1> USE ConstantsAssumption, DepthAssumption
    DEF Absent, Heights, DurableTipInv, InOrderInv, budget
<1>1. CASE UNCHANGED vars
  BY <1>1 DEF vars
<1>2. CASE Crash
  BY <1>2 DEF Crash
<1>3. ASSUME NEW saved \in BOOLEAN, BootFromTip(saved) PROVE DurableTipInv'
  <2>1. dbTip \in Hashes /\ dbHeader[dbTip] = Depth[dbTip]
    BY <1>3 DEF BootFromTip, TipIsLoadable, TypeOK, HeightInv, HeightsAreDepths
  <2> QED
    BY <1>3, <2>1 DEF BootFromTip, BlockIndex
<1>4. ASSUME NEW saved \in BOOLEAN, ~TipIsLoadable, BootSaveGenesis(saved)
      PROVE  DurableTipInv'
  BY <1>4 DEF BootSaveGenesis, TipIsLoadable, DurableInv, DbTipHasHeader
<1>5. ASSUME NEW saved \in BOOLEAN, BootSetTip(saved) PROVE DurableTipInv'
  BY <1>5 DEF BootSetTip, GenesisIndex, BlockIndex
<1>6. ASSUME NEW t \in Threads, ParentFirst(t) PROVE DurableTipInv'
  BY <1>6 DEF ParentFirst, CheckKnown, memory, database
<1>7. ASSUME NEW t \in Threads,
             Progress(t) \/ SaveHeaderFails(t) \/ AdvanceTip(t, FALSE)
      PROVE  DurableTipInv'
  <2>1. CASE AdvanceTip(t, TRUE) \/ AdvanceTip(t, FALSE)
    <3>1. op[t].height \in Nat /\ op[t].height = Depth[op[t].hash] /\ tip.height \in Nat
      BY <2>1 DEF AdvanceTip, At, TypeOK, HeightInv, NodeInv
    <3>2. dbTip # NoHash => Depth[dbTip] \in Nat
      BY DEF TypeOK
    <3> QED
      BY <2>1, <3>1, <3>2 DEF AdvanceTip, BlockIndex, At
  <2>2. CASE ~(AdvanceTip(t, TRUE) \/ AdvanceTip(t, FALSE))
    BY <1>7, <2>2
       DEF Progress, ParentInIndex, ParentNotInIndex, NoParent, LoadParent, ParentUnknown,
           CacheParent, EstimateHeight, SaveHeader, InsertIndex, KeepTip, SaveHeaderFails,
           memory, database
  <2> QED
    BY <2>1, <2>2
<1> QED
  BY <1>1, <1>2, <1>3, <1>4, <1>5, <1>6, <1>7 DEF InOrderNext, Boot, WriteFault

\* A header is taken on when its parent is known, what is known is stored, and no row
\* of the header table goes away or is rewritten as absent.
LEMMA AncestryInvStep ==
  ASSUME InOrderInv, InOrderNext \/ UNCHANGED vars
  PROVE  AncestryInv'
<1> USE ConstantsAssumption, DepthAssumption DEF Absent, Heights
<1>0. TypeOK /\ AncestryInv /\ resets = 0 /\ IndexIsDurable
  BY DEF InOrderInv, DurableTipInv, DurableInv
<1>1. ASSUME \A h \in Hashes : dbHeader[h] # Absent => dbHeader'[h] # Absent,
             \A h \in Hashes \ {Genesis} :
               dbHeader'[h] # Absent => dbHeader[h] # Absent \/ ParentIsStored(h),
             \A t \in Threads : op'[t].pc \in AddSteps =>
               ParentIsStored(op'[t].hash) \/ (op[t].pc \in AddSteps /\ op'[t].hash = op[t].hash)
      PROVE  AncestryInv'
  <2>1. \A h \in Hashes \cup {NoHash} : ParentIsStored(h) => ParentIsStored(h)'
    BY <1>1 DEF ParentIsStored
  <2>2. \A h \in Hashes \ {Genesis} : dbHeader'[h] # Absent => ParentIsStored(h)
    BY <1>0, <1>1 DEF AncestryInv
  <2>3. \A t \in Threads : op'[t].pc \in AddSteps => ParentIsStored(op'[t].hash)
    BY <1>0, <1>1 DEF AncestryInv
  <2>4. \A t \in Threads :
          (op[t].pc \in AddSteps)' => (ParentIsStored(op[t].hash))'
    BY <1>1, <2>3 DEF ParentIsStored
  <2> QED
    BY <2>1, <2>2, <2>4 DEF AncestryInv
<1>2. ASSUME op' = op \/ op' = [t \in Threads |-> Idle],
             \/ dbHeader' = dbHeader
             \/ dbHeader' = [dbHeader EXCEPT ![Genesis] = 0]
      PROVE  AncestryInv'
  <2>1. \A h \in Hashes : dbHeader[h] # Absent => dbHeader'[h] # Absent
    BY <1>0, <1>2 DEF TypeOK
  <2>2. \A h \in Hashes \ {Genesis} : dbHeader'[h] = dbHeader[h]
    BY <1>0, <1>2 DEF TypeOK
  <2>3. \A t \in Threads : op'[t].pc \in AddSteps => op' = op
    BY <1>2 DEF Idle, Step, AddSteps
  <2> QED
    BY <1>1, <2>1, <2>2, <2>3
<1>3. CASE UNCHANGED vars
  BY <1>2, <1>3 DEF vars
<1>4. CASE Crash
  BY <1>2, <1>4 DEF Crash, database
<1>5. ASSUME NEW saved \in BOOLEAN,
             BootFromTip(saved) \/ BootSaveGenesis(saved) \/ BootSetTip(saved)
      PROVE  AncestryInv'
  BY <1>2, <1>5 DEF BootFromTip, BootSaveGenesis, BootSetTip
<1>6. ASSUME NEW t \in Threads, ParentFirst(t) PROVE AncestryInv'
  <2>1. PICK h \in Hashes : Known(Parent[h]) /\ CheckKnown(t, h)
    BY <1>6 DEF ParentFirst
  <2>2. ParentIsStored(h)
    BY <1>0, <2>1 DEF Known, ParentIsStored, IndexIsDurable, TypeOK
  <2>3. op' = [op EXCEPT ![t] = Step("parent", h, Absent)] /\ dbHeader' = dbHeader
    BY <2>1 DEF CheckKnown, Become, database
  <2> QED
    BY <1>0, <1>1, <2>2, <2>3 DEF Step, TypeOK
<1>7. ASSUME NEW t \in Threads,
             Progress(t) \/ SaveHeaderFails(t) \/ AdvanceTip(t, FALSE)
      PROVE  AncestryInv'
  <2>1. op[t].pc \in AddSteps /\ op[t].hash \in Hashes
    BY <1>0, <1>7
       DEF Progress, ParentInIndex, ParentNotInIndex, NoParent, LoadParent, ParentUnknown,
           CacheParent, EstimateHeight, SaveHeader, SaveHeaderFails, InsertIndex, AdvanceTip,
           KeepTip, At, AddSteps, TypeOK
  <2>2. \E pc \in AddSteps, n \in Int : op' = [op EXCEPT ![t] = Step(pc, op[t].hash, n)]
        \/ op' = [op EXCEPT ![t] = Idle]
    BY <1>0, <1>7
       DEF Progress, ParentInIndex, ParentNotInIndex, NoParent, LoadParent, ParentUnknown,
           CacheParent, EstimateHeight, SaveHeader, SaveHeaderFails, InsertIndex, AdvanceTip,
           KeepTip, At, Become, Return, AddSteps, TypeOK
  <2>3. \A u \in Threads : op'[u].pc \in AddSteps =>
          op[u].pc \in AddSteps /\ op'[u].hash = op[u].hash
    BY <1>0, <2>1, <2>2 DEF Step, Idle, AddSteps, TypeOK
  <2>4. CASE SaveHeader(t)
    <3>1. dbHeader' = [dbHeader EXCEPT ![op[t].hash] = op[t].height] /\ op[t].height \in Nat
      BY <1>0, <2>4 DEF SaveHeader, At, TypeOK
    <3>2. \A h \in Hashes : dbHeader[h] # Absent => dbHeader'[h] # Absent
      BY <1>0, <3>1 DEF TypeOK
    <3>3. \A h \in Hashes : dbHeader'[h] # Absent => dbHeader[h] # Absent \/ h = op[t].hash
      BY <1>0, <3>1 DEF TypeOK
    <3>4. ParentIsStored(op[t].hash)
      BY <1>0, <2>1 DEF AncestryInv
    <3> QED
      BY <1>1, <2>3, <3>2, <3>3, <3>4
  <2>5. CASE ~SaveHeader(t)
    <3>1. dbHeader' = dbHeader
      BY <1>7, <2>5
         DEF Progress, ParentInIndex, ParentNotInIndex, NoParent, LoadParent, ParentUnknown,
             CacheParent, EstimateHeight, SaveHeaderFails, InsertIndex, AdvanceTip, KeepTip, database
    <3> QED
      BY <1>1, <2>3, <3>1
  <2> QED
    BY <2>4, <2>5
<1> QED
  BY <1>3, <1>4, <1>5, <1>6, <1>7 DEF InOrderNext, Boot, WriteFault

LEMMA InOrderInvariant == InOrderSpec => []InOrderInv
<1>1. Init => InOrderInv
  <2>1. Init => HeightInv
    BY ConstantsAssumption
       DEF Init, HeightInv, HeightsAreDepths, NothingKnown, NoTip, BlockIndex, Idle, Step
  <2>2. Init => DurableTipInv
    BY ConstantsAssumption DEF Init, DurableTipInv
  <2>3. Init => AncestryInv
    BY ConstantsAssumption DEF Init, AncestryInv, NothingKnown, Idle, Step, AddSteps
  <2> QED
    BY <2>1, <2>2, <2>3, InitTypeOK, InitNodeInv, InitDurableInv DEF InOrderInv
<1>2. InOrderInv /\ [InOrderNext]_vars => InOrderInv'
  <2> SUFFICES ASSUME InOrderInv, [InOrderNext]_vars PROVE InOrderInv'
    OBVIOUS
  <2>1. TypeOK'
    BY TypeStep, EveryNextIsAnyStep DEF InOrderInv
  <2>2. NodeInv' /\ DurableInv' /\ HeightInv'
    BY NodeInvStep, DurableInvStep, HeightInvStep DEF InOrderInv
  <2>3. DurableTipInv' /\ AncestryInv'
    BY DurableTipInvStep, AncestryInvStep
  <2> QED
    BY <2>1, <2>2, <2>3 DEF InOrderInv
<1> QED
  BY <1>1, <1>2, PTL DEF InOrderSpec

\* Delivered parent first, every recorded height is the block's true position and every
\* stored header has its ancestors stored, for every tree of headers, number of threads,
\* crash and failed write.
THEOREM HeightIsAlwaysPosition == InOrderSpec => []HeightIsPosition
<1>1. InOrderInv => HeightIsPosition
  BY DEF InOrderInv, HeightInv, HeightIsPosition, AncestryInv
<1> QED
  BY <1>1, InOrderInvariant, PTL

LEMMA DurableTipStep ==
  ASSUME InOrderInv, InOrderNext, dbTip' # dbTip, dbTip # NoHash
  PROVE  dbTip' # NoHash /\ Depth[dbTip'] > Depth[dbTip]
<1> USE ConstantsAssumption DEF Absent, Heights, InOrderInv
<1>1. CASE Boot \/ Crash \/ WriteFault
  <2>1. ASSUME NEW saved \in BOOLEAN, BootSetTip(saved) PROVE FALSE
    BY <2>1 DEF BootSetTip, DurableTipInv
  <2>2. ASSUME NEW t \in Threads, AdvanceTip(t, FALSE) PROVE FALSE
    BY <2>2 DEF AdvanceTip
  <2> QED
    BY <1>1, <2>1, <2>2
       DEF Boot, Crash, WriteFault, BootFromTip, BootSaveGenesis, SaveHeaderFails, database
<1>2. ASSUME NEW t \in Threads, ParentFirst(t) PROVE FALSE
  BY <1>2 DEF ParentFirst, CheckKnown, database
<1>3. ASSUME NEW t \in Threads, Progress(t)
      PROVE  dbTip' # NoHash /\ Depth[dbTip'] > Depth[dbTip]
  <2>1. AdvanceTip(t, TRUE)
    BY <1>3 DEF Progress, ParentInIndex, ParentNotInIndex, NoParent, LoadParent, ParentUnknown,
                CacheParent, EstimateHeight, SaveHeader, InsertIndex, KeepTip, database
  <2>2. /\ op[t].hash \in Hashes
        /\ op[t].height = Depth[op[t].hash]
        /\ op[t].height \in Nat /\ tip.height \in Nat
    BY <2>1 DEF AdvanceTip, At, TypeOK, HeightInv, NodeInv, AddSteps
  <2>3. Depth[dbTip] \in Nat /\ Depth[dbTip] <= tip.height
    BY <2>1 DEF AdvanceTip, At, TypeOK, DurableTipInv
  <2> QED
    BY <2>1, <2>2, <2>3 DEF AdvanceTip
<1> QED
  BY <1>1, <1>2, <1>3 DEF InOrderNext

\* Delivered parent first, the tip a restart resumes from never falls back, through
\* every crash and failed write.
THEOREM DurableTipNeverFalls == InOrderSpec => DurableTipOnlyGrows
<1>1. InOrderInv /\ [InOrderNext]_vars =>
        [dbTip # NoHash =>
           dbTip' # NoHash /\ (dbTip' = dbTip \/ Depth[dbTip'] > Depth[dbTip])]_dbTip
  BY DurableTipStep DEF vars
<1> QED
  BY <1>1, InOrderInvariant, PTL DEF InOrderSpec, DurableTipOnlyGrows

-------------------------------------------------------------------------------
(* ChainState implements TipRegister *)

durableTip == IF dbTip = NoHash THEN NoTip ELSE BlockIndex(dbTip, Depth[dbTip])

LEMMA RegisterInit == Init => Register!Init
BY DEF Init, Register!Init

\* Start-up starts the register, a won comparison improves it, a crash stops it,
\* and every other step leaves it alone.
LEMMA RegisterStep ==
  ASSUME InOrderInv, InOrderInv', [InOrderNext]_vars
  PROVE  [Register!Next]_(Register!register)
<1> USE ConstantsAssumption, DepthAssumption DEF Absent, Heights, InOrderInv
<1>0. NoTip # GenesisIndex
  BY DEF NoTip, GenesisIndex, BlockIndex
<1>1. CASE UNCHANGED vars
  BY <1>1 DEF vars, Register!register
<1>2. CASE Crash
  <2>1. CASE node = "up"
    BY <1>2, <2>1 DEF Crash, database, Register!Next, Register!Stop
  <2>2. CASE node # "up"
    BY <1>2, <2>2 DEF Crash, database, NodeInv, Register!register
  <2> QED
    BY <2>1, <2>2
<1>3. ASSUME NEW saved \in BOOLEAN, BootFromTip(saved) PROVE Register!Next
  <2>1. dbTip \in Hashes /\ dbHeader[dbTip] = Depth[dbTip] /\ Depth[dbTip] \in Nat
    BY <1>3 DEF BootFromTip, TipIsLoadable, TypeOK, HeightInv, HeightsAreDepths
  <2>2. BlockIndex(dbTip, Depth[dbTip]) # NoTip
    BY <2>1 DEF BlockIndex, NoTip
  <2> QED
    BY <1>3, <2>1, <2>2 DEF BootFromTip, Register!Next, Register!Start
<1>4. ASSUME NEW saved \in BOOLEAN, BootSaveGenesis(saved)
      PROVE  UNCHANGED Register!register
  BY <1>4 DEF BootSaveGenesis, memory, Register!register
<1>5. ASSUME NEW saved \in BOOLEAN, BootSetTip(saved) PROVE Register!Next
  <2>1. durableTip \in {NoTip, GenesisIndex} /\ durableTip' \in {durableTip, GenesisIndex}
    BY <1>5 DEF BootSetTip, DurableTipInv, durableTip, GenesisIndex, BlockIndex, NoTip
  <2> QED
    BY <1>0, <1>5, <2>1
       DEF BootSetTip, durableTip, GenesisIndex, BlockIndex, Register!Next, Register!Start,
           Register!RootTip
<1>6. ASSUME NEW t \in Threads, ParentFirst(t) PROVE UNCHANGED Register!register
  BY <1>6 DEF ParentFirst, CheckKnown, memory, database, Register!register
<1>7. ASSUME NEW t \in Threads, NEW saved \in BOOLEAN, AdvanceTip(t, saved)
      PROVE  Register!Next
  <2>1. op[t].hash \in Hashes /\ op[t].height \in Nat /\ op[t].height = Depth[op[t].hash]
    BY <1>7 DEF AdvanceTip, At, TypeOK, HeightInv, AddSteps
  <2>2. tip' \in Register!Tips
    BY <1>7, <2>1 DEF AdvanceTip, BlockIndex, Register!Tips
  <2>3. tip'.height > tip.height
    BY <1>7 DEF AdvanceTip, BlockIndex
  <2>4. durableTip' \in {durableTip, tip'}
    BY <1>7, <2>1 DEF AdvanceTip, durableTip, BlockIndex
  <2> QED
    BY <1>7, <2>2, <2>3, <2>4
       DEF AdvanceTip, At, durableTip, Register!Next, Register!Improve
<1>8. ASSUME NEW t \in Threads, Progress(t) \/ SaveHeaderFails(t), ~AdvanceTip(t, TRUE)
      PROVE  UNCHANGED Register!register
  BY <1>8
     DEF Progress, ParentInIndex, ParentNotInIndex, NoParent, LoadParent, ParentUnknown,
         CacheParent, EstimateHeight, SaveHeader, InsertIndex, KeepTip, SaveHeaderFails,
         memory, database, Register!register
<1> QED
  BY <1>1, <1>2, <1>3, <1>4, <1>5, <1>6, <1>7, <1>8 DEF InOrderNext, Boot, WriteFault

\* Delivered parent first, get_tip, its database copy and restarts together are a
\* register that only grows and is resumed from its durable copy.
THEOREM Refinement == InOrderSpec => ImplementsRegister
<1>1. InOrderInv /\ InOrderInv' /\ [InOrderNext]_vars => [Register!Next]_(Register!register)
  BY RegisterStep
<1> QED
  BY <1>1, RegisterInit, InOrderInvariant, PTL
     DEF InOrderSpec, ImplementsRegister, Register!Spec
===============================================================================
