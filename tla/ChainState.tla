------------------------------ MODULE ChainState ------------------------------
(***************************************************************************)
(* The header index of the Rust node (blockchain/chain_state.rs) over its  *)
(* SQLite store (storage.rs): add_block_index, reset and the start-up code *)
(* of ChainState::new, with every thread that calls them.                  *)
(*                                                                         *)
(* The shared state is four pieces behind three locks: the in-memory index *)
(* (block_index_map), the in-memory tip (current_tip), and the table of    *)
(* headers and the tip hash in the database, whose every call is atomic    *)
(* (one Mutex<Connection>).  add_block_index takes these locks one after   *)
(* the other and never two at a time, except that the tip lock is held     *)
(* while the tip hash is written; so a step of a thread below is one       *)
(* critical section, and threads interleave between them.                  *)
(***************************************************************************)
EXTENDS Integers, FiniteSets

CONSTANTS
  Threads,     \* the tasks that call add_block_index or reset
  Hashes,      \* the block hashes the network may mention
  Genesis,     \* the mainnet genesis hash
  NoHash,      \* a zero prev_block_hash; also "no tip hash in the database"
  Parent,      \* prev_block_hash of each header
  Depth,       \* the true distance of each block from the root of its branch
  MaxCrashes,  \* bound: how often the process is killed
  MaxResets    \* bound: how often POST /reset-sync starts a reset

ASSUME ConstantsAssumption ==
  /\ Genesis \in Hashes
  /\ NoHash \notin Hashes
  /\ Parent \in [Hashes -> Hashes \cup {NoHash}]
  /\ Depth \in [Hashes -> Nat]
  /\ MaxCrashes \in Nat
  /\ MaxResets \in Nat

\* A header is one deeper than its parent, and genesis is the root at height 0.
ASSUME DepthAssumption ==
  /\ Parent[Genesis] = NoHash
  /\ Depth[Genesis] = 0
  /\ \A h \in Hashes : Parent[h] # NoHash => Depth[h] = Depth[Parent[h]] + 1

VARIABLES
  node,      \* "down", "saved_genesis" (inside ChainState::new) or "up"
  index,     \* block_index_map: the height recorded for each hash, or Absent
  tip,       \* current_tip
  dbHeader,  \* table block_headers: the height stored for each hash, or Absent
  dbTip,     \* the chain tip hash in chain_metadata
  op,        \* what each thread is doing
  crashes,   \* crashes so far
  resets     \* resets so far

vars == <<node, index, tip, dbHeader, dbTip, op, crashes, resets>>
database == <<dbHeader, dbTip>>
memory == <<index, tip>>
budget == <<crashes, resets>>

Absent == -1
Heights == Nat \cup {Absent}
NothingKnown == [h \in Hashes |-> Absent]

\* A BlockIndex as the tip refers to it: the Arc fixes its hash and height.
BlockIndex(h, n) == [hash |-> h, height |-> n]
NoTip == BlockIndex(NoHash, Absent)
GenesisIndex == BlockIndex(Genesis, 0)

AddSteps == {"parent", "load", "cache", "estimate", "save", "insert", "tip"}
ResetSteps == {"reset_index", "reset_genesis", "reset_dbtip", "reset_tip"}

Step(pc, h, n) == [pc |-> pc, hash |-> h, height |-> n]
Idle == Step("idle", NoHash, Absent)

Init ==
  /\ node = "down"
  /\ index = NothingKnown
  /\ tip = NoTip
  /\ dbHeader = NothingKnown
  /\ dbTip = NoHash
  /\ op = [t \in Threads |-> Idle]
  /\ crashes = 0
  /\ resets = 0

-------------------------------------------------------------------------------
(* ChainState::new *)

\* Mutant: start-up also insists on finding genesis in the database.
TipAndGenesisLoadable == dbTip # NoHash /\ dbHeader[dbTip] # Absent /\ dbHeader[Genesis] # Absent

TipIsLoadable == dbTip # NoHash /\ dbHeader[dbTip] # Absent

\* Mutant: start-up forgets the tip it has just loaded.
BootForgetsTip(genesisSaved) ==
  /\ node = "down"
  /\ TipIsLoadable
  /\ node' = "up"
  /\ tip' = GenesisIndex
  /\ index' = [NothingKnown EXCEPT ![Genesis] = 0]
  /\ UNCHANGED <<database, op, budget>>

\* The tip hash and its header load: the index starts with the tip and genesis.
\* genesisSaved says whether a missing genesis header could be written back.
BootFromTip(genesisSaved) ==
  /\ node = "down"
  /\ TipIsLoadable
  /\ node' = "up"
  /\ tip' = BlockIndex(dbTip, dbHeader[dbTip])
  /\ index' = [NothingKnown EXCEPT
                 ![Genesis] = IF dbHeader[Genesis] # Absent THEN dbHeader[Genesis] ELSE 0,
                 ![dbTip] = dbHeader[dbTip]]
  /\ dbHeader' = IF dbHeader[Genesis] = Absent /\ genesisSaved
                 THEN [dbHeader EXCEPT ![Genesis] = 0]
                 ELSE dbHeader
  /\ UNCHANGED <<dbTip, op, budget>>

\* No usable tip: start again from genesis, first its header, then the tip hash.
\* Both writes may fail; the failure is logged and start-up goes on.
BootSaveGenesis(genesisSaved) ==
  /\ node = "down"
  /\ node' = "saved_genesis"
  /\ dbHeader' = IF genesisSaved THEN [dbHeader EXCEPT ![Genesis] = 0] ELSE dbHeader
  /\ UNCHANGED <<memory, dbTip, op, budget>>

BootSetTip(tipSaved) ==
  /\ node = "saved_genesis"
  /\ node' = "up"
  /\ dbTip' = IF tipSaved THEN Genesis ELSE dbTip
  /\ index' = [NothingKnown EXCEPT ![Genesis] = 0]
  /\ tip' = GenesisIndex
  /\ UNCHANGED <<dbHeader, op, budget>>

\* The process dies: memory and threads are gone, the database stays.
Crash ==
  /\ node # "down"
  /\ crashes < MaxCrashes
  /\ node' = "down"
  /\ index' = NothingKnown
  /\ tip' = NoTip
  /\ op' = [t \in Threads |-> Idle]
  /\ crashes' = crashes + 1
  /\ UNCHANGED <<database, resets>>

-------------------------------------------------------------------------------
(* add_block_index *)

At(t, pc) == node = "up" /\ op[t].pc = pc
Become(t, pc, h, n) == op' = [op EXCEPT ![t] = Step(pc, h, n)]
Return(t) == op' = [op EXCEPT ![t] = Idle]

\* A header already in the index is returned at once; another goes on.
CheckKnown(t, h) ==
  /\ At(t, "idle")
  /\ index[h] = Absent
  /\ Become(t, "parent", h, Absent)
  /\ UNCHANGED <<node, memory, database, budget>>

ParentInIndex(t) ==
  LET p == Parent[op[t].hash] IN
  /\ At(t, "parent")
  /\ p # NoHash
  /\ index[p] # Absent
  /\ Become(t, "save", op[t].hash, index[p] + 1)
  /\ UNCHANGED <<node, memory, database, budget>>

ParentNotInIndex(t) ==
  LET p == Parent[op[t].hash] IN
  /\ At(t, "parent")
  /\ p # NoHash
  /\ index[p] = Absent
  /\ Become(t, "load", op[t].hash, Absent)
  /\ UNCHANGED <<node, memory, database, budget>>

\* Zero prev_block_hash: nothing to look up.
NoParent(t) ==
  /\ At(t, "parent")
  /\ Parent[op[t].hash] = NoHash
  /\ Become(t, "estimate", op[t].hash, Absent)
  /\ UNCHANGED <<node, memory, database, budget>>

\* Mutant: a missing row is read as a default instead of as unknown.
LoadParentOrDefault(t) ==
  /\ At(t, "load")
  /\ Become(t, "cache", op[t].hash, dbHeader[Parent[op[t].hash]] + 1)
  /\ UNCHANGED <<node, memory, database, budget>>

\* The index lock is released between reading the parent's row ...
LoadParent(t) ==
  LET p == Parent[op[t].hash] IN
  /\ At(t, "load")
  /\ dbHeader[p] # Absent
  /\ Become(t, "cache", op[t].hash, dbHeader[p] + 1)
  /\ UNCHANGED <<node, memory, database, budget>>

ParentUnknown(t) ==
  /\ At(t, "load")
  /\ dbHeader[Parent[op[t].hash]] = Absent
  /\ Become(t, "estimate", op[t].hash, Absent)
  /\ UNCHANGED <<node, memory, database, budget>>

\* Mutant: the parent is cached at its child's height.
CacheParentOneTooHigh(t) ==
  /\ At(t, "cache")
  /\ index' = [index EXCEPT ![Parent[op[t].hash]] = op[t].height]
  /\ Become(t, "save", op[t].hash, op[t].height)
  /\ UNCHANGED <<node, tip, database, budget>>

\* ... and putting that row into the index.
CacheParent(t) ==
  /\ At(t, "cache")
  /\ index' = [index EXCEPT ![Parent[op[t].hash]] = op[t].height - 1]
  /\ Become(t, "save", op[t].hash, op[t].height)
  /\ UNCHANGED <<node, tip, database, budget>>

\* No parent: the height is guessed from the tip, unless the header is genesis.
EstimateHeight(t) ==
  /\ At(t, "estimate")
  /\ Become(t, "save", op[t].hash,
            IF op[t].hash = Genesis THEN 0 ELSE tip.height + 1)
  /\ UNCHANGED <<node, memory, database, budget>>

SaveHeader(t) ==
  /\ At(t, "save")
  /\ dbHeader' = [dbHeader EXCEPT ![op[t].hash] = op[t].height]
  /\ Become(t, "insert", op[t].hash, op[t].height)
  /\ UNCHANGED <<node, memory, dbTip, budget>>

InsertIndex(t) ==
  /\ At(t, "insert")
  /\ index' = [index EXCEPT ![op[t].hash] = op[t].height]
  /\ Become(t, "tip", op[t].hash, op[t].height)
  /\ UNCHANGED <<node, tip, database, budget>>

\* Mutants: the comparison admits a tie; the tip hash is not written.
AdvanceTipOnTie(t, tipSaved) ==
  /\ At(t, "tip")
  /\ op[t].height >= tip.height
  /\ tip' = BlockIndex(op[t].hash, op[t].height)
  /\ dbTip' = IF tipSaved THEN op[t].hash ELSE dbTip
  /\ Return(t)
  /\ UNCHANGED <<node, index, dbHeader, budget>>

AdvanceTipInMemory(t, tipSaved) ==
  /\ At(t, "tip")
  /\ op[t].height > tip.height
  /\ tip' = BlockIndex(op[t].hash, op[t].height)
  /\ Return(t)
  /\ UNCHANGED <<node, index, database, budget>>

\* Strictly more work takes the tip.  The tip lock is held over the database
\* write, so both are one step; tipSaved says whether the write succeeded.
AdvanceTip(t, tipSaved) ==
  /\ At(t, "tip")
  /\ op[t].height > tip.height
  /\ tip' = BlockIndex(op[t].hash, op[t].height)
  /\ dbTip' = IF tipSaved THEN op[t].hash ELSE dbTip
  /\ Return(t)
  /\ UNCHANGED <<node, index, dbHeader, budget>>

\* Mutant: a header must be two above the tip to win.
KeepTipOffByOne(t) ==
  /\ At(t, "tip")
  /\ op[t].height <= tip.height + 1
  /\ Return(t)
  /\ UNCHANGED <<node, memory, database, budget>>

KeepTip(t) ==
  /\ At(t, "tip")
  /\ op[t].height <= tip.height
  /\ Return(t)
  /\ UNCHANGED <<node, memory, database, budget>>

\* Failed database calls: an unreadable parent counts as unknown, and a header
\* that cannot be saved is given up.
LoadParentFails(t) ==
  /\ At(t, "load")
  /\ Become(t, "estimate", op[t].hash, Absent)
  /\ UNCHANGED <<node, memory, database, budget>>

\* Mutant: the failure is logged, and the call goes on as if it had not happened.
SaveHeaderFailsUnnoticed(t) ==
  /\ At(t, "save")
  /\ Become(t, "insert", op[t].hash, op[t].height)
  /\ UNCHANGED <<node, memory, database, budget>>

SaveHeaderFails(t) ==
  /\ At(t, "save")
  /\ Return(t)
  /\ UNCHANGED <<node, memory, database, budget>>

-------------------------------------------------------------------------------
(* reset, behind POST /api/v1/reset-sync *)

\* storage.reset swaps in an empty database.
ResetDatabase(t) ==
  /\ At(t, "idle")
  /\ resets < MaxResets
  /\ resets' = resets + 1
  /\ dbHeader' = NothingKnown
  /\ dbTip' = NoHash
  /\ Become(t, "reset_index", NoHash, Absent)
  /\ UNCHANGED <<node, memory, crashes>>

\* Mutant: the index is cleared and genesis not put back.
ResetIndexToNothing(t) ==
  /\ At(t, "reset_index")
  /\ index' = NothingKnown
  /\ Become(t, "reset_genesis", NoHash, Absent)
  /\ UNCHANGED <<node, tip, database, budget>>

ResetIndex(t) ==
  /\ At(t, "reset_index")
  /\ index' = [NothingKnown EXCEPT ![Genesis] = 0]
  /\ Become(t, "reset_genesis", NoHash, Absent)
  /\ UNCHANGED <<node, tip, database, budget>>

ResetSaveGenesis(t, genesisSaved) ==
  /\ At(t, "reset_genesis")
  /\ dbHeader' = IF genesisSaved THEN [dbHeader EXCEPT ![Genesis] = 0] ELSE dbHeader
  /\ Become(t, "reset_dbtip", NoHash, Absent)
  /\ UNCHANGED <<node, memory, dbTip, budget>>

ResetSetTipHash(t, tipSaved) ==
  /\ At(t, "reset_dbtip")
  /\ dbTip' = IF tipSaved THEN Genesis ELSE dbTip
  /\ Become(t, "reset_tip", NoHash, Absent)
  /\ UNCHANGED <<node, memory, dbHeader, budget>>

\* The tip lock is taken only here, after everything else was reset.
ResetTip(t) ==
  /\ At(t, "reset_tip")
  /\ tip' = GenesisIndex
  /\ Return(t)
  /\ UNCHANGED <<node, index, database, budget>>

-------------------------------------------------------------------------------
(* Environments *)

\* Every read and write of the database succeeds.
Boot ==
  \/ BootFromTip(TRUE)
  \/ ~TipIsLoadable /\ BootSaveGenesis(TRUE)
  \/ BootSetTip(TRUE)

Progress(t) ==
  \/ ParentInIndex(t) \/ ParentNotInIndex(t) \/ NoParent(t)
  \/ LoadParent(t) \/ ParentUnknown(t) \/ CacheParent(t) \/ EstimateHeight(t)
  \/ SaveHeader(t) \/ InsertIndex(t) \/ AdvanceTip(t, TRUE) \/ KeepTip(t)

Reset(t) ==
  \/ ResetDatabase(t) \/ ResetIndex(t) \/ ResetSaveGenesis(t, TRUE)
  \/ ResetSetTipHash(t, TRUE) \/ ResetTip(t)

\* A failed write; a failed read of a row that is there.
WriteFault ==
  \/ BootFromTip(FALSE)
  \/ ~TipIsLoadable /\ BootSaveGenesis(FALSE)
  \/ BootSetTip(FALSE)
  \/ \E t \in Threads : SaveHeaderFails(t) \/ AdvanceTip(t, FALSE)

ResetFault(t) == ResetSaveGenesis(t, FALSE) \/ ResetSetTipHash(t, FALSE)

ReadFault ==
  \/ TipIsLoadable /\ BootSaveGenesis(TRUE)
  \/ \E t \in Threads : LoadParentFails(t)

\* Headers reach add_block_index in any order: HEADERS of several sessions,
\* blocks pushed on announcement, blocks out of the workers' queue.
AnyOrder(t) == \E h \in Hashes : CheckKnown(t, h)

\* Headers reach it parent first, as in the answer to one GETHEADERS.
Known(h) == h # NoHash /\ (index[h] # Absent \/ dbHeader[h] # Absent)
ParentFirst(t) == \E h \in Hashes : Known(Parent[h]) /\ CheckKnown(t, h)

Next == Boot \/ Crash \/ \E t \in Threads : AnyOrder(t) \/ Progress(t)

InOrderNext ==
  Boot \/ Crash \/ WriteFault \/ \E t \in Threads : ParentFirst(t) \/ Progress(t)

ResettableNext == Next \/ \E t \in Threads : Reset(t)

FaultyNext ==
  ResettableNext \/ WriteFault \/ ReadFault \/ \E t \in Threads : ResetFault(t)

Spec == Init /\ [][Next]_vars
InOrderSpec == Init /\ [][InOrderNext]_vars
ResettableSpec == Init /\ [][ResettableNext]_vars
FaultySpec == Init /\ [][FaultyNext]_vars

\* The operating system runs every thread (no lock is held across a wait), and the process is started again.
Fairness == WF_vars(Boot) /\ \A t \in Threads : WF_vars(Progress(t))
FairSpec == Spec /\ Fairness

-------------------------------------------------------------------------------
(* Properties *)

Operations ==
  [pc : {"idle"} \cup AddSteps \cup ResetSteps,
   hash : Hashes \cup {NoHash}, height : Heights]

\* Every piece of state has its type, and a step that needs a height has one.
TypeOK ==
  /\ node \in {"down", "saved_genesis", "up"}
  /\ index \in [Hashes -> Heights]
  /\ tip \in [hash : Hashes \cup {NoHash}, height : Heights]
  /\ dbHeader \in [Hashes -> Heights]
  /\ dbTip \in Hashes \cup {NoHash}
  /\ op \in [Threads -> Operations]
  /\ crashes \in 0..MaxCrashes
  /\ resets \in 0..MaxResets
  /\ \A t \in Threads :
       /\ op[t].pc \in AddSteps => op[t].hash \in Hashes
       /\ op[t].pc \in {"load", "cache"} => Parent[op[t].hash] \in Hashes
       /\ op[t].pc \in {"save", "insert", "tip"} => op[t].height \in Nat
       /\ op[t].pc = "cache" => op[t].height \in Nat \ {0}

\* A header heavier than the tip is in the index only while some thread is
\* still carrying a height at least as large to the comparison with the tip:
\* when all calls of add_block_index have returned, the tip is the best header.
Carries(t, n) == op[t].pc \in {"save", "insert", "tip"} /\ op[t].height >= n
TipIsBest ==
  \A h \in Hashes : index[h] > tip.height => \E t \in Threads : Carries(t, index[h])

\* The tip hash is written before the tip lock is released, so that a node
\* killed at any moment resumes from the tip its peers and API last saw.
TipIsPersisted == node = "up" => dbTip = tip.hash

\* What the index holds has been saved before, until a reset: get_block_locator
\* and a restart find every indexed header in the database, although reads and
\* writes fail (the header of genesis may fail to be saved).
IndexIsDurable ==
  resets = 0 => \A h \in Hashes \ {Genesis} : index[h] # Absent => dbHeader[h] # Absent

\* The database never names a tip whose header it lacks, until a reset: a restart
\* does not fall back to genesis once there was a better tip.
DbTipHasHeader == resets = 0 => dbTip \in {NoHash, Genesis} \/ dbHeader[dbTip] # Absent

\* While the process runs the tip moves to a strictly greater height, whatever
\* the order in which threads reach the comparison; only a reset makes it fall,
\* and then to genesis itself.
TipFallsOnlyByReset ==
  [][node = "up" /\ node' = "up" =>
       \/ tip' = tip
       \/ tip'.height > tip.height
       \/ resets > 0 /\ tip' = GenesisIndex]_vars

\* With headers delivered parent first, every recorded height is the block's position,
\* and every stored header is connected to genesis through stored headers, so that a
\* tip found at a restart has its whole chain, also after crashes and failed writes.
HeightsAreDepths ==
  /\ \A h \in Hashes : index[h] \in {Absent, Depth[h]} /\ dbHeader[h] \in {Absent, Depth[h]}
  /\ tip # NoTip => tip.height = Depth[tip.hash]

ParentIsStored(h) ==
  Parent[h] = Genesis \/ (Parent[h] \in Hashes /\ dbHeader[Parent[h]] # Absent)

HeightIsPosition ==
  /\ HeightsAreDepths
  /\ \A h \in Hashes \ {Genesis} : dbHeader[h] # Absent => ParentIsStored(h)

\* The durable tip never falls back, across crashes, restarts and failed writes.
DurableTipOnlyGrows ==
  [][dbTip # NoHash => dbTip' # NoHash /\ (dbTip' = dbTip \/ Depth[dbTip'] > Depth[dbTip])]_dbTip

\* Delivered parent first, the node implements the tip register: readers of
\* get_tip see a register that only grows and that a restart resumes.
Register ==
  INSTANCE TipRegister
  WITH Blocks <- Hashes, Root <- Genesis, None <- NoTip,
       running <- (node = "up"), best <- tip,
       durable <- IF dbTip = NoHash THEN NoTip ELSE BlockIndex(dbTip, Depth[dbTip])
ImplementsRegister == Register!Spec

\* A running node always has genesis in its index, whatever resets and loads of
\* parents interleave: get_block_locator can then always end in genesis.
GenesisIsIndexed == node = "up" => index[Genesis] = 0

\* In the end the node is up and no indexed header beats the tip.
TipConverges == <>[](node = "up" /\ \A h \in Hashes : index[h] <= tip.height)

===============================================================================
