-------------------------- MODULE BlockIngestProofs ---------------------------
(***************************************************************************)
(* Theorems of OrphanManager and BlockIngest, for every set of workers,    *)
(* sessions and hashes, every parent function and every limit of the pool. *)
(*                                                                         *)
(* Under FaultySpec: types, the bound of the pool, that only connected     *)
(* blocks are saved, and the counters.  Under Spec, where no call to the   *)
(* database fails: that a parked orphan can be found again and that memory *)
(* never holds the only copy of a block.                                   *)
(***************************************************************************)
EXTENDS BlockIngest, FiniteSetTheorems, TLAPS

Jobs == [pc : Steps, hash : Hashes \cup {NoHash}, frontier : Seq(Hashes), batch : SUBSET Hashes]

SessionJobs == [pc : {"read", "queue", "save", "index"}, hash : Hashes \cup {NoHash}]

Typed ==
  /\ OrphanTypeOK
  /\ queue \in Seq(Hashes)
  /\ session \in [Sessions -> SessionJobs]
  /\ \A s \in Sessions : session[s].pc # "read" => session[s].hash \in Hashes
  /\ received \in Nat /\ processed \in Nat

\* A step of worker w that leaves it with this job, and the others alone.
Moves(w, pc, h, frontier, batch) ==
  /\ worker' \in [Workers -> Jobs]
  /\ \A v \in Workers : v # w => worker'[v] = worker[v]
  /\ worker'[w].pc = pc /\ worker'[w].hash = h
  /\ worker'[w].frontier = frontier /\ worker'[w].batch = batch

Freed(w) == Moves(w, "idle", NoHash, <<>>, {})
Keeps(w, pc) == Moves(w, pc, worker[w].hash, worker[w].frontier, worker[w].batch)

-------------------------------------------------------------------------------
(* What the steps of a worker do to its job *)

LEMMA JobType ==
  ASSUME Typed, NEW w \in Workers
  PROVE  /\ worker \in [Workers -> Jobs] /\ worker[w] \in Jobs
         /\ worker[w].pc \in Steps /\ worker[w].hash \in Hashes \cup {NoHash}
         /\ worker[w].frontier \in Seq(Hashes) /\ worker[w].batch \subseteq Hashes
BY DEF Typed, OrphanTypeOK, Jobs

LEMMA BecomesMoves ==
  ASSUME Typed, NEW w \in Workers, NEW job \in Jobs, worker' = [worker EXCEPT ![w] = job]
  PROVE  Moves(w, job.pc, job.hash, job.frontier, job.batch)
<1>1. worker' \in [Workers -> Jobs] /\ worker'[w] = job
  BY JobType
<1> QED
  BY <1>1, JobType DEF Moves

LEMMA DoneFrees ==
  ASSUME Typed, NEW w \in Workers, Done(w)
  PROVE  Freed(w)
<1>1. Free \in Jobs /\ Free = [pc |-> "idle", hash |-> NoHash, frontier |-> <<>>, batch |-> {}]
  BY DEF Free, Job, Jobs, Steps
<1> QED
  BY <1>1, BecomesMoves DEF Done, Freed

LEMMA GotoKeeps ==
  ASSUME Typed, NEW w \in Workers, NEW pc \in Steps, Goto(w, pc)
  PROVE  Keeps(w, pc)
<1> DEFINE job == [worker[w] EXCEPT !.pc = pc]
<1>1. job \in Jobs /\ worker' = [worker EXCEPT ![w] = job]
  BY JobType DEF Jobs, Goto
<1>2. /\ job.pc = pc /\ job.hash = worker[w].hash
      /\ job.frontier = worker[w].frontier /\ job.batch = worker[w].batch
  BY JobType DEF Jobs
<1> QED
  BY <1>1, <1>2, BecomesMoves DEF Keeps

LEMMA DescendantsMove ==
  ASSUME Typed, NEW w \in Workers, worker[w].hash \in Hashes, ToDescendants(w)
  PROVE  Moves(w, "release", worker[w].hash, Append(worker[w].frontier, worker[w].hash), worker[w].batch)
<1> DEFINE job == [worker[w] EXCEPT !.pc = "release", !.frontier = Append(@, worker[w].hash)]
<1>1. Append(worker[w].frontier, worker[w].hash) \in Seq(Hashes)
  BY JobType
<1>2. job \in Jobs /\ worker' = [worker EXCEPT ![w] = job]
  BY <1>1, JobType DEF Jobs, ToDescendants, Steps
<1>3. /\ job.pc = "release" /\ job.hash = worker[w].hash /\ job.batch = worker[w].batch
      /\ job.frontier = Append(worker[w].frontier, worker[w].hash)
  BY JobType DEF Jobs
<1> QED
  BY <1>2, <1>3, BecomesMoves

LEMMA NextParentMoves ==
  ASSUME Typed, NEW w \in Workers, NextParent(w)
  PROVE  LET p == Head(worker[w].frontier) IN
         /\ p \in Hashes /\ worker[w].batch = {}
         /\ Moves(w, "release", worker[w].hash, Tail(worker[w].frontier), waiting[p])
         /\ waiting' = [waiting EXCEPT ![p] = {}]
         /\ UNCHANGED <<stored, headers, orphans>>
<1> DEFINE p == Head(worker[w].frontier)
           job == [worker[w] EXCEPT !.batch = waiting[p], !.frontier = Tail(@)]
<1>1. worker[w].pc = "release" /\ worker[w].batch = {} /\ worker[w].frontier # <<>>
  BY DEF NextParent, At
<1>2. p \in Hashes /\ Tail(worker[w].frontier) \in Seq(Hashes)
  BY <1>1, JobType
<1>3. waiting[p] \subseteq Hashes
  BY <1>2 DEF Typed, OrphanTypeOK
<1>4. job \in Jobs /\ worker' = [worker EXCEPT ![w] = job]
  BY <1>2, <1>3, JobType DEF Jobs, NextParent
<1>5. /\ job.pc = "release" /\ job.hash = worker[w].hash /\ job.batch = waiting[p]
      /\ job.frontier = Tail(worker[w].frontier)
  BY <1>1, JobType DEF Jobs
<1> QED
  BY <1>1, <1>2, <1>4, <1>5, BecomesMoves DEF NextParent

\* The child released is c: it is processed if the pool still holds it.
LEMMA ReleaseMoves ==
  ASSUME Typed, NEW w \in Workers, ReleaseChild(w)
  PROVE  /\ worker[w].pc = "release" /\ UNCHANGED <<stored, headers, waiting>>
         /\ \E c \in worker[w].batch :
              /\ c \in Hashes /\ orphans' = orphans \ {c}
              /\ \/ c \in orphans /\ Moves(w, "save", c, worker[w].frontier, worker[w].batch \ {c})
                 \/ c \notin orphans /\ Moves(w, "release", worker[w].hash, worker[w].frontier, worker[w].batch \ {c})
<1>1. worker[w].pc = "release" /\ UNCHANGED <<stored, headers, waiting>>
  BY DEF ReleaseChild, At
<1>2. PICK c \in worker[w].batch :
        /\ worker' = [worker EXCEPT ![w].batch = @ \ {c},
                                    ![w].hash = IF c \in orphans THEN c ELSE @,
                                    ![w].pc = IF c \in orphans THEN "save" ELSE @]
        /\ orphans' = orphans \ {c}
  BY DEF ReleaseChild
<1>3. c \in Hashes /\ worker[w].batch \ {c} \subseteq Hashes
  BY JobType
<1> DEFINE taken == [worker[w] EXCEPT !.batch = @ \ {c}, !.hash = c, !.pc = "save"]
           gone == [worker[w] EXCEPT !.batch = @ \ {c}, !.hash = worker[w].hash, !.pc = worker[w].pc]
<1>4. CASE c \in orphans
  <2>1. taken \in Jobs /\ worker' = [worker EXCEPT ![w] = taken]
    BY <1>2, <1>3, <1>4, JobType DEF Jobs, Steps
  <2>2. /\ taken.pc = "save" /\ taken.hash = c /\ taken.batch = worker[w].batch \ {c}
        /\ taken.frontier = worker[w].frontier
    BY JobType DEF Jobs
  <2> HIDE DEF taken
  <2>3. Moves(w, taken.pc, taken.hash, taken.frontier, taken.batch)
    BY <2>1, BecomesMoves
  <2> QED
    BY <1>1, <1>2, <1>3, <1>4, <2>2, <2>3
<1>5. CASE c \notin orphans
  <2>1. gone.pc = worker[w].pc /\ gone.hash = worker[w].hash /\ gone.frontier = worker[w].frontier
    BY JobType DEF Jobs
  <2>2. gone.batch = worker[w].batch \ {c}
    BY JobType DEF Jobs
  <2>3. gone \in Jobs
    BY <1>3, JobType DEF Jobs
  <2>4. worker' = [worker EXCEPT ![w].batch = @ \ {c}, ![w].hash = @, ![w].pc = @]
    BY <1>2, <1>5
  <2>5. worker' = [worker EXCEPT ![w] = gone]
    BY <2>4, JobType DEF Jobs
  <2> HIDE DEF gone
  <2>6. Moves(w, gone.pc, gone.hash, gone.frontier, gone.batch)
    BY <2>3, <2>5, BecomesMoves
  <2> QED
    BY <1>1, <1>2, <1>3, <1>5, <2>1, <2>2, <2>6
<1> QED
  BY <1>4, <1>5

-------------------------------------------------------------------------------
(* Types, with every fault *)

Searching == {"has_block", "parent_block", "parent_header"}

\* What the steps that only look something up do, failed lookups included.
Looks(w) ==
  /\ worker[w].pc \in Searching /\ UNCHANGED <<stored, headers, pool>>
  /\ \/ Freed(w) /\ worker[w].hash \in stored
     \/ \E pc \in {"parent_block", "parent_header", "park"} : Keeps(w, pc)
     \/ Keeps(w, "save") /\ Parent[worker[w].hash] \in stored \cup headers

LEMMA LookupMoves ==
  ASSUME Typed, NEW w \in Workers,
         HasBlock(w) \/ ParentBlock(w) \/ ParentHeader(w) \/ LookupFails(w)
  PROVE  Looks(w)
<1>1. worker[w].pc \in Searching /\ UNCHANGED <<stored, headers, pool>>
  BY DEF HasBlock, ParentBlock, ParentHeader, LookupFails, At, Searching
<1>2. {"parent_block", "parent_header", "park", "save"} \subseteq Steps
  BY DEF Steps
<1>3. CASE HasBlock(w)
  BY <1>1, <1>2, <1>3, DoneFrees, GotoKeeps DEF HasBlock, Looks
<1>4. CASE ParentBlock(w)
  <2>1. CASE Parent[worker[w].hash] \in stored
    BY <1>1, <1>2, <1>4, <2>1, GotoKeeps DEF ParentBlock, Looks
  <2>2. CASE Parent[worker[w].hash] \notin stored
    BY <1>1, <1>2, <1>4, <2>2, GotoKeeps DEF ParentBlock, Looks
  <2> QED
    BY <2>1, <2>2
<1>5. CASE ParentHeader(w)
  <2>1. CASE Parent[worker[w].hash] \in headers
    BY <1>1, <1>2, <1>5, <2>1, GotoKeeps DEF ParentHeader, Looks
  <2>2. CASE Parent[worker[w].hash] \notin headers
    BY <1>1, <1>2, <1>5, <2>2, GotoKeeps DEF ParentHeader, Looks
  <2> QED
    BY <2>1, <2>2
<1>6. CASE LookupFails(w)
  <2>1. PICK pc \in {"parent_block", "parent_header", "park"} : Goto(w, pc)
    BY <1>6 DEF LookupFails
  <2> QED
    BY <1>1, <1>2, <2>1, GotoKeeps DEF Looks
<1> QED
  BY <1>3, <1>4, <1>5, <1>6

\* What the other steps of a worker do.
Parks(w) ==
  LET h == worker[w].hash IN
  /\ worker[w].pc = "park" /\ h \in Hashes /\ Freed(w) /\ UNCHANGED <<stored, headers>>
  /\ IF Cardinality(orphans) >= MaxOrphans THEN UNCHANGED pool
     ELSE /\ orphans' = orphans \cup {h}
          /\ waiting' = [waiting EXCEPT ![Parent[h]] = @ \cup {h}]

Saves(w) ==
  /\ worker[w].pc = "save" /\ worker[w].hash \in Hashes
  /\ Keeps(w, "index") /\ stored' = stored \cup {worker[w].hash} /\ UNCHANGED <<headers, pool>>

SaveGivenUp(w) ==
  /\ worker[w].pc = "save" /\ worker[w].hash \in Hashes
  /\ Freed(w) /\ stored' \in {stored, stored \cup {worker[w].hash}} /\ UNCHANGED <<headers, pool>>

Indexes(w) ==
  /\ worker[w].pc = "index" /\ worker[w].hash \in Hashes
  /\ Moves(w, "release", worker[w].hash, Append(worker[w].frontier, worker[w].hash), worker[w].batch)
  /\ headers' \in {headers, headers \cup {worker[w].hash}} /\ UNCHANGED <<stored, pool>>

TakesChildren(w) ==
  LET p == Head(worker[w].frontier) IN
  /\ worker[w].pc = "release" /\ p \in Hashes /\ worker[w].batch = {} /\ worker[w].frontier # <<>>
  /\ Moves(w, "release", worker[w].hash, Tail(worker[w].frontier), waiting[p])
  /\ waiting' = [waiting EXCEPT ![p] = {}]
  /\ UNCHANGED <<stored, headers, orphans>>

Releases(w) ==
  /\ worker[w].pc = "release" /\ UNCHANGED <<stored, headers, waiting>>
  /\ \E c \in worker[w].batch :
       /\ c \in Hashes /\ orphans' = orphans \ {c}
       /\ \/ c \in orphans /\ Moves(w, "save", c, worker[w].frontier, worker[w].batch \ {c})
          \/ c \notin orphans /\ Moves(w, "release", worker[w].hash, worker[w].frontier, worker[w].batch \ {c})

Returns(w) ==
  /\ worker[w].pc = "release" /\ worker[w].batch = {} /\ Freed(w)
  /\ UNCHANGED <<stored, headers, pool>>

\* Among them are the steps that no fault of the database is needed for.
SoundStep(w) ==
  \/ Looks(w) \/ Parks(w) \/ Saves(w) \/ Indexes(w)
  \/ TakesChildren(w) \/ Releases(w) \/ Returns(w)

LEMMA BusyHash ==
  ASSUME Typed, NEW w \in Workers, worker[w].pc # "idle"
  PROVE  worker[w].hash \in Hashes
BY DEF Typed, OrphanTypeOK

LEMMA WorkIsSound ==
  ASSUME Typed, NEW w \in Workers, Work(w)
  PROVE  SoundStep(w)
<1>1. CASE HasBlock(w) \/ ParentBlock(w) \/ ParentHeader(w)
  BY <1>1, LookupMoves DEF SoundStep
<1>2. CASE Park(w)
  BY <1>2, BusyHash, DoneFrees DEF Park, At, SoundStep, Parks
<1>3. CASE SaveBlock(w)
  BY <1>3, BusyHash, GotoKeeps DEF SaveBlock, At, SoundStep, Saves, Steps
<1>4. CASE IndexBlock(w)
  BY <1>4, BusyHash, DescendantsMove DEF IndexBlock, At, SoundStep, Indexes
<1>5. CASE NextParent(w)
  BY <1>5, NextParentMoves DEF NextParent, At, SoundStep, TakesChildren
<1>6. CASE ReleaseChild(w)
  BY <1>6, ReleaseMoves DEF SoundStep, Releases
<1>7. CASE DescendantsDone(w)
  BY <1>7, DoneFrees DEF DescendantsDone, At, SoundStep, Returns
<1> QED
  BY <1>1, <1>2, <1>3, <1>4, <1>5, <1>6, <1>7 DEF Work

LEMMA FaultIsSound ==
  ASSUME Typed, NEW w \in Workers, Fault(w)
  PROVE  SoundStep(w) \/ SaveGivenUp(w)
<1>1. CASE LookupFails(w)
  BY <1>1, LookupMoves DEF SoundStep
<1>2. CASE SaveBlockFails(w)
  BY <1>2, BusyHash, DoneFrees DEF SaveBlockFails, At, SaveGivenUp
<1>3. CASE IndexFails(w)
  BY <1>3, BusyHash, DescendantsMove DEF IndexFails, At, SoundStep, Indexes
<1> QED
  BY <1>1, <1>2, <1>3 DEF Fault

\* The job of a worker that takes a block from the queue.
LEMMA TakeMoves ==
  ASSUME Typed, NEW w \in Workers, TakeBlock(w)
  PROVE  /\ worker[w].pc = "idle" /\ queue # <<>> /\ Head(queue) \in Hashes
         /\ Moves(w, "has_block", Head(queue), <<>>, {})
         /\ queue' = Tail(queue) /\ UNCHANGED <<stored, headers, pool, session, counters>>
<1> DEFINE job == [pc |-> "has_block", hash |-> Head(queue), frontier |-> <<>>, batch |-> {}]
<1>1. queue # <<>> /\ Head(queue) \in Hashes
  BY DEF TakeBlock, Typed
<1>2. job \in Jobs /\ worker' = [worker EXCEPT ![w] = job]
  BY <1>1 DEF TakeBlock, AddBlock, Job, Jobs, Steps
<1>3. Moves(w, "has_block", Head(queue), <<>>, {})
  BY <1>2, BecomesMoves
<1> QED
  BY <1>1, <1>3 DEF TakeBlock, AddBlock, At

-------------------------------------------------------------------------------
(* Types *)

PoolTyped ==
  /\ stored \subseteq Hashes /\ headers \subseteq Hashes /\ orphans \subseteq Hashes
  /\ waiting \in [Hashes \cup {NoHash} -> SUBSET Hashes]

WorkersTyped ==
  /\ worker \in [Workers -> Jobs]
  /\ \A w \in Workers : worker[w].pc # "idle" => worker[w].hash \in Hashes

LEMMA MovesTyped ==
  ASSUME Typed, NEW w \in Workers, NEW pc, NEW h, NEW f, NEW b, Moves(w, pc, h, f, b),
         pc = "idle" \/ h \in Hashes
  PROVE  WorkersTyped'
BY DEF Moves, WorkersTyped, Typed, OrphanTypeOK

LEMMA SoundTyped ==
  ASSUME Typed, NEW w \in Workers, SoundStep(w) \/ SaveGivenUp(w)
  PROVE  PoolTyped' /\ WorkersTyped'
<1>1. PoolTyped
  BY DEF Typed, OrphanTypeOK, PoolTyped
<1>2. CASE Looks(w)
  <2>1. worker[w].hash \in Hashes
    BY <1>2, BusyHash DEF Looks, Searching
  <2> QED
    BY <1>1, <1>2, <2>1, MovesTyped DEF Looks, Freed, Keeps, PoolTyped, pool
<1>3. CASE Parks(w)
  <2> DEFINE h == worker[w].hash
  <2>1. h \in Hashes /\ Parent[h] \in Hashes \cup {NoHash}
    BY <1>3, OrphanConstants DEF Parks
  <2>2. PoolTyped'
    BY <1>1, <1>3, <2>1 DEF Parks, PoolTyped, pool
  <2> QED
    BY <1>3, <2>2, MovesTyped DEF Parks, Freed
<1>4. CASE Saves(w)
  BY <1>1, <1>4, MovesTyped DEF Saves, Keeps, PoolTyped, pool
<1>5. CASE Indexes(w)
  BY <1>1, <1>5, MovesTyped DEF Indexes, PoolTyped, pool
<1>6. CASE TakesChildren(w)
  <2>1. worker[w].hash \in Hashes
    BY <1>6, BusyHash DEF TakesChildren
  <2> QED
    BY <1>1, <1>6, <2>1, MovesTyped DEF TakesChildren, PoolTyped
<1>7. CASE Releases(w)
  <2>1. worker[w].hash \in Hashes
    BY <1>7, BusyHash DEF Releases
  <2> QED
    BY <1>1, <1>7, <2>1, MovesTyped DEF Releases, PoolTyped
<1>8. CASE Returns(w)
  BY <1>1, <1>8, MovesTyped DEF Returns, Freed, PoolTyped, pool
<1>9. CASE SaveGivenUp(w)
  BY <1>1, <1>9, MovesTyped DEF SaveGivenUp, Freed, PoolTyped, pool
<1> QED
  BY <1>2, <1>3, <1>4, <1>5, <1>6, <1>7, <1>8, <1>9 DEF SoundStep

\* A session in step with its types is in one of four places.
SessionsTyped ==
  /\ session \in [Sessions -> SessionJobs]
  /\ \A s \in Sessions : session[s].pc # "read" => session[s].hash \in Hashes

LEMMA TypedParts == Typed <=> /\ PoolTyped /\ WorkersTyped /\ SessionsTyped
                             /\ queue \in Seq(Hashes) /\ received \in Nat /\ processed \in Nat
BY DEF Typed, OrphanTypeOK, PoolTyped, WorkersTyped, SessionsTyped, Jobs

SessionActs(s) == Receive(s) \/ SessionStep(s) \/ SessionSaveFails(s) \/ SessionIndexFails(s)

\* A session adds to the tables and to the end of the queue, and takes nothing.
LEMMA SessionAdds ==
  ASSUME Typed, NEW s \in Sessions, SessionActs(s)
  PROVE  /\ stored \subseteq stored' /\ headers \subseteq headers' /\ processed' = processed
         /\ UNCHANGED <<pool, worker>>
         /\ received' \in {received, received + 1}
         /\ queue' = queue \/ \E h \in Hashes : queue' = Append(queue, h)
<1>1. ASSUME NEW h \in Hashes, ReceiveHeader(s, h) \/ ReceiveBlock(s, h)
      PROVE  /\ stored \subseteq stored' /\ headers \subseteq headers' /\ processed' = processed
             /\ UNCHANGED <<pool, worker, queue>>
             /\ received' \in {received, received + 1}
  BY <1>1 DEF ReceiveHeader, ReceiveBlock, orphanVars, pool
<1>2. CASE SessionQueue(s)
  <2>1. session[s].hash \in Hashes
    BY <1>2 DEF SessionQueue, Typed
  <2> QED
    BY <1>2, <2>1 DEF SessionQueue, orphanVars, pool, counters
<1>3. CASE SessionSave(s) \/ SessionIndex(s) \/ SessionSaveFails(s) \/ SessionIndexFails(s)
  BY <1>3 DEF SessionSave, SessionIndex, SessionSaveFails, SessionIndexFails, orphanVars, pool, counters
<1> QED
  BY <1>1, <1>2, <1>3 DEF SessionActs, SessionStep, Receive

LEMMA SessionTyped ==
  ASSUME Typed, NEW s \in Sessions, SessionActs(s)
  PROVE  Typed'
<1>1. /\ PoolTyped /\ WorkersTyped /\ SessionsTyped
      /\ queue \in Seq(Hashes) /\ received \in Nat /\ processed \in Nat
  BY TypedParts
<1>2. /\ WorkersTyped' /\ queue' \in Seq(Hashes) /\ received' \in Nat /\ processed' \in Nat
  BY <1>1, SessionAdds DEF WorkersTyped
<1>3. Reading \in SessionJobs /\ Reading.pc = "read"
  BY DEF Reading, SessionJobs
<1>4. ASSUME NEW h \in Hashes, ReceiveHeader(s, h) \/ ReceiveBlock(s, h)
      PROVE  PoolTyped' /\ SessionsTyped'
  <2>1. CASE ReceiveHeader(s, h)
    BY <1>1, <2>1 DEF ReceiveHeader, PoolTyped, SessionsTyped, pool
  <2>2. CASE ReceiveBlock(s, h)
    <3>1. [pc |-> "queue", hash |-> h] \in SessionJobs
      BY DEF SessionJobs
    <3> QED
      BY <1>1, <2>2, <3>1 DEF ReceiveBlock, PoolTyped, SessionsTyped, orphanVars
  <2> QED
    BY <1>4, <2>1, <2>2
<1>5. ASSUME NEW pc \in {"save", "index"}, Step(s, pc), session[s].pc # "read"
      PROVE  SessionsTyped'
  <2>1. session[s] \in SessionJobs /\ session' = [session EXCEPT ![s].pc = pc]
    BY <1>1, <1>5 DEF SessionsTyped, Step
  <2>2. [session[s] EXCEPT !.pc = pc] \in SessionJobs /\ [session[s] EXCEPT !.pc = pc].hash = session[s].hash
    BY <2>1 DEF SessionJobs
  <2> QED
    BY <1>1, <1>5, <2>1, <2>2 DEF SessionsTyped
<1>6. ASSUME ReadNext(s)
      PROVE  SessionsTyped'
  BY <1>1, <1>3, <1>6 DEF SessionsTyped, ReadNext
<1>7. ASSUME SessionStep(s) \/ SessionSaveFails(s) \/ SessionIndexFails(s)
      PROVE  PoolTyped' /\ SessionsTyped'
  <2>1. session[s].pc # "read"
    BY <1>7 DEF SessionStep, SessionQueue, SessionSave, SessionIndex, SessionSaveFails, SessionIndexFails
  <2>2. session[s].hash \in Hashes
    BY <1>1, <2>1 DEF SessionsTyped
  <2>3. PoolTyped'
    BY <1>1, <1>7, <2>2 DEF SessionStep, SessionQueue, SessionSave, SessionIndex, SessionSaveFails, SessionIndexFails,
                            PoolTyped, pool, orphanVars
  <2>4. SessionsTyped'
    BY <1>5, <1>6, <1>7, <2>1
       DEF SessionStep, SessionQueue, SessionSave, SessionIndex, SessionSaveFails, SessionIndexFails
  <2> QED
    BY <2>3, <2>4
<1>8. PoolTyped' /\ SessionsTyped'
  BY <1>4, <1>7 DEF SessionActs, Receive
<1>9. Typed' <=> /\ PoolTyped' /\ WorkersTyped' /\ SessionsTyped'
                 /\ queue' \in Seq(Hashes) /\ received' \in Nat /\ processed' \in Nat
  BY DEF Typed, OrphanTypeOK, PoolTyped, WorkersTyped, SessionsTyped, Jobs
<1> QED
  BY <1>2, <1>8, <1>9

LEMMA WorkerTyped ==
  ASSUME Typed, NEW w \in Workers, TakeBlock(w) \/ WorkStep(w) \/ WorkFault(w)
  PROVE  Typed'
<1>1. /\ PoolTyped /\ WorkersTyped /\ SessionsTyped
      /\ queue \in Seq(Hashes) /\ received \in Nat /\ processed \in Nat
  BY TypedParts
<1>2. CASE TakeBlock(w)
  <2>1. PoolTyped' /\ WorkersTyped'
    BY <1>1, <1>2, TakeMoves, MovesTyped DEF PoolTyped, pool
  <2>2. queue' \in Seq(Hashes)
    BY <1>1, <1>2, TakeMoves
  <2> QED
    BY <1>1, <1>2, <2>1, <2>2, TakeMoves
       DEF Typed, OrphanTypeOK, PoolTyped, WorkersTyped, SessionsTyped, Jobs, counters
<1>3. CASE WorkStep(w) \/ WorkFault(w)
  <2>1. PoolTyped' /\ WorkersTyped'
    BY <1>3, WorkIsSound, FaultIsSound, SoundTyped DEF WorkStep, WorkFault
  <2>2. UNCHANGED <<queue, session, received>> /\ processed' \in Nat
    BY <1>1, <1>3 DEF WorkStep, WorkFault, counters
  <2> QED
    BY <1>1, <2>1, <2>2 DEF Typed, OrphanTypeOK, PoolTyped, WorkersTyped, SessionsTyped, Jobs
<1> QED
  BY <1>2, <1>3

LEMMA EvictTyped ==
  ASSUME Typed, EvictOld
  PROVE  Typed'
<1>1. orphans' \subseteq orphans /\ UNCHANGED <<stored, headers, worker, queue, session, received, processed>>
  BY DEF EvictOld, Evict, counters
<1>2. waiting' \in [Hashes \cup {NoHash} -> SUBSET Hashes]
  BY DEF EvictOld, Evict, Typed, OrphanTypeOK
<1> QED
  BY <1>1, <1>2 DEF Typed, OrphanTypeOK

-------------------------------------------------------------------------------
(* The pool is bounded *)

Bounded == IsFiniteSet(orphans) /\ PoolIsBounded

LEMMA BoundKept ==
  ASSUME Bounded, orphans' \subseteq orphans
  PROVE  Bounded'
<1>1. IsFiniteSet(orphans') /\ Cardinality(orphans') <= Cardinality(orphans)
  BY FS_Subset DEF Bounded
<1>2. Cardinality(orphans) \in Nat /\ Cardinality(orphans') \in Nat /\ MaxOrphans \in Nat
  BY <1>1, FS_CardinalityType, OrphanConstants DEF Bounded
<1> QED
  BY <1>1, <1>2 DEF Bounded, PoolIsBounded

LEMMA BoundedSound ==
  ASSUME Typed, Bounded, NEW w \in Workers, SoundStep(w) \/ SaveGivenUp(w)
  PROVE  Bounded'
<1>1. CASE Parks(w) /\ ~(Cardinality(orphans) >= MaxOrphans)
  <2> DEFINE h == worker[w].hash
  <2>1. orphans' = orphans \cup {h}
    BY <1>1 DEF Parks
  <2>2. /\ IsFiniteSet(orphans')
        /\ Cardinality(orphans') = IF h \in orphans THEN Cardinality(orphans) ELSE Cardinality(orphans) + 1
    BY <2>1, FS_AddElement DEF Bounded
  <2>3. Cardinality(orphans) \in Nat /\ MaxOrphans \in Nat
    BY FS_CardinalityType, OrphanConstants DEF Bounded
  <2> QED
    BY <1>1, <2>2, <2>3 DEF Bounded, PoolIsBounded
<1>2. CASE ~(Parks(w) /\ ~(Cardinality(orphans) >= MaxOrphans))
  <2>1. orphans' \subseteq orphans
    BY <1>2 DEF SoundStep, SaveGivenUp, Looks, Parks, Saves, Indexes, TakesChildren, Releases, Returns, pool
  <2> QED
    BY <2>1, BoundKept
<1> QED
  BY <1>1, <1>2

-------------------------------------------------------------------------------
(* Only connected blocks are saved *)

Here == stored \cup headers

\* What a worker is about to save, or to release, has its parent in the database.
Linked(job) ==
  /\ job.pc = "save" => Parent[job.hash] \in Here
  /\ job.pc = "index" => job.hash \in stored
  /\ \A i \in 1..Len(job.frontier) : job.frontier[i] \in Here
  /\ \A c \in job.batch : Parent[c] \in Here

Connected ==
  /\ \A w \in Workers : Linked(worker[w])
  /\ \A p \in Hashes \cup {NoHash} : \A c \in waiting[p] : Parent[c] = p

LEMMA LinkedMoves ==
  ASSUME Connected, NEW w \in Workers, NEW pc, NEW h, NEW f, NEW b, Moves(w, pc, h, f, b),
         stored \subseteq stored', headers \subseteq headers',
         pc = "save" => Parent[h] \in Here', pc = "index" => h \in stored',
         \A i \in 1..Len(f) : f[i] \in Here', \A c \in b : Parent[c] \in Here'
  PROVE  \A v \in Workers : Linked(worker[v])'
<1>1. Linked(worker[w])'
  BY DEF Linked, Moves
<1>2. ASSUME NEW v \in Workers, v # w
      PROVE  Linked(worker[v])'
  BY <1>2 DEF Connected, Linked, Here, Moves
<1> QED
  BY <1>1, <1>2

LEMMA ConnectedSound ==
  ASSUME Typed, Connected, NEW w \in Workers, SoundStep(w) \/ SaveGivenUp(w)
  PROVE  Connected'
<1> DEFINE h == worker[w].hash
           f == worker[w].frontier
           b == worker[w].batch
<1>1. /\ worker[w].pc = "save" => Parent[h] \in Here
      /\ worker[w].pc = "index" => h \in stored
      /\ \A i \in 1..Len(f) : f[i] \in Here
      /\ \A c \in b : Parent[c] \in Here
  BY DEF Connected, Linked
<1>2. \A p \in Hashes \cup {NoHash} : \A c \in waiting[p] : Parent[c] = p
  BY DEF Connected
<1>3. f \in Seq(Hashes) /\ Len(<<>>) = 0 /\ waiting \in [Hashes \cup {NoHash} -> SUBSET Hashes]
  BY JobType DEF Typed, OrphanTypeOK
<1>4. CASE Looks(w)
  <2>1. UNCHANGED <<stored, headers, waiting>> /\ Here' = Here
    BY <1>4 DEF Looks, pool, Here
  <2>2. \A v \in Workers : Linked(worker[v])'
    <3>1. CASE Freed(w)
      BY <1>3, <2>1, <3>1, LinkedMoves DEF Freed
    <3>2. ASSUME NEW pc, Keeps(w, pc), pc # "index", pc = "save" => Parent[h] \in Here
          PROVE  \A v \in Workers : Linked(worker[v])'
      BY <1>1, <2>1, <3>2, LinkedMoves DEF Keeps
    <3> QED
      BY <1>4, <3>1, <3>2 DEF Looks, Here
  <2> QED
    BY <1>2, <2>1, <2>2 DEF Connected
<1>5. CASE Parks(w)
  <2>1. UNCHANGED <<stored, headers>> /\ Here' = Here /\ h \in Hashes
    BY <1>5 DEF Parks, Here
  <2>2. \A v \in Workers : Linked(worker[v])'
    BY <1>3, <1>5, <2>1, LinkedMoves DEF Parks, Freed
  <2>3. \A p \in Hashes \cup {NoHash} : \A c \in waiting'[p] : Parent[c] = p
    BY <1>2, <1>3, <1>5, <2>1, OrphanConstants DEF Parks, pool
  <2> QED
    BY <2>2, <2>3 DEF Connected
<1>6. CASE Saves(w)
  <2>1. Here \subseteq Here' /\ stored \subseteq stored' /\ h \in stored' /\ headers' = headers /\ waiting' = waiting
    BY <1>6 DEF Saves, Here, pool
  <2>2. \A v \in Workers : Linked(worker[v])'
    BY <1>1, <1>6, <2>1, LinkedMoves DEF Saves, Keeps
  <2> QED
    BY <1>2, <2>1, <2>2 DEF Connected
<1>7. CASE Indexes(w)
  <2>1. /\ Here \subseteq Here' /\ stored' = stored /\ headers \subseteq headers' /\ waiting' = waiting
        /\ h \in stored /\ h \in Here' /\ h \in Hashes
    BY <1>1, <1>7 DEF Indexes, Here, pool
  <2>2. \A i \in 1..Len(Append(f, h)) : Append(f, h)[i] \in Here'
    <3>1. Len(Append(f, h)) = Len(f) + 1 /\ Append(f, h)[Len(f) + 1] = h /\ Len(f) \in Nat
      BY <1>3, <2>1
    <3>2. \A i \in 1..Len(f) : Append(f, h)[i] = f[i]
      BY <1>3, <2>1
    <3> QED
      BY <1>1, <2>1, <3>1, <3>2
  <2>3. \A v \in Workers : Linked(worker[v])'
    <3>1. Moves(w, "release", h, Append(f, h), b)
      BY <1>7 DEF Indexes
    <3> QED
      BY <1>1, <2>1, <2>2, <3>1, LinkedMoves
  <2> QED
    BY <1>2, <2>1, <2>3 DEF Connected
<1>8. CASE TakesChildren(w)
  <2> DEFINE p == Head(f)
  <2>1. p \in Hashes /\ UNCHANGED <<stored, headers>> /\ Here' = Here /\ f # <<>>
    BY <1>8 DEF TakesChildren, Here
  <2>2. /\ Len(f) \in Nat /\ 1 \in 1..Len(f) /\ p = f[1] /\ Len(Tail(f)) = Len(f) - 1
        /\ \A i \in 1..Len(Tail(f)) : i + 1 \in 1..Len(f) /\ Tail(f)[i] = f[i + 1]
    BY <1>3, <2>1
  <2>3. p \in Here /\ \A i \in 1..Len(Tail(f)) : Tail(f)[i] \in Here'
    BY <1>1, <2>1, <2>2
  <2>4. \A c \in waiting[p] : Parent[c] \in Here'
    BY <1>2, <2>1, <2>3
  <2>5. Moves(w, "release", h, Tail(f), waiting[p]) /\ waiting' = [waiting EXCEPT ![p] = {}]
    BY <1>8 DEF TakesChildren
  <2>6. \A v \in Workers : Linked(worker[v])'
    <3> DEFINE rest == Tail(f)
               children == waiting[p]
    <3>1. /\ \A i \in 1..Len(rest) : rest[i] \in Here'
          /\ \A c \in children : Parent[c] \in Here'
          /\ Moves(w, "release", h, rest, children)
      BY <2>3, <2>4, <2>5
    <3> HIDE DEF rest, children
    <3> QED
      BY <2>1, <3>1, LinkedMoves
  <2>7. \A q \in Hashes \cup {NoHash} : \A c \in waiting'[q] : Parent[c] = q
    BY <1>2, <1>3, <2>5
  <2> QED
    BY <2>6, <2>7 DEF Connected
<1>9. CASE Releases(w)
  <2>1. UNCHANGED <<stored, headers, waiting>> /\ Here' = Here
    BY <1>9 DEF Releases, Here
  <2>2. PICK c \in b : \/ Moves(w, "save", c, f, b \ {c})
                       \/ Moves(w, "release", h, f, b \ {c})
    BY <1>9 DEF Releases
  <2>3. \A v \in Workers : Linked(worker[v])'
    BY <1>1, <2>1, <2>2, LinkedMoves
  <2> QED
    BY <1>2, <2>1, <2>3 DEF Connected
<1>10. CASE Returns(w) \/ SaveGivenUp(w)
  <2>1. /\ Freed(w) /\ stored \subseteq stored' /\ headers' = headers /\ waiting' = waiting
    BY <1>10 DEF Returns, SaveGivenUp, pool
  <2>2. \A v \in Workers : Linked(worker[v])'
    BY <1>3, <2>1, LinkedMoves DEF Freed
  <2> QED
    BY <1>2, <2>1, <2>2 DEF Connected
<1> QED
  BY <1>4, <1>5, <1>6, <1>7, <1>8, <1>9, <1>10 DEF SoundStep

LEMMA ConnectedTaken ==
  ASSUME Typed, Connected, NEW w \in Workers, TakeBlock(w)
  PROVE  Connected'
<1>1. UNCHANGED <<stored, headers, waiting>> /\ Moves(w, "has_block", Head(queue), <<>>, {}) /\ Len(<<>>) = 0
  BY TakeMoves DEF pool
<1>2. \A v \in Workers : Linked(worker[v])'
  BY <1>1, LinkedMoves
<1> QED
  BY <1>1, <1>2 DEF Connected

LEMMA ConnectedKept ==
  ASSUME Connected, stored \subseteq stored', headers \subseteq headers', worker' = worker,
         \A p \in Hashes \cup {NoHash} : waiting'[p] \subseteq waiting[p]
  PROVE  Connected'
<1>1. Here \subseteq Here'
  BY DEF Here
<1> QED
  BY <1>1 DEF Connected, Linked

-------------------------------------------------------------------------------
(* The counters *)

LEMMA BusyCounts ==
  /\ Cardinality(Busy) \in Nat
  /\ \A w \in Busy : Cardinality(Busy \ {w}) = Cardinality(Busy) - 1
  /\ \A w \in Workers \ Busy : Cardinality(Busy \cup {w}) = Cardinality(Busy) + 1
<1>1. IsFiniteSet(Busy)
  BY OrphanConstants, FS_Subset DEF Busy
<1> QED
  BY <1>1, FS_CardinalityType, FS_RemoveElement, FS_AddElement

LEMMA QueuingCounts ==
  /\ Cardinality(Queuing) \in Nat
  /\ \A s \in Queuing : Cardinality(Queuing \ {s}) = Cardinality(Queuing) - 1
  /\ \A s \in Sessions \ Queuing : Cardinality(Queuing \cup {s}) = Cardinality(Queuing) + 1
<1>1. IsFiniteSet(Queuing)
  BY IngestConstants, FS_Subset DEF Queuing
<1> QED
  BY <1>1, FS_CardinalityType, FS_RemoveElement, FS_AddElement

\* A session counts a block and is about to queue it, queues one, or neither.
LEMMA SessionCounts ==
  ASSUME Typed, NEW s \in Sessions, SessionActs(s)
  PROVE  \/ queue' = queue /\ received' = received /\ Queuing' = Queuing
         \/ /\ queue' = queue /\ received' = received + 1
            /\ s \in Sessions \ Queuing /\ Queuing' = Queuing \cup {s}
         \/ /\ received' = received /\ \E h \in Hashes : queue' = Append(queue, h)
            /\ s \in Queuing /\ Queuing' = Queuing \ {s}
<1>1. session \in [Sessions -> SessionJobs]
  BY DEF Typed
<1>2. ASSUME NEW h, ReceiveHeader(s, h)
      PROVE  queue' = queue /\ received' = received /\ Queuing' = Queuing
  BY <1>2 DEF ReceiveHeader, Queuing
<1>3. ASSUME NEW h, ReceiveBlock(s, h)
      PROVE  /\ queue' = queue /\ received' = received + 1
             /\ s \in Sessions \ Queuing /\ Queuing' = Queuing \cup {s}
  <2>1. /\ session[s].pc = "read" /\ session' = [session EXCEPT ![s] = [pc |-> "queue", hash |-> h]]
        /\ queue' = queue /\ received' = received + 1
    BY <1>3 DEF ReceiveBlock
  <2>2. session'[s].pc = "queue" /\ \A v \in Sessions : v # s => session'[v] = session[v]
    BY <1>1, <2>1
  <2> QED
    BY <2>1, <2>2 DEF Queuing
<1>4. ASSUME session[s].pc # "queue", session'[s].pc # "queue",
             \A v \in Sessions : v # s => session'[v] = session[v]
      PROVE  Queuing' = Queuing
  BY <1>4 DEF Queuing
<1>5. ASSUME SessionQueue(s)
      PROVE  /\ received' = received /\ \E h \in Hashes : queue' = Append(queue, h)
             /\ s \in Queuing /\ Queuing' = Queuing \ {s}
  <2>1. session[s].hash \in Hashes
    BY <1>5 DEF SessionQueue, Typed
  <2>2. /\ session[s].pc = "queue" /\ session' = [session EXCEPT ![s].pc = "save"]
        /\ queue' = Append(queue, session[s].hash) /\ received' = received
    BY <1>5 DEF SessionQueue, Step, counters
  <2>3. session[s] \in SessionJobs
    BY <1>1
  <2>4. session'[s].pc = "save" /\ \A v \in Sessions : v # s => session'[v] = session[v]
    BY <1>1, <2>2, <2>3 DEF SessionJobs
  <2> QED
    BY <2>1, <2>2, <2>4 DEF Queuing
<1>6. ASSUME SessionSave(s) \/ SessionIndex(s) \/ SessionSaveFails(s) \/ SessionIndexFails(s)
      PROVE  queue' = queue /\ received' = received /\ Queuing' = Queuing
  <2>1. /\ session[s].pc # "queue" /\ queue' = queue /\ received' = received
        /\ Step(s, "index") \/ ReadNext(s)
    BY <1>6 DEF SessionSave, SessionIndex, SessionSaveFails, SessionIndexFails, counters, orphanVars
  <2>2. session[s] \in SessionJobs
    BY <1>1
  <2>3. session'[s].pc # "queue" /\ \A v \in Sessions : v # s => session'[v] = session[v]
    BY <1>1, <2>1, <2>2 DEF Step, ReadNext, Reading, SessionJobs
  <2> QED
    BY <1>4, <2>1, <2>3
<1> QED
  BY <1>2, <1>3, <1>5, <1>6 DEF SessionActs, Receive, SessionStep

\* A worker that was at work stays so, or is free again.
LEMMA BusyMoves ==
  ASSUME NEW w \in Busy, NEW pc, NEW h, NEW f, NEW b, Moves(w, pc, h, f, b)
  PROVE  Busy' = IF pc = "idle" THEN Busy \ {w} ELSE Busy
BY DEF Busy, At, Moves

LEMMA SoundBusy ==
  ASSUME NEW w \in Workers, SoundStep(w) \/ SaveGivenUp(w)
  PROVE  w \in Busy /\ Busy' = IF worker'[w].pc = "idle" THEN Busy \ {w} ELSE Busy
<1>1. w \in Busy
  BY DEF Busy, At, SoundStep, SaveGivenUp, Looks, Searching, Parks, Saves, Indexes, TakesChildren, Releases, Returns
<1>2. PICK pc, h, f, b : Moves(w, pc, h, f, b)
  BY DEF SoundStep, SaveGivenUp, Looks, Parks, Saves, Indexes, TakesChildren, Releases, Returns, Freed, Keeps
<1>3. worker'[w].pc = pc
  BY <1>2 DEF Moves
<1> QED
  BY <1>1, <1>2, <1>3, BusyMoves

LEMMA CountedStep ==
  ASSUME Typed, ProcessedWithinReceived, FaultyNext
  PROVE  ProcessedWithinReceived'
<1>1. /\ processed \in Nat /\ received \in Nat /\ queue \in Seq(Hashes) /\ Len(queue) \in Nat
      /\ processed + Cardinality(Busy) + Len(queue) + Cardinality(Queuing) <= received
      /\ Cardinality(Busy) \in Nat /\ Cardinality(Queuing) \in Nat
  BY BusyCounts, QueuingCounts DEF Typed, ProcessedWithinReceived
<1>2. ProcessedWithinReceived' <=>
        processed' + Cardinality(Busy') + Len(queue') + Cardinality(Queuing') <= received'
  BY DEF ProcessedWithinReceived
<1>3. UNCHANGED session => Queuing' = Queuing
  BY DEF Queuing
<1>4. ASSUME NEW w \in Workers, TakeBlock(w)
      PROVE  ProcessedWithinReceived'
  <2>1. /\ worker[w].pc = "idle" /\ queue # <<>> /\ queue' = Tail(queue)
        /\ Moves(w, "has_block", Head(queue), <<>>, {}) /\ UNCHANGED <<session, counters>>
    BY <1>4, TakeMoves DEF TakeBlock
  <2>2. w \in Workers \ Busy /\ Busy' = Busy \cup {w}
    BY <2>1 DEF Busy, At, Moves
  <2>3. Cardinality(Busy') = Cardinality(Busy) + 1
    BY <2>2, BusyCounts
  <2>4. Len(queue') = Len(queue) - 1
    BY <1>1, <2>1
  <2>5. processed' = processed /\ received' = received /\ Queuing' = Queuing
    BY <1>3, <2>1 DEF counters
  <2> QED
    BY <1>1, <1>2, <2>3, <2>4, <2>5
<1>5. ASSUME NEW w \in Workers, WorkStep(w) \/ WorkFault(w)
      PROVE  ProcessedWithinReceived'
  <2>1. SoundStep(w) \/ SaveGivenUp(w)
    BY <1>5, WorkIsSound, FaultIsSound DEF WorkStep, WorkFault
  <2>2. /\ UNCHANGED <<queue, received, session>>
        /\ processed' \in {processed, processed + 1}
        /\ processed' # processed => worker'[w].pc = "idle"
    BY <1>1, <1>5 DEF WorkStep, WorkFault, counters
  <2>3. w \in Busy /\ Busy' = IF worker'[w].pc = "idle" THEN Busy \ {w} ELSE Busy
    BY <2>1, SoundBusy
  <2>4. Cardinality(Busy \ {w}) = Cardinality(Busy) - 1
    BY <2>3, BusyCounts
  <2>5. Queuing' = Queuing
    BY <1>3, <2>2
  <2> QED
    BY <1>1, <1>2, <2>2, <2>3, <2>4, <2>5
<1>6. UNCHANGED worker => Busy' = Busy
  BY DEF Busy, At
<1>7. ASSUME NEW s \in Sessions, SessionActs(s)
      PROVE  ProcessedWithinReceived'
  <2>1. processed' = processed /\ Busy' = Busy
    BY <1>6, <1>7, SessionAdds
  <2>2. CASE queue' = queue /\ received' = received /\ Queuing' = Queuing
    BY <1>1, <1>2, <2>1, <2>2
  <2>3. CASE /\ queue' = queue /\ received' = received + 1
             /\ s \in Sessions \ Queuing /\ Queuing' = Queuing \cup {s}
    <3>1. Cardinality(Queuing') = Cardinality(Queuing) + 1
      BY <2>3, QueuingCounts
    <3> QED
      BY <1>1, <1>2, <2>1, <2>3, <3>1
  <2>4. CASE /\ received' = received /\ \E h \in Hashes : queue' = Append(queue, h)
             /\ s \in Queuing /\ Queuing' = Queuing \ {s}
    <3>1. Cardinality(Queuing') = Cardinality(Queuing) - 1
      BY <2>4, QueuingCounts
    <3>2. Len(queue') = Len(queue) + 1
      BY <1>1, <2>4
    <3> QED
      BY <1>1, <1>2, <2>1, <2>4, <3>1, <3>2
  <2> QED
    BY <1>7, <2>2, <2>3, <2>4, SessionCounts
<1>8. CASE EvictOld
  <2>1. UNCHANGED <<worker, queue, session, processed, received>>
    BY <1>8 DEF EvictOld, Evict, counters
  <2> QED
    BY <1>1, <1>2, <1>3, <1>6, <2>1
<1> QED
  BY <1>4, <1>5, <1>7, <1>8 DEF FaultyNext, Next, WorkerStep, SessionActs

-------------------------------------------------------------------------------
(* With every fault *)

FaultyInv == Typed /\ Bounded /\ Connected /\ ProcessedWithinReceived

LEMMA InitFaulty == Init => FaultyInv
<1> SUFFICES ASSUME Init PROVE FaultyInv
  OBVIOUS
<1>1. Free \in Jobs /\ Free.pc = "idle" /\ Free.frontier = <<>> /\ Free.batch = {}
  BY DEF Free, Job, Jobs, Steps
<1>2. \A w \in Workers : worker[w] = Free
  BY DEF Init, OrphanInit
<1>3. Reading \in SessionJobs /\ Reading.pc = "read"
  BY DEF Reading, SessionJobs
<1>4. PoolTyped /\ WorkersTyped /\ SessionsTyped
  BY <1>1, <1>3, OrphanConstants DEF Init, OrphanInit, PoolTyped, WorkersTyped, SessionsTyped
<1>5. queue \in Seq(Hashes) /\ Len(queue) = 0 /\ received = 0 /\ processed = 0
  BY DEF Init
<1>6. Typed
  BY <1>4, <1>5, TypedParts
<1>7. Bounded
  BY FS_EmptySet, OrphanConstants DEF Init, OrphanInit, Bounded, PoolIsBounded
<1>8. Connected
  <2>1. \A w \in Workers : Linked(worker[w])
    BY <1>1, <1>2 DEF Linked
  <2> QED
    BY <2>1 DEF Connected, Init, OrphanInit
<1>9. ProcessedWithinReceived
  <2>1. Busy = {}
    BY <1>1, <1>2 DEF Busy, At
  <2>2. Queuing = {}
    BY <1>3 DEF Queuing, Init
  <2> QED
    BY <1>5, <2>1, <2>2, FS_EmptySet DEF ProcessedWithinReceived
<1> QED
  BY <1>6, <1>7, <1>8, <1>9 DEF FaultyInv

LEMMA FaultyStep ==
  ASSUME FaultyInv, [FaultyNext]_vars
  PROVE  FaultyInv'
<1>1. Typed /\ Bounded /\ Connected /\ ProcessedWithinReceived
  BY DEF FaultyInv
<1>2. ASSUME NEW w \in Workers, TakeBlock(w)
      PROVE  (Typed /\ Bounded /\ Connected)'
  <2>1. Bounded'
    BY <1>1, <1>2, TakeMoves, BoundKept DEF pool
  <2> QED
    BY <1>1, <1>2, <2>1, WorkerTyped, ConnectedTaken
<1>3. ASSUME NEW w \in Workers, WorkStep(w) \/ WorkFault(w)
      PROVE  (Typed /\ Bounded /\ Connected)'
  <2>1. SoundStep(w) \/ SaveGivenUp(w)
    BY <1>1, <1>3, WorkIsSound, FaultIsSound DEF WorkStep, WorkFault
  <2> QED
    BY <1>1, <1>3, <2>1, WorkerTyped, BoundedSound, ConnectedSound
<1>4. ASSUME NEW s \in Sessions, SessionActs(s)
      PROVE  (Typed /\ Bounded /\ Connected)'
  BY <1>1, <1>4, SessionTyped, SessionAdds, BoundKept, ConnectedKept DEF pool
<1>5. CASE EvictOld
  <2>1. orphans' \subseteq orphans /\ UNCHANGED <<stored, headers, worker>>
    BY <1>5 DEF EvictOld, Evict
  <2>2. \A p \in Hashes \cup {NoHash} : waiting'[p] \subseteq waiting[p]
    BY <1>1, <1>5 DEF EvictOld, Evict, Typed, OrphanTypeOK
  <2>3. ProcessedWithinReceived'
    BY <1>1, <1>5, CountedStep DEF FaultyNext, Next
  <2> QED
    BY <1>1, <1>5, <2>1, <2>2, <2>3, EvictTyped, BoundKept, ConnectedKept DEF FaultyInv
<1>6. CASE UNCHANGED vars
  BY <1>6 DEF FaultyInv, Typed, OrphanTypeOK, Bounded, PoolIsBounded, Connected, Linked, Here,
              ProcessedWithinReceived, Busy, Queuing, At, vars, orphanVars, counters
<1>7. CASE FaultyNext
  <2>1. ProcessedWithinReceived'
    BY <1>1, <1>7, CountedStep
  <2> QED
    BY <1>2, <1>3, <1>4, <1>5, <1>7, <2>1 DEF FaultyInv, FaultyNext, Next, WorkerStep, SessionActs
<1> QED
  BY <1>6, <1>7

LEMMA FaultySpecInv == FaultySpec => []FaultyInv
<1> QED
  BY InitFaulty, FaultyStep, PTL DEF FaultySpec

\* With failing lookups and saves, and with workers, sessions and the age limit
\* interleaved: every worker's job is well formed, and a busy one holds a block.
THEOREM PoolTypeCorrect == FaultySpec => []OrphanTypeOK
<1>1. FaultyInv => OrphanTypeOK
  BY DEF FaultyInv, Typed
<1> QED
  BY <1>1, FaultySpecInv, PTL

\* However many workers park at once, the pool stays within MAX_ORPHAN_BLOCKS.
THEOREM PoolStaysBounded == FaultySpec => []PoolIsBounded
<1>1. FaultyInv => PoolIsBounded
  BY DEF FaultyInv, Bounded
<1> QED
  BY <1>1, FaultySpecInv, PTL

\* A worker saves a block only when its parent is there, although the parent was
\* looked up long before, perhaps for another block of the same walk.
THEOREM SaveStaysConnected == FaultySpec => []SaveIsConnected
<1>1. FaultyInv => SaveIsConnected
  BY DEF FaultyInv, Connected, Linked, Here, SaveIsConnected, At
<1> QED
  BY <1>1, FaultySpecInv, PTL

\* The hybrid sync manager counts no block twice: what it has processed, what is in
\* its workers' hands or its queue, and what sessions are about to queue, was received.
THEOREM CountersStayInOrder == FaultySpec => []ProcessedWithinReceived
<1>1. FaultyInv => ProcessedWithinReceived
  BY DEF FaultyInv
<1> QED
  BY <1>1, FaultySpecInv, PTL

-------------------------------------------------------------------------------
(* Without faults *)

Unbatched == {"idle", "has_block", "parent_block", "parent_header", "park"}

\* Only a worker that walks over descendants has a list in its hands.
Listed ==
  /\ OrphanIsListed
  /\ \A w \in Workers : worker[w].pc \in Unbatched => worker[w].batch = {}

LEMMA ListedSound ==
  ASSUME Typed, Listed, NEW w \in Workers, SoundStep(w)
  PROVE  Listed'
<1>1. /\ \A h \in orphans : h \in waiting[Parent[h]] \/ \E v \in Workers : h \in worker[v].batch
      /\ \A v \in Workers : worker[v].pc \in Unbatched => worker[v].batch = {}
  BY DEF Listed, OrphanIsListed
<1>2. waiting \in [Hashes \cup {NoHash} -> SUBSET Hashes] /\ orphans \subseteq Hashes
  BY DEF Typed, OrphanTypeOK
<1>3. ASSUME NEW pc, NEW h, NEW f, NEW b, Moves(w, pc, h, f, b), worker[w].batch = {} \/ b = worker[w].batch,
             pc \in Unbatched => b = {}, UNCHANGED pool
      PROVE  Listed'
  BY <1>1, <1>3 DEF Listed, OrphanIsListed, Moves, pool
<1>4. CASE Looks(w)
  <2>1. worker[w].batch = {}
    BY <1>1, <1>4 DEF Looks, Searching, Unbatched
  <2> QED
    BY <1>3, <1>4, <2>1 DEF Looks, Freed, Keeps
<1>5. CASE Parks(w)
  <2>1. worker[w].batch = {} /\ Freed(w)
    BY <1>1, <1>5 DEF Parks, Unbatched
  <2>2. CASE UNCHANGED pool
    BY <1>3, <2>1, <2>2 DEF Freed
  <2>3. CASE /\ orphans' = orphans \cup {worker[w].hash}
             /\ waiting' = [waiting EXCEPT ![Parent[worker[w].hash]] = @ \cup {worker[w].hash}]
    <3>1. worker[w].hash \in Hashes /\ Parent[worker[w].hash] \in Hashes \cup {NoHash}
      BY <1>5, OrphanConstants DEF Parks
    <3>2. \A p \in Hashes \cup {NoHash} : waiting[p] \subseteq waiting'[p]
      BY <1>2, <2>3, <3>1
    <3>3. \A h \in orphans : Parent[h] \in Hashes \cup {NoHash}
      BY <1>2, OrphanConstants
    <3>4. worker[w].hash \in waiting'[Parent[worker[w].hash]]
      BY <1>2, <2>3, <3>1
    <3> QED
      BY <1>1, <2>1, <2>3, <3>2, <3>3, <3>4 DEF Listed, OrphanIsListed, Freed, Moves
  <2> QED
    BY <1>5, <2>2, <2>3 DEF Parks
<1>6. CASE Saves(w)
  BY <1>3, <1>6 DEF Saves, Keeps, Unbatched
<1>7. CASE Indexes(w)
  BY <1>3, <1>7 DEF Indexes, Unbatched
<1>8. CASE TakesChildren(w)
  <2> DEFINE p == Head(worker[w].frontier)
  <2>1. /\ worker[w].batch = {} /\ waiting' = [waiting EXCEPT ![p] = {}] /\ orphans' = orphans
        /\ worker'[w].batch = waiting[p] /\ worker'[w].pc = "release"
        /\ \A v \in Workers : v # w => worker'[v] = worker[v]
    BY <1>8 DEF TakesChildren, Moves
  <2>2. ASSUME NEW h \in orphans
        PROVE  h \in waiting'[Parent[h]] \/ \E v \in Workers : h \in worker'[v].batch
    <3>1. Parent[h] \in Hashes \cup {NoHash}
      BY <1>2, OrphanConstants
    <3>2. CASE h \in waiting[Parent[h]]
      BY <1>2, <2>1, <3>1, <3>2
    <3>3. CASE \E v \in Workers : h \in worker[v].batch
      BY <2>1, <3>3
    <3> QED
      BY <1>1, <3>2, <3>3
  <2> QED
    BY <1>1, <2>1, <2>2 DEF Listed, OrphanIsListed, Unbatched
<1>9. CASE Releases(w)
  <2>1. PICK c \in worker[w].batch :
          /\ orphans' = orphans \ {c} /\ worker'[w].batch = worker[w].batch \ {c}
          /\ worker'[w].pc \in {"save", "release"}
          /\ \A v \in Workers : v # w => worker'[v] = worker[v]
    BY <1>9 DEF Releases, Moves
  <2>2. waiting' = waiting
    BY <1>9 DEF Releases
  <2> QED
    BY <1>1, <2>1, <2>2 DEF Listed, OrphanIsListed, Unbatched
<1>10. CASE Returns(w)
  BY <1>3, <1>10 DEF Returns, Freed
<1> QED
  BY <1>4, <1>5, <1>6, <1>7, <1>8, <1>9, <1>10 DEF SoundStep

\* What memory holds, and what is in the database or about to be saved.
Held(h) == h \in orphans \/ InQueue(h) \/ \E w \in Workers : ~At(w, "idle") /\ worker[w].hash = h
Kept(h) == h \in stored \/ SessionSaves(h)

LEMMA CopiesSound ==
  ASSUME Typed, MemoryHoldsNoOnlyCopy, NEW w \in Workers, SoundStep(w), UNCHANGED <<queue, session>>
  PROVE  MemoryHoldsNoOnlyCopy'
<1> SUFFICES ASSUME NEW h \in Hashes, Held(h)'
             PROVE  Kept(h)'
  BY DEF MemoryHoldsNoOnlyCopy, Held, Kept
<1>1. Held(h) => Kept(h)
  BY DEF MemoryHoldsNoOnlyCopy, Held, Kept
<1>2. Kept(h) => Kept(h)'
  BY DEF Kept, SessionSaves, SoundStep, Looks, Parks, Saves, Indexes, TakesChildren, Releases, Returns
<1>3. InQueue(h)' => InQueue(h)
  BY DEF InQueue
<1>4. ASSUME NEW v \in Workers, v # w, worker'[v].pc # "idle", worker'[v].hash = h
      PROVE  Held(h)
  <2>1. worker'[v] = worker[v]
    BY <1>4 DEF SoundStep, Looks, Parks, Saves, Indexes, TakesChildren, Releases, Returns, Freed, Keeps, Moves
  <2> QED
    BY <1>4, <2>1 DEF Held, At
<1>5. worker[w].pc # "idle"
  BY DEF SoundStep, Looks, Searching, Parks, Saves, Indexes, TakesChildren, Releases, Returns
<1>6. ASSUME worker'[w].pc # "idle", worker'[w].hash = h
      PROVE  Held(h)
  <2>1. worker'[w].hash = worker[w].hash \/ worker'[w].hash \in orphans
    BY <1>6 DEF SoundStep, Looks, Parks, Saves, Indexes, TakesChildren, Releases, Returns, Freed, Keeps, Moves
  <2> QED
    BY <1>5, <1>6, <2>1 DEF Held, At
<1>7. h \in orphans' => Held(h)
  <2>1. orphans' \subseteq orphans \cup {worker[w].hash}
    BY DEF SoundStep, Looks, Parks, Saves, Indexes, TakesChildren, Releases, Returns, pool
  <2> QED
    BY <1>5, <2>1 DEF Held, At
<1> QED
  BY <1>1, <1>2, <1>3, <1>4, <1>6, <1>7 DEF Held, At

LEMMA CopiesTaken ==
  ASSUME Typed, MemoryHoldsNoOnlyCopy, NEW w \in Workers, TakeBlock(w)
  PROVE  MemoryHoldsNoOnlyCopy'
<1> SUFFICES ASSUME NEW h \in Hashes, Held(h)'
             PROVE  Kept(h)'
  BY DEF MemoryHoldsNoOnlyCopy, Held, Kept
<1>1. /\ queue # <<>> /\ queue \in Seq(Hashes) /\ queue' = Tail(queue)
      /\ worker'[w].hash = Head(queue) /\ \A v \in Workers : v # w => worker'[v] = worker[v]
      /\ UNCHANGED <<stored, orphans, session>>
  BY TakeMoves DEF Moves, pool, Typed
<1>2. /\ Len(queue) \in Nat /\ 1 \in 1..Len(queue) /\ Head(queue) = queue[1]
      /\ \A i \in 1..Len(queue') : i + 1 \in 1..Len(queue) /\ queue'[i] = queue[i + 1]
  BY <1>1
<1>3. InQueue(h)' => InQueue(h)
  BY <1>2 DEF InQueue
<1>4. worker'[w].hash = h => InQueue(h)
  BY <1>1, <1>2 DEF InQueue
<1>5. Held(h)
  BY <1>1, <1>3, <1>4 DEF Held, At
<1> QED
  BY <1>1, <1>5 DEF MemoryHoldsNoOnlyCopy, Held, Kept, SessionSaves

LEMMA CopiesSession ==
  ASSUME Typed, MemoryHoldsNoOnlyCopy, NEW s \in Sessions, Receive(s) \/ SessionStep(s)
  PROVE  MemoryHoldsNoOnlyCopy'
<1> SUFFICES ASSUME NEW h \in Hashes, Held(h)'
             PROVE  Kept(h)'
  BY DEF MemoryHoldsNoOnlyCopy, Held, Kept
<1>1. /\ stored \subseteq stored' /\ UNCHANGED <<pool, worker>> /\ queue \in Seq(Hashes)
      /\ session \in [Sessions -> SessionJobs]
  BY SessionAdds DEF SessionActs, Typed
<1>2. Held(h) => Kept(h)
  BY DEF MemoryHoldsNoOnlyCopy, Held, Kept
<1>3. ASSUME NEW k \in Hashes, k = session[s].hash, SessionQueue(s)
      PROVE  Kept(h)'
  <2>0. session[s] \in SessionJobs
    BY <1>1
  <2>1. /\ session[s].pc = "queue" /\ queue' = Append(queue, k)
        /\ session' = [session EXCEPT ![s] = [pc |-> "save", hash |-> k]]
    <3>1. session' = [session EXCEPT ![s].pc = "save"]
      BY <1>3 DEF SessionQueue, Step
    <3>2. [session[s] EXCEPT !.pc = "save"] = [pc |-> "save", hash |-> k]
      BY <1>3, <2>0 DEF SessionJobs
    <3> QED
      BY <1>3, <3>1, <3>2 DEF SessionQueue
  <2>2. SessionSaves(k)'
    BY <1>1, <2>1 DEF SessionSaves
  <2>3. SessionSaves(h) => SessionSaves(h)'
    <3>1. ASSUME NEW v \in Sessions, session[v] = [pc |-> "save", hash |-> h]
          PROVE  session'[v] = [pc |-> "save", hash |-> h]
      <4>1. v # s
        BY <2>1, <3>1
      <4> QED
        BY <1>1, <2>1, <3>1, <4>1
    <3> QED
      BY <3>1 DEF SessionSaves
  <2>4. InQueue(h)' => InQueue(h) \/ h = k
    <3>1. Len(queue') = Len(queue) + 1 /\ Len(queue) \in Nat /\ queue'[Len(queue) + 1] = k
      BY <1>1, <2>1
    <3>2. \A i \in 1..Len(queue) : queue'[i] = queue[i]
      BY <1>1, <2>1
    <3> QED
      BY <3>1, <3>2 DEF InQueue
  <2>5. Held(h) \/ h = k
    BY <1>1, <2>4 DEF Held, At, pool
  <2> QED
    BY <1>1, <1>2, <2>2, <2>3, <2>5 DEF Kept
<1>4. CASE queue' = queue
  <2>1. Held(h)
    BY <1>1, <1>4 DEF Held, At, pool, InQueue
  <2>2. SessionSaves(h) => SessionSaves(h)' \/ h \in stored'
    <3>1. ASSUME NEW v \in Sessions, session[v] = [pc |-> "save", hash |-> h]
          PROVE  session'[v] = [pc |-> "save", hash |-> h] \/ h \in stored'
      <4>1. session[v].pc = "save" /\ session[v].hash = h
        BY <3>1
      <4>2. CASE v # s
        <5>1. session'[v] = session[v]
          BY <1>1, <1>4, <4>2
             DEF Receive, ReceiveHeader, ReceiveBlock, SessionStep, SessionQueue, SessionSave, SessionIndex, Step, ReadNext
        <5> QED
          BY <3>1, <5>1
      <4>3. CASE v = s
        BY <3>1, <4>1, <4>3
           DEF Receive, ReceiveHeader, ReceiveBlock, SessionStep, SessionQueue, SessionSave, SessionIndex
      <4> QED
        BY <4>2, <4>3
    <3> QED
      BY <3>1 DEF SessionSaves
  <2> QED
    BY <1>1, <1>2, <2>1, <2>2 DEF Kept
<1> QED
  <2>1. ASSUME NEW k \in Hashes, ReceiveHeader(s, k) \/ ReceiveBlock(s, k)
        PROVE  queue' = queue
    BY <2>1 DEF ReceiveHeader, ReceiveBlock
  <2>2. ASSUME SessionSave(s) \/ SessionIndex(s)
        PROVE  queue' = queue
    BY <2>2 DEF SessionSave, SessionIndex
  <2>3. SessionQueue(s) => session[s].hash \in Hashes
    BY DEF SessionQueue, Typed
  <2> QED
    BY <1>3, <1>4, <2>1, <2>2, <2>3 DEF Receive, SessionStep

SafeInv == FaultyInv /\ Listed /\ MemoryHoldsNoOnlyCopy

LEMMA InitSafe == Init => SafeInv
<1> SUFFICES ASSUME Init PROVE SafeInv
  OBVIOUS
<1>1. FaultyInv
  BY InitFaulty
<1>2. orphans = {} /\ (\A w \in Workers : worker[w].pc = "idle" /\ worker[w].batch = {})
  BY DEF Init, OrphanInit, Free, Job
<1>3. \A h \in Hashes : ~InQueue(h)
  BY DEF Init, InQueue
<1>4. Listed
  BY <1>2 DEF Listed, OrphanIsListed
<1>5. MemoryHoldsNoOnlyCopy
  BY <1>2, <1>3 DEF MemoryHoldsNoOnlyCopy, At
<1> QED
  BY <1>1, <1>4, <1>5 DEF SafeInv

LEMMA SafeStep ==
  ASSUME SafeInv, [Next]_vars
  PROVE  SafeInv'
<1>1. Typed /\ Listed /\ MemoryHoldsNoOnlyCopy /\ FaultyInv
  BY DEF SafeInv, FaultyInv
<1>2. FaultyInv'
  BY <1>1, FaultyStep DEF FaultyNext
<1>3. ASSUME NEW w \in Workers, TakeBlock(w)
      PROVE  (Listed /\ MemoryHoldsNoOnlyCopy)'
  <2>1. worker[w].batch = {}
    BY <1>1, <1>3, TakeMoves DEF Listed, Unbatched
  <2>2. Listed'
    BY <1>1, <1>3, <2>1, TakeMoves DEF Listed, OrphanIsListed, Moves, Unbatched, pool
  <2> QED
    BY <1>1, <1>3, <2>2, CopiesTaken
<1>4. ASSUME NEW w \in Workers, WorkStep(w)
      PROVE  (Listed /\ MemoryHoldsNoOnlyCopy)'
  BY <1>1, <1>4, WorkIsSound, ListedSound, CopiesSound DEF WorkStep
<1>5. ASSUME NEW s \in Sessions, Receive(s) \/ SessionStep(s)
      PROVE  (Listed /\ MemoryHoldsNoOnlyCopy)'
  <2>1. UNCHANGED <<pool, worker>>
    BY <1>1, <1>5, SessionAdds DEF SessionActs
  <2>2. Listed'
    BY <1>1, <2>1 DEF Listed, OrphanIsListed, pool
  <2> QED
    BY <1>1, <1>5, <2>2, CopiesSession
<1>6. ASSUME EvictOld
      PROVE  (Listed /\ MemoryHoldsNoOnlyCopy)'
  <2>1. PICK old \in SUBSET orphans \ {{}} :
          /\ orphans' = orphans \ old
          /\ waiting' = [p \in DOMAIN waiting |-> waiting[p] \ {h \in old : Parent[h] = p}]
    BY <1>6 DEF EvictOld, Evict
  <2>2. UNCHANGED <<stored, headers, worker, queue, session>>
    BY <1>6 DEF EvictOld, Evict
  <2>3. DOMAIN waiting = Hashes \cup {NoHash} /\ \A h \in orphans : Parent[h] \in Hashes \cup {NoHash}
    BY <1>1, OrphanConstants DEF Typed, OrphanTypeOK
  <2>4. Listed'
    BY <1>1, <2>1, <2>2, <2>3 DEF Listed, OrphanIsListed
  <2>5. MemoryHoldsNoOnlyCopy'
    <3>1. ASSUME NEW h \in Hashes, Held(h)' PROVE Held(h)
      BY <2>1, <2>2, <3>1 DEF Held, InQueue, At
    <3>2. ASSUME NEW h \in Hashes, Kept(h) PROVE Kept(h)'
      BY <2>2, <3>2 DEF Kept, SessionSaves
    <3> QED
      BY <1>1, <3>1, <3>2 DEF MemoryHoldsNoOnlyCopy, Held, Kept
  <2> QED
    BY <2>4, <2>5
<1>7. ASSUME UNCHANGED vars
      PROVE  (Listed /\ MemoryHoldsNoOnlyCopy)'
  BY <1>1, <1>7 DEF Listed, OrphanIsListed, MemoryHoldsNoOnlyCopy, InQueue, At, SessionSaves, vars, orphanVars
<1>8. (Listed /\ MemoryHoldsNoOnlyCopy)'
  BY <1>3, <1>4, <1>5, <1>6, <1>7 DEF Next, WorkerStep
<1> QED
  BY <1>2, <1>8 DEF SafeInv

LEMMA SpecSafe == Spec => []SafeInv
<1> QED
  BY InitSafe, SafeStep, PTL DEF Spec

\* A parked orphan never drops out of the lists by which it is found again, however
\* the workers that take lists, drop children and park new ones interleave.
THEOREM OrphansStayListed == Spec => []OrphanIsListed
<1>1. SafeInv => OrphanIsListed
  BY DEF SafeInv, Listed
<1> QED
  BY <1>1, SpecSafe, PTL

\* Neither a full pool, nor the age limit, nor a worker that drops what it holds
\* can lose a block: it is stored, or its session is about to store it.
THEOREM MemoryNeverHoldsOnlyCopy == Spec => []MemoryHoldsNoOnlyCopy
<1>1. SafeInv => MemoryHoldsNoOnlyCopy
  BY DEF SafeInv
<1> QED
  BY <1>1, SpecSafe, PTL
===============================================================================
