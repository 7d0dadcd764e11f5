----------------------------- MODULE BlockIngest ------------------------------
(***************************************************************************)
(* How a BLOCK or HEADERS message enters the database: the sessions of     *)
(* p2p/peer_manager.rs, the queue of p2p/hybrid_sync.rs and its workers,   *)
(* which are the workers of OrphanManager.                                 *)
(*                                                                         *)
(* A session first queues a valid block for the workers and then saves and *)
(* indexes the same block itself, so each block runs through the database  *)
(* twice, concurrently.  Blocks that fail the merkle or the signature      *)
(* check are discarded before any state changes and do not appear.         *)
(***************************************************************************)
EXTENDS OrphanManager

CONSTANTS
  Sessions,      \* peer sessions, one task each
  MaxMessages    \* bound: messages received, all sessions together

ASSUME IngestConstants == MaxMessages \in Nat /\ IsFiniteSet(Sessions)

VARIABLES
  queue,      \* block_queue of the hybrid sync manager
  session,    \* what each session is doing with the block it received
  received,   \* blocks counted in total_blocks_received
  processed,  \* blocks counted in total_blocks_processed
  messages    \* messages received so far

counters == <<received, processed, messages>>
vars == <<orphanVars, queue, session, counters>>

Reading == [pc |-> "read", hash |-> NoHash]

Init ==
  /\ OrphanInit
  /\ queue = <<>>
  /\ session = [s \in Sessions |-> Reading]
  /\ received = 0
  /\ processed = 0
  /\ messages = 0

Step(s, pc) == session' = [session EXCEPT ![s].pc = pc]
ReadNext(s) == session' = [session EXCEPT ![s] = Reading]

-------------------------------------------------------------------------------
(* A session *)

\* HEADERS: each header goes to add_block_index, nothing else is shared.
ReceiveHeader(s, h) ==
  /\ session[s].pc = "read"
  /\ messages < MaxMessages
  /\ messages' = messages + 1
  /\ headers' = headers \cup {h}
  /\ UNCHANGED <<stored, pool, worker, queue, session, received, processed>>

\* BLOCK: handle_block_received counts the block,
ReceiveBlock(s, h) ==
  /\ session[s].pc = "read"
  /\ messages < MaxMessages
  /\ messages' = messages + 1
  /\ received' = received + 1
  /\ session' = [session EXCEPT ![s] = [pc |-> "queue", hash |-> h]]
  /\ UNCHANGED <<orphanVars, queue, processed>>

\* Mutant: the session leaves saving the block to the workers.
SessionQueueForWorkers(s) ==
  /\ session[s].pc = "queue"
  /\ queue' = Append(queue, session[s].hash)
  /\ Step(s, "index")
  /\ UNCHANGED <<orphanVars, counters>>

\* and queues it under another lock;
SessionQueue(s) ==
  /\ session[s].pc = "queue"
  /\ queue' = Append(queue, session[s].hash)
  /\ Step(s, "save")
  /\ UNCHANGED <<orphanVars, counters>>

\* then the session itself saves it
SessionSave(s) ==
  /\ session[s].pc = "save"
  /\ stored' = stored \cup {session[s].hash}
  /\ Step(s, "index")
  /\ UNCHANGED <<headers, pool, worker, queue, counters>>

\* Mutant: a header without a known parent is left for later.
SessionIndexIfConnected(s) ==
  /\ session[s].pc = "index"
  /\ headers' = IF Parent[session[s].hash] \in headers
                THEN headers \cup {session[s].hash}
                ELSE headers
  /\ ReadNext(s)
  /\ UNCHANGED <<stored, pool, worker, queue, counters>>

\* and indexes its header, whether or not the parent is known.
SessionIndex(s) ==
  /\ session[s].pc = "index"
  /\ headers' = headers \cup {session[s].hash}
  /\ ReadNext(s)
  /\ UNCHANGED <<stored, pool, worker, queue, counters>>

\* save_block or add_block_index fails: logged, and the session reads on.
SessionSaveFails(s) ==
  /\ session[s].pc = "save"
  /\ stored' \in {stored, stored \cup {session[s].hash}}
  /\ ReadNext(s)
  /\ UNCHANGED <<headers, pool, worker, queue, counters>>

SessionIndexFails(s) ==
  /\ session[s].pc = "index"
  /\ ReadNext(s)
  /\ UNCHANGED <<orphanVars, queue, counters>>

-------------------------------------------------------------------------------
(* The workers of start_block_processor *)

TakeBlock(w) ==
  /\ queue # <<>>
  /\ AddBlock(w, Head(queue))
  /\ queue' = Tail(queue)
  /\ UNCHANGED <<session, counters>>

\* add_block returned Ok on this step: skipped, parked, or walked all descendants.
ReturnsOk(w) ==
  \/ At(w, "has_block")
  \/ At(w, "park") /\ Cardinality(orphans) < MaxOrphans
  \/ At(w, "release")

\* Mutant: a block is counted when it is indexed and again when the call returns.
WorkStepCountsTwice(w) ==
  /\ Work(w)
  /\ processed' = IF At(w, "index") \/ worker'[w].pc = "idle" THEN processed + 1 ELSE processed
  /\ UNCHANGED <<queue, session, received, messages>>

\* The call ends and is counted in one step here: the counter has a lock of its own,
\* which is taken when nothing of the call is left to do.
WorkStep(w) ==
  /\ Work(w)
  /\ processed' = IF worker'[w].pc = "idle" /\ ReturnsOk(w) THEN processed + 1 ELSE processed
  /\ UNCHANGED <<queue, session, received, messages>>

WorkFault(w) ==
  /\ Fault(w)
  /\ UNCHANGED <<queue, session, counters>>

EvictOld ==
  /\ Evict
  /\ UNCHANGED <<queue, session, counters>>

-------------------------------------------------------------------------------

Receive(s) == \E h \in Hashes \ {Genesis} : ReceiveHeader(s, h) \/ ReceiveBlock(s, h)
SessionStep(s) == SessionQueue(s) \/ SessionSave(s) \/ SessionIndex(s)
WorkerStep(w) == TakeBlock(w) \/ WorkStep(w)

Next ==
  \/ EvictOld
  \/ \E s \in Sessions : Receive(s) \/ SessionStep(s)
  \/ \E w \in Workers : WorkerStep(w)

FaultyNext ==
  \/ Next
  \/ \E s \in Sessions : SessionSaveFails(s) \/ SessionIndexFails(s)
  \/ \E w \in Workers : WorkFault(w)

Spec == Init /\ [][Next]_vars
FaultySpec == Init /\ [][FaultyNext]_vars

\* Tokio runs sessions, workers and the cleanup interval; peers owe nothing.
FairSpec ==
  /\ Spec
  /\ WF_vars(EvictOld)
  /\ \A s \in Sessions : WF_vars(SessionStep(s))
  /\ \A w \in Workers : WF_vars(WorkerStep(w))

-------------------------------------------------------------------------------
(* Properties *)

SessionSaves(h) == \E s \in Sessions : session[s] = [pc |-> "save", hash |-> h]
InQueue(h) == \E i \in 1..Len(queue) : queue[i] = h

\* A block held only in memory (queued, parked, or in a worker's hands) is already
\* in the database or its session is about to save it: neither the age limit of
\* the pool nor a full pool can lose the only copy.
MemoryHoldsNoOnlyCopy ==
  \A h \in Hashes :
    h \in orphans \/ InQueue(h) \/ (\E w \in Workers : ~At(w, "idle") /\ worker[w].hash = h)
      => h \in stored \/ SessionSaves(h)

Busy == {w \in Workers : ~At(w, "idle")}
Queuing == {s \in Sessions : session[s].pc = "queue"}

\* Each block that was received is about to be queued, in the queue, in a worker's
\* hands or done with, and counted as processed at most once, whatever failed.
ProcessedWithinReceived ==
  processed + Cardinality(Busy) + Len(queue) + Cardinality(Queuing) <= received

\* Once the network is silent, the sessions have saved what they received or put in
\* the queue, all that is saved is indexed, and the queue, the workers and the orphan
\* pool are empty again.
Settles ==
  <>[](/\ \A s \in Sessions : session[s].pc = "read"
       /\ queue = <<>>
       /\ orphans = {}
       /\ \A w \in Workers : At(w, "idle")
       /\ stored \subseteq headers)
===============================================================================
