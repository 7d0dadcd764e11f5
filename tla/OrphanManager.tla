---------------------------- MODULE OrphanManager -----------------------------
(***************************************************************************)
(* The orphan pool (blockchain/orphan_manager.rs): add_block as it runs in *)
(* several workers at once, and the task that drops old orphans.           *)
(*                                                                         *)
(* The pool is two maps behind two locks, orphans and orphan_map.  The     *)
(* database is read and written between the critical sections; its tables  *)
(* blocks and block_headers are here the sets stored and headers (see      *)
(* ChainState for what add_block_index does in detail).  A step of a worker*)
(* is one database call or one critical section.  A block that reaches     *)
(* add_block has passed the session's merkle and signature checks, so the  *)
(* same signature check in process_block never fails.                      *)
(***************************************************************************)
EXTENDS Integers, FiniteSets, Sequences

CONSTANTS
  Workers,     \* tasks that call add_block (4 in hybrid_sync, 8 in fast_sync)
  Hashes,      \* block hashes
  Genesis,
  NoHash,      \* the zero hash
  Parent,      \* prev_block_hash
  MaxOrphans   \* MAX_ORPHAN_BLOCKS

ASSUME OrphanConstants ==
  /\ Genesis \in Hashes
  /\ NoHash \notin Hashes
  /\ Parent \in [Hashes -> Hashes \cup {NoHash}]
  /\ MaxOrphans \in Nat
  /\ IsFiniteSet(Workers)

VARIABLES
  stored,    \* table blocks
  headers,   \* table block_headers
  orphans,   \* keys of orphans
  waiting,   \* orphan_map: the children listed under each parent
  worker     \* what each worker is doing

pool == <<orphans, waiting>>
orphanVars == <<stored, headers, orphans, waiting, worker>>

\* frontier is blocks_to_process, batch the rest of waiting_orphans.
Job(pc, h, frontier, batch) ==
  [pc |-> pc, hash |-> h, frontier |-> frontier, batch |-> batch]
Free == Job("idle", NoHash, <<>>, {})

OrphanInit ==
  /\ stored = {}
  /\ headers = {Genesis}
  /\ orphans = {}
  /\ waiting = [p \in Hashes \cup {NoHash} |-> {}]
  /\ worker = [w \in Workers |-> Free]

At(w, pc) == worker[w].pc = pc
Goto(w, pc) == worker' = [worker EXCEPT ![w].pc = pc]
Done(w) == worker' = [worker EXCEPT ![w] = Free]

-------------------------------------------------------------------------------
(* add_block *)

AddBlock(w, h) ==
  /\ At(w, "idle")
  /\ worker' = [worker EXCEPT ![w] = Job("has_block", h, <<>>, {})]
  /\ UNCHANGED <<stored, headers, pool>>

\* A block already in storage is skipped.
HasBlock(w) ==
  /\ At(w, "has_block")
  /\ IF worker[w].hash \in stored THEN Done(w) ELSE Goto(w, "parent_block")
  /\ UNCHANGED <<stored, headers, pool>>

\* The parent exists if its block is stored or, asked next, its header is.
ParentBlock(w) ==
  /\ At(w, "parent_block")
  /\ Goto(w, IF Parent[worker[w].hash] \in stored THEN "save" ELSE "parent_header")
  /\ UNCHANGED <<stored, headers, pool>>

ParentHeader(w) ==
  /\ At(w, "parent_header")
  /\ Goto(w, IF Parent[worker[w].hash] \in headers THEN "save" ELSE "park")
  /\ UNCHANGED <<stored, headers, pool>>

\* Mutant: the limit is compared with > instead of >=.
ParkOneTooMany(w) ==
  LET h == worker[w].hash IN
  /\ At(w, "park")
  /\ IF Cardinality(orphans) > MaxOrphans
     THEN UNCHANGED pool
     ELSE /\ orphans' = orphans \cup {h}
          /\ waiting' = [waiting EXCEPT ![Parent[h]] = @ \cup {h}]
  /\ Done(w)
  /\ UNCHANGED <<stored, headers>>

\* add_orphan, under both locks.  A full pool refuses even an orphan it holds.
Park(w) ==
  LET h == worker[w].hash IN
  /\ At(w, "park")
  /\ IF Cardinality(orphans) >= MaxOrphans
     THEN UNCHANGED pool
     ELSE /\ orphans' = orphans \cup {h}
          /\ waiting' = [waiting EXCEPT ![Parent[h]] = @ \cup {h}]
  /\ Done(w)
  /\ UNCHANGED <<stored, headers>>

\* process_block: first the block, then its header.
SaveBlock(w) ==
  /\ At(w, "save")
  /\ stored' = stored \cup {worker[w].hash}
  /\ Goto(w, "index")
  /\ UNCHANGED <<headers, pool>>

ToDescendants(w) ==
  worker' = [worker EXCEPT ![w].pc = "release",
                           ![w].frontier = Append(@, worker[w].hash)]

IndexBlock(w) ==
  /\ At(w, "index")
  /\ headers' = headers \cup {worker[w].hash}
  /\ ToDescendants(w)
  /\ UNCHANGED <<stored, pool>>

\* Mutant: the next parent is looked at but not popped.
PeekParent(w) ==
  /\ At(w, "release")
  /\ worker[w].batch = {}
  /\ worker[w].frontier # <<>>
  /\ LET p == Head(worker[w].frontier) IN
       /\ worker' = [worker EXCEPT ![w].batch = waiting[p]]
       /\ waiting' = [waiting EXCEPT ![p] = {}]
  /\ UNCHANGED <<stored, headers, orphans>>

\* process_orphan_descendants: take all children listed under the next parent,
NextParent(w) ==
  /\ At(w, "release")
  /\ worker[w].batch = {}
  /\ worker[w].frontier # <<>>
  /\ LET p == Head(worker[w].frontier) IN
       /\ worker' = [worker EXCEPT ![w].batch = waiting[p], ![w].frontier = Tail(@)]
       /\ waiting' = [waiting EXCEPT ![p] = {}]
  /\ UNCHANGED <<stored, headers, orphans>>

\* Mutant: a child that is no longer in the pool is processed as an empty block.
ReleaseChildUnchecked(w) ==
  /\ At(w, "release")
  /\ \E c \in worker[w].batch :
       /\ worker' = [worker EXCEPT ![w].batch = @ \ {c},
                                   ![w].hash = IF c \in orphans THEN c ELSE NoHash,
                                   ![w].pc = "save"]
       /\ orphans' = orphans \ {c}
  /\ UNCHANGED <<stored, headers, waiting>>

\* and process each one that is still in the pool.
ReleaseChild(w) ==
  /\ At(w, "release")
  /\ \E c \in worker[w].batch :
       /\ worker' = [worker EXCEPT ![w].batch = @ \ {c},
                                   ![w].hash = IF c \in orphans THEN c ELSE @,
                                   ![w].pc = IF c \in orphans THEN "save" ELSE @]
       /\ orphans' = orphans \ {c}
  /\ UNCHANGED <<stored, headers, waiting>>

DescendantsDone(w) ==
  /\ At(w, "release")
  /\ worker[w].batch = {}
  /\ worker[w].frontier = <<>>
  /\ Done(w)
  /\ UNCHANGED <<stored, headers, pool>>

\* save_block fails: before its first row, or with the block written and some of
\* its transactions not.  The worker drops what it had still to release.
SaveBlockFails(w) ==
  /\ At(w, "save")
  /\ stored' \in {stored, stored \cup {worker[w].hash}}
  /\ Done(w)
  /\ UNCHANGED <<headers, pool>>

\* add_block_index returns None; process_block carries on.
IndexFails(w) ==
  /\ At(w, "index")
  /\ ToDescendants(w)
  /\ UNCHANGED <<stored, headers, pool>>

\* Mutant: a failed lookup counts as "there".
LookupFailsOpen(w) ==
  /\ \/ At(w, "has_block") /\ Done(w)
     \/ At(w, "parent_block") /\ Goto(w, "save")
     \/ At(w, "parent_header") /\ Goto(w, "save")
  /\ UNCHANGED <<stored, headers, pool>>

\* A failed lookup counts as "not there".
LookupFails(w) ==
  /\ \/ At(w, "has_block") /\ Goto(w, "parent_block")
     \/ At(w, "parent_block") /\ Goto(w, "parent_header")
     \/ At(w, "parent_header") /\ Goto(w, "park")
  /\ UNCHANGED <<stored, headers, pool>>

\* Mutant: dropping one old orphan drops its parent's whole list.
EvictWithSiblings ==
  /\ \E old \in SUBSET orphans \ {{}} :
       /\ orphans' = orphans \ old
       /\ waiting' = [p \in DOMAIN waiting |->
                        IF \E h \in old : Parent[h] = p THEN {} ELSE waiting[p]]
  /\ UNCHANGED <<stored, headers, worker>>

\* cleanup_old_orphans, under both locks: any set of orphans may be too old.
Evict ==
  /\ \E old \in SUBSET orphans \ {{}} :
       /\ orphans' = orphans \ old
       /\ waiting' = [p \in DOMAIN waiting |->
                        waiting[p] \ {h \in old : Parent[h] = p}]
  /\ UNCHANGED <<stored, headers, worker>>

-------------------------------------------------------------------------------

Work(w) ==
  \/ HasBlock(w) \/ ParentBlock(w) \/ ParentHeader(w) \/ Park(w)
  \/ SaveBlock(w) \/ IndexBlock(w)
  \/ NextParent(w) \/ ReleaseChild(w) \/ DescendantsDone(w)

Fault(w) == SaveBlockFails(w) \/ IndexFails(w) \/ LookupFails(w)

-------------------------------------------------------------------------------
(* Properties *)

Steps == {"idle", "has_block", "parent_block", "parent_header", "park",
          "save", "index", "release"}

\* Every piece of state has its type; a busy worker holds a block.
OrphanTypeOK ==
  /\ stored \subseteq Hashes
  /\ headers \subseteq Hashes
  /\ orphans \subseteq Hashes
  /\ waiting \in [Hashes \cup {NoHash} -> SUBSET Hashes]
  /\ worker \in [Workers -> [pc : Steps, hash : Hashes \cup {NoHash},
                             frontier : Seq(Hashes), batch : SUBSET Hashes]]
  /\ \A w \in Workers : worker[w].pc # "idle" => worker[w].hash \in Hashes

\* The pool never holds more than MAX_ORPHAN_BLOCKS, with all workers parking.
PoolIsBounded == Cardinality(orphans) <= MaxOrphans

\* A parked orphan is listed under its parent, or a worker has taken the list and
\* will come to it: otherwise nothing but its age would ever take it out.
OrphanIsListed ==
  \A h \in orphans : h \in waiting[Parent[h]] \/ \E w \in Workers : h \in worker[w].batch

\* Whatever the workers interleave, and however calls to the database fail, a
\* worker saves a block only when its parent's block or header is there: also
\* one it met as the orphan of an orphan.
SaveIsConnected ==
  \A w \in Workers : At(w, "save") => Parent[worker[w].hash] \in stored \cup headers

\* Every call of add_block returns: the walk over descendants terminates even
\* while other workers park and release orphans.
CallsReturn == \A w \in Workers : ~At(w, "idle") ~> At(w, "idle")

-------------------------------------------------------------------------------
(* What comments of the repository say, and the code does not do *)

\* orphan_manager.rs:74, "Check if any orphans were waiting for this block":
\* with no call under way, no orphan waits for a stored parent.
NoOrphanIsStranded ==
  (\A w \in Workers : At(w, "idle")) => \A h \in orphans : Parent[h] \notin stored
===============================================================================
