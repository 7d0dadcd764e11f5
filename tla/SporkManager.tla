----------------------------- MODULE SporkManager ------------------------------
(***************************************************************************)
(* The spork map of spork_manager.rs, the table that keeps it, and the     *)
(* database file under storage.rs that reset_db replaces.                  *)
(*                                                                         *)
(* Messages come in any order and number: what a peer sends, and whether a *)
(* command is recognised at all, is decided outside (p2p/messages.rs).     *)
(*                                                                         *)
(* The map is written with its lock held, and the save is made under it,   *)
(* so processing one message is one step.  reset_db is three: it removes   *)
(* the file and opens a new one before it takes the connection's lock.  A  *)
(* removed file stays usable for whoever has it open and is gone at the    *)
(* next start.  The reset empties the table and leaves the map as it is.   *)
(***************************************************************************)
EXTENDS Integers

CONSTANTS
  Ids,        \* spork ids
  Values,     \* values a spork can be signed with
  Resetters,  \* requests to POST /reset-sync
  MaxTime,    \* bound: times of signature are 1..MaxTime
  NewKeyFrom, \* MAINNET_ENFORCE_NEW_SPORK_KEY
  MaxResets,  \* bound: attempts to remove the file
  MaxCrashes, \* bound: restarts
  MaxFaults,  \* bound: failing database calls
  None        \* no spork, no file

ASSUME SporkConstants ==
  /\ MaxTime \in Nat \ {0}
  /\ NewKeyFrom \in Nat
  /\ MaxResets \in Nat
  /\ MaxCrashes \in Nat
  /\ MaxFaults \in Nat
  /\ None \notin Int
  /\ None \notin [value : Values, time : 1..MaxTime]

VARIABLES
  memory,   \* active_sporks
  content,  \* rows of the table sporks in every file there was
  path,     \* the file at db_path
  conn,     \* the file behind the connection
  reset,    \* what each request is doing, and the file it opened
  created,  \* files created since the first
  removed,  \* attempts to remove a file
  excused,  \* history: ids whose map entry is known not to be in the table
  stray,    \* history: two resets overlapped, or one could not open its file
  crashes, faults

database == <<content, path, conn, created, removed>>
bounds == <<crashes, faults>>
vars == <<memory, database, reset, excused, stray, bounds>>

Times == 1..MaxTime
Files == 0..MaxResets
Sporks == [value : Values, time : Times]
Keys == {"old", "new", "neither"}
NoSporks == [id \in Ids |-> None]
SignedAt(entry) == IF entry = None THEN 0 ELSE entry.time

Init ==
  /\ memory = NoSporks
  /\ content = [f \in Files |-> NoSporks]
  /\ path = 0
  /\ conn = 0
  /\ reset = [r \in Resetters |-> [pc |-> "idle", file |-> None]]
  /\ created = 0
  /\ removed = 0
  /\ excused = {}
  /\ stray = FALSE
  /\ crashes = 0
  /\ faults = 0

-------------------------------------------------------------------------------
(* process_spork_message *)

\* The signature parses and verifies under the key in force when it says it was made.
\* Which bytes are signed and how is left out; a signature of another scheme, one that
\* does not parse and one by a stranger are all by neither key.
Signed(spork, key) == key = IF spork.time >= NewKeyFrom THEN "new" ELSE "old"

\* Mutant: of two sporks the one that arrived last counts.
LastCounts(id, spork) == TRUE

Newer(id, spork) == spork.time > SignedAt(memory[id])

Resetting == \E r \in Resetters : reset[r].pc # "idle"

\* Mutant: the map has the new spork, and the row keeps the first one.
SavedOnce(id, spork) ==
  content' = IF content[conn][id] # None THEN content ELSE [content EXCEPT ![conn][id] = spork]

Saved(id, spork) == content' = [content EXCEPT ![conn][id] = spork]

Process(id, spork, key) ==
  /\ Signed(spork, key)
  /\ Newer(id, spork)
  /\ memory' = [memory EXCEPT ![id] = spork]
  /\ Saved(id, spork)
  /\ excused' = IF Resetting \/ stray THEN excused \cup {id} ELSE excused \ {id}
  /\ UNCHANGED <<path, conn, reset, created, removed, stray, bounds>>

\* save_spork fails, which is logged: the map is ahead of the table.
ProcessUnsaved(id, spork, key) ==
  /\ faults < MaxFaults
  /\ Signed(spork, key)
  /\ Newer(id, spork)
  /\ memory' = [memory EXCEPT ![id] = spork]
  /\ excused' = excused \cup {id}
  /\ faults' = faults + 1
  /\ UNCHANGED <<database, reset, stray, crashes>>

-------------------------------------------------------------------------------
(* reset_db *)

Become(r, pc, file) == reset' = [reset EXCEPT ![r] = [pc |-> pc, file |-> file]]

\* The file is removed; an error of remove_file is ignored.
Remove(r) ==
  /\ reset[r].pc = "idle"
  /\ removed < MaxResets
  /\ removed' = removed + 1
  /\ path' \in {None, path}
  /\ Become(r, "removed", None)
  /\ excused' = IF path' = None THEN excused \cup {id \in Ids : memory[id] # None} ELSE excused
  /\ stray' = (stray \/ Resetting)
  /\ UNCHANGED <<memory, content, conn, created, bounds>>

\* Mutant: a file is taken for new although it was there.
CreateAnew == created + 1

\* Connection::open creates a file where there is none.
CreateOrFind == IF path = None THEN created + 1 ELSE path

Open(r) ==
  /\ reset[r].pc = "removed"
  /\ path' = CreateOrFind
  /\ created' = IF path = None THEN created + 1 ELSE created
  /\ Become(r, "opened", path')
  /\ UNCHANGED <<memory, content, conn, removed, excused, stray, bounds>>

\* The request fails; the connection stays where it was.
OpenFails(r) ==
  /\ reset[r].pc = "removed"
  /\ faults < MaxFaults
  /\ faults' = faults + 1
  /\ stray' = TRUE
  /\ Become(r, "idle", None)
  /\ UNCHANGED <<memory, database, excused, crashes>>

\* Mutant: the new file is made ready and the old connection stays.
SwapForgotten(r) ==
  /\ reset[r].pc = "opened"
  /\ Become(r, "idle", None)
  /\ UNCHANGED <<memory, database, excused, stray, bounds>>

\* The connection is replaced under its lock.
Swap(r) ==
  /\ reset[r].pc = "opened"
  /\ conn' = reset[r].file
  /\ Become(r, "idle", None)
  /\ UNCHANGED <<memory, content, path, created, removed, excused, stray, bounds>>

-------------------------------------------------------------------------------
(* SporkManager::new after a crash: the map is what the table says *)

Restarted(file) ==
  /\ crashes < MaxCrashes
  /\ crashes' = crashes + 1
  /\ path' = file
  /\ conn' = file
  /\ created' = IF path = None THEN created + 1 ELSE created
  /\ reset' = [r \in Resetters |-> [pc |-> "idle", file |-> None]]
  /\ stray' = FALSE
  /\ UNCHANGED <<content, removed>>

Restart ==
  /\ Restarted(CreateOrFind)
  /\ memory' = content[CreateOrFind]
  /\ excused' = {}
  /\ UNCHANGED faults

\* load_sporks fails, and the node starts with an empty set.
RestartEmpty ==
  /\ faults < MaxFaults
  /\ faults' = faults + 1
  /\ Restarted(CreateOrFind)
  /\ memory' = NoSporks
  /\ excused' = {id \in Ids : content[CreateOrFind][id] # None}

-------------------------------------------------------------------------------

Receive(id, spork, key) == Process(id, spork, key) \/ ProcessUnsaved(id, spork, key)
ResetStep(r) == Open(r) \/ Swap(r)

Next ==
  \/ \E id \in Ids, spork \in Sporks, key \in Keys : Receive(id, spork, key)
  \/ \E r \in Resetters : Remove(r) \/ ResetStep(r) \/ OpenFails(r)
  \/ Restart \/ RestartEmpty

Spec == Init /\ [][Next]_vars

-------------------------------------------------------------------------------
(* Properties *)

Phases == {"idle", "removed", "opened"}

\* A request has a file exactly between its opening and its swap, no more files
\* are created than were removed, and the file at db_path exists.
SporkTypeOK ==
  /\ memory \in [Ids -> Sporks \cup {None}]
  /\ content \in [Files -> [Ids -> Sporks \cup {None}]]
  /\ path \in 0..created \cup {None}
  /\ conn \in 0..created
  /\ reset \in [Resetters -> [pc : Phases, file : 0..created \cup {None}]]
  /\ \A r \in Resetters : reset[r].pc = "opened" <=> reset[r].file # None
  /\ removed \in 0..MaxResets
  /\ created \in 0..(IF path = None THEN removed - 1 ELSE removed)
  /\ excused \subseteq Ids
  /\ stray \in BOOLEAN
  /\ crashes \in 0..MaxCrashes
  /\ faults \in 0..MaxFaults

Durable(id) == IF path = None THEN None ELSE content[path][id]

\* A restart would find the spork the map holds, unless saving or loading it
\* failed, a reset has emptied the table since, or a stray connection writes to a
\* file that is gone.
RestartWouldKnow ==
  \A id \in Ids \ excused : Durable(id) = memory[id]

\* A spork falls back to an older one only in a restart, and only when excused.
FallsBackOnlyExcused ==
  [][\A id \in Ids : SignedAt(memory'[id]) < SignedAt(memory[id])
         => crashes' > crashes /\ (id \in excused \/ faults' > faults)]_vars

\* Whatever files the resets create, remove and leave connections on, the node keeps
\* its sporks as if in one table: nothing is saved elsewhere unless the row is known to
\* be in doubt, a removed row does not come back, and a reset is one step.
Table ==
  INSTANCE SporkTable
  WITH map <- memory, table <- [id \in Ids |-> Durable(id)], doubt <- excused
ImplementsTable == Table!Spec
===============================================================================
