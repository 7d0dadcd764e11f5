-------------------------- MODULE SporkManagerProofs ---------------------------
(***************************************************************************)
(* The invariants of SporkManager for any number of sporks, values, times, *)
(* requests, restarts and faults.                                          *)
(*                                                                         *)
(* What the invariants need beside the types: a file that was not created  *)
(* is empty, unless a connection is stray only one request is at work,     *)
(* whose open file is the one at db_path, and then the node writes to it.  *)
(***************************************************************************)
EXTENDS SporkManager, TLAPS

Idle(r) == reset[r].pc = "idle"

UncreatedIsEmpty == \A f \in Files : f > created => content[f] = NoSporks

OneAtWork ==
  ~stray => /\ \A q, r \in Resetters : ~Idle(q) /\ ~Idle(r) => q = r
            /\ \A r \in Resetters : reset[r].pc = "opened" => reset[r].file = path

\* After its resets the node writes to the file at db_path, unless two of them
\* overlapped or one failed.
ConnectionIsAtPath == Resetting \/ stray \/ conn = path

Inv ==
  /\ SporkTypeOK
  /\ UncreatedIsEmpty
  /\ OneAtWork
  /\ ConnectionIsAtPath
  /\ RestartWouldKnow

LEMMA InitInv == Init => Inv
<1> SUFFICES ASSUME Init PROVE Inv
  OBVIOUS
<1> USE SporkConstants DEF Init
<1>0. 0 \in Files /\ 0 # None
  BY DEF Files
<1>1. SporkTypeOK
  <2>1. memory \in [Ids -> Sporks \cup {None}] /\ content \in [Files -> [Ids -> Sporks \cup {None}]]
    BY DEF NoSporks
  <2>2. reset \in [Resetters -> [pc : Phases, file : 0..created \cup {None}]]
    BY DEF Phases
  <2>3. \A r \in Resetters : reset[r].pc = "opened" <=> reset[r].file # None
    OBVIOUS
  <2>4. /\ path \in 0..created \cup {None} /\ path # None
        /\ conn \in 0..created
        /\ removed \in 0..MaxResets
        /\ created \in 0..removed
        /\ crashes \in 0..MaxCrashes
        /\ faults \in 0..MaxFaults
    BY <1>0
  <2> QED
    BY <2>1, <2>2, <2>3, <2>4 DEF SporkTypeOK
<1>2. UncreatedIsEmpty
  BY DEF UncreatedIsEmpty
<1>3. OneAtWork /\ ConnectionIsAtPath
  BY DEF OneAtWork, Idle, ConnectionIsAtPath
<1>4. RestartWouldKnow
  BY <1>0 DEF RestartWouldKnow, Durable, NoSporks
<1> QED
  BY <1>1, <1>2, <1>3, <1>4 DEF Inv

\* The file a request or a restart finds or creates exists afterwards.
LEMMA CreateOrFindType ==
  ASSUME SporkTypeOK
  PROVE  /\ CreateOrFind \in Files
         /\ created \in Nat /\ created <= MaxResets
         /\ path = None => CreateOrFind = created + 1
         /\ path # None => CreateOrFind = path /\ path \in 0..created
BY SporkConstants DEF SporkTypeOK, CreateOrFind, Files

LEMMA TypeStep == SporkTypeOK /\ [Next]_vars => SporkTypeOK'
<1> SUFFICES ASSUME SporkTypeOK, [Next]_vars PROVE SporkTypeOK'
  OBVIOUS
<1> USE SporkConstants
<1> USE DEF SporkTypeOK, Files, Phases
<1>1. CASE UNCHANGED vars
  BY <1>1 DEF vars, database, bounds
<1>2. ASSUME NEW id \in Ids, NEW spork \in Sporks, NEW key \in Keys, Receive(id, spork, key)
      PROVE  SporkTypeOK'
  <2>1. CASE Process(id, spork, key)
    BY <2>1 DEF Process, Saved, bounds
  <2>2. CASE ProcessUnsaved(id, spork, key)
    BY <2>2 DEF ProcessUnsaved, database
  <2> QED
    BY <1>2, <2>1, <2>2 DEF Receive
<1>3. ASSUME NEW r \in Resetters, Remove(r)
      PROVE  SporkTypeOK'
  BY <1>3 DEF Remove, Become, bounds
<1>4. ASSUME NEW r \in Resetters, Open(r)
      PROVE  SporkTypeOK'
  BY <1>4 DEF Open, Become, CreateOrFind, bounds
<1>5. ASSUME NEW r \in Resetters, Swap(r)
      PROVE  SporkTypeOK'
  BY <1>5 DEF Swap, Become, bounds
<1>6. ASSUME NEW r \in Resetters, OpenFails(r)
      PROVE  SporkTypeOK'
  BY <1>6 DEF OpenFails, Become, database
<1>7. ASSUME Restarted(CreateOrFind), memory' \in [Ids -> Sporks \cup {None}],
             excused' \subseteq Ids, faults' \in 0..MaxFaults
      PROVE  SporkTypeOK'
  <2>1. path' = CreateOrFind /\ conn' = CreateOrFind /\ path' # None
    BY <1>7, CreateOrFindType DEF Restarted
  <2>2. created' \in 0..removed' /\ path' \in 0..created'
    BY <1>7, <2>1, CreateOrFindType DEF Restarted
  <2>3. reset' \in [Resetters -> [pc : Phases, file : 0..created' \cup {None}]]
    BY <1>7 DEF Restarted
  <2>4. \A r \in Resetters : reset'[r].pc = "opened" <=> reset'[r].file # None
    BY <1>7 DEF Restarted
  <2>5. content' = content /\ removed' = removed /\ stray' = FALSE /\ crashes' \in 0..MaxCrashes
    BY <1>7 DEF Restarted
  <2> QED
    BY <1>7, <2>1, <2>2, <2>3, <2>4, <2>5
<1>8. content[CreateOrFind] \in [Ids -> Sporks \cup {None}] /\ NoSporks \in [Ids -> Sporks \cup {None}]
  BY CreateOrFindType DEF NoSporks
<1>9. CASE Restart
  BY <1>7, <1>8, <1>9 DEF Restart
<1>10. CASE RestartEmpty
  BY <1>7, <1>8, <1>10 DEF RestartEmpty
<1> QED
  BY <1>1, <1>2, <1>3, <1>4, <1>5, <1>6, <1>9, <1>10 DEF Next, ResetStep

\* Only resets and restarts move the connection, the file and the requests.
LEMMA ProcessKeepsDatabase ==
  ASSUME NEW id \in Ids, NEW spork \in Sporks, NEW key \in Keys, Receive(id, spork, key)
  PROVE  UNCHANGED <<path, conn, reset, created, removed, stray>>
BY DEF Receive, Process, ProcessUnsaved, database

LEMMA FilesStep == SporkTypeOK /\ UncreatedIsEmpty /\ [Next]_vars => UncreatedIsEmpty'
<1> SUFFICES ASSUME SporkTypeOK, UncreatedIsEmpty, [Next]_vars PROVE UncreatedIsEmpty'
  OBVIOUS
<1> USE SporkConstants DEF UncreatedIsEmpty
<1>1. ASSUME content' = content, created' \in Nat, created' >= created
      PROVE  UncreatedIsEmpty'
  BY <1>1 DEF SporkTypeOK, Files
<1>2. ASSUME NEW id \in Ids, NEW spork \in Sporks, NEW key \in Keys, Process(id, spork, key)
      PROVE  UncreatedIsEmpty'
  BY <1>2 DEF Process, Saved, SporkTypeOK, Files
<1>3. ASSUME [Next]_vars,
             \A id \in Ids, spork \in Sporks, key \in Keys : ~Process(id, spork, key)
      PROVE  content' = content /\ created' \in Nat /\ created' >= created
  <2>1. created \in Nat
    BY DEF SporkTypeOK
  <2> QED
    BY <1>3, <2>1 DEF Next, Receive, ProcessUnsaved, Remove, ResetStep, Open, OpenFails, Swap,
       Restart, RestartEmpty, Restarted, database, vars
<1> QED
  BY <1>1, <1>2, <1>3

\* With no stray connection, the requests of Remove, Open and Swap take turns.
LEMMA ConnectionStep ==
  SporkTypeOK /\ OneAtWork /\ ConnectionIsAtPath /\ [Next]_vars => (OneAtWork /\ ConnectionIsAtPath)'
<1> SUFFICES ASSUME SporkTypeOK, OneAtWork, ConnectionIsAtPath, [Next]_vars, ~stray'
             PROVE  (OneAtWork /\ ConnectionIsAtPath)'
  BY DEF OneAtWork, ConnectionIsAtPath
<1> USE DEF OneAtWork, ConnectionIsAtPath, Resetting, Idle
<1>1. CASE UNCHANGED <<path, conn, reset, stray>>
  BY <1>1
<1>2. ASSUME NEW r \in Resetters, Remove(r)
      PROVE  (OneAtWork /\ ConnectionIsAtPath)'
  <2>1. ~stray /\ (\A q \in Resetters : Idle(q))
    BY <1>2 DEF Remove
  <2>2. reset' = [reset EXCEPT ![r] = [pc |-> "removed", file |-> None]]
    BY <1>2 DEF Remove, Become
  <2>3. reset'[r].pc = "removed" /\ \A q \in Resetters \ {r} : reset'[q] = reset[q]
    BY <2>2 DEF SporkTypeOK
  <2> QED
    BY <2>1, <2>3
<1>3. ASSUME NEW r \in Resetters, Open(r)
      PROVE  (OneAtWork /\ ConnectionIsAtPath)'
  <2>1. ~stray /\ \A q \in Resetters \ {r} : Idle(q)
    BY <1>3 DEF Open
  <2>2. reset'[r].pc = "opened" /\ reset'[r].file = path' /\ \A q \in Resetters \ {r} : reset'[q] = reset[q]
    BY <1>3 DEF Open, Become, SporkTypeOK
  <2> QED
    BY <2>1, <2>2
<1>4. ASSUME NEW r \in Resetters, Swap(r)
      PROVE  (OneAtWork /\ ConnectionIsAtPath)'
  <2>1. ~stray /\ reset[r].file = path /\ \A q \in Resetters \ {r} : Idle(q)
    BY <1>4 DEF Swap
  <2>2. /\ reset'[r].pc = "idle" /\ \A q \in Resetters \ {r} : reset'[q] = reset[q]
        /\ conn' = path /\ path' = path
    BY <1>4, <2>1 DEF Swap, Become, SporkTypeOK
  <2> QED
    BY <2>1, <2>2
<1>5. ASSUME NEW r \in Resetters, OpenFails(r)
      PROVE  FALSE
  BY <1>5 DEF OpenFails
<1>6. CASE Restarted(CreateOrFind)
  BY <1>6 DEF Restarted
<1> QED
  BY <1>1, <1>2, <1>3, <1>4, <1>5, <1>6, ProcessKeepsDatabase DEF Next, ResetStep, Restart, RestartEmpty, vars, database

\* What a restart would find changes with the connection's file and the path only.
LEMMA DurableStep == Inv /\ [Next]_vars => RestartWouldKnow'
<1> SUFFICES ASSUME Inv, [Next]_vars PROVE RestartWouldKnow'
  OBVIOUS
<1> USE SporkConstants DEF RestartWouldKnow, Durable
<1>0. SporkTypeOK /\ ConnectionIsAtPath /\ RestartWouldKnow /\ UncreatedIsEmpty
  BY DEF Inv
<1>1. CASE UNCHANGED <<memory, content, path, excused>>
  BY <1>0, <1>1
<1>2. ASSUME NEW id \in Ids, NEW spork \in Sporks, NEW key \in Keys, Process(id, spork, key)
      PROVE  RestartWouldKnow'
  <2>1. /\ memory' = [memory EXCEPT ![id] = spork]
        /\ content' = [content EXCEPT ![conn][id] = spork]
        /\ path' = path
    BY <1>2 DEF Process, Saved
  <2>2. conn \in Files /\ (path # None => path \in Files)
    BY <1>0 DEF SporkTypeOK, Files
  <2>3. ASSUME NEW i \in Ids \ excused', i # id
        PROVE  Durable(i)' = memory'[i]
    <3>1. i \in Ids \ excused
      BY <1>2, <2>3 DEF Process
    <3>2. memory'[i] = memory[i]
      BY <1>0, <2>1, <2>3 DEF SporkTypeOK
    <3>3. path # None => content'[path][i] = content[path][i]
      BY <1>0, <2>1, <2>2, <2>3 DEF SporkTypeOK
    <3> QED
      BY <1>0, <2>1, <3>1, <3>2, <3>3
  <2>4. ASSUME id \notin excused'
        PROVE  Durable(id)' = memory'[id]
    <3>1. conn = path
      BY <1>0, <1>2, <2>4 DEF Process, ConnectionIsAtPath
    <3>2. path # None
      BY <1>0, <3>1 DEF SporkTypeOK
    <3>3. content'[path][id] = spork /\ memory'[id] = spork
      BY <1>0, <2>1, <2>2, <3>1 DEF SporkTypeOK
    <3> QED
      BY <2>1, <3>2, <3>3
  <2> QED
    BY <2>3, <2>4
<1>3. ASSUME NEW id \in Ids, NEW spork \in Sporks, NEW key \in Keys, ProcessUnsaved(id, spork, key)
      PROVE  RestartWouldKnow'
  <2>1. /\ memory' = [memory EXCEPT ![id] = spork] /\ excused' = excused \cup {id}
        /\ path' = path /\ content' = content
    BY <1>3 DEF ProcessUnsaved, database
  <2> QED
    BY <1>0, <2>1 DEF SporkTypeOK
<1>4. ASSUME NEW r \in Resetters, Remove(r)
      PROVE  RestartWouldKnow'
  BY <1>0, <1>4 DEF Remove
<1>5. ASSUME NEW r \in Resetters, Open(r)
      PROVE  RestartWouldKnow'
  <2>1. CASE path # None
    BY <1>1, <1>5, <2>1 DEF Open, CreateOrFind
  <2>2. CASE path = None
    <3>1. path' = created + 1 /\ created + 1 \in Files /\ path' # None
      BY <1>0, <1>5, <2>2 DEF Open, CreateOrFind, SporkTypeOK, Files
    <3>2. content'[path'] = NoSporks
      BY <1>0, <1>5, <3>1 DEF Open, UncreatedIsEmpty, SporkTypeOK
    <3> QED
      BY <1>0, <1>5, <2>2, <3>1, <3>2 DEF Open, NoSporks
  <2> QED
    BY <2>1, <2>2
<1>6. ASSUME NEW r \in Resetters, OpenFails(r) \/ Swap(r)
      PROVE  RestartWouldKnow'
  BY <1>1, <1>6 DEF OpenFails, Swap, database
<1>7. Restarted(CreateOrFind) => path' = CreateOrFind /\ path' # None /\ content' = content
  BY <1>0, CreateOrFindType DEF Restarted, Files
<1>8. CASE Restart
  BY <1>7, <1>8 DEF Restart
<1>9. CASE RestartEmpty
  BY <1>7, <1>9 DEF RestartEmpty, NoSporks
<1> QED
  BY <1>1, <1>2, <1>3, <1>4, <1>5, <1>6, <1>8, <1>9 DEF Next, Receive, ResetStep, vars, database

LEMMA InvStep == Inv /\ [Next]_vars => Inv'
BY TypeStep, FilesStep, ConnectionStep, DurableStep DEF Inv

LEMMA InvHolds == Spec => []Inv
BY InitInv, InvStep, PTL DEF Spec

\* Requests own a file from its opening to its swap, and files appear only where
\* one was removed (storage.rs:87-96).
THEOREM SporkTypeCorrect == Spec => []SporkTypeOK
<1>1. Inv => SporkTypeOK
  BY DEF Inv
<1> QED
  BY <1>1, InvHolds, PTL

\* However many requests reset the database, the node is left on a file that is
\* not at db_path only after two of them overlapped or one failed.
THEOREM ConnectionStaysAtPath == Spec => []ConnectionIsAtPath
<1>1. Inv => ConnectionIsAtPath
  BY DEF Inv
<1> QED
  BY <1>1, InvHolds, PTL

\* What process_spork_message put into the map is what a restart finds, for every
\* spork that is not excused by a failed call, a reset or a stray connection.
THEOREM RestartAlwaysWouldKnow == Spec => []RestartWouldKnow
<1>1. Inv => RestartWouldKnow
  BY DEF Inv
<1> QED
  BY <1>1, InvHolds, PTL

\* No order of delivery, reset or failed save makes a running node fall back to an
\* older spork, and a restart does so only for an excused one.
THEOREM NeverFallsBackUnexcused == Spec => FallsBackOnlyExcused
<1>1. SporkTypeOK /\ RestartWouldKnow /\ [Next]_vars =>
        [\A id \in Ids : SignedAt(memory'[id]) < SignedAt(memory[id])
           => crashes' > crashes /\ (id \in excused \/ faults' > faults)]_vars
  <2> SUFFICES ASSUME SporkTypeOK, RestartWouldKnow, Next, NEW id \in Ids,
                      SignedAt(memory'[id]) < SignedAt(memory[id])
               PROVE  crashes' > crashes /\ (id \in excused \/ faults' > faults)
    BY DEF vars
  <2> USE SporkConstants
  <2>0. SignedAt(memory[id]) \in Nat
    BY DEF SporkTypeOK, SignedAt, Sporks, Times
  <2>1. ASSUME memory' = memory
        PROVE  FALSE
    BY <2>0, <2>1
  <2>2. ASSUME NEW i \in Ids, NEW spork \in Sporks, NEW key \in Keys, Receive(i, spork, key)
        PROVE  FALSE
    <3>1. memory' = [memory EXCEPT ![i] = spork] /\ Newer(i, spork)
      BY <2>2 DEF Receive, Process, ProcessUnsaved
    <3>2. spork # None /\ spork.time \in Nat
      BY DEF Sporks, Times
    <3>3. CASE i = id
      <4>1. memory'[id] = spork
        BY <3>1, <3>3 DEF SporkTypeOK
      <4>2. SignedAt(memory'[id]) = spork.time
        BY <3>2, <4>1 DEF SignedAt
      <4> QED
        BY <2>0, <3>1, <3>2, <3>3, <4>2 DEF Newer
    <3>4. CASE i # id
      <4>1. memory'[id] = memory[id]
        BY <3>1, <3>4 DEF SporkTypeOK
      <4> QED
        BY <2>0, <4>1
    <3> QED
      BY <3>3, <3>4
  <2>3. ASSUME NEW r \in Resetters, Remove(r) \/ ResetStep(r) \/ OpenFails(r)
        PROVE  FALSE
    BY <2>1, <2>3 DEF Remove, ResetStep, Open, Swap, OpenFails
  <2>4. Restarted(CreateOrFind) => crashes' > crashes
    BY DEF Restarted, SporkTypeOK
  <2>5. CASE Restart
    <3>1. ASSUME id \notin excused
          PROVE  FALSE
      <4>1. path # None => memory'[id] = memory[id]
        BY <2>5, <3>1 DEF Restart, CreateOrFind, RestartWouldKnow, Durable
      <4>2. path = None => memory[id] = None
        BY <3>1 DEF RestartWouldKnow, Durable
      <4>3. memory[id] = None => FALSE
        <5>1. CreateOrFind \in Files
          BY CreateOrFindType
        <5>2. memory'[id] \in Sporks \cup {None}
          BY <2>5, <5>1 DEF Restart, SporkTypeOK
        <5>3. SignedAt(memory'[id]) \in Nat
          BY <5>2 DEF SignedAt, Sporks, Times
        <5> QED
          BY <5>3 DEF SignedAt
      <4> QED
        BY <2>0, <4>1, <4>2, <4>3
    <3> QED
      BY <2>4, <2>5, <3>1 DEF Restart
  <2>6. CASE RestartEmpty
    BY <2>4, <2>6 DEF RestartEmpty, SporkTypeOK
  <2> QED
    BY <2>2, <2>3, <2>5, <2>6 DEF Next
<1>2. Inv => SporkTypeOK /\ RestartWouldKnow
  BY DEF Inv
<1> QED
  BY <1>1, <1>2, InvHolds, PTL DEF Spec, FallsBackOnlyExcused

-------------------------------------------------------------------------------
(* SporkManager implements SporkTable *)

\* The rows a restart would load are those of the file at db_path, if there is one.
LEMMA RowsAtPath ==
  ASSUME SporkTypeOK
  PROVE  /\ path = None => [id \in Ids |-> Durable(id)] = NoSporks
         /\ path # None => [id \in Ids |-> Durable(id)] = content[path]
BY SporkConstants DEF SporkTypeOK, Durable, NoSporks, Files

\* A file that is found or created holds the rows there were.
LEMMA OpeningKeepsRows ==
  ASSUME SporkTypeOK, UncreatedIsEmpty
  PROVE  [id \in Ids |-> Durable(id)] = content[CreateOrFind]
<1>1. CASE path = None
  BY <1>1, CreateOrFindType, RowsAtPath DEF UncreatedIsEmpty
<1>2. CASE path # None
  BY <1>2, CreateOrFindType, RowsAtPath
<1> QED
  BY <1>1, <1>2

LEMMA TableInit == Init => Table!Init
BY SporkConstants DEF Init, Durable, NoSporks, Files, Table!Init, Table!Empty

\* A spork is saved in the file at db_path, or its row is in doubt.
LEMMA TableLearns ==
  ASSUME Inv, SporkTypeOK', NEW id \in Ids, NEW spork \in Sporks, NEW key \in Keys,
         Receive(id, spork, key)
  PROVE  Table!Learn(id, spork)
<1> USE SporkConstants
<1> DEFINE rows == [i \in Ids |-> Durable(i)]
<1>0. SporkTypeOK /\ ConnectionIsAtPath
  BY DEF Inv
<1>1. spork.time > Table!SignedAt(memory[id]) /\ memory' = [memory EXCEPT ![id] = spork]
  BY DEF Receive, Process, ProcessUnsaved, Newer, SignedAt, Table!SignedAt
<1>2. path' = path
  BY ProcessKeepsDatabase
<1>3. content' = content => rows' = rows
  BY <1>2 DEF Durable
<1>4. CASE ProcessUnsaved(id, spork, key)
  BY <1>1, <1>3, <1>4 DEF ProcessUnsaved, database, Table!Learn
<1>5. CASE Process(id, spork, key)
  <2>1. content' = [content EXCEPT ![conn][id] = spork] /\ conn \in Files
    BY <1>0, <1>5 DEF Process, Saved, SporkTypeOK, Files
  <2>2. ASSUME conn = path
        PROVE  rows' = [rows EXCEPT ![id] = spork]
    <3>1. path # None
      BY <1>0, <2>2 DEF SporkTypeOK
    <3>2. content'[path] = [content[path] EXCEPT ![id] = spork]
      BY <1>0, <2>1, <2>2 DEF SporkTypeOK
    <3>3. content[path] \in [Ids -> Sporks \cup {None}]
      BY <1>0, <3>1 DEF SporkTypeOK, Files
    <3>4. rows = content[path]
      BY <1>0, <3>1, RowsAtPath
    <3>5. rows' = [i \in Ids |-> content'[path][i]]
      BY <1>2, <3>1 DEF Durable
    <3> QED
      BY <3>2, <3>3, <3>4, <3>5
  <2>3. ASSUME conn # path
        PROVE  rows' = rows
    <3>1. path # None => content'[path] = content[path]
      BY <1>0, <2>1, <2>3 DEF SporkTypeOK, Files
    <3> QED
      BY <1>2, <3>1 DEF Durable
  <2>4. CASE Resetting \/ stray
    BY <1>1, <1>5, <2>2, <2>3, <2>4 DEF Process, Table!Learn
  <2>5. CASE ~(Resetting \/ stray)
    BY <1>0, <1>1, <1>5, <2>2, <2>5 DEF Process, ConnectionIsAtPath, Table!Learn
  <2> QED
    BY <2>4, <2>5
<1> QED
  BY <1>4, <1>5 DEF Receive

\* The table is emptied where the file is removed, and by no other step of a reset.
LEMMA TableResets ==
  ASSUME Inv, SporkTypeOK', NEW r \in Resetters, Remove(r) \/ ResetStep(r) \/ OpenFails(r)
  PROVE  Table!Reset \/ UNCHANGED Table!tableVars
<1> USE SporkConstants
<1> DEFINE rows == [id \in Ids |-> Durable(id)]
<1>0. SporkTypeOK /\ UncreatedIsEmpty
  BY DEF Inv
<1>1. content' = content /\ memory' = memory
  BY DEF Remove, ResetStep, Open, Swap, OpenFails, database
<1>2. path' = path => rows' = rows
  BY <1>1 DEF Durable
<1>3. CASE Remove(r)
  <2>1. CASE path' = None
    <3>1. rows' = NoSporks
      BY <2>1 DEF Durable, NoSporks
    <3> QED
      BY <1>1, <1>3, <2>1, <3>1 DEF Remove, NoSporks, Table!Reset, Table!Empty
  <2>2. CASE path' # None
    BY <1>1, <1>2, <1>3, <2>2 DEF Remove, Table!tableVars
  <2> QED
    BY <2>1, <2>2
<1>4. CASE Open(r)
  <2>1. path' = CreateOrFind /\ path' # None /\ path' \in Files
    BY <1>0, <1>4, CreateOrFindType DEF Open, Files
  <2>2. rows' = content[CreateOrFind]
    BY <1>0, <1>1, <2>1 DEF Durable, SporkTypeOK
  <2> QED
    BY <1>0, <1>1, <1>4, <2>2, OpeningKeepsRows DEF Open, Table!tableVars
<1>5. CASE Swap(r) \/ OpenFails(r)
  BY <1>1, <1>2, <1>5 DEF Swap, OpenFails, database, Table!tableVars
<1> QED
  BY <1>3, <1>4, <1>5 DEF ResetStep

\* A restart loads the rows of the file it finds or creates, or nothing.
LEMMA TableRestarts ==
  ASSUME Inv, Restart \/ RestartEmpty
  PROVE  Table!Restart
<1> USE SporkConstants
<1> DEFINE rows == [id \in Ids |-> Durable(id)]
<1>1. SporkTypeOK /\ rows = content[CreateOrFind]
  BY OpeningKeepsRows DEF Inv
<1>2. path' = CreateOrFind /\ path' # None /\ path' \in Files /\ content' = content
  BY <1>1, CreateOrFindType DEF Restart, RestartEmpty, Restarted, Files
<1>3. rows' = rows
  BY <1>1, <1>2 DEF Durable, SporkTypeOK
<1>4. CASE Restart
  BY <1>1, <1>3, <1>4 DEF Restart, Table!Restart
<1>5. CASE RestartEmpty
  <2>1. \A id \in Ids : content[CreateOrFind][id] = rows[id]
    BY <1>1
  <2> QED
    BY <1>3, <1>5, <2>1 DEF RestartEmpty, NoSporks, Table!Restart, Table!Empty
<1> QED
  BY <1>4, <1>5

\* Removed files, connections left on them and requests that overlap are no more
\* than a table that is emptied at once and rows known to be in doubt: every step of
\* the manager, of reset_db and of a restart is a step of SporkTable or none.
THEOREM SporksInOneTable == Spec => ImplementsTable
<1>1. Inv /\ SporkTypeOK' /\ [Next]_vars => [Table!Next]_(Table!tableVars)
  <2> SUFFICES ASSUME Inv, SporkTypeOK', [Next]_vars
               PROVE  Table!Next \/ UNCHANGED Table!tableVars
    OBVIOUS
  <2>1. CASE UNCHANGED vars
    BY <2>1 DEF vars, database, Durable, Table!tableVars
  <2>2. ASSUME NEW id \in Ids, NEW spork \in Sporks, NEW key \in Keys, Receive(id, spork, key)
        PROVE  Table!Next
    BY <2>2, TableLearns DEF Table!Next, Table!Sporks, Sporks, Times
  <2>3. ASSUME NEW r \in Resetters, Remove(r) \/ ResetStep(r) \/ OpenFails(r)
        PROVE  Table!Next \/ UNCHANGED Table!tableVars
    BY <2>3, TableResets DEF Table!Next
  <2>4. CASE Restart \/ RestartEmpty
    BY <2>4, TableRestarts DEF Table!Next
  <2> QED
    BY <2>1, <2>2, <2>3, <2>4 DEF Next
<1>2. Inv => SporkTypeOK
  BY DEF Inv
<1> QED
  BY <1>1, <1>2, TableInit, InvHolds, PTL DEF Spec, ImplementsTable, Table!Spec
===============================================================================
