------------------------------- MODULE SporkTable ------------------------------
(***************************************************************************)
(* What SporkManager promises, with database files, connections and        *)
(* requests hidden: a map of sporks next to one table.  A spork is learnt  *)
(* into both, or its row is in doubt from then on; a reset empties the     *)
(* table at once; and a restart takes the table for the map.               *)
(***************************************************************************)
EXTENDS Integers

CONSTANTS Ids, Values, MaxTime, None

VARIABLES
  map,    \* the sporks in force
  table,  \* the rows a restart would load
  doubt   \* ids whose row need not be what the map holds

tableVars == <<map, table, doubt>>

Sporks == [value : Values, time : 1..MaxTime]
Empty == [id \in Ids |-> None]
SignedAt(entry) == IF entry = None THEN 0 ELSE entry.time

Init == map = Empty /\ table = Empty /\ doubt = {}

Learn(id, spork) ==
  LET saved == [table EXCEPT ![id] = spork]
  IN /\ spork.time > SignedAt(map[id])
     /\ map' = [map EXCEPT ![id] = spork]
     /\ \/ table' = saved /\ doubt' = doubt \ {id}
        \/ table' \in {table, saved} /\ doubt' = doubt \cup {id}

Reset ==
  /\ table' = Empty
  /\ doubt' = doubt \cup {id \in Ids : map[id] # None}
  /\ UNCHANGED map

\* The rows are loaded, or loading them fails.
Restart ==
  /\ \/ map' = table /\ doubt' = {}
     \/ map' = Empty /\ doubt' = {id \in Ids : table[id] # None}
  /\ UNCHANGED table

Next == Reset \/ Restart \/ \E id \in Ids, spork \in Sporks : Learn(id, spork)

Spec == Init /\ [][Next]_tableVars
===============================================================================
