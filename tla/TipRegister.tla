------------------------------ MODULE TipRegister -----------------------------
(***************************************************************************)
(* What ChainState promises to its users, with its threads, locks and      *)
(* tables hidden: a register holding the best block seen.  While the node  *)
(* runs the register only grows; a durable copy may lag behind it (a write *)
(* may fail) but never falls back; a restart resumes from the durable copy,*)
(* and from genesis when there is none.                                    *)
(***************************************************************************)
EXTENDS Naturals

CONSTANTS Blocks, Root, None

VARIABLES running, best, durable

register == <<running, best, durable>>

Tips == [hash : Blocks, height : Nat]
RootTip == [hash |-> Root, height |-> 0]

Init ==
  /\ running = FALSE
  /\ best = None
  /\ durable = None

Start ==
  /\ ~running
  /\ running' = TRUE
  /\ best' = IF durable = None THEN RootTip ELSE durable
  /\ durable' \in {durable, best'}

Improve ==
  /\ running
  /\ best' \in Tips
  /\ best'.height > best.height
  /\ durable' \in {durable, best'}
  /\ UNCHANGED running

Stop ==
  /\ running
  /\ running' = FALSE
  /\ best' = None
  /\ UNCHANGED durable

Next == Start \/ Improve \/ Stop

Spec == Init /\ [][Next]_register
===============================================================================
