------------------------------ MODULE MCExplorer ------------------------------
(***************************************************************************)
(* A block at height 1 of a chain that grows to 3, with the depths at      *)
(* which a refresh ends scaled down to 1 block and 2 confirmations.        *)
(***************************************************************************)
EXTENDS Explorer
===============================================================================
