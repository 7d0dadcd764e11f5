----------------------------- MODULE MCPeerNetwork ----------------------------
(***************************************************************************)
(* Two Rust seeds with one task each.  The thresholds are scaled down so   *)
(* that one peer means hybrid mode and two mean fast mode.                 *)
(***************************************************************************)
EXTENDS PeerNetwork, TLC

CONSTANTS r1, r2, d1, d2

BothSeeds == {r1, r2}
BothDials == {d1, d2}
OneEach == (d1 :> r1) @@ (d2 :> r2)
===============================================================================
