----------------------------- MODULE MCPeerSession -----------------------------
(***************************************************************************)
(* A session with messages of two hashes, room for two and batches of one.*)
(***************************************************************************)
EXTENDS PeerSession
===============================================================================
