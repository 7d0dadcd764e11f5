---------------------------- MODULE MCSporkManager -----------------------------
(***************************************************************************)
(* One spork with an old and a new key, and two requests that reset.       *)
(***************************************************************************)
EXTENDS SporkManager
===============================================================================
