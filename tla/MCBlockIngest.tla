---------------------------- MODULE MCBlockIngest -----------------------------
(***************************************************************************)
(* Small instances of BlockIngest: g <- a <- b, and g <- a <- {b, c}.      *)
(***************************************************************************)
EXTENDS BlockIngest, TLC

CONSTANTS g, a, b, c, w1, w2, s1, s2

TwoWorkers == {w1, w2}
TwoSessions == {s1, s2}

ChainHashes == {g, a, b}
ChainParent == (g :> NoHash) @@ (a :> g) @@ (b :> a)

ForkHashes == {g, a, b, c}
ForkParent == (g :> NoHash) @@ (a :> g) @@ (b :> a) @@ (c :> a)

Shuffle == Permutations(Workers) \cup Permutations(Sessions)
===============================================================================
