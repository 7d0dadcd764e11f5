----------------------------- MODULE MCChainState -----------------------------
(***************************************************************************)
(* Small instances of ChainState for TLC.  Universes of headers: a chain, a*)
(* fork (a and c on genesis g, b on a), and one with a stray z, which has a*)
(* zero prev_block_hash but is not genesis.                                *)
(***************************************************************************)
EXTENDS ChainState, TLC

CONSTANTS g, a, b, c, z, t1, t2, t3

TwoThreads == {t1, t2}
ThreeThreads == {t1, t2, t3}

ForkHashes == {g, a, b, c}
ForkParent == (g :> NoHash) @@ (a :> g) @@ (b :> a) @@ (c :> g)
ForkDepth == (g :> 0) @@ (a :> 1) @@ (b :> 2) @@ (c :> 1)

ChainHashes == {g, a, b}
ChainParent == (g :> NoHash) @@ (a :> g) @@ (b :> a)
ChainDepth == (g :> 0) @@ (a :> 1) @@ (b :> 2)

StrayHashes == {g, a, b, z}
StrayParent == (g :> NoHash) @@ (a :> g) @@ (b :> a) @@ (z :> NoHash)
StrayDepth == (g :> 0) @@ (a :> 1) @@ (b :> 2) @@ (z :> 0)

Shuffle == Permutations(Threads)
===============================================================================
