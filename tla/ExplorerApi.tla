------------------------------ MODULE ExplorerApi -----------------------------
(***************************************************************************)
(* What the explorer's pages can learn from the node: the answers of the   *)
(* HTTP handlers of api_service.rs, as far as the pages tell them apart.   *)
(*                                                                         *)
(* One block of the chain is looked at, with one transaction of it.  The   *)
(* header index only matters through its tip: the chain is linear, so the  *)
(* header of that block is known once the tip has reached its height.  A   *)
(* reset of the node starts a new era.                                     *)
(***************************************************************************)
EXTENDS Integers, Sequences, SequencesExt

CONSTANTS
  ItemHeight,  \* height of the block that is looked at
  MaxTip,      \* bound: height at which the chain stops growing
  MaxRegrown,  \* bound: the same after a reset
  MaxResets,   \* bound: how often the node is reset
  MaxFaults,   \* bound: how many answers or events are lost
  None         \* JavaScript's null, and an answer not given yet

ASSUME ApiConstants ==
  /\ ItemHeight \in Nat \ {0}
  /\ MaxTip \in Nat /\ MaxTip >= ItemHeight
  /\ MaxRegrown \in 0..MaxTip
  /\ MaxResets \in Nat
  /\ MaxFaults \in Nat

VARIABLES
  tip,       \* height of the node's tip
  era,       \* number of resets
  stored,    \* the block and its transactions are stored
  txHeight,  \* block_height of the transaction's row
  faults,    \* answers and events lost so far
  page       \* the page the browser shows

nodeVars == <<tip, era, stored, txHeight>>

\* What a page has been told is dated by the tip of that moment.
Now == [era |-> era, tip |-> tip]
NotBefore(a, b) == a.era > b.era \/ (a.era = b.era /\ a.tip >= b.tip)
Moments == [era: 0..MaxResets, tip: 0..MaxTip]

\* A page that exists names the block or its transaction; any other id is unknown.
Page(kind, exists) == [kind |-> kind, exists |-> exists, era |-> era]
ItemKinds == {"block", "tx"}
PolledKinds == {"home", "stats", "node"}

NodeInit ==
  /\ tip = 0
  /\ era = 0
  /\ stored = FALSE
  /\ txHeight = None
  /\ faults = 0

ExtendTip ==
  /\ tip < IF era = 0 THEN MaxTip ELSE MaxRegrown
  /\ tip' = tip + 1
  /\ UNCHANGED <<era, stored, txHeight>>

\* Mutant: the transaction is filed under the height of the tip.
SaveBlockAtTip ==
  /\ tip >= ItemHeight - 1
  /\ stored' = TRUE
  /\ txHeight' = IF tip >= ItemHeight THEN tip ELSE None
  /\ UNCHANGED <<tip, era>>

\* save_block looks the height up in the headers; a session saves a block that it was
\* sent unasked before it indexes the header.
SaveBlock ==
  /\ tip >= ItemHeight - 1
  /\ stored' = TRUE
  /\ txHeight' = IF tip >= ItemHeight THEN ItemHeight ELSE None
  /\ UNCHANGED <<tip, era>>

ResetSync ==
  /\ era < MaxResets
  /\ tip' = 0
  /\ era' = era + 1
  /\ stored' = FALSE
  /\ txHeight' = None

Lose == faults < MaxFaults /\ faults' = faults + 1

\* The header is looked up first, then the block data, then the tip.
BlockFound == stored /\ tip >= ItemHeight
BlockConfirmations == tip - ItemHeight + 1

\* Without a height, or above the tip, a transaction has no confirmations.
TxFound == stored
TxConfirmations == IF txHeight = None \/ tip < ItemHeight THEN 0 ELSE tip - ItemHeight + 1

Found(p) == p.exists /\ IF p.kind = "block" THEN BlockFound ELSE TxFound
Detail(p) ==
  [at |-> Now, conf |-> IF p.kind = "block" THEN BlockConfirmations ELSE TxConfirmations]
===============================================================================
