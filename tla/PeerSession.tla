------------------------------ MODULE PeerSession ------------------------------
(***************************************************************************)
(* One peer session of p2p/peer_manager.rs: which blocks it knows of,      *)
(* which it has asked for, and what it does when the chain stops growing.  *)
(*                                                                         *)
(* The peer has one chain of blocks 1, 2, ...; 0 is the genesis block.  It *)
(* is external: it answers GETBLOCKS, GETHEADERS and GETDATA as the C++    *)
(* node does (TWINS-Core/src/main.cpp:5515-5582, 6022-6051), or, being     *)
(* some other node, with HEADERS, which the session understands too.  An   *)
(* answer is appended to inbox when the request is sent; reading is        *)
(* another step, so answers and ticks meet in every order.                 *)
(*                                                                         *)
(* The workers that index the same blocks again are in BlockIngest, the    *)
(* steps inside add_block_index and its reset in ChainState.               *)
(***************************************************************************)
EXTENDS Integers, FiniteSets, Sequences

CONSTANTS
  Batch,          \* MAX_BLOCKS_TO_REQUEST_PER_GETDATA
  InvLimit,       \* blocks in the peer's answer to GETBLOCKS
  HeadersPerMsg,  \* MAX_HEADERS_PER_MSG
  MaxPending,     \* MAX_PENDING_BLOCKS
  TimeoutTicks,   \* ticks of the status interval in REQUEST_TIMEOUT_SECONDS
  FirstTop,       \* length of the peer's chain at the beginning
  MaxTop,         \* bound: length of the peer's chain
  MaxInFlight,    \* bound: messages on their way when a tick fires
  MaxFaults       \* bound: failed saves, ignored requests and lost connections

ASSUME SessionConstants ==
  /\ Batch \in Nat \ {0}
  /\ InvLimit \in Nat \ {0}
  /\ HeadersPerMsg \in Nat \ {0}
  /\ MaxPending \in Nat
  /\ TimeoutTicks \in Nat \ {0}
  /\ MaxTop \in Nat
  /\ FirstTop \in 0..MaxTop
  /\ MaxInFlight \in Nat
  /\ MaxFaults \in Nat

VARIABLES
  height,     \* block_index_map: height of each indexed block, or Unknown
  tip,        \* current_tip
  stored,     \* blocks in the database
  pc,         \* what the session is doing
  pending,    \* pending_block_hashes_to_download, popped from its end
  requested,  \* session_requested_block_hashes
  headers,    \* the HEADERS message being handled: rest, size and new ones
  silence,    \* ticks since last_request_time, up to TimeoutTicks
  lastCount,  \* last_block_count
  inbox,      \* messages of the peer that the session has not read
  peerTop,    \* length of the peer's chain
  continueAt, \* hashContinue of the peer; 0 is none
  known,      \* setInventoryKnown of the peer
  lost,       \* history: blocks the session was told to forget or never got
  early,      \* history: some block was indexed before its parent
  faults      \* faults so far

nodeVars == <<height, tip, stored>>
sessionVars == <<pc, pending, requested, headers, silence, lastCount>>
peerVars == <<inbox, peerTop, continueAt, known>>
history == <<lost, early, faults>>
vars == <<nodeVars, sessionVars, peerVars, history>>

Blocks == 1..MaxTop
Unknown == -1
Elements(s) == {s[i] : i \in 1..Len(s)}
Least(m, n) == IF m < n THEN m ELSE n

\* The orders in which a set of blocks can be listed, and those of a chain.
Orders(S) == {s \in [1..Cardinality(S) -> S] : Elements(s) = S}
Ascending(S) == {s \in Orders(S) : \A i, j \in DOMAIN s : i < j => s[i] < s[j]}

NoHeaders == [rest |-> <<>>, size |-> 0, new |-> 0]

\* A message; the BLOCK messages that answer one GETDATA are one item list.
Message(type, items) == [type |-> type, items |-> items]

\* An INV of transactions or masternode messages only.  One that also names blocks
\* does to the session what its blocks do, one of unknown types only does nothing.
OtherInv == Message("inv", <<>>)

HeightOf(b) == IF b = 0 THEN 0 ELSE height[b]
Wanted == {b \in Blocks : height[b] # Unknown} \ stored
InTransit == UNION {Elements(inbox[i].items) : i \in {j \in 1..Len(inbox) : inbox[j].type = "block"}}

-------------------------------------------------------------------------------
(* The peer (external); box is the inbox its answer is appended to *)

\* GETBLOCKS with the tip as locator is answered by an INV of the next blocks,
\* without those PushInventory remembers to have sent, if it still remembers.
AnswerGetBlocks(box) ==
  LET last == Least(tip + InvLimit, peerTop)
      next == (tip + 1)..last
  IN /\ \E offered \in {next, next \ known} : \E s \in Ascending(offered) :
          inbox' = IF s = <<>> THEN box ELSE Append(box, Message("inv", s))
     /\ known' = known \cup next
     /\ continueAt' = IF last = tip + InvLimit THEN last ELSE continueAt

\* GETHEADERS is answered in the same way by the C++ node, by HEADERS elsewhere.
AnswerGetHeaders(box) ==
  \/ AnswerGetBlocks(box)
  \/ /\ \E s \in Ascending((tip + 1)..Least(tip + HeadersPerMsg, peerTop)) :
          inbox' = Append(box, Message("headers", s))
     /\ UNCHANGED <<known, continueAt>>

\* After the block at continueAt the peer announces its own tip.
WithContinuation(box, s) ==
  IF continueAt \in Elements(s) THEN Append(box, Message("inv", <<peerTop>>)) ELSE box

\* GETDATA is answered by the blocks, or ignored.
AnswerGetData(box, s) ==
  \/ /\ inbox' = IF s = <<>> THEN box ELSE WithContinuation(Append(box, Message("block", s)), s)
     /\ continueAt' = IF continueAt \in Elements(s) THEN 0 ELSE continueAt
     /\ UNCHANGED <<lost, faults>>
  \/ /\ s # <<>> /\ faults < MaxFaults
     /\ faults' = faults + 1
     /\ lost' = lost \cup Elements(s)
     /\ inbox' = box
     /\ UNCHANGED continueAt

\* The peer's chain grows and it announces the new block by INV or by headers.
Announce ==
  /\ pc # "off"
  /\ peerTop < MaxTop
  /\ peerTop' = peerTop + 1
  /\ \/ /\ inbox' = Append(inbox, Message("inv", <<peerTop'>>))
        /\ known' = known \cup {peerTop'}
     \/ /\ \E first \in 1..peerTop' : \E s \in Ascending(first..peerTop') :
             /\ Len(s) <= HeadersPerMsg
             /\ inbox' = Append(inbox, Message("headers", s))
        /\ UNCHANGED known
  /\ UNCHANGED <<nodeVars, sessionVars, continueAt, history>>

\* The peer announces something that is no block; what GETDATA brings of it is not
\* for this part of the session.  The bound leaves room for a tick.
AnnounceOther ==
  /\ pc # "off"
  /\ Len(inbox) < MaxInFlight
  /\ inbox' = Append(inbox, OtherInv)
  /\ UNCHANGED <<nodeVars, sessionVars, peerTop, continueAt, known, history>>

-------------------------------------------------------------------------------
(* The session *)

Init ==
  /\ height = [b \in Blocks |-> Unknown]
  /\ tip = 0
  /\ stored = {}
  /\ pc = "off"
  /\ pending = <<>>
  /\ requested = {}
  /\ headers = NoHeaders
  /\ silence = 0
  /\ lastCount = 0
  /\ inbox = <<>>
  /\ peerTop = FirstTop
  /\ continueAt = 0
  /\ known = {}
  /\ lost = {}
  /\ early = FALSE
  /\ faults = 0

\* The handshake is done; the session begins with a GETBLOCKS.
StartSession ==
  /\ pc = "off"
  /\ pc' = "read"
  /\ AnswerGetBlocks(<<>>)
  /\ UNCHANGED <<nodeVars, pending, requested, headers, silence, lastCount, peerTop, history>>

\* The peer closes, a send fails, or a tick interrupts the reading of a message,
\* whose other half is then no message: what the session knows goes with it.
EndSession ==
  /\ pc # "off" /\ faults < MaxFaults
  /\ faults' = faults + 1
  /\ pc' = "off"
  /\ pending' = <<>>
  /\ requested' = {}
  /\ headers' = NoHeaders
  /\ silence' = 0
  /\ lastCount' = 0
  /\ inbox' = <<>>
  /\ known' = {}
  /\ continueAt' = 0
  /\ lost' = lost \cup Wanted
  /\ UNCHANGED <<nodeVars, peerTop, early>>

\* Mutant: the tip is the block indexed last, known before or not.
IndexMovesTip(b) ==
  LET parent == HeightOf(b - 1)
      new == (IF parent = Unknown THEN HeightOf(tip) ELSE parent) + 1
  IN /\ height' = [height EXCEPT ![b] = IF @ = Unknown THEN new ELSE @]
     /\ tip' = b
     /\ early' = (early \/ (height[b] = Unknown /\ parent = Unknown))

\* add_block_index: the height follows the parent, or is guessed from the tip.
Index(b) ==
  IF height[b] # Unknown
  THEN UNCHANGED <<height, tip, early>>
  ELSE LET parent == HeightOf(b - 1)
           new == (IF parent = Unknown THEN HeightOf(tip) ELSE parent) + 1
       IN /\ height' = [height EXCEPT ![b] = new]
          /\ tip' = IF new > HeightOf(tip) THEN b ELSE tip
          /\ early' = (early \/ parent = Unknown)

Reads(type) == pc = "read" /\ inbox # <<>> /\ Head(inbox).type = type
Items == Head(inbox).items

\* INV: everything announced is requested, whether or not it is known, and restarts
\* the timeout; only blocks are remembered as requested.
ReceiveInv ==
  /\ Reads("inv")
  /\ requested' = requested \cup Elements(Items)
  /\ silence' = 0
  /\ AnswerGetData(Tail(inbox), Items)
  /\ UNCHANGED <<nodeVars, pc, pending, headers, lastCount, peerTop, known, early>>

\* The first BLOCK of an answer is read.
ReadBlock ==
  /\ Reads("block")
  /\ requested' = requested \ {Head(Items)}
  /\ inbox' = IF Len(Items) = 1 THEN Tail(inbox)
              ELSE <<Message("block", Tail(Items))>> \o Tail(inbox)
  /\ UNCHANGED <<pc, pending, headers, silence, lastCount, peerTop, continueAt, known>>

ReceiveBlock ==
  /\ ReadBlock
  /\ stored' = stored \cup {Head(Items)}
  /\ Index(Head(Items))
  /\ UNCHANGED <<lost, faults>>

\* The block is refused, or saving it or its header fails.
ReceiveBlockFails ==
  /\ faults < MaxFaults
  /\ ReadBlock
  /\ faults' = faults + 1
  /\ stored' \in {stored, stored \cup {Head(Items)}}
  /\ lost' = lost \cup {Head(Items)}
  /\ UNCHANGED <<height, tip, early>>

ReceiveHeaders ==
  /\ Reads("headers")
  /\ pc' = "headers"
  /\ headers' = [rest |-> Items, size |-> Len(Items), new |-> 0]
  /\ inbox' = Tail(inbox)
  /\ UNCHANGED <<nodeVars, pending, requested, silence, lastCount, peerTop, continueAt, known, history>>

\* Mutant: the queue has no limit.
QueuesUnbounded(b) == b \notin requested /\ b \notin Elements(pending)

\* A header joins the download queue unless it is in there, requested, or no room is.
Queues(b) == b \notin requested /\ b \notin Elements(pending) /\ Len(pending) < MaxPending

NextHeader ==
  /\ pc = "headers" /\ headers.rest # <<>>
  /\ UNCHANGED <<pc, stored, requested, silence, lastCount, peerVars>>

IndexHeader ==
  LET b == Head(headers.rest)
  IN /\ NextHeader
     /\ Index(b)
     /\ pending' = IF Queues(b) THEN Append(pending, b) ELSE pending
     /\ headers' = [headers EXCEPT !.rest = Tail(@), !.new = IF Queues(b) THEN @ + 1 ELSE @]
     /\ lost' = IF Queues(b) \/ b \in requested \cup Elements(pending) \cup stored THEN lost
                ELSE lost \cup {b}
     /\ UNCHANGED faults

IndexHeaderFails ==
  /\ NextHeader
  /\ faults < MaxFaults
  /\ faults' = faults + 1
  /\ headers' = [headers EXCEPT !.rest = Tail(@)]
  /\ UNCHANGED <<height, tip, pending, lost, early>>

\* What popping from the queue collects when n hashes are left in it.
Collected(n) == {pending[i] : i \in (n + 1)..Len(pending)} \ requested

\* Popping ends with an empty queue or a full batch.
Pops(n) ==
  /\ n = 0 \/ Cardinality(Collected(n)) = Batch
  /\ \A k \in (n + 1)..Len(pending) : Cardinality(Collected(k)) < Batch

Before(b, c) == \E i, j \in DOMAIN pending : i < j /\ pending[i] = b /\ pending[j] = c
NewestFirst(S) == {s \in Orders(S) : \A i, j \in DOMAIN s : i < j => Before(s[j], s[i])}

\* Mutant: that the batch is full is noticed when one more hash was popped.
RequestBatchPopsLate ==
  \E n \in 0..Len(pending) :
    /\ Pops(n)
    /\ pending' = SubSeq(pending, 1, n - 1)
    /\ requested' = requested \cup Collected(n)
    /\ silence' = IF Collected(n) = {} THEN silence ELSE 0
    /\ \E s \in NewestFirst(Collected(n)) : AnswerGetData(inbox, s)

RequestBatch ==
  \E n \in 0..Len(pending) :
    /\ Pops(n)
    /\ pending' = SubSeq(pending, 1, n)
    /\ requested' = requested \cup Collected(n)
    /\ silence' = IF Collected(n) = {} THEN silence ELSE 0
    /\ \E s \in NewestFirst(Collected(n)) : AnswerGetData(inbox, s)

\* After a full message with news more headers are asked for, after any other blocks.
FinishHeaders ==
  /\ pc = "headers" /\ headers.rest = <<>>
  /\ pc' = "read"
  /\ headers' = NoHeaders
  /\ IF headers.size = HeadersPerMsg /\ headers.new > 0
     THEN /\ AnswerGetHeaders(inbox)
          /\ UNCHANGED <<pending, requested, silence, lost, faults>>
     ELSE /\ RequestBatch
          /\ UNCHANGED known
  /\ UNCHANGED <<nodeVars, lastCount, peerTop, early>>

-------------------------------------------------------------------------------
(* The status interval *)

Waited == Least(silence + 1, TimeoutTicks)
Synced == HeightOf(tip) # lastCount
TimedOut == Waited = TimeoutTicks

\* Mutant: only a session that waits for something can be stalled.
StalledWhileWaiting == ~Synced /\ (requested # {} \/ pending # <<>>)

\* blocks_synced_since_last is zero; the subtraction may wrap, never to zero.
Stalled == ~Synced /\ (pending = <<>> \/ requested = {} \/ TimedOut)

\* Mutant: recovery asks for more and keeps the requests.
ClearsNever == FALSE

Clears == requested # {} \/ TimedOut

\* Recovery: forget the requests and ask for what follows the tip.
Recover ==
  /\ Stalled
  /\ requested' = IF Clears THEN {} ELSE requested
  /\ silence' = IF Clears THEN 0 ELSE Waited
  /\ AnswerGetBlocks(inbox)
  /\ UNCHANGED <<pending, lost, faults>>

Proceed ==
  /\ ~Stalled
  /\ IF pending # <<>> /\ requested = {}
     THEN RequestBatch
     ELSE /\ silence' = Waited
          /\ UNCHANGED <<pending, requested, inbox, continueAt, lost, faults>>
  /\ UNCHANGED known

Tick ==
  /\ pc = "read"
  /\ Len(inbox) <= MaxInFlight
  /\ lastCount' = HeightOf(tip)
  /\ Recover \/ Proceed
  /\ UNCHANGED <<nodeVars, pc, headers, peerTop, early>>

-------------------------------------------------------------------------------

Handle ==
  \/ ReceiveInv \/ ReceiveBlock \/ ReceiveHeaders
  \/ IndexHeader \/ FinishHeaders

Next ==
  \/ Announce \/ AnnounceOther
  \/ StartSession \/ EndSession
  \/ Handle \/ ReceiveBlockFails \/ IndexHeaderFails
  \/ Tick

Spec == Init /\ [][Next]_vars

\* The peer answers what it received and delivers its answers, the interval
\* ticks, and a lost session is dialled again; nobody has to announce anything.
\* Reading has priority over the interval, so that it ticks needs a peer that pauses.
FairSpec ==
  /\ Spec
  /\ WF_vars(StartSession)
  /\ WF_vars(Handle)
  /\ WF_vars(Tick)

-------------------------------------------------------------------------------
(* Properties *)

Messages == {"inv", "block", "headers"}

\* The queue holds different blocks and at most MAX_PENDING_BLOCKS; outside the
\* HEADERS handler there is no message in work; off means nothing is remembered.
SessionTypeOK ==
  /\ height \in [Blocks -> Nat \cup {Unknown}]
  /\ tip \in 0..MaxTop /\ HeightOf(tip) # Unknown
  /\ stored \subseteq Blocks
  /\ pc \in {"off", "read", "headers"}
  /\ pending \in Seq(Blocks) /\ Len(pending) <= MaxPending
  /\ \A i, j \in DOMAIN pending : pending[i] = pending[j] => i = j
  /\ requested \subseteq Blocks
  /\ headers \in [rest : Seq(Blocks), size : Nat, new : Nat]
  /\ pc # "headers" => headers = NoHeaders
  /\ silence \in 0..TimeoutTicks
  /\ lastCount \in Nat
  /\ inbox \in Seq([type : Messages, items : Seq(Blocks)])
  /\ \A i \in DOMAIN inbox : inbox[i].type = "block" => inbox[i].items # <<>>
  /\ peerTop \in 0..MaxTop
  /\ continueAt \in 0..peerTop
  /\ known \subseteq Blocks
  /\ lost \subseteq Blocks
  /\ early \in BOOLEAN
  /\ faults \in 0..MaxFaults
  /\ pc = "off" => pending = <<>> /\ requested = {} /\ inbox = <<>>

\* A block whose header is indexed and which is not stored is in the queue, is
\* requested, is on its way, or is one of those lost for a reason: the queue was
\* full, the peer ignored the request, saving failed, or the session ended.
\* Stall recovery, which forgets all requests, is no such reason.
WantedBlocksAreTracked ==
  Wanted \subseteq Elements(pending) \cup requested \cup InTransit \cup lost

\* A session that has nothing left to ask for or to receive, and lost nothing, holds
\* exactly the blocks up to its tip: blocks saved unasked or twice, stall recoveries,
\* lost sessions and a tip that moves while they are open leave no gap and nothing more,
\* as long as no block was indexed before its parent.
SettledIsComplete ==
  ~early /\ lost = {} /\ pending = <<>> /\ InTransit = {} => stored = 1..tip

\* No request stays open for ever, even when the peer ignores it, unless the peer
\* announces other items again and again while hashes wait in the queue: their
\* GETDATA restarts the timeout of the ignored one, and only it would end the stall.
RequestsEnd ==
  \/ \A b \in Blocks : b \in requested ~> b \notin requested
  \/ /\ []<>(\E i \in DOMAIN inbox : inbox[i] = OtherInv)
     /\ <>[](pending # <<>>)

\* In the end the session has the whole chain, or has lost a block, has indexed
\* one before its parent, or keeps hashes in its queue: downloads do not let an
\* indexed chain grow, and one that does not grow is stalled, not proactive.
CatchesUpUnlessLost ==
  <>[](lost = {} /\ ~early /\ pending = <<>> => 1..peerTop \subseteq stored)

\* Violated: a peer that keeps its chain and answers everything makes the node
\* complete.  The announcement after a batch lets the tip jump over a gap.
CatchesUp == <>[](1..peerTop \subseteq stored)
===============================================================================
