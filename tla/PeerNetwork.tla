------------------------------ MODULE PeerNetwork -----------------------------
(***************************************************************************)
(* Who the node is connected to: the tasks of p2p/connection.rs that dial  *)
(* seed nodes, the map of PeerManager, the sessions of p2p/peer_manager.rs *)
(* from their start to their cleanup, and the registry of HybridSync that  *)
(* both call.                                                              *)
(*                                                                         *)
(* A dial connects and performs the handshake, neither with a timeout: it  *)
(* may succeed, fail, or never return.  What a session does with messages  *)
(* is not described here; it may end at any time.  The parallel sync       *)
(* manager, told of a peer in between, keeps a registry of its own.        *)
(***************************************************************************)
EXTENDS HybridSync

CONSTANTS
  FirstDials,   \* the tasks of the first attempt, one per seed
  EnoughPeers   \* below this many peers the node dials again (3)

ASSUME NetworkConstants ==
  /\ FirstDials \subseteq Dials
  /\ \A a \in Seeds : \E d \in FirstDials : Seed[d] = a
  /\ \A d, e \in FirstDials : Seed[d] = Seed[e] => d = e
  /\ EnoughPeers \in Nat

VARIABLES
  peers,       \* keys of PeerManager.peers
  conn,        \* where each connection task is
  loop,        \* the loop of try_connect_to_seeds, and the seeds it has to look at
  overlapped   \* seeds that were dialled while a task for them existed (history)

vars == <<hybridVars, peers, conn, loop, overlapped>>

Init ==
  /\ HybridInit
  /\ peers = {}
  /\ conn = [d \in Dials |-> IF d \in FirstDials THEN "dialing" ELSE "free"]
  /\ loop = [pc |-> "first", todo |-> {}]
  /\ overlapped = {}

Move(d, from, to) == conn[d] = from /\ conn' = [conn EXCEPT ![d] = to]

-------------------------------------------------------------------------------
(* A connection task and its session *)

\* The connection is refused, or the handshake fails.
DialFails(d) ==
  /\ Move(d, "dialing", "free")
  /\ UNCHANGED <<hybridVars, peers, loop, overlapped>>

DialSucceeds(d) ==
  /\ Move(d, "dialing", "add")
  /\ UNCHANGED <<hybridVars, peers, loop, overlapped>>

\* add_peer_to_map, which replaces an entry that is there
AddPeer(d) ==
  /\ Move(d, "add", "register")
  /\ peers' = peers \cup {Seed[d]}
  /\ UNCHANGED <<hybridVars, loop, overlapped>>

Register(d) ==
  /\ Move(d, "register", "registering")
  /\ RegisterInfo(d)
  /\ UNCHANGED <<peers, loop, overlapped>>

\* A failed send or read, or the peer's goodbye, ends the session.
EndSession(d) ==
  /\ Move(d, "session", "unregister")
  /\ UNCHANGED <<hybridVars, peers, loop, overlapped>>

Unregister(d) ==
  /\ Move(d, "unregister", "unregistering")
  /\ UnregisterInfo(d)
  /\ UNCHANGED <<peers, loop, overlapped>>

\* Mutant: the session starts while update_sync_mode is still to run.
RegistryStepStartsEarly(d) ==
  /\ Proceed(d)
  /\ conn' = IF ~Calling(d, "count_rust") THEN conn
             ELSE [conn EXCEPT ![d] = IF @ = "registering" THEN "session" ELSE "remove"]
  /\ UNCHANGED <<peers, loop, overlapped>>

\* A registered task becomes a session, an unregistered one goes on to remove_peer.
RegistryStep(d) ==
  /\ Proceed(d)
  /\ conn' = IF ~Calling(d, "set_mode") THEN conn
             ELSE [conn EXCEPT ![d] = IF @ = "registering" THEN "session" ELSE "remove"]
  /\ UNCHANGED <<peers, loop, overlapped>>

\* Mutant: the session that ends leaves its entry behind.
RemovePeerForgotten(d) ==
  /\ Move(d, "remove", "free")
  /\ UNCHANGED <<hybridVars, peers, loop, overlapped>>

\* remove_peer goes by address, whoever made the entry.
RemovePeer(d) ==
  /\ Move(d, "remove", "free")
  /\ peers' = peers \ {Seed[d]}
  /\ UNCHANGED <<hybridVars, loop, overlapped>>

-------------------------------------------------------------------------------
(* try_connect_to_seeds *)

\* The first tasks are awaited without a timeout.
FirstDialsReturn ==
  /\ loop.pc = "first"
  /\ \A d \in FirstDials : conn[d] \notin {"dialing", "add", "register", "registering"}
  /\ loop' = [pc |-> "sleep", todo |-> {}]
  /\ UNCHANGED <<hybridVars, peers, conn, overlapped>>

\* Every 30 seconds the peers are counted; with enough of them nothing happens.
CountPeers ==
  /\ loop.pc = "sleep"
  /\ Cardinality(peers) < EnoughPeers
  /\ loop' = [pc |-> "redial", todo |-> Seeds]
  /\ UNCHANGED <<hybridVars, peers, conn, overlapped>>

SkipSeed(a) ==
  /\ loop.pc = "redial"
  /\ a \in loop.todo
  /\ a \in peers
  /\ loop' = [loop EXCEPT !.todo = @ \ {a}]
  /\ UNCHANGED <<hybridVars, peers, conn, overlapped>>

Busy(a) == {d \in Dials : Seed[d] = a /\ conn[d] # "free"}

\* A seed without an entry is dialled, even if an earlier dial is still under way
\* (bound: as long as the instance has a task left for it).
DialSeed(a) ==
  /\ loop.pc = "redial"
  /\ a \in loop.todo
  /\ a \notin peers
  /\ loop' = [loop EXCEPT !.todo = @ \ {a}]
  /\ IF \E d \in Dials : Seed[d] = a /\ conn[d] = "free"
     THEN /\ \E d \in Dials : Seed[d] = a /\ Move(d, "free", "dialing")
          /\ overlapped' = IF Busy(a) = {} THEN overlapped ELSE overlapped \cup {a}
     ELSE UNCHANGED <<conn, overlapped>>
  /\ UNCHANGED <<hybridVars, peers>>

\* Mutant: the new dials are awaited without a timeout, as the first ones are.
AwaitDialsForever ==
  /\ loop.pc = "redial"
  /\ loop.todo = {}
  /\ \A d \in Dials : conn[d] # "dialing"
  /\ loop' = [pc |-> "sleep", todo |-> {}]
  /\ UNCHANGED <<hybridVars, peers, conn, overlapped>>

\* Each new dial is awaited for ten seconds at most, and goes on after that.
AwaitDials ==
  /\ loop.pc = "redial"
  /\ loop.todo = {}
  /\ loop' = [pc |-> "sleep", todo |-> {}]
  /\ UNCHANGED <<hybridVars, peers, conn, overlapped>>

-------------------------------------------------------------------------------

\* What the node does with a connection once it is made or lost.
TaskStep(d) ==
  AddPeer(d) \/ Register(d) \/ Unregister(d) \/ RegistryStep(d) \/ RemovePeer(d)

\* What the peer and the network do.
PeerStep(d) == DialFails(d) \/ DialSucceeds(d) \/ EndSession(d)

LoopStep ==
  \/ FirstDialsReturn \/ CountPeers \/ AwaitDials
  \/ \E a \in Seeds : SkipSeed(a) \/ DialSeed(a)

MonitorStep == Monitor /\ UNCHANGED <<peers, conn, loop, overlapped>>

Next ==
  \/ LoopStep
  \/ MonitorStep
  \/ \E d \in Dials : TaskStep(d) \/ PeerStep(d)

Spec == Init /\ [][Next]_vars

\* Tokio runs the loop, the monitor and every task; nothing is asked of the peers.
FairSpec ==
  /\ Spec
  /\ WF_vars(LoopStep)
  /\ WF_vars(MonitorStep)
  /\ \A d \in Dials : WF_vars(TaskStep(d))

-------------------------------------------------------------------------------
(* Properties *)

NetworkTypeOK ==
  /\ peerInfo \subseteq Seeds
  /\ rustPeers \subseteq RustSeeds
  /\ peers \subseteq Seeds
  /\ mode \in Modes
  /\ fastActive \in BOOLEAN
  /\ call \in [Dials -> [pc : {"idle", "add_rust", "remove_rust", "count_rust",
                               "count_total", "set_mode"},
                         rust : Nat, mode : Modes]]
  /\ monitor \in [pc : {"asleep", "count", "act"}, mode : Modes, rust : Nat]
  /\ conn \in [Dials -> {"free", "dialing", "add", "register", "registering", "session",
                         "unregister", "unregistering", "remove"}]
  /\ loop \in [pc : {"first", "sleep", "redial"}, todo : SUBSET Seeds]
  /\ overlapped \subseteq Seeds
  /\ \A d \in Dials : conn[d] \in {"registering", "unregistering"} <=> ~Calling(d, "idle")

\* An entry in a registry has a task that will take it out again, also when several
\* tasks serve one address: no dead peer is counted by get_peer_count, which would
\* keep the node from dialling, or by update_sync_mode.
Serves(a, states) == \E d \in Dials : Seed[d] = a /\ conn[d] \in states
NoGhostPeers ==
  /\ \A a \in peers :
       Serves(a, {"register", "registering", "session", "unregister", "unregistering", "remove"})
  /\ \A a \in peerInfo : Serves(a, {"registering", "session", "unregister"})
  /\ \A a \in rustPeers :
       \/ Serves(a, {"registering", "session", "unregister"})
       \/ \E d \in Dials : Seed[d] = a /\ Calling(d, "remove_rust")

\* The three registries name exactly the peers with a session, whenever no task of
\* theirs is between two of them, unless a seed was dialled twice at once.
RegistriesAgree ==
  \A a \in Seeds \ overlapped :
    (\A d \in Busy(a) : conn[d] \in {"dialing", "add", "session"}) =>
      /\ a \in peers <=> Serves(a, {"session"})
      /\ a \in peerInfo <=> a \in peers
      /\ a \in rustPeers <=> a \in peers \cap RustSeeds

\* Once the first dials have returned, a seed that is missing while peers are few
\* is dialled again, however long other dials hang.
Dialing(a) == Serves(a, {"dialing", "add"})
Cared(a) == a \in peers \/ Dialing(a) \/ Cardinality(peers) >= EnoughPeers
MissingSeedsAreDialed ==
  \A a \in Seeds : loop.pc # "first" /\ ~Cared(a) ~> Cared(a)

\* If the mode stays standard fast sync ends, and if it stays fast, with the peers
\* for it, fast sync starts, although the monitor acts on a mode read earlier.
FastSyncFollowsMode ==
  /\ <>[](mode = "Standard") => <>[]~fastActive
  /\ <>[](mode = "Fast" /\ Cardinality(rustPeers) >= FastPeers) => <>[]fastActive

-------------------------------------------------------------------------------
(* What the repository's documents say, and the code does not do *)

\* README.md:60 promises, under "Automatic Peer Recovery", that the node "Reconnects
\* when peer count drops"; here, from the start on.
RecoversPeers == \A a \in Seeds : ~Cared(a) ~> Cared(a)
===============================================================================
