------------------------------ MODULE HybridSync ------------------------------
(***************************************************************************)
(* The peer registry and the sync mode of p2p/hybrid_sync.rs:              *)
(* register_peer, unregister_peer and update_sync_mode, called by one task *)
(* per connection, and the monitor that switches fast sync on and off.     *)
(* (Its block queue and workers are in BlockIngest.)                       *)
(*                                                                         *)
(* peer_info, rust_peers, sync_mode and fast_sync_active each have a lock  *)
(* of their own; a step is one critical section.                           *)
(***************************************************************************)
EXTENDS Integers, FiniteSets

CONSTANTS
  Seeds,        \* peer addresses
  RustSeeds,    \* those whose user agent names fast sync
  Dials,        \* connection tasks
  Seed,         \* the address each of them talks to
  FastPeers,    \* Rust peers needed for fast mode (3)
  HybridPeers   \* hybrid mode needs more peers than this in all (3)

ASSUME HybridConstants ==
  /\ IsFiniteSet(Seeds)
  /\ RustSeeds \subseteq Seeds
  /\ Seed \in [Dials -> Seeds]
  /\ FastPeers \in Nat \ {0}
  /\ HybridPeers \in Nat

VARIABLES
  peerInfo,    \* keys of peer_info
  rustPeers,   \* rust_peers
  mode,        \* sync_mode
  fastActive,  \* fast_sync_active
  call,        \* where each task is in register_peer or unregister_peer
  monitor      \* where the mode monitor is

registry == <<peerInfo, rustPeers>>
hybridVars == <<registry, mode, fastActive, call, monitor>>

Modes == {"Standard", "Fast", "Hybrid"}

Call(pc, rust, new) == [pc |-> pc, rust |-> rust, mode |-> new]
NoCall == Call("idle", 0, "Standard")
Tick(pc, m, rust) == [pc |-> pc, mode |-> m, rust |-> rust]
Asleep == Tick("asleep", "Standard", 0)

HybridInit ==
  /\ peerInfo = {}
  /\ rustPeers = {}
  /\ mode = "Standard"
  /\ fastActive = FALSE
  /\ call = [d \in Dials |-> NoCall]
  /\ monitor = Asleep

Calling(d, pc) == call[d].pc = pc
Continue(d, c) == call' = [call EXCEPT ![d] = c]

-------------------------------------------------------------------------------
(* register_peer and unregister_peer *)

RegisterInfo(d) ==
  /\ Calling(d, "idle")
  /\ peerInfo' = peerInfo \cup {Seed[d]}
  /\ Continue(d, Call(IF Seed[d] \in RustSeeds THEN "add_rust" ELSE "count_rust", 0, "Standard"))
  /\ UNCHANGED <<rustPeers, mode, fastActive, monitor>>

RegisterRust(d) ==
  /\ Calling(d, "add_rust")
  /\ rustPeers' = rustPeers \cup {Seed[d]}
  /\ Continue(d, Call("count_rust", 0, "Standard"))
  /\ UNCHANGED <<peerInfo, mode, fastActive, monitor>>

UnregisterInfo(d) ==
  /\ Calling(d, "idle")
  /\ peerInfo' = peerInfo \ {Seed[d]}
  /\ Continue(d, Call("remove_rust", 0, "Standard"))
  /\ UNCHANGED <<rustPeers, mode, fastActive, monitor>>

\* Mutant: a peer leaves peer_info only.
UnregisterRustForgotten(d) ==
  /\ Calling(d, "remove_rust")
  /\ Continue(d, Call("count_rust", 0, "Standard"))
  /\ UNCHANGED <<registry, mode, fastActive, monitor>>

UnregisterRust(d) ==
  /\ Calling(d, "remove_rust")
  /\ rustPeers' = rustPeers \ {Seed[d]}
  /\ Continue(d, Call("count_rust", 0, "Standard"))
  /\ UNCHANGED <<peerInfo, mode, fastActive, monitor>>

\* update_sync_mode: the Rust peers are counted, then all peers,
CountRust(d) ==
  /\ Calling(d, "count_rust")
  /\ Continue(d, Call("count_total", Cardinality(rustPeers), "Standard"))
  /\ UNCHANGED <<registry, mode, fastActive, monitor>>

ModeFor(rust, total) ==
  IF rust >= FastPeers THEN "Fast"
  ELSE IF rust > 0 /\ total > HybridPeers THEN "Hybrid"
  ELSE "Standard"

CountTotal(d) ==
  /\ Calling(d, "count_total")
  /\ Continue(d, Call("set_mode", 0, ModeFor(call[d].rust, Cardinality(peerInfo))))
  /\ UNCHANGED <<registry, mode, fastActive, monitor>>

\* and the mode for these counts is written, whatever they are by now.
SetMode(d) ==
  /\ Calling(d, "set_mode")
  /\ mode' = call[d].mode
  /\ Continue(d, NoCall)
  /\ UNCHANGED <<registry, fastActive, monitor>>

-------------------------------------------------------------------------------
(* start_sync_mode_monitor *)

MonitorReadsMode ==
  /\ monitor.pc = "asleep"
  /\ monitor' = Tick("count", mode, 0)
  /\ UNCHANGED <<registry, mode, fastActive, call>>

MonitorCounts ==
  /\ monitor.pc = "count"
  /\ monitor' = Tick("act", monitor.mode, Cardinality(rustPeers))
  /\ UNCHANGED <<registry, mode, fastActive, call>>

\* Mutant: fast sync is never switched off.
MonitorOnlyActivates ==
  /\ monitor.pc = "act"
  /\ fastActive' = (fastActive \/ (monitor.mode = "Fast" /\ monitor.rust >= FastPeers))
  /\ monitor' = Asleep
  /\ UNCHANGED <<registry, mode, call>>

\* Fast mode activates if enough Rust peers are left, standard mode deactivates,
\* hybrid mode does neither.
MonitorActs ==
  /\ monitor.pc = "act"
  /\ fastActive' =
       CASE monitor.mode = "Fast" -> fastActive \/ monitor.rust >= FastPeers
         [] monitor.mode = "Hybrid" -> fastActive
         [] monitor.mode = "Standard" -> FALSE
  /\ monitor' = Asleep
  /\ UNCHANGED <<registry, mode, call>>

-------------------------------------------------------------------------------

\* The rest of a call that RegisterInfo or UnregisterInfo began.
Proceed(d) ==
  RegisterRust(d) \/ UnregisterRust(d) \/ CountRust(d) \/ CountTotal(d) \/ SetMode(d)

Monitor == MonitorReadsMode \/ MonitorCounts \/ MonitorActs
===============================================================================
