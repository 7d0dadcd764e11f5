--------------------------- MODULE PeerNetworkProofs --------------------------
(***************************************************************************)
(* Theorems of PeerNetwork, for every set of seeds and connection tasks:   *)
(* the registries hold no dead peer, and agree on every seed that was not  *)
(* dialled twice at once.                                                  *)
(***************************************************************************)
EXTENDS PeerNetwork, FiniteSetTheorems, TLAPS

ConnStates ==
  {"free", "dialing", "add", "register", "registering", "session",
   "unregister", "unregistering", "remove"}

\* Which registry call a task can be in, given where its connection is.
CallInv ==
  \A d \in Dials :
    /\ Calling(d, "add_rust") => conn[d] = "registering" /\ Seed[d] \in RustSeeds
    /\ Calling(d, "remove_rust") => conn[d] = "unregistering"

LEMMA InitNetwork == Init => NetworkTypeOK /\ CallInv /\ NoGhostPeers
<1> USE HybridConstants, NetworkConstants
<1>1. Init => NetworkTypeOK
  <2> SUFFICES ASSUME Init PROVE NetworkTypeOK
    OBVIOUS
  <2>1. fastActive \in BOOLEAN
    BY Zenon DEF Init, HybridInit
  <2>2. /\ call = [d \in Dials |-> NoCall]
        /\ monitor = Asleep
        /\ mode = "Standard"
        /\ peerInfo = {} /\ rustPeers = {} /\ peers = {} /\ overlapped = {}
        /\ conn = [d \in Dials |-> IF d \in FirstDials THEN "dialing" ELSE "free"]
        /\ loop = [pc |-> "first", todo |-> {}]
    BY Zenon DEF Init, HybridInit
  <2> QED
    BY <2>1, <2>2 DEF NetworkTypeOK, Calling, Call, NoCall, Tick, Asleep, Modes
<1>2. Init => CallInv
  BY DEF Init, HybridInit, CallInv, Calling, Call, NoCall
<1>3. Init => NoGhostPeers
  BY DEF Init, HybridInit, NoGhostPeers
<1> QED
  BY <1>1, <1>2, <1>3

LEMMA RustPeersAreCounted ==
  ASSUME NetworkTypeOK
  PROVE  Cardinality(rustPeers) \in Nat
<1>1. IsFiniteSet(rustPeers)
  <2>1. rustPeers \subseteq Seeds /\ IsFiniteSet(Seeds)
    BY HybridConstants DEF NetworkTypeOK
  <2> QED
    BY <2>1, FS_Subset
<1> QED
  BY <1>1, FS_CardinalityType

\* The monitor writes fast_sync_active and nothing else that others use.
LEMMA MonitorIsApart ==
  MonitorStep => UNCHANGED <<peerInfo, rustPeers, mode, call, peers, conn, loop, overlapped>>
<1>1. MonitorReadsMode => UNCHANGED <<peerInfo, rustPeers, mode, call>>
  BY DEF MonitorReadsMode, registry
<1>2. MonitorCounts => UNCHANGED <<peerInfo, rustPeers, mode, call>>
  BY DEF MonitorCounts, registry
<1>3. MonitorActs => UNCHANGED <<peerInfo, rustPeers, mode, call>>
  BY Zenon DEF MonitorActs, registry
<1> QED
  BY <1>1, <1>2, <1>3, Zenon DEF MonitorStep, Monitor

LEMMA TypeStep ==
  ASSUME NetworkTypeOK, CallInv, [Next]_vars
  PROVE  NetworkTypeOK'
<1> USE HybridConstants, NetworkConstants DEF NetworkTypeOK
<1>1. CASE UNCHANGED vars
  BY <1>1 DEF vars, hybridVars, registry, Calling
<1>2. CASE LoopStep
  BY <1>2 DEF LoopStep, FirstDialsReturn, CountPeers, AwaitDials, SkipSeed, DialSeed, Move,
              hybridVars, registry, Calling
<1>3. CASE MonitorStep
  <2>1. Cardinality(rustPeers) \in Nat
    BY RustPeersAreCounted
  <2>2. CASE MonitorReadsMode \/ MonitorCounts
    BY <1>3, <2>1, <2>2 DEF MonitorStep, MonitorReadsMode, MonitorCounts, registry, Calling, Tick
  <2>3. CASE MonitorActs
    <3>1. fastActive' \in BOOLEAN
      <4>1. CASE monitor.mode = "Fast"
        BY <2>3, <4>1, Zenon DEF MonitorActs
      <4>2. CASE monitor.mode = "Hybrid"
        BY <2>3, <4>2, Zenon DEF MonitorActs
      <4>3. CASE monitor.mode = "Standard"
        BY <2>3, <4>3, Zenon DEF MonitorActs
      <4> QED
        BY <4>1, <4>2, <4>3 DEF Modes
    <3>2. monitor' = Asleep /\ UNCHANGED <<peerInfo, rustPeers, mode, call>>
      BY <2>3, Zenon DEF MonitorActs, registry
    <3> QED
      BY <1>3, <3>1, <3>2 DEF MonitorStep, Asleep, Tick, Modes, Calling
  <2> QED
    BY <1>3, <2>2, <2>3 DEF MonitorStep, Monitor
<1>4. ASSUME NEW d \in Dials, PeerStep(d) PROVE NetworkTypeOK'
  <2>1. CASE DialFails(d)
    BY <2>1 DEF DialFails, Move, hybridVars, registry, Calling
  <2>2. CASE DialSucceeds(d)
    BY <2>2 DEF DialSucceeds, Move, hybridVars, registry, Calling
  <2>3. CASE EndSession(d)
    BY <2>3 DEF EndSession, Move, hybridVars, registry, Calling
  <2> QED
    BY <1>4, <2>1, <2>2, <2>3 DEF PeerStep
<1>5. ASSUME NEW d \in Dials, AddPeer(d) \/ RemovePeer(d) PROVE NetworkTypeOK'
  BY <1>5 DEF AddPeer, RemovePeer, Move, hybridVars, registry, Calling
<1>6. ASSUME NEW d \in Dials, Register(d) \/ Unregister(d) PROVE NetworkTypeOK'
  BY <1>6 DEF Register, Unregister, RegisterInfo, UnregisterInfo, Move, Continue, Call,
              Calling, Modes
<1>7. ASSUME NEW d \in Dials, RegistryStep(d) PROVE NetworkTypeOK'
  <2>1. Cardinality(rustPeers) \in Nat
    BY RustPeersAreCounted
  <2>2. CASE SetMode(d)
    BY <1>7, <2>2 DEF RegistryStep, SetMode, Continue, Call, NoCall, Calling, registry, Modes
  <2>3. CASE RegisterRust(d)
    BY <1>7, <2>3 DEF RegistryStep, RegisterRust, Continue, Call, Calling, CallInv, Modes
  <2>4. CASE UnregisterRust(d)
    BY <1>7, <2>4 DEF RegistryStep, UnregisterRust, Continue, Call, Calling, Modes
  <2>5. CASE CountRust(d)
    BY <1>7, <2>1, <2>5 DEF RegistryStep, CountRust, Continue, Call, Calling, registry, Modes
  <2>6. CASE CountTotal(d)
    <3>1. ModeFor(call[d].rust, Cardinality(peerInfo)) \in Modes
      BY DEF ModeFor, Modes
    <3> QED
      BY <1>7, <2>6, <3>1 DEF RegistryStep, CountTotal, Continue, Call, Calling, registry
  <2> QED
    BY <1>7, <2>2, <2>3, <2>4, <2>5, <2>6 DEF RegistryStep, Proceed
<1> QED
  BY <1>1, <1>2, <1>3, <1>4, <1>5, <1>6, <1>7 DEF Next, TaskStep

LEMMA CallStep ==
  ASSUME NetworkTypeOK, CallInv, [Next]_vars
  PROVE  CallInv'
<1> USE DEF NetworkTypeOK, CallInv, Calling
<1>1. CASE UNCHANGED vars
  BY <1>1 DEF vars, hybridVars
<1>2. CASE LoopStep
  BY <1>2 DEF LoopStep, FirstDialsReturn, CountPeers, AwaitDials, SkipSeed, DialSeed, Move,
              hybridVars
<1>3. CASE MonitorStep
  BY <1>3, MonitorIsApart
<1>4. ASSUME NEW d \in Dials, PeerStep(d) \/ AddPeer(d) \/ RemovePeer(d) PROVE CallInv'
  BY <1>4 DEF PeerStep, DialFails, DialSucceeds, EndSession, AddPeer, RemovePeer, Move, hybridVars
<1>5. ASSUME NEW d \in Dials, Register(d) \/ Unregister(d) PROVE CallInv'
  BY <1>5 DEF Register, Unregister, RegisterInfo, UnregisterInfo, Move, Continue, Call
<1>6. ASSUME NEW d \in Dials, RegistryStep(d) PROVE CallInv'
  BY <1>6 DEF RegistryStep, Proceed, RegisterRust, UnregisterRust, CountRust, CountTotal,
              SetMode, Continue, Call, NoCall
<1> QED
  BY <1>1, <1>2, <1>3, <1>4, <1>5, <1>6 DEF Next, TaskStep

LEMMA GhostStep ==
  ASSUME NetworkTypeOK, CallInv, NoGhostPeers, [Next]_vars
  PROVE  NoGhostPeers'
<1> USE DEF NetworkTypeOK, CallInv, Calling, NoGhostPeers, Serves
<1>1. CASE UNCHANGED vars
  BY <1>1 DEF vars, hybridVars, registry
<1>2. CASE LoopStep
  BY <1>2 DEF LoopStep, FirstDialsReturn, CountPeers, AwaitDials, SkipSeed, DialSeed, Move,
              hybridVars, registry
<1>3. CASE MonitorStep
  BY <1>3, MonitorIsApart
<1>4. ASSUME NEW d \in Dials, PeerStep(d) PROVE NoGhostPeers'
  BY <1>4 DEF PeerStep, DialFails, DialSucceeds, EndSession, Move, hybridVars, registry
<1>5. ASSUME NEW d \in Dials, AddPeer(d) PROVE NoGhostPeers'
  BY <1>5 DEF AddPeer, Move, hybridVars, registry
<1>6. ASSUME NEW d \in Dials, RemovePeer(d) PROVE NoGhostPeers'
  BY <1>6 DEF RemovePeer, Move, hybridVars, registry
<1>7. ASSUME NEW d \in Dials, Register(d) PROVE NoGhostPeers'
  BY <1>7 DEF Register, RegisterInfo, Move, Continue, Call
<1>8. ASSUME NEW d \in Dials, Unregister(d) PROVE NoGhostPeers'
  BY <1>8 DEF Unregister, UnregisterInfo, Move, Continue, Call
<1>9. ASSUME NEW d \in Dials, RegistryStep(d) PROVE NoGhostPeers'
  <2>1. CASE RegisterRust(d)
    BY <1>9, <2>1 DEF RegistryStep, RegisterRust, Continue, Call
  <2>2. CASE UnregisterRust(d)
    BY <1>9, <2>2 DEF RegistryStep, UnregisterRust, Continue, Call
  <2>3. CASE CountRust(d) \/ CountTotal(d)
    BY <1>9, <2>3 DEF RegistryStep, CountRust, CountTotal, Continue, Call, registry
  <2>4. CASE SetMode(d)
    BY <1>9, <2>4 DEF RegistryStep, SetMode, Continue, Call, NoCall, registry
  <2> QED
    BY <1>9, <2>1, <2>2, <2>3, <2>4 DEF RegistryStep, Proceed
<1> QED
  BY <1>1, <1>2, <1>3, <1>4, <1>5, <1>6, <1>7, <1>8, <1>9 DEF Next, TaskStep

\* The registries, the tasks and the monitor keep their types.
THEOREM NetworkTypeCorrect == Spec => []NetworkTypeOK
<1>1. Init => NetworkTypeOK /\ CallInv
  BY InitNetwork
<1>2. NetworkTypeOK /\ CallInv /\ [Next]_vars => (NetworkTypeOK /\ CallInv)'
  BY TypeStep, CallStep
<1> QED
  BY <1>1, <1>2, PTL DEF Spec

\* However many tasks serve one address, no registry keeps a peer that no task
\* will take out again.
THEOREM NoGhostsEver == Spec => []NoGhostPeers
<1> DEFINE IInv == NetworkTypeOK /\ CallInv /\ NoGhostPeers
<1>1. Init => IInv
  BY InitNetwork
<1>2. IInv /\ [Next]_vars => IInv'
  BY TypeStep, CallStep, GhostStep
<1> QED
  BY <1>1, <1>2, PTL DEF Spec

-------------------------------------------------------------------------------
(* Agreement of the registries *)

\* The stretch between add_peer_to_map and remove_peer, and the stretch in which
\* peer_info and rust_peers hold the peer.
InMap == {"register", "registering", "session", "unregister", "unregistering", "remove"}
Registered == {"registering", "session", "unregister"}

\* A seed that was never dialled twice at once has one task at most, and where that
\* task is says exactly which registries name the seed.
SoleTask ==
  \A d, e \in Dials :
    Seed[d] = Seed[e] /\ conn[d] # "free" /\ conn[e] # "free" /\ d # e => Seed[d] \in overlapped

InStep(d) ==
  /\ Seed[d] \in peers <=> conn[d] \in InMap
  /\ Seed[d] \in peerInfo <=> conn[d] \in Registered
  /\ Seed[d] \in rustPeers <=>
       /\ Seed[d] \in RustSeeds
       /\ \/ conn[d] \in Registered /\ ~Calling(d, "add_rust")
          \/ Calling(d, "remove_rust")

TaskInStep == \A d \in Dials : conn[d] # "free" /\ Seed[d] \notin overlapped => InStep(d)

AgreeInv == NetworkTypeOK /\ CallInv /\ NoGhostPeers /\ SoleTask /\ TaskInStep

LEMMA SoleTaskStep ==
  ASSUME AgreeInv, [Next]_vars
  PROVE  SoleTask'
<1> USE DEF AgreeInv, SoleTask, NetworkTypeOK
<1>1. CASE UNCHANGED vars
  BY <1>1 DEF vars
<1>2. CASE FirstDialsReturn \/ CountPeers \/ AwaitDials \/ \E a \in Seeds : SkipSeed(a)
  BY <1>2 DEF FirstDialsReturn, CountPeers, AwaitDials, SkipSeed
<1>3. ASSUME NEW a \in Seeds, DialSeed(a) PROVE SoleTask'
  BY <1>3 DEF DialSeed, Move, Busy
<1>4. CASE MonitorStep
  BY <1>4, MonitorIsApart
<1>5. ASSUME NEW d \in Dials, TaskStep(d) \/ PeerStep(d) PROVE SoleTask'
  <2>1. overlapped' = overlapped
    BY <1>5 DEF TaskStep, PeerStep, AddPeer, Register, Unregister, RegistryStep, RemovePeer,
                DialFails, DialSucceeds, EndSession
  <2>2. conn[d] # "free" /\ \A e \in Dials : e # d => conn'[e] = conn[e]
    <3>1. CASE PeerStep(d)
      BY <3>1 DEF PeerStep, DialFails, DialSucceeds, EndSession, Move
    <3>2. CASE AddPeer(d) \/ Register(d) \/ Unregister(d) \/ RemovePeer(d)
      BY <3>2 DEF AddPeer, Register, Unregister, RemovePeer, Move
    <3>3. CASE RegistryStep(d)
      BY <3>3 DEF RegistryStep, Proceed, RegisterRust, UnregisterRust, CountRust, CountTotal,
                  SetMode, Calling
    <3> QED
      BY <1>5, <3>1, <3>2, <3>3 DEF TaskStep
  <2> QED
    BY <2>1, <2>2
<1> QED
  BY <1>1, <1>2, <1>3, <1>4, <1>5 DEF Next, LoopStep

LEMMA TaskInStepStep ==
  ASSUME AgreeInv, [Next]_vars
  PROVE  TaskInStep'
<1> USE HybridConstants
    DEF AgreeInv, TaskInStep, InStep, InMap, Registered, NetworkTypeOK, CallInv, Calling
<1>1. CASE UNCHANGED vars
  BY <1>1 DEF vars, hybridVars, registry
<1>2. CASE FirstDialsReturn \/ CountPeers \/ AwaitDials \/ \E a \in Seeds : SkipSeed(a)
  BY <1>2 DEF FirstDialsReturn, CountPeers, AwaitDials, SkipSeed, hybridVars, registry
<1>3. ASSUME NEW a \in Seeds, DialSeed(a) PROVE TaskInStep'
  <2>1. CASE \E d \in Dials : Seed[d] = a /\ conn[d] = "free"
    <3>1. PICK d \in Dials : Seed[d] = a /\ Move(d, "free", "dialing")
      BY <1>3, <2>1 DEF DialSeed
    <3>2. UNCHANGED <<peerInfo, rustPeers, peers, call>>
      BY <1>3 DEF DialSeed, hybridVars, registry
    <3>3. overlapped \subseteq overlapped' /\ (Busy(a) # {} => a \in overlapped')
      BY <1>3, <2>1 DEF DialSeed
    <3>4. Busy(a) = {} => a \notin peers /\ a \notin peerInfo /\ a \notin rustPeers
      <4>1. ASSUME Busy(a) = {}, NEW e \in Dials, Seed[e] = a
            PROVE  conn[e] = "free" /\ ~Calling(e, "remove_rust")
        BY <4>1 DEF Busy
      <4>2. Busy(a) = {} => a \notin peers
        BY <4>1 DEF NoGhostPeers, Serves
      <4>3. Busy(a) = {} => a \notin peerInfo
        BY <4>1 DEF NoGhostPeers, Serves
      <4>4. Busy(a) = {} => a \notin rustPeers
        BY <4>1 DEF NoGhostPeers, Serves
      <4> QED
        BY <4>2, <4>3, <4>4
    <3>5. Calling(d, "idle")
      BY <3>1 DEF Move
    <3>6. ASSUME NEW e \in Dials, conn'[e] # "free", Seed[e] \notin overlapped'
          PROVE  InStep(e)'
      <4>1. CASE e = d
        BY <3>1, <3>2, <3>3, <3>4, <3>5, <3>6, <4>1 DEF Move
      <4>2. CASE e # d
        BY <3>1, <3>2, <3>3, <3>6, <4>2 DEF Move
      <4> QED
        BY <4>1, <4>2
    <3> QED
      BY <3>6
  <2>2. CASE ~\E d \in Dials : Seed[d] = a /\ conn[d] = "free"
    BY <1>3, <2>2 DEF DialSeed, hybridVars, registry
  <2> QED
    BY <2>1, <2>2
<1>4. CASE MonitorStep
  BY <1>4, MonitorIsApart
<1>5. ASSUME NEW d \in Dials, PeerStep(d) PROVE TaskInStep'
  BY <1>5 DEF PeerStep, DialFails, DialSucceeds, EndSession, Move, hybridVars, registry
<1>6. ASSUME NEW d \in Dials, AddPeer(d) PROVE TaskInStep'
  BY <1>6 DEF AddPeer, Move, hybridVars, registry, SoleTask
<1>7. ASSUME NEW d \in Dials, RemovePeer(d) PROVE TaskInStep'
  BY <1>7 DEF RemovePeer, Move, hybridVars, registry, SoleTask
<1>8. ASSUME NEW d \in Dials, Register(d) PROVE TaskInStep'
  BY <1>8 DEF Register, RegisterInfo, Move, Continue, Call, SoleTask
<1>9. ASSUME NEW d \in Dials, Unregister(d) PROVE TaskInStep'
  BY <1>9 DEF Unregister, UnregisterInfo, Move, Continue, Call, SoleTask
<1>10. ASSUME NEW d \in Dials, RegistryStep(d) PROVE TaskInStep'
  <2>1. CASE RegisterRust(d)
    BY <1>10, <2>1 DEF RegistryStep, RegisterRust, Continue, Call, SoleTask
  <2>2. CASE UnregisterRust(d)
    BY <1>10, <2>2 DEF RegistryStep, UnregisterRust, Continue, Call, SoleTask
  <2>3. CASE CountRust(d) \/ CountTotal(d)
    BY <1>10, <2>3 DEF RegistryStep, CountRust, CountTotal, Continue, Call, registry
  <2>4. CASE SetMode(d)
    BY <1>10, <2>4 DEF RegistryStep, SetMode, Continue, Call, NoCall, registry
  <2> QED
    BY <1>10, <2>1, <2>2, <2>3, <2>4 DEF RegistryStep, Proceed
<1> QED
  BY <1>1, <1>2, <1>3, <1>4, <1>5, <1>6, <1>7, <1>8, <1>9, <1>10 DEF Next, LoopStep, TaskStep

\* For every number of tasks, whenever no task for a seed is between two
\* registries, all three name the seed exactly if it has a session, provided it
\* was never dialled twice at once.
THEOREM RegistriesAlwaysAgree == Spec => []RegistriesAgree
<1>1. Init => AgreeInv
  <2>1. Init => SoleTask
    BY NetworkConstants DEF Init, SoleTask
  <2>2. Init => TaskInStep
    BY DEF Init, HybridInit, TaskInStep, InStep, InMap, Registered, Calling, NoCall, Call
  <2> QED
    BY <2>1, <2>2, InitNetwork DEF AgreeInv
<1>2. AgreeInv /\ [Next]_vars => AgreeInv'
  <2> SUFFICES ASSUME AgreeInv, [Next]_vars PROVE AgreeInv'
    OBVIOUS
  <2>1. NetworkTypeOK' /\ CallInv' /\ NoGhostPeers'
    BY TypeStep, CallStep, GhostStep DEF AgreeInv
  <2>2. SoleTask' /\ TaskInStep'
    BY SoleTaskStep, TaskInStepStep
  <2> QED
    BY <2>1, <2>2 DEF AgreeInv
<1>3. AgreeInv => RegistriesAgree
  <2> SUFFICES ASSUME AgreeInv, NEW a \in Seeds \ overlapped,
                      \A d \in Busy(a) : conn[d] \in {"dialing", "add", "session"}
               PROVE  /\ a \in peers <=> Serves(a, {"session"})
                      /\ a \in peerInfo <=> a \in peers
                      /\ a \in rustPeers <=> a \in peers \cap RustSeeds
    BY DEF RegistriesAgree
  <2>1. CASE Busy(a) = {}
    BY <2>1 DEF AgreeInv, NoGhostPeers, Serves, Busy, NetworkTypeOK, Calling
  <2>2. CASE Busy(a) # {}
    <3>1. PICK d \in Dials : Seed[d] = a /\ conn[d] # "free"
      BY <2>2 DEF Busy
    <3>2. InStep(d) /\ conn[d] \in {"dialing", "add", "session"}
      BY <3>1 DEF AgreeInv, TaskInStep, Busy
    <3>3. Serves(a, {"session"}) <=> conn[d] = "session"
      BY <3>1 DEF AgreeInv, SoleTask, Serves
    <3>4. Calling(d, "idle")
      BY <3>2 DEF AgreeInv, NetworkTypeOK
    <3> QED
      BY <3>1, <3>2, <3>3, <3>4 DEF InStep, InMap, Registered, Calling
  <2> QED
    BY <2>1, <2>2
<1> QED
  BY <1>1, <1>2, <1>3, PTL DEF Spec
===============================================================================
