# A verification of the TWINS explorer

This directory holds a TLA+ development of the TWINS explorer: the Rust node in
`src/TWINS-Core/twins_node_rust` and the Next.js pages in `src/twins-explorer`
that show what it knows. It has specifications of the components, TLC runs that
check them on small instances, and TLAPS proofs of the properties that matter
most. Paths below are relative to `src/TWINS-Core/twins_node_rust/src/` unless
they begin with `src/`.

The node downloads headers and blocks of the TWINS chain from peers, keeps them
in SQLite, and serves them over HTTP and an event stream. It does not validate
consensus beyond merkle roots and stake signatures: what has to be right is its
bookkeeping, under many tokio tasks that share maps behind locks, a database
whose calls can fail, peers that send anything in any order, and restarts. The
explorer's pages have the same problem in small: several requests under way,
answers in any order, and a chain that moves on in between.

## 1. Inventory

| component | state | operations | what makes it correct |
|---|---|---|---|
| header index, `blockchain/chain_state.rs` | `block_index_map`, `current_tip`; tables `block_headers`, `chain_metadata` | `new`, `add_block_index`, `reset`, `get_tip`, `get_block_locator` | the tip is the best known header, only grows, is the one the database names, survives a crash; recorded heights are true; memory never ahead of the table |
| orphan pool, `blockchain/orphan_manager.rs` | `orphans`, `orphan_map` | `add_block`, walk over descendants, cleanup every minute | bounded; the two maps agree; no orphan forgotten; the walk ends |
| storage, `storage.rs` | one SQLite connection behind a mutex, the file behind it | save/get per table, `reset_db` | each call atomic; a block and its transactions agree |
| peer session, `p2p/peer_manager.rs`, `p2p/peer.rs` | download queue, requested hashes, counters, all local to the session | one branch per message, sync timer, keep-alive, cleanup | every header seen is requested until its block comes; no request forgotten; registries cleaned up |
| hybrid sync, `p2p/hybrid_sync.rs` | peer registry, Rust peers, mode, block queue, counters | register/unregister, `handle_block_received`, workers, mode monitor | registries agree; mode follows the peers; queue drained |
| connections, `p2p/connection.rs`, `p2p/seeds.rs` | connected peers | initial connections, reconnect loop | below three peers, the node keeps trying |
| fast sync, `p2p/fast_sync.rs` | request queues, in-flight requests, retry counts | dispatch, timeout, retry, receive | a request is in one place; retries bounded; limits per peer |
| parallel sync, `p2p/parallel_sync_manager.rs` | segments, peer loads, pipeline | assign, complete, time out, queue | each segment processed once; loads equal assignments |
| sporks, `spork_manager.rs` | active sporks, table `sporks` | load, receive, query | the newest signed value wins, in memory and on disk |
| masternode, governance and InstantSend managers | lists loaded at start | handlers that only log | (no state change) |
| API, `api_service.rs` | none of its own | read-only routes, the status stream, `POST /reset-sync` | one answer agrees with itself; reset leaves one agreed state |
| start-up, `main.rs` | none | builds the components, spawns their tasks | the tasks that exist |
| wire format, `p2p/messages.rs`, `util.rs`, `chainparams.rs` | none | encode, decode, checksum | both ends of a connection name and sign messages alike |
| explorer: block and transaction pages, `src/twins-explorer/src/hooks/useRealTimeBlock.ts`, `useRealTimeTransaction.ts` | item, error, loading, last known height | fetch, event stream, refresh | item or error, never both or neither; what should follow the chain does; loading ends |
| explorer: home, statistics and status pages, `useRealTimeData.ts`, `components/NodeStatus.tsx` | the parts shown, error, loading | a timer that polls | parts of one poll fit together; failures and overlaps are put right |
| explorer: search and navigation, `components/SearchBar.tsx`, `src/twins-explorer/src/app/node/page.tsx` | the page that is open | search, links, reset button | the page opened is about what was asked for |
| explorer: login wrapper, `components/AuthWrapper.js` | a flag in the browser | ask once | (none) |
| deployment, `src/twins-deploy` | none | shell scripts | (none) |
| TWINS Core wallet, `src/TWINS-Core/src` | C++ full node | vendored fork of PIVX | (outside this project) |

**How they interact.** `main.rs` builds storage, header index, orphan pool,
hybrid sync and the connection manager, and shares them by `Arc`. A connection
that completes its handshake becomes a session task; it registers with hybrid
sync and removes itself at the end. A session passes every header to
`add_block_index`. A valid block goes twice through the database: the session
pushes it on the queue of hybrid sync, whose workers call
`OrphanManager::add_block`, and then itself calls `save_block` and
`add_block_index`. The API reads the index and the tables, and resets them. A spork message goes
to the spork manager, which writes the same SQLite file. In the browser a page
asks the API, and is told of new heights by its event stream.

**What is hard.** `add_block_index` takes three locks one after the other, so
several sessions and workers interleave in the middle of a header; a parent may
come after its child; the process may die between two writes; a failed write is
logged and forgotten; `reset` runs against all of this. The orphan pool looks a
parent up long before it parks a child. Registries are updated in several
sections, timeouts do not cancel what they time. The
database file is replaced under an open connection. In the explorer an event
handler runs with the state of an older rendering, and answers overtake each
other.
The list, each at its line, is `hazards` in `PROJECT.json`.

## 2. Modules

| module | models | state |
|---|---|---|
| `ChainState` | `chain_state.rs` over `storage.rs` | done |
| `TipRegister` | the abstract promise of the header index | done |
| `ChainStateProofs` | theorems of `ChainState` | done |
| `MCChainState` | instances of `ChainState` | done |
| `OrphanManager` | `orphan_manager.rs` | done |
| `BlockIngest` | sessions and workers around `OrphanManager` | done |
| `MCBlockIngest` | instances of `BlockIngest` | done |
| `HybridSync` | peer registry, mode and monitor of `hybrid_sync.rs` | done |
| `PeerNetwork` | `connection.rs`, the peer map and the ends of a session, with `HybridSync` | done |
| `PeerNetworkProofs` | theorems of `PeerNetwork` | done |
| `MCPeerNetwork` | instances of `PeerNetwork` | done |
| `BlockIngestProofs` | theorems of `BlockIngest` and `OrphanManager` | done |
| `PeerSession` | download bookkeeping of `peer_manager.rs`, against a peer | done |
| `PeerSessionProofs` | theorems of `PeerSession` | done |
| `SporkManager` | `spork_manager.rs`, its table, and the file behind `storage.rs` | done |
| `SporkTable` | the abstract promise of the sporks and their file | done |
| `SporkManagerProofs` | theorems of `SporkManager` | done |
| `ExplorerApi` | what `api_service.rs` answers, as the pages tell it apart | done |
| `ItemPage` | block and transaction page | done |
| `PolledPage` | home, statistics and status page | done |
| `Explorer` | one browser tab: the pages, search, reset, the node | done |
| `ExplorerProofs`, `FreshnessProofs` | theorems of `Explorer`; the second, of `StaleOnlyForCause` | done |
| `MCPeerSession`, `MCSporkManager`, `MCExplorer` | their instances | done |

`BlockIngest` is composed of `OrphanManager` and the sessions and queue around
it, `PeerNetwork` of `HybridSync` and the connections, `Explorer` of
`ExplorerApi`, `ItemPage` and `PolledPage`.

### ChainState

`index`, `tip`, `dbHeader`, `dbTip` are `block_index_map`, `current_tip`, the
header table and the tip hash; `op[t]` says where thread `t` is. A step is one
critical section or one database call, the grain at which the code's threads
interleave. The one exception is in the code too: `AdvanceTip` writes the tip
hash while the tip lock is held (lines 176-196), so it is one step.

| action | code |
|---|---|
| `BootFromTip`, `BootSaveGenesis`, `BootSetTip` | `new`, 51-106, with its fallback to genesis |
| `CheckKnown` | 113-122, the early return for a known header |
| `ParentInIndex`, `ParentNotInIndex`, `NoParent` | 124-130, looking the parent up in memory |
| `LoadParent`, `CacheParent`, `ParentUnknown` | 131-147, loading it from the table and caching it |
| `EstimateHeight` | 146-160, tip height plus one for a header without parent |
| `SaveHeader`, `InsertIndex` | 162-174 |
| `AdvanceTip`, `KeepTip` | 176-196, the comparison with the tip |
| `ResetDatabase` ... `ResetTip` | `reset`, 265-289, in its order |
| `Crash` | the process is killed: memory goes, the database stays |
| `WriteFault`, `ReadFault`, `ResetFault` | a failed call, handled as the code handles it |

A header is its hash; `Parent` gives its `prev_block_hash`. Heights are
integers (the code's `u32` cannot overflow at one block a minute). Chain work is
not computed by the code, which compares heights. The early return of
`CheckKnown` changes nothing and is a stuttering step.

The environments differ in what may reach the component:

- `Spec`: headers in any order, crashes, no failing call;
- `InOrderSpec`: a header is added only when its parent is indexed or stored
  (one peer answering `GETHEADERS`), with crashes and failing writes, no
  failing reads. What is checked and proved of it is conditional: a peer's INV of its
  tip after a batch brings a child before its parent in ordinary sync, as the
  trace of `session_catchup` shows, and then the height is a guess;
- `ResettableSpec`: `Spec` with resets from any thread, the part of `FaultySpec`
  in which every call succeeds;
- `FaultySpec`: `ResettableSpec` with failing reads and writes;
- `FairSpec`: `Spec` with weak fairness.

`TipRegister` is what callers may rely on: a register that only grows while the
node runs, a durable copy that may lag but never falls back, and a restart that
resumes from it. Under `InOrderSpec`, `ChainState` implements it, with
`best <- tip` and `durable` the tip hash with its true height.

### OrphanManager and BlockIngest

`orphans` is the key set of the map of that name and `waiting` is `orphan_map`.
`stored` and `headers` are the key sets of the tables. A worker carries a
record of where it is in `add_block`; `frontier` is `blocks_to_process` and
`batch` what is left of the list it took from `orphan_map`. The list is a set
here: a child listed twice is found in `orphans` once. `Evict` is the
cleanup task; the age of an orphan is abstract, so any may be too old.

`BlockIngest` adds the sessions and the queue. `ReceiveBlock` and `SessionQueue` are
`handle_block_received`, which counts the block and queues it in two lock sections;
`SessionSave` and `SessionIndex` the rest of the
`BLOCK` branch, `ReceiveHeader` the loop over `HEADERS`; `TakeBlock` and
`WorkStep` are `start_block_processor`. Blocks that fail the merkle or
signature check are dropped before any state changes. In this module adding to
the index is one step, since its interior is `ChainState`'s subject; failing
calls are `SessionSaveFails`, `SessionIndexFails` and `WorkFault`.

### HybridSync and PeerNetwork

`peerInfo`, `rustPeers`, `mode` and `fastActive` are the four fields of those
names, each behind a lock of its own in the code; `call[d]` is where task `d` is
in `register_peer` or `unregister_peer`, and `monitor` where the mode monitor is,
with the values each has read. `PeerNetwork` adds `peers`, the key set of
`PeerManager.peers`, `conn[d]`, the stage of a connection task, and `loop`, the
loop of `try_connect_to_seeds`.

| action | code |
|---|---|
| `RegisterInfo`, `RegisterRust` | `register_peer`, its two sections |
| `UnregisterInfo`, `UnregisterRust` | `unregister_peer`, its two sections |
| `CountRust`, `CountTotal`, `SetMode` | `update_sync_mode`: two reads and a write |
| `MonitorReadsMode`, `MonitorCounts`, `MonitorActs` | one turn of `start_sync_mode_monitor` |
| `DialSucceeds`, `DialFails` | connecting and `perform_full_interaction` |
| `AddPeer`, `Register`, `RegistryStep` | what follows a handshake, up to the spawned session |
| `EndSession`, `Unregister`, `RegistryStep`, `RemovePeer` | the end of `handle_peer_session` |
| `FirstDialsReturn` | awaiting the first tasks, without a timeout |
| `CountPeers`, `SkipSeed`, `DialSeed`, `AwaitDials` | the reconnect loop |

Three abstractions need naming. A dial may never return, since neither the
connection nor the handshake has a timeout, so nothing forces `DialSucceeds` or
`DialFails`. `AwaitDials` may happen at once: the ten-second timeout ends only
the waiting, not the dial, and how long it waits is not told apart. And each
task of `Dials` stands for successive tasks for one address; `DialSeed` starts
one that is free, and does nothing when the instance has none left.

A seed without an entry may be dialled while an earlier dial for it is under
way. Then two sessions share an address, and the first to end removes the entry
of the other. `overlapped` is a history variable (read by no action) that
remembers such seeds: `RegistriesAgree` exempts them, `NoGhostPeers` does not.

The mode at rest need not fit the registries: of two calls of `update_sync_mode`
the one with the older counts may write last, and nothing recounts until a peer
comes or goes. This is why no property says it does; `FastSyncFollowsMode` says
what the monitor makes of the mode, whatever it is. In hybrid mode the monitor
leaves fast sync as it finds it, on or off.

### PeerSession

What one session knows of the chain and has asked for. The peer is external: a
chain of blocks `1..peerTop`, and answers to `GETBLOCKS`, `GETHEADERS` and
`GETDATA` as the C++ node gives them (`src/TWINS-Core/src/main.cpp:5515-5583`
and 6022-6051) or, being some other node, with `HEADERS`. Four of its habits
matter and are kept: it does not announce again what it remembers to have sent
(`known`, its `setInventoryKnown`, which is bounded and may forget, hence a
choice); at the last block of a full answer it announces its own tip
(`continueAt`, its `hashContinue`); it may ignore a request; and it announces
things that are no blocks (`AnnounceOther`). An answer is
appended to `inbox` when the request is sent and read in a step of its own, so
answers and ticks meet in every order.

| action | code (`p2p/peer_manager.rs`) |
|---|---|
| `StartSession`, `EndSession` | 209-273, the first `GETBLOCKS`; 673-692, whatever ends the loop |
| `ReceiveInv` | 394-451, an INV of blocks, or of anything else (`OtherInv`) |
| `ReceiveBlock`, `ReceiveBlockFails` | 343-393, with a refused block, a failing save or a failing index |
| `ReceiveHeaders`, `IndexHeader`, `IndexHeaderFails`, `FinishHeaders` | 284-341, one header a step |
| `RequestBatch` | 311-337, popping from the end of the queue until a batch is full |
| `Tick` (`Recover`, `Proceed`) | 586-665, the status interval, stalled or not |

An INV of transactions, masternode pings or whatever else is fetched like one of
blocks: it restarts the clock of the timeout (443) and leaves nothing outstanding
(428-432). What such a GETDATA brings concerns no variable here. An INV with blocks
among other items acts as its blocks do, and one with nothing but `Error` items does
nothing. So the plain promise that every request ends is false of the code: one
ignored request, hashes waiting in the queue, and a peer that announces other items
more often than every 30 seconds, and stall recovery (the purpose of the timeout
of `peer_manager.rs:222`) never runs. `RequestsEnd` states that this is the only way.

`pending` is `pending_block_hashes_to_download` and `requested` is
`session_requested_block_hashes`. `Index` is `add_block_index` in one step, with
the height it guesses for a header without parent. What the workers do with the
same blocks is in `BlockIngest`, and a reset under a session in `ChainState`;
neither is repeated here.

`EndSession` also stands for the interval that fires in the middle of a
message: `read_network_message` is dropped between its two reads, and the rest
of the message is then taken for a header.

Two history variables name what the code gives up. `lost` has the blocks the
session was told to forget: no room in the queue, an ignored request, a failing
save, the end of the session. `early` says that some block was indexed before
its parent. `CatchesUpUnlessLost` says that nothing else keeps the session from
the whole chain, with one more exception that is the code's: hashes left in the
queue are requested only while the tip rises, and downloading blocks whose
headers are indexed does not raise it.

### SporkManager

`memory` is `active_sporks`. The database is a set of files: `content[f]` has
the rows of file `f`, `path` is the file at `db_path`, `conn` the one behind the
connection. Processing a message is one step, since the save is made with the
map's lock held; `reset_db` is three, since it removes the file and opens a new
one before it takes the connection's lock. A removed file stays usable for
whoever has it open, and is gone at the next start.

| action | code |
|---|---|
| `Process`, `ProcessUnsaved` | `process_spork_message`, `spork_manager.rs:132-219`, with `save_spork` |
| `Remove`, `Open`, `OpenFails`, `Swap` | `reset_db`, `storage.rs:85-96` |
| `Restart`, `RestartEmpty` | `SporkManager::new`, 104-118, after `SqliteBlockStorage::new` |

The signature is abstract: the key that made it is the old one, the new one or
neither, and is right or wrong for the time of the spork. How it is encoded and
hashed, and how each of those steps can fail (138-187), is not told apart: each
failure drops the message.

The module describes the handler for whatever is delivered to it, and assumes nothing
about what is. From the C++ peers as they are nothing comes: `getsporks` and `spork` are
padded with spaces here (`p2p/messages.rs:26-27`) while the C++ node compares names
that end at the first NUL (`src/TWINS-Core/src/protocol.cpp:56-59`,
`spork.cpp:65`, `110`), no Rust session serves `getsporks`, and `spork.cpp:190-238` signs
another text in another format. Hence there is no property that the newest spork
arrives in the end.
 A reset empties the table and leaves the map as it is, and a spork that
is received again is not newer and never saved again; `excused` remembers the
sporks for which this, or a failure, has set map and table apart. `stray`
remembers that two resets overlapped or one could not open its file. Both are
history variables, read by no action.

`SporkTable` is what remains when files, connections and requests are hidden:
the map, one table, and the ids whose row is in doubt. A spork is learnt into
both, or its row is in doubt; a reset empties the table in one step; a restart
takes the table for the map. `SporkManager` implements it with the rows of the
file at `db_path` for the table and `excused` for the doubt. In particular
a removed row never comes back, and no step of `reset_db` but the removal of the
file changes what a restart would load.

### The explorer

`ExplorerApi` has the node as a page sees it: a tip, one block of interest with
one transaction, whether they are stored and at which height the transaction
was filed. An answer is dated by the tip and the number of resets at its moment,
which is how the properties tell an old answer from a new one.

`ItemPage` is a page with a hook: fetches are sent, answered and delivered in
three steps, and overtake each other. `seen` is the closure of the stream's
handler: React state is visible to a handler only after the effect of the next
rendering has installed a new one, and the code reads `block` and
`lastKnownHeight` from there.

| action | code (`src/twins-explorer/src`) |
|---|---|
| `OpenItem`, `CloseItem` | the first rendering and its effects; unmounting |
| `Answer`, `FetchFails` | the node's handlers; a lost connection |
| `Deliver` | the rest of `fetchBlock` and `fetchTransaction` after the `await` |
| `Emit`, `OnMessage` (`RefreshForHeight`, `NoteHeight`) | the stream of `api_service.rs`; `onmessage` |
| `Rerender` | the effect runs again with the state of the last rendering |
| `TimerFires`, `AnswerPart`, `PollFails`, `EndPoll` | `useRealTimeData.ts`, `components/NodeStatus.tsx` |
| `FollowLink`, `handleSearch` | links, `components/SearchBar.tsx` |
| `ClickReset`, `ServeReset`, `ResetFails` | `handleReset` of the status page, confirmed; `POST /reset-sync`, and its failure |

A reset whose dialogue is cancelled changes nothing and is a stuttering step; one whose
request fails releases the button as one that is answered does. The compact status in
the navigation bar (`app/layout.tsx:58`) polls for itself beside every page, shares
nothing with it, and is left out.

`SearchTarget` keeps what the search does with a hash of 64 digits: it is taken
for a transaction, and the test for a block's hash after it is never reached.

An item may be out of date for good, for two reasons, which `cause` remembers:
`"overtaken"`, an older answer was delivered after a newer one; `"unseen"`, a
height was noted by a handler that did not know of the item yet, so that it
never counts as new again. `StaleOnlyForCause` says that there is no third. A
page opened before its item exists never asks again, because without an item no
event refreshes; `LoadingEnds` only says that it does not stay loading, as long as requests
are answered or fail: the code's `fetch` has no timeout of its own (`lib/api.ts:130`).

## 3. Runs

| run | specification, instance | shows |
|---|---|---|
| `chain_any_order` | `FairSpec`, 2 threads, `g <- a <- b` and a stray header, 1 crash | types; the tip is the best header (`TipIsBest`); the database names it (`TipIsPersisted`); the node converges (`TipConverges`) |
| `chain_in_order` | `InOrderSpec`, 3 threads, fork `g <- a <- {b, c}`, 1 crash, failing writes | exact heights, stored headers with their ancestors, a durable tip that never falls, refinement of `TipRegister` |
| `chain_faulty` | `FaultySpec`, 2 threads, `g <- a <- b`, 2 crashes, 1 reset | memory not ahead of the table, tip hash with a header, genesis indexed, the tip falls only by a reset |
| `block_ingest` | `BlockIngest!FairSpec`, 2 sessions, 2 workers, fork, 3 messages, pool of 2 | orphans stay listed, nothing in memory is the only copy, calls return, everything settles |
| `ingest_faulty` | `BlockIngest!FaultySpec`, chain, 3 messages, pool of 1 | the pool keeps its limit, workers save connected blocks only, the processed blocks with those in hand, queued and about to be queued never exceed the received ones |
| `ingest_stranded` | `BlockIngest!Spec` | **violation**: an orphan waits for a parent that is stored |
| `peer_network` | `PeerNetwork!FairSpec`, 2 Rust seeds, one task each | no registry keeps a dead peer; registries agree at rest; missing seeds are dialled again; fast sync follows the mode |
| `network_start` | the same | **violation**: one silent seed at start-up, and the node never reconnects |
| `session` | `PeerSession!FairSpec`, a chain of 1 that grows to 3, queue of 2, batches of 1, 2 faults | a wanted block is tracked or known to be lost; at rest, with nothing lost, the chain is complete; requests end unless other announcements keep restarting the timeout; the session catches up unless something was lost, came early or waits in the queue |
| `session_catchup` | the same, a chain of 4, no faults | **violation**: after the first batch the tip jumps over a gap that is never asked for |
| `sporks` | `SporkManager!Spec`, one spork, 2 values, 3 times, 2 overlapping resets, 2 restarts, 2 faults | a restart would know what the map does; the files implement one table, `SporkTable`; the map falls back only in an excused restart |
| `explorer` | `Explorer!FairSpec`, a block at height 1 of a chain of 3, 2 visits, 1 reset, 1 fault (an answer, a poll or a reset request) | one outcome per page; stale for two causes only; blocks no older than the status; loading ends; polls catch up |

The three violations are findings in `PROJECT.json`, each against a line of the
repository's own text.

**Bounds.** `MaxCrashes` and `MaxResets` bound how often the process dies and
how often a reset starts; two crashes cover a crash during the recovery from a
crash. Two threads suffice for every pairwise race of `add_block_index`; the
third in `chain_in_order` lets one thread meet two others at the tip. The
headers are the smallest with a parent, a child, a sibling of equal height and a
header with unknown parent. `MaxMessages` bounds what peers send; three
messages bring a child before its parent and one block twice. `MaxOrphans` is
the code's 10000, set to 1 or 2 so that the pool is full within the bound.

In `peer_network` the thresholds are scaled to two seeds: `FastPeers` = 2 (the
code's 3), `HybridPeers` = 0 (3) and `EnoughPeers` = 2 (3), so that one session
means hybrid mode, two mean fast mode, and losing either makes the loop dial.
With one task per seed no seed is ever dialled twice at once; what holds when
it is, `NoGhostPeers`, is proved for any number of tasks (section 4). A second
task for one seed gives 7.5 million states, in which the three invariants hold
too; it is left out of the runs for its size.

In `session`, `InvLimit`, `HeadersPerMsg`, `MaxPending` and `Batch` are the
code's 500, 2000, 2000 and 500 scaled down to 2, 2, 2 and 1, so that an answer
is full, the queue runs over, and a batch leaves hashes behind, all within a
chain of three blocks. `TimeoutTicks` = 2 stands for the three intervals of ten
seconds in a timeout of thirty: the first tick is too early, the second not. Two
faults allow a request that is ignored and a session that is lost
after it. `MaxInFlight` bounds the messages on their way when a tick fires.

In `sporks` three times give an old, a newer and a newest spork, with the key
changing at the second; three removals and two requests let resets overlap and
one follow them; two restarts let a restart fail to load and another repair it.

In `explorer` the depths at which a refresh ends are 1 block and 2
confirmations (the code's 10 and 6), and a chain of 3 makes the block too deep
to be refreshed while its page is open; `MaxOpen`
and `MaxPolls` = 2 let two fetches and two polls overlap; `MaxVisits` = 2 lets a
page be left and another opened; `MaxRegrown` = 0 keeps the chain at genesis
after the reset, for the sake of size.

**Deadlock** checking is off in the runs of the header index, of block ingest,
the session, the sporks and the explorer: a finite universe of headers,
messages, sporks or visits runs out, and a node with nothing to add stops. It is
on in those of `PeerNetwork`, where the monitor never stops.

**Symmetry** is over threads, sessions and workers, in runs without liveness.

**Fairness.** `FairSpec` of `ChainState` assumes that a thread inside
`add_block_index` keeps running (no lock is held across an `await`; the locks
are `std` mutexes around short sections) and that a dead process is started
again (by its operator: `src/twins-deploy/deploy.sh:193` restarts the service).
No fairness is assumed of `CheckKnown`
and `Crash`. `FairSpec` of `BlockIngest` assumes that tokio runs sessions in the
middle of a message, workers with a block, and the cleanup interval; peers owe
no message. `FairSpec` of `PeerNetwork` assumes that tokio runs the reconnect
loop, the monitor and every task that has something to do; a dial need not
return and a session need not end. `FairSpec` of `PeerSession` assumes that a
session that ended is started again (the reconnect loop), that the session reads
what the peer sent and the interval ticks; the peer need not announce anything,
and the faults are bounded. Two of these are assumptions about the surroundings: the
`select!` of the session is `biased` (`peer_manager.rs:277`) and reads first, so the
interval ticks only if the peer pauses now and then; and the loop that dials again
starts only once the first dials have returned, which `network_start` shows may never
happen. Nothing is assumed of sporks. `FairSpec` of `Explorer` assumes that every request is
answered or fails, and is delivered (no timeout in the code forces it), that timers, renders and the stream go on, and that the
browser runs what it scheduled; the user need not do anything.

## 4. Proofs

### The header index

`ChainStateProofs` proves, for every finite or infinite set of threads and
headers, every tree of parents and every bound:

| theorem | of |
|---|---|
| `TypeCorrect` | all environments |
| `TipNeverFallsButByReset` | `FaultySpec` |
| `TipIsAlwaysBest`, `TipIsAlwaysPersisted` | `Spec` |
| `GenesisIsAlwaysIndexed`, `IndexIsAlwaysDurable`, `DbTipAlwaysHasHeader` | `FaultySpec` |
| `HeightIsAlwaysPosition` (with the ancestors), `DurableTipNeverFalls`, `Refinement` | `InOrderSpec` |

The assumptions are the module's own: `ConstantsAssumption` and
`DepthAssumption` (the depth of a header is one more than that of its parent),
which TLC evaluates in each run. Each theorem follows from an inductive
invariant, with one step per action:

- `TypeOK` is inductive by itself: it also says which fields of `op[t]` are
  meaningful at each step;
- `NodeInv` says what memory holds when the node is down, starting or up:
  without it nothing is known of the tip at the first comparison;
- `ResetsCounted`: a thread is inside a reset only if one was counted, so a
  falling tip names its cause;
- `TipIsBest` needs nothing beyond types and `NodeInv`, but its step is the
  subtle one: a heavier index entry is created by `InsertIndex` and by
  `CacheParent`, in both cases by a thread that carries at least that height, and
  the thread that compares is a witness only until it has compared;
- `DurableInv` strengthens `IndexIsDurable` and `DbTipHasHeader` with what the
  threads carry: past `SaveHeader` the header is in the table, and what
  `CacheParent` is about to insert was read from there;
- `HeightInv` strengthens the first part of `HeightIsPosition`, the heights, with
  those in flight and with the fact that a parent once known stays known, in memory or, after a crash, in
  the table, hence that nobody reaches `EstimateHeight`;
- `AncestryInv` strengthens its second part, the ancestors: the parent of a header
  that a thread carries is stored, which holds when the call begins because what
  is in memory is on disk (`DurableInv`), and then stays true because without
  resets no row goes away;
- `DurableTipInv`: the durable tip is never above the tip in memory, and the
  fallback to genesis happens only when there was no better durable tip. It
  rests on `DurableInv` and `HeightInv` both.

`Refinement` maps every step of `InOrderSpec` to a step of `TipRegister` or to a
stutter.

### The peer network

`PeerNetworkProofs` proves of `Spec`, for every finite set of seeds, any number
of tasks per seed and all thresholds: `NetworkTypeCorrect`, `NoGhostsEver` and
`RegistriesAlwaysAgree`. The assumptions are `HybridConstants` and
`NetworkConstants`: every seed has a first task, and only one.

- `NetworkTypeOK` ties `conn` to `call`: a task is inside a registry call exactly
  while its connection says so. It is inductive with `CallInv`, which says which
  of the two calls a task is in, and that only a Rust seed is added to
  `rustPeers`.
- `NoGhostPeers` is inductive with these two. Its step is the removal by
  address: the task that leaves may take another's entry with it, but never
  leaves one behind.
- `RegistriesAgree` needs `AgreeInv`: `SoleTask` (two tasks for one seed only
  after an overlap) and `TaskInStep` (the stage of a sole task says which
  registries hold its seed). A new dial satisfies `TaskInStep` only because a
  seed without a task is in no registry, which is `NoGhostPeers`.

### The orphan pool and block ingest

`BlockIngestProofs` proves, for every set of blocks, every parent relation,
every finite set of sessions and of workers and every limit of the pool:

| theorem | of |
|---|---|
| `PoolTypeCorrect`, `PoolStaysBounded`, `SaveStaysConnected`, `CountersStayInOrder` | `FaultySpec` |
| `OrphansStayListed`, `MemoryNeverHoldsOnlyCopy` | `Spec` |

The assumption is the module's `OrphanConstants`; that sessions and workers are
finitely many is needed to count those that are busy or about to queue. The steps of a worker are first
reduced to what each does to its job (`Moves`, `Looks`), and then to each part:

- `Typed` has the queue, the sessions and the workers beside `OrphanTypeOK`;
- `Bounded`: the pool is finite and within its limit; the test and the insert
  are under one lock, which is why the number of workers does not matter;
- `Connected` strengthens `SaveIsConnected`: a waiting list holds only children
  of its key, what a worker has in `frontier` is in the database, and the
  parents of its `batch` are;
- `Listed` strengthens `OrphanIsListed`: only a worker that walks over
  descendants has a list in its hands, so that no step drops one;
- `MemoryHoldsNoOnlyCopy` needs `Typed` alone, but holds only without failing
  saves: that is why it is a theorem of `Spec`.

### The peer session

`PeerSessionProofs` proves of `Spec`, for every length of the chain, every batch
and limit: `SessionTypeCorrect`, `WantedStaysTracked` and `SettledHasTheChain`.
The strengthening of the second is `Answered`: every open request is answered by a message on its way
or is in `lost`. Stall recovery empties the set of requests, and only with
`Answered` does this take nothing from what is tracked. The lemmas are about the
elements of a sequence under `Append`, `Head`, `Tail` and `SubSeq`, since the
queue is popped in batches.

The third says when a session has the whole chain: at rest, if no block was lost
or indexed before its parent, it has stored exactly the blocks up to its tip.
`Answered` is why the open requests need not be asked about: with no message on
its way and nothing lost, none is open. It adds `Chain` (unless a block came
early, what is indexed is an initial part of the chain that ends in the tip) and
`StoredIsIndexed` (a stored block is indexed, unless indexing it failed and it is
in `lost`). `CatchesUpUnlessLost` says that the session comes to rest, this
theorem that it then has everything.

### The sporks and their file

`SporkManagerProofs` proves of `Spec`, for any ids, values and bounds:
`SporkTypeCorrect`, `ConnectionStaysAtPath`, `RestartAlwaysWouldKnow`,
`NeverFallsBackUnexcused` and the refinement `SporksInOneTable`. The invariant adds two facts: a file that was not
created yet has no rows (`UncreatedIsEmpty`), so that the swap to a new file
brings no old sporks back, and unless resets have overlapped or failed there is
at most one at work, and it holds the file at `db_path` (`OneAtWork`), so that
afterwards the node writes to it (`ConnectionIsAtPath`).

`SporksInOneTable` maps every step to one of `SporkTable` or to a stutter: a
message to `Learn`, because the connection is at `db_path` whenever the row is
not put in doubt; the removal of the file to `Reset`; opening, swapping and
failing to nothing, because a created file is empty as the missing one was; a
restart to `Restart`, whichever file it finds. `ChainState` takes `reset_db` for
one step (`ResetDatabase`) on the same grounds, as long as resets do not overlap:
the running node uses the removed file until the swap, a crash before it finds an
empty one, and what was written in between is gone in both cases.

### The explorer

`ExplorerProofs` proves of `Spec`, for every height, depth limit and number of
visits, resets, faults and overlapping requests: `ExplorerTypeCorrect`,
`AlwaysOneOutcome` and `ListNeverOlder`. It assumes `ApiConstants`,
`ItemPageConstants`, `PolledPageConstants`, `ExplorerConstants` and
`NoneIsNothing` (`null` is no item and no moment). The invariant adds the types
of fetches under way, that an answer has an item exactly when it found one, that
a page keeps nothing of the page before it, and, for the blocks and the status,
`Dating`: what any poll has got so far is dated no later than now, and the blocks
not before the status. That holds of polls under way, not only of the page, and
stays true when the node moves on or is reset.

`FreshnessProofs` proves `NeverStaleWithoutCause` on top of these. The invariant
`Fresh` says of everything a page holds that it dates from the page's era and no
later than now (`DatesHold`), that later answers have no fewer confirmations
(`ConfirmationsGrow`), and, at its centre, `Repair`: a page whose item is behind
the height it has noted, and should follow, has a fetch under way that will put
it right, one still to be answered or one answered at that height and not
overtaken (`ItemIsRepaired`); and so has every answer that is about to be shown
(`AnswersAreRepaired`). No delivery destroys the last such fetch without making
the older answers late. `StoppedStays` adds that an item too deep to be
refreshed does not become recent again. This fixed the order in which
answers overtake each other: at one height, the answer before `save_block`
and the one after it differ in confirmations, so the later one counts as newer
although the height is the same. The run with a chain of 3 has the case.

### Only model-checked

Liveness (`TipConverges`, `CallsReturn`, `Settles`, `MissingSeedsAreDialed`,
`FastSyncFollowsMode`, `RequestsEnd`, `CatchesUpUnlessLost`, `LoadingEnds`, `PollingCatchesUp`), which needs fairness and `ENABLED`, out of
the prover's reach. Every invariant, action property and refinement that a
passing run checks is a theorem. The three violations are counterexamples, and
have nothing to prove.

## 5. Plan

What is left, in the order of its worth:

1. Storage: the rows of a block's transactions, and `save_block` as the sequence
   of statements it is, so that a failure in the middle is seen as what it
   leaves; then `OrphanManager` over it.
2. A reset under a session: `PeerSession` with the steps of `reset`, and the
   two tips (in memory and in the database) that a reset beside
   `add_block_index` can leave apart.
3. `FastSync` and `ParallelSync`, once something calls them: today
   `add_blocks_to_download` is commented out in `main.rs`, and
   `start_parallel_sync` has no caller.
4. The heights chosen by `get_block_locator`, a pure function, against its
   definition.

## 6. Not modelled

- Encoding, hashes and signatures (`p2p/messages.rs`, `util.rs`). They are not without
  control: the padding of a command name decides which branch of a session a message
  reaches, and keeps the spork and masternode messages of C++ peers from reaching any.
  The branches modelled here (`inv`, `block`, `headers` and the requests for them) have
  names both nodes agree on.
- Masternode, governance and InstantSend managers: their handlers only log.
- The fast and the parallel sync manager: dormant, as section 5 says. The switch
  that turns fast sync on and off is in `HybridSync`; what it would do has no
  input.
- The read-only routes of the API that no page polls or that only list rows, and
  the rendering of the pages.
- `AuthWrapper.js`: asks once and remembers.
- The shell scripts.
- The vendored C++ wallet, apart from its answers to the session's requests. The
  `.ts` files under `src/TWINS-Core/src/qt/locale` are its Qt translations, XML
  and not TypeScript; they are the larger part of the repository's files with
  that ending, and have nothing in them to model.
- The rows of a block's transactions: that `save_block` may leave some behind is
  seen only as a block that is stored. The height they are filed under is in
  `ExplorerApi`.
- Three things the code does that no property states, because nothing in the
  repository promises otherwise: a header indexed before its parent keeps a
  guessed height; after a reset beside `add_block_index` memory and database may
  name different tips; and a page opened before its item exists never asks for
  it again.
