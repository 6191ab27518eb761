# A TLA+ model of clippy

clippy is a daemon that keeps the clipboards of machines on one local network
equal. Nodes find each other by mDNS, hold one WebSocket per peer, and exchange
clipboard contents as checksummed chunks. A small command line (`start`, `stop`,
`status`) talks to the daemon over a local control socket.

This directory holds the models of its parts, the TLC configurations that check
them on small instances, and the TLAPS proofs of their main safety properties for
all instances. `PROJECT.json` maps every definition to the lines it models, and
lists the runs, mutants, hazards, findings and theorems.

## 1. The system

| Part | State it keeps | Operations | Talks to |
|---|---|---|---|
| `netmesh` peer (`peerState`, `managedConn`) | discovered flag, endpoint, active connection, backoff, wake-up channel; per connection two pumps, closed flag, send queue | `handleServiceEntry`, `pruneStalePeers`, `dialLoop`, `dialPeer`, `handleWebSocket`, `attachConnection`, `readPump`, `writePump`, `handleConnectionClosed`, `close` | mDNS, the peers' mesh, the runtime's frame handler |
| `netmesh.Manager` | peer table, HTTP server, advertiser, WaitGroup, `done` | `Start`, `advertiseLoop`, `serveHTTP`, `pruneLoop`, `shutdown`, `Wait`, `Broadcast`, `Send`, `Peers` | every peer, `app.Runtime` |
| `osclip.Manager` | pending ledger, `observed` and `events` channels, coalescing batch | `ApplyRemote`, two `watchLoop`s, `processObserved`, `emit` | OS clipboard library, `app.Runtime` |
| `clipwire` | `Reassembler.inflight` | `ChunkPayload`, `Reassembler.Add`, `NewPayload`, `ValidatePayload` | `app.Runtime` |
| `app.Runtime` | mesh, clipboard, reassembler, `waitCh` and `waitErr`, the peers seen connected (`peerSeen`, for logging) | `Start`, `Wait`, `runClipboardLoop`, `broadcastPayload`, `handleFrame` | all of the above |
| `app.ControlServer`, `cmd/clippy` | control listener, `closeOnce`, `serverErrCh`, signal context | `Serve`, `handleConn`, `Close`, `serveDaemon`, `start`, `stop`, `status` | Unix socket, `app.Runtime` |

How they interact: a change of the local clipboard goes library -> `watchLoop` ->
ledger -> `observed` -> `processObserved` -> `events` -> `runClipboardLoop` ->
`ChunkPayload` -> `Broadcast` -> send queues -> `writePump`s. A frame of a peer
goes `readPump` -> `handleFrame` -> `Reassembler.Add` -> `ApplyRemote` -> ledger and
OS clipboard; the watcher then sees this write as a change, and the ledger has to
tell it from a local copy.

What is hard about it:

* *Concurrency around one peer.* Browse goroutine, prune ticker, dial loop, HTTP
  handlers and two pumps per connection change one `peerState` in short critical
  sections. Between them values are stale: the dialled endpoint is a copy, a pump
  that ends may no longer be the pump of the connection in the table, a wake-up is
  dropped when one is queued.
* *Duplicate connections.* Both nodes may hold a connection in each direction; each
  decides alone which one to keep.
* *Shutdown.* Cancellation races with connections that are being attached, with
  advertisements that are being registered, and, in the daemon, with the select of
  `serveDaemon`.
* *Echo suppression.* `remember`, the write, the library's report and `consume` are
  steps of different goroutines; reports may be merged, writes may fail, entries
  expire, and several pumps may apply the same content at once.
* *Blocking chains.* `watchLoop`, `processObserved` and the consumer block on each
  other through two bounded channels.
* *Delivery.* Chunks are repeated, reordered, cut off, or mixed from two
  serialisations of one content, all under one transfer id. On the sending side a queue
  of fixed size per connection refuses chunks, one refusal ends the payload for every
  peer, and the connection of a peer may change between two chunks.
* *One socket, several writers.* `close()` runs in whatever goroutine ends a connection
  and writes a frame of its own.
* *Several daemons at one socket path*, crashes that leave the socket file, signals
  at any moment.

Correctness, per part: a discovered peer is never forgotten and a good link is never
cut by another link's cleanup (peer); `Wait` means that the work has ended (manager);
no content is sent back that came from a peer, and the newest local content gets
through (clipboard); nothing is delivered that was not sent, and nothing blocks a
content for ever (reassembly); a peer's clipboard takes what was copied, in order, never
more often than it was copied, and a payload queued whole arrives, unless the peer fails to write
its clipboard (delivery path); a running daemon can be reached and stopped, also when its mesh has
failed (daemon).

## 2. Modules

| Module | Models | Role |
|---|---|---|
| `PeerLink` | one `peerState` with all goroutines that touch it | component |
| `MeshManager` | EXTENDS `PeerLink`: HTTP server, advertiser, prune loop, `shutdown` | composition; implements `PeerLink` |
| `OSClip` | `osclip.Manager` with its ledger | component |
| `Chunking` | `ValidatePayload`, `ChunkPayload`, `Reassembler.Add` as operators | algorithm |
| `Reassembler` | EXTENDS `Chunking`: one `Reassembler` | algorithm, in an environment of arbitrary delivery |
| `Broadcast` | `runClipboardLoop`, `broadcastPayload`, `Manager.Broadcast`, `enqueue`, the send queues | component |
| `ClipboardSync` | EXTENDS `Broadcast`, INSTANCEs `Chunking`: a sender and its receiving peer | composition; implements `Delivery` |
| `Delivery` | what copying and applying promise: `sent` and `applied` only | abstract specification |
| `ManagedConn` | the write side of one connection, call by call | component |
| `Daemon` | `serveDaemon`, `ControlServer`, Unix control socket, CLI commands | component |
| `MCPeerLink`, `MCMeshManager`, `MCOSClip`, `MCReassembler`, `MCClipboardSync`, `MCDaemon` | instances for TLC | symmetry sets and data tables only |
| `PeerLinkProofs`, `MeshManagerProofs`, `OSClipProofs`, `BroadcastProofs`, `ClipboardSyncProofs`, `ReassemblerProofs`, `DaemonProofs` | proofs, each EXTENDS the component it is about | TLAPS |
| `CountingLemmas` | how often a value occurs in a sequence, the greatest position with a property, cardinality of a union | lemmas the proofs share |

Definitions marked "Mutant" in a comment are slips of the kind the code could have
(a dropped guard, a missing case of a select). They take part in no specification;
each stands for an experiment in which it replaces the definition below it and the
property named in `PROJECT.json` is then violated.

### PeerLink

A step is one critical section under `ps.mu`, one channel operation, or one call
that leaves the process. `discovered`, `endpoint`, `conn`, `connected` and `backoff`
are the fields of `peerState`; `reconnectCh` counts the tokens of the channel of
capacity 1; `dial`, `browse` and `pump` are program counters; `target` is the copy of
the endpoint that `prepareDial` returns and `dialPeer` uses later. A connection is a
name of `Conns`, reused when no goroutine and no table holds it any more (`Free`), so
behaviours are unbounded although only `Cardinality(Conns)` connections are alive at a
time. `broken` is what the network does to a connection; `closed` is what `close()`
does. Node ids are only compared in the code and are numbers. An endpoint stands for
the addresses, port, path and protocol of an entry.

Time is left out: a timer may fire whenever its goroutine waits for it, and any entry
may have become stale.

### MeshManager

Adds the goroutines of `Start` and `shutdown()`'s sequence: advertiser, HTTP server,
table of peers, `wg.Wait`. An HTTP request is accepted, then upgraded (hijacked), then
attached; `httpServer.Shutdown` does not wait for hijacked connections, and it gives up
waiting for others after five seconds, so it may return while requests are pending.
`NoneCounted` is `m.wg` at zero. The actions of `PeerLink` are used as they are, with
the manager's guards added; that this is a refinement is checked (`ImplementsPeerLink`)
and proved (`MeshImplements`).

### OSClip

A content stands for its bytes and for their hash. `Normal` is
`normalizeWritePayload`: a text or PNG is itself, a JPEG becomes the PNG that is
written, an undecodable image is refused. The clipboard and the polling watcher of
`golang.design/x/clipboard` are external: a write replaces what the clipboard holds,
the poller reports what it finds when it polls, changes between two polls are one
report, and a write of equal content may or may not be reported (platforms differ).
`count` and `left` are the ledger: `left[k]` is the number of clock ticks until the
entry expires. As in the code, entries are pruned by `remember` and `consume`, not by
`forget`. `local`, `passed`, `emitted`, `expired`, `newest` and `settled` are history.

### Chunking and Reassembler

`Add` is a function from the table and a chunk to the new table and a result, with the
code's order of checks. Protobuf and SHA-256 are external: `Serial` is injective, `HashOf`
is the hash a message claims, and `Fields` holds what `ValidatePayload` looks at (type, MIME
type, lengths, UTF-8, the hash of the data). Messages that do not validate exist too, and
may reach the reassembler whole. Two payloads of one content (copied twice, at different
times) share an id and differ in their bytes. A stray chunk is any chunk with typed fields;
`Add` is what refuses the malformed ones.

### Broadcast

The loop of `runClipboardLoop` is `loop`, `seq` (the chunk), `todo` (the peers Broadcast has
yet to visit), `held` (the connection `activeConn()` returned: the lock is gone when it is
used) and `failed` (Broadcast's joined error). `enqueue`'s select may take any ready case, so
a frame can still enter the queue of a connection whose context is done. The life of a
connection is reduced to what its queue sees: attached (perhaps in place of another), broken,
detached by a pump, closed; `PeerLink` says how that comes about. `Others` are peers that are
not followed: each takes or refuses a frame as it likes, which is all the loop sees of a peer.
The frame-size check of `Broadcast` is left out: a frame is one chunk of at most 1 MiB plus a
header, and the limit is 64 KiB above that. `queued` and `since` are history.

### ClipboardSync and Delivery

Adds the receiving side of each connection: `readPump` reads a frame, `handleFrame` gives its
chunk to the peer's one reassembler, and a complete payload is applied before the next frame
is read. A peer may close a connection at any time; what it has not read is lost, and
`ApplyRemote` of a payload already complete fails if it had not passed its look at the context.
On a live connection `ApplyRemote` fails when the clipboard write does (`ApplyFails`; `OSClip` has
the ledger's side of it): `handleFrame` logs the error, the connection stays, and the payload is
lost, since its reassembler entry is gone and nothing asks for it again. `unwritten`, the content
of a peer's last `ApplyRemote` if its write failed, is history.
`Delivery` is the contract in two variables: a content is applied only if it was sent, and not
more often. The refinement maps `sent` to the hashes of `copied`.

### ManagedConn

The goroutines that may write on one WebSocket (`writePump`, and whoever runs `close()` first:
the other pump, the goroutine `attachConnection` starts, `shutdown`), with `WriteMessage` taking
two steps, so that overlaps are visible. It serves one question, finding 4.

### Daemon

Per process slot: the program counter of `serveDaemon` (the runtime's start, the three
steps of `listenControl`, the select, `rt.Wait`, the last read of `serverErrCh`, the
deferred `Close`), the control server and its close-once, the signal context. `listenControl`
may fail to bind because of a socket at the path, or close its own listener because `chmod` failed; either
way main is `failed`, with no listener and the context not yet done, until it calls `stop()`
(`StopFailed`). Other failures of `net.Listen` (a missing directory, permissions) are left out. A main
goroutine that finds no case of its select ready is `parked`, and the first event wakes
it with that case; this is how Go's select works and it matters for `StopExits`. `path`
is whose listener the socket file leads to: binding sets it, and closing a Unix listener
unlinks it whoever's it is. Of the runtime there is: `Start` may fail, the mesh may shut down
on its own (`MeshFails`, when its HTTP server fails), and `Wait` returns once the context is
done and the mesh has shut down.

## 3. Runs

Bounds: a bounded counter appears as a constant named `Max...`; in `Broadcast`, `Events` is
the list of payloads that may be copied and `Window` the frames a socket holds; everything
else is a finite set.

| Run | Instance | Shows |
|---|---|---|
| `peer_link` | dialling node, 2 connections, 1 endpoint | `TypeOK`, `NoLostWakeup`, `NoOrphanLink`, `LiveTable`, `PreferredSurvives`, `SupersedeOnce`. Two connections are what a duplicate, a supersession and a late pump of the superseded connection need; the theorems cover more. |
| `peer_link_live` | dialling node, 1 connection, 2 endpoints, backoff 1..3 | `FreshEndpointWakes`, `Redials`, `BrokenLeaves`, `ShutdownEnds`. Two endpoints are needed for an address to change; the backoff reaches minimum, doubling and cap. |
| `mesh` | accepting node, 1 connection name | `MeshTypeOK`, `DoneMeansQuiet`, `ImplementsPeerLink`, `ShutdownCompletes`, `LatePumpsEnd` over all interleavings of shutdown with the rest. The accepting side is the one that gets late connections; `DoneMeansQuiet` and `ImplementsPeerLink` are proved for a dialling node too. |
| `mesh_wait` (violated) | dialling node, 1 connection name | `WaitIsFinal`, see Findings. |
| `osclip_ledger` | 1 PNG, its JPEG, an undecodable image; 2 appliers; 2 copies, 3 applies; TTL 1 | `TypeOK`, `LedgerBalance`, `NoEcho`, `NoEchoEmitted`. One content is the worst case for the ledger; three applies over two callers give two counts in one entry, a failed write next to a good one, and expiry between. |
| `osclip_pipeline` | 2 texts (one `NewPayload` refuses), 1 PNG, channels of capacity 1 | `NewestWins`, `NewestSettles`, `StopsWhenDone`. Capacity 1 makes every blocking send block. |
| `reassembler` | 3 payloads and 2 messages that do not validate, 2 chunk sizes, 6 stray chunks | `EntriesIncomplete`, `NoFabrication`, and `RetransmissionHeals`: whatever was left behind, sending a payload twice in full delivers that very payload, within the second sending at the latest. The state space is finite without a bound. |
| `clipboard_sync` | 1 followed and 1 other peer, 2 successive connections, any clipboard write may fail, 2 copies (3 chunks, then the same content again or another of 1 chunk), queue and socket window of 1 frame | `TypeOK`, `NoHole`, `CleanMeansQueued`, `AppliedInOrder`, `DrainedIsSynced`, `ImplementsDelivery`. Three chunks give a payload a middle; a queue of one frame fills at once; the other peer makes Broadcast fail at any chunk; the second connection may replace the first at any point. |
| `serialized_writes` (violated) | 1 connection, queue of 1 | `SerializedWrites`, see Findings. |
| `daemon_control` | 2 process slots, 1 client that goes on issuing commands | `TypeOK`, `AloneIsReachable` (a daemon that meets no other starts in spite of the socket file a crash left, and is found at the path while it serves), `ControlOutlivesRuntime`, `StopReleases`, no deadlock. |
| `daemon_stop_exits` (violated) | 1 slot, 1 client | `StopExits`, see Findings. |
| `daemon_status` (violated) | 2 slots, 1 client | `StatusTruthful`, see Findings. |

`CHECK_DEADLOCK FALSE` appears where the system may really stop: after cancellation
(mesh, clipboard manager, delivery path). The daemon and the reassembler are checked for deadlock.

`TypeOK` of `OSClip` is more than a typing: ledger counts are natural numbers, which
the guard in `forget` is responsible for, and channel lengths respect their capacity.
`TypeOK` of `PeerLink` bounds the backoff, that of `Broadcast` the send queues; that of
`Daemon` says that `Serve` runs on a listener, and `MeshTypeOK` that `shutdown()` never closes
a nil connection.

That a payload queued whole arrives is stated without fairness, as an invariant of quiet
states: `DrainedIsSynced` says that when queue, socket and reader of a peer's only connection
are empty, the peer's clipboard was last set to the last payload, or the peer's last attempt to
write was of this content and failed. The exception is real: the code does not retry a failed write,
so until the next copy that peer keeps what it had. A failed write of an earlier payload is no
exception. (Queue, socket and reader empty by
themselves while the connection lives, because each has its own goroutine.) `AppliedInOrder`
and `DrainedIsSynced` speak of a peer that has kept one connection: across a reconnection the
old connection's handler may still be applying, and order may really change.

### Fairness

* Goroutines that can take a step do so (weak fairness of each goroutine's own steps):
  Go's scheduler is fair to runnable goroutines and mutexes are starvation free.
* A select whose `ctx.Done()` case is ready again and again takes it (strong fairness of
  `DialExit`, `BrowseExit`, `PruneExit`, `WatchExit`, `ProcExit`): select chooses at
  random among the ready cases.
* A handshake ends (it has a timeout), a timer fires, a broken transport is noticed by
  the reader (it has a pong deadline), the library's poller polls, `runClipboardLoop`
  receives, a cancelled mesh shuts down (`MeshStops` in `Daemon`; `ShutdownCompletes` is the
  mesh's side of that). In `Daemon` the steps of a process are taken together: each happens
  once in its life, so fairness of all is fairness of each.
* Nothing is assumed of users, peers, entries, the prune ticker, frames, crashes, signals
  or cancellation.

## 4. Proofs

TLAPS proves what follows for every value of the constants that satisfies these assumptions.
TLC evaluates each of them on the instances.

| Module | Assumed |
|---|---|
| `PeerLink` | the ids of the two nodes differ; `NoConn` is no connection and `NoEndpoint` no endpoint; the backoff bounds are positive and ordered, as `withDefaults` makes them |
| `OSClip` | texts and images are disjoint; `Normal` maps payloads to contents or to nothing; finitely many appliers; positive TTL and capacities |
| `Broadcast` | every connection has a followed peer, which is none of the others; a payload has at least one chunk; queues and sockets have room for one |
| `Chunking` | a payload has a hash, typed fields and a serial form that is not empty |
| `Reassembler` | stray chunks are typed; `NoState` is no entry |
| `ClipboardSync` | payloads are valid (`NewPayload` made them), the chunk size is positive, and `NumChunks` is the length of what `ChunkPayload` returns; payloads of one content are equally long and differ in their first chunk at most (`ContentAssumption`) |
| `Daemon` | `None` is no daemon; finitely many slots and clients |

`ContentAssumption` is what the message format gives: the hash is of the data, the manager derives
the type from the data, so a content copied again differs in `timestamp_unix_ms` only. That is
field 1, a varint of six bytes until the year 2109, and `DefaultChunkSize` is 1 MiB. Without it two
copies of a content could leave an entry that neither completes.

None of the safety invariants is inductive alone. For each component an inductive invariant
was found, checked by TLC on the component's instance where the state space allows, and then
proved: initially true, kept by every action (one step per action, one lemma per conjunct
where that is shorter), and implying the property.

**`PeerLinkProofs`.** `LinkInv` adds `DialHolds` and `HeldIsNew` (a connection that is dialled
or accepted but not attached has no pump, is not in the table and is held once, so attaching
it disturbs no other), `Genuine` (a connection leads to the node it was dialled for), and
`Discovery` (a discovered peer has an endpoint; a dial loop exists only where this node
dials). Corollaries: `WakeupsAreKept`, `EndpointsAreFresh`, `TableIsLive`, `NoOrphans`,
`PreferredIsStable`, and the action property `SupersededOnlyByPreferred`.

**`MeshManagerProofs`.** `MeshInv` is `LinkInv` with `Reserved` (no new connection takes a
name a request or `shutdown()` holds), `ShutHolds` (the connection `shutdown()` took has
pumps or is closed, so its close is a step of `PeerLink` and is never stuck), `AdvertInv` (an
advertisement `m.advertiser` does not name is one `advertiseLoop` is about to publish or to
stop) and `AcceptInbound`. From it: `MeshImplements` (the refinement), `MeshTypeCorrect`,
`QuietAfterDone`, and `LinkIsSafeInMesh`, which carries `PeerLink`'s invariants over.

**`OSClipProofs`.** `LedgerBalance` is an accounting argument: every content that was
forwarded, is on its way to the watcher, or is about to be written is paid for by a local
copy, a ledger count, or an expired count. `NoEcho` alone is not inductive, because a write
in flight must already be paid for. `LedgerInv` adds `Types` and `Sorted` (the slots of a
format only hold contents of that format, so a report is consumed from the entry it was
remembered in). Lemmas `RememberBooks`, `ConsumeBooks` and `ForgetBooks` say what the ledger
operations do to the books, `JobTaken` and `JobDone` do the counting of concurrent callers.

`PipelineInv` continues the account behind the watcher. `Piped`: what was emitted of a content
and what is still to be (in the watcher's hand, in `observed`, in the batch) was forwarded that
often; `Placed`: the batch keeps each format in its own slot, so coalescing
drops and never adds. With `NoEcho` this gives `NoEchoIsEmitted`. `NewestIsKept` is about
order: the youngest content of a format that still travels, looked for from the watcher
towards `events`, is the newest that was forwarded, and if none travels it was emitted last.

**`BroadcastProofs`.** `NoHole` is not inductive: a chunk may be given to a connection because
that connection already holds the one before it. `SendInv` adds `LoopInv` (outside of a
broadcast nothing is left to visit, and a held connection's peer has been visited), `TableInv`
(a connection not yet attached or closed has been given nothing; what `since` follows is open
and in the table), `HoleInv` (who may still be offered the current chunk holds the previous one
or none; without an error, who has had its turn holds the current one or none) and `CleanInv`
(without an error, what is followed holds everything up to the current chunk). Lemma
`EnqueueCases` sums up `enqueue`'s select: taken, lost in a closed connection's queue, or
refused and reported.

**`ClipboardSyncProofs`.** `SendInv` is kept by the receivers (`ReceiverKeeps`). The rest is
three arguments.

*How often* (`SyncInv`). A payload is complete only when its first chunk is recorded, and a
transfer that completes leaves the table. So each copy of a content is an account on which
a peer draws at most once: with a first chunk the loop has yet to offer it, with one in a queue
or on the wire, with one recorded by the reassembler, with a completed payload its `readPump`
holds, or with an application. `Spent` is the sum of these for a peer and a hash, and never
exceeds how often the hash occurs in `Sent`. This needs `OnceInv` (the first chunk of a copy is
under way to a peer at most once, over all its connections), `FrameInv` (frames are chunks of
copied payloads) and `RecvInv` (what entries and payloads of a peer are). `SyncDelivers` follows:
`TakeEvent` is `CopyContent`, `ApplyRemote` is `ApplyContent` (the account still holds a copy that
was not applied), and all other steps stutter.

*In which order* (`DeliveryInv`). `LineInv`: over one connection frames travel in the order of
copies and chunks, and all of them before what may still be offered. `NewInv`: a connection not
yet attached carries nothing, and a peer without one has got nothing. `OrderInv`: what the peer applied can be placed among the
copies, in order, such that everything it can still complete lies behind (`Placement`, `Ahead`).
The placement is not fixed: a leftover of a cut-off transfer may be completed by chunks of a later
copy of the same content, and the payload delivered is then placed at the copy that completed it.

*What the last payload comes to* (`SettledInv`). `TablesInv`: an unfinished transfer at a peer is
proper and holds chunks of payloads of one content. `DrainInv`: nothing of the last payload is
read before what came earlier on the connection; and what was read of it is all in the
reassembler, unless it has completed a transfer since, whose payload is then ready, or is what
the peer last wrote or failed to write. When the connection has drained, all chunks have been read; an entry that held them all would
miss none, which `TablesInv` excludes; so `DrainedPeersAreSynced`. What `Add` does with chunks of
such payloads is taken from `ReassemblerProofs`, instantiated for a peer's one chunk size; lemmas
`SameAdd` and `ReassemblerFits` show that its operators and assumptions are those of the composition.

**`ReassemblerProofs`.** A payload's bytes are cut every n bytes (`Cut`, `Piece`); the pieces
joined are the bytes again (`RoundTrip`), for every payload and every positive chunk size.
`EntryInv` says that an entry is typed, has counted each recorded byte once and misses a chunk;
`EntriesAreIncomplete` is its corollary, and with it the branch for a missing part is dead code.

`RetransmissionDelivers`: a full round of a payload's chunks, from whatever table, ends the open
transfer, by completing it or by dropping it (`Open` says where in the round the entry stands),
and an entry opened within the round holds only pieces of this payload. So the second round, at
the latest, delivers the payload itself. The entry left behind must declare the same split; one that
declares another is out of reach of this payload's chunks, which the property says.

`AddOfPayloads` is about payloads of one content (`Twins`): whichever of them an entry's first chunk
is from, a chunk of any of them is recorded or completes one of them. `ClipboardSyncProofs` uses it.

`NothingIsFabricated` has a hypothesis besides the assumptions: `OneSplit(n)`, that a chunk which
declares the transfer of a valid payload (its id and size) is cut like that payload's chunks, in
number and length. It holds when there is one chunk size and stray chunks are cut alike (lemma
`OneSizeSplits`); the code has one, `DefaultChunkSize`. Parts of equal lengths whose join is a
message can only be that message's own pieces. With several chunk sizes, parts of different cuts
could add up to a message by chance; the run `reassembler` checks `NoFabrication` with two sizes
and with malformed strays, where this does not happen.

**`DaemonProofs`.** `DaemonInv` adds to the types `Leaving` (who leaves `serveDaemon` or closes
the listener has a context that is done, or has failed to listen and is about to call `stop()`), `Stages` (listener, server and close-once follow the
program counter), `Solitary` (a daemon that shared its life with no other is alone) and `PathKept`
(while it is alone nothing is at the path
between removal and bind, so it never fails to listen, and its socket file then stays until its
listener closes). `AloneIsFound` and
`ListenerOutlivesService` follow, for any number of process slots.

**Only model-checked.** The liveness properties (fairness and `ENABLED` are outside the prover):
`Redials`, `BrokenLeaves`, `ShutdownEnds`, `ShutdownCompletes`, `LatePumpsEnd`, `NewestSettles`,
`StopsWhenDone`, `StopReleases`. Every safety property of the passing runs is proved. The four
violated runs are what TLC found; nothing is proved about them.

## 5. Findings

1. `Manager.Wait` "blocks until the manager has fully shut down" (`manager.go:336`), but
   the handler of an upgraded request is in no WaitGroup: it may attach a connection and
   start two pumps after `Wait` returned (`mesh_wait`). `DoneMeansQuiet` and `LatePumpsEnd`
   say how far the harm goes: only inbound connections, and their pumps end.
2. `serveDaemon` reads `serverErrCh` twice if its select took the nil of a server that was
   closed because the context was already done; the second read blocks for ever
   (`main.go:203`, run `daemon_stop_exits`). It takes a signal or `stop` before the select
   is reached; a main goroutine that waits in the select is woken by `ctx.Done()`.
   `StopReleases` shows that the runtime has stopped and the socket is closed all the same.
3. `status` can say "running: no" while a daemon serves: listening removes any socket at
   the path, and closing unlinks the path even if another daemon has bound it since
   (`ipc_unix.go:21`, run `daemon_status`). `AloneIsReachable` is the part that holds.
4. `managedConn` is there "to enforce serialized writes" (`connection.go:78`), but `close()`
   writes the close frame in its caller's goroutine (line 195) while `writePump` may be inside
   a write (run `serialized_writes`: a ping, a supersession, its `close()`). gorilla/websocket
   supports one concurrent writer and may panic otherwise; the models take both writes as done.

## 6. Not modelled

Configuration defaults, flags and output of the command line; the Windows pipe and
launcher (thin wrappers); generated protobuf code; string handling of mDNS entries beyond
whether an entry counts; `Manager.Send` (one turn of Broadcast's loop, without a caller) and
`Peers` (read only); the peer log loop, whose `peerSeen` nothing else reads; what happens after
two writes have overlapped on a socket.

## 7. Plan

Done: `PeerLink`, `MeshManager`, `OSClip`, `Chunking`, `Reassembler`, `Broadcast`,
`ClipboardSync` against `Delivery`, `ManagedConn`, `Daemon`; proofs of all safety properties of
the passing runs.

Left: `LinkPair`, two nodes' `PeerLink`s over a network, to show that both sides settle on the
same connection, also after a half-open link (`manager.go:452`). `SupersedeOnce` is about one node:
it says which connections that node may replace, not that its peer decides alike.
