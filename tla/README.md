# TLA+ models of go-ipfs bitswap and blockstore components

This directory holds TLA+ specifications of parts of the Go code under `src/`.
It also holds the TLC configurations that check them. `PROJECT.json` lists:

- every component, modelled or not;
- every run with its expected result;
- one seeded mutant per checked property;
- the source lines each definition translates;
- the findings;
- the hazards of the code.

## 1. Inventory of the system

| Component | Source | State | Operations | Concurrency / failure |
|---|---|---|---|---|
| Wantlist | `exchange/bitswap/wantlist/wantlist.go` | map key → entry with RefCnt and Priority | Add, AddEntry, Remove, Contains, Entries, SortedEntries | ThreadSafe wrapper: every call is under one RWMutex |
| Want manager | `exchange/bitswap/wantmanager.go` | `wl`, `peers` map, channels `incoming` (cap 10), `connect`, `disconnect` (cap 10), `peerReqs` | WantBlocks, CancelWants, Connected, Disconnected, ConnectedPeers, SendBlock, Run | one Run goroutine; callers from any goroutine; ctx cancellation |
| Message queue | same file | `out` (coalesced message, under `outlk`), `work` (cap 1), `done`, `refcnt`, `sender` | addMessage, runQueue, doWork | one worker goroutine per queue; connect timeout (10 min); send errors |
| Ledger | `exchange/bitswap/decision/ledger.go` | wantList of the partner, byte counters | Wants, CancelWant, SentBytes, ReceivedBytes | guarded by the engine's lock |
| Virtual network | `exchange/bitswap/testnet/virtual.go` | clients, routing server | SendMessage (delivery in a fresh goroutine), ConnectTo, SendRequest | reordering of messages |
| Notifications | `exchange/bitswap/notifications/notifications.go` | pubsub, `wrapped` channels | Publish, Subscribe, Shutdown | one goroutine per subscription; ctx cancellation |
| ARC-cached blockstore | `blocks/blockstore/arc_cache.go` | ARC of key → bool, backing blockstore | Has, Get, Put, PutMany, DeleteBlock | no lock across the store call and the cache update |
| RmBlocks | `blocks/blockstore/util/remove.go`, `core/commands/pin.go` | GC lock, pins | RmBlocks, FilterPinned, ProcRmOutput; pin add, pin rm | runs in a goroutine, results on an unbuffered channel; pin add under the PinLock |
| Supernode routing | `routing/supernode/server.go`, `client.go` | datastore of records and provider lists | handleMessage (GET/PUT_VALUE, FIND_NODE, ADD/GET_PROVIDERS), putRoutingProviders, the client's queries | concurrent requests with no lock around read-modify-write |
| DAG modifier / reader | `unixfs/mod/dagmodifier.go`, `unixfs/io/dagreader.go` | write buffer `wrBuf`, `writeStart`, `curWrOff`, current node | WriteAt, Write, Seek, Sync, Truncate, Size; reader Seek | sequential; integer offsets (uint64 / int64) |
| Merkledag coding | `merkledag/coding.go` | the cached `encoded` bytes | Marshal, Unmarshal, EncodeProtobuf | none |
| CLI, gateway, init/config, assets, importer | `core/commands`, `core/corehttp`, `cmd/ipfs`, `repo`, `assets`, `importer` | files and configuration | argument parsing and output | pure I/O |

How they interact:

- `WantBlocks`/`CancelWants` feed the Run loop through `incoming`.
- The Run loop updates `wl` and, through `addMessage`, every peer's queue.
- A queue's worker sends to the network.
- The remote peer's engine applies the entries to its ledger of us.
- The network's connect and disconnect notifications create and drop queues.
- Every 10 seconds (`rebroadcastDelay`) the Run loop replaces every pending message with the full wantlist.

Hard behaviours:

- The order of the Run loop's select cases.
- A caller's ctx expiring before its entries are queued.
- A worker still holding a work signal when its queue is removed.
- Coalescing of entries in `out`.
- Send and connect failures that drop a message.
- Reordered delivery in the test network.
- Multi-step blockstore operations that are not atomic.

## 2. Plan

The modules in order of importance:

1. **`Wantlist`** (done). The refcounted map as operators.
2. **`WantManager`** (done). It composes `Wantlist` with the Run loop, the message queues and their workers, the network streams and the peer's ledger wantList. `MC_WantManager` instantiates it for TLC.
3. **`ArcCache`** with the abstract **`Blockstore`** (done). `MC_ArcCache` instantiates it.
4. **`DagModifier`** with the abstract **`File`** (done). It models the write buffer and offsets, refined against an abstract byte file, over a bounded file of model-value bytes. Expected violations are WriteAt at `writeStart` appending instead of overwriting, and SEEK_END.
5. **`Supernode`** (done). It models concurrent ADD_PROVIDER requests on one record, PUT_VALUE, and the client's queries. The safety property is that no acknowledged provider is lost.
6. **`Notifications`** (done). It models Subscribe against Publish and ctx cancellation. The liveness property is that every stream is eventually closed; the safety property is that the `len(keys)` buffers never fill.
7. **`RmBlocks`** (done). It models pin filtering and deletion under the GC lock, against `pin add` and `pin rm`.

A type invariant is checked only where a change to the code could break it: `DagModifier` (a buffer with bytes is allocated) and `Notifications` (`blocksCh` carries at most `len(keys)` blocks). The other modules' variables stay in their types by the shape of the actions, with bounds on failures and channel capacities that no code change lifts, so their runs spend the check on the properties below.

## 3. Model of the want manager

State (`WantManager.tla`), with the code it stands for:

| Variable | Code |
|---|---|
| `wl` | `pm.wl`, as key → RefCnt |
| `incoming` | `pm.incoming`, a sequence of batches `[keys, cancel]` |
| `phase`, `rkeys` | each GetBlocks request's life: idle → live (entries queued) or abandoned (ctx done in addEntries) → done (CancelWants queued) |
| `conns`, `connects` | the network's connections and a bound on how many are opened |
| `pendConn`, `pendDisc` | notifications waiting on `pm.connect` and `pm.disconnect` |
| `refcnt`, `out`, `work`, `sender` | the msgQueue fields of `pm.peers[p]`; `refcnt = 0` means no queue |
| `zombies` | messages still held by workers of queues that `stopPeerHandler` removed |
| `net` | messages written to the stream and not yet handled by the peer |
| `view` | the peer's ledger wantList of us (key → RefCnt) |
| `failures` | network failures so far |

Actions:

- `WantBlocks`, `WantBlocksCtxDone` and `CancelWants` model addEntries.
- `Unwant` is `ipfs bitswap unwant` (`core/commands/bitswap.go`). Its CancelWants belongs to no request, so it takes one reference of each key away. `UnwantKeys` gives the key lists it is called with.
- `NetConnect` and `NetDisconnect` model Connected and Disconnected, which queue on two channels.
- `HandleIncoming` models the incoming case: the refcount filter, then addMessage to every queue.
- `Rebroadcast` models the tick case.
- `StartPeerHandler` and `StopPeerHandler` model the connect and disconnect cases.
- `DoWork` is the whole of one doWork call: connect failure, nothing to send, send, send failure.
- `ZombieWork` is a removed queue's worker that selected `work` over `done`.
- `Receive` models the peer's engine applying one message. A full message resets the ledger wantList.

Abstractions:

- Priorities and block payloads are left out.
- A message is the set of wanted and the set of cancelled keys, plus the full flag.
- The rebroadcast of all queues happens in one step, as it does inside the Run goroutine.
- `ConnectedPeers`/`peerReqs` is left out: it only reads. It has no ctx.Done case, so once Run has returned it blocks forever; the model has no shutdown of `pm.ctx` (hazard at wantmanager.go:103).
- The testnet's ConnectTo, which notifies both sides synchronously, is left out. In the test network every reconnect by doWork would add a queue reference that no disconnect removes (hazard at virtual.go:152).

### Runs

| Run | Checks | Result |
|---|---|---|
| `wm_safety` | NoStaleLocalWant, PendingFullIsWantlist | pass |
| `wm_advertised_reorder` | WantedEventuallyAdvertised with reordering and unwant | pass |
| `wm_withdrawn` | CancelledEventuallyWithdrawn | violation |

- **wm_safety** (2 keys, 2 requests, 1 peer, 2 connections, 1 failure; about 720k states). A decrement of a shared reference never leaves a want behind, and a pending full message always equals the current wantlist. NoStaleLocalWant is an upper bound: the cancel of an abandoned request (wantmanager.go:97) pushes the wantlist below the live wants, which only `LiveRequestsWanted` below catches. PendingFullIsWantlist holds whether or not the tick drops pending cancels; `wm_withdrawn` is the run about that.
- **wm_advertised_reorder** (1 key, 2 requests, unwant of the key, 1 peer, 2 connections, 1 failure, reordering and 2 stream slots; about 311k states). A key that stays wanted while the peer is connected ends up, and stays, in the peer's ledger. This holds despite a failed send, reconnects, a stale zombie send and deliveries that overtake each other. In-order delivery is one of the behaviours it covers.
- **wm_withdrawn**. The rebroadcast overwrites a pending cancel with an empty full message, which is never sent, so the peer keeps our want forever.

Three more disagreements are stated as properties but are not among the runs. `LiveRequestsWanted` fails when a request abandoned in addEntries still cancels, and removes a key another live request waits for; check it with one key, two requests, one peer, two connections, no failures, no reordering and `INVARIANT LiveRequestsWanted`. `QueueTracksConnections` fails when a Disconnected is handled before its Connected, which leaves a queue for an unconnected peer; check it with the `wm_safety` constants and `INVARIANT QueueTracksConnections`. `LedgerCountsOneWant` fails when a cancel and a later want of one key are coalesced into one want, because the peer then counts our want twice. Check it with the `wm_safety` constants and `INVARIANT LedgerCountsOneWant`.

### Bounds

- Two requests over one or two keys are what it takes for two refcounts on one key, which is what every refcount hazard needs.
- One peer with two connections gives a queue refcount of 2, reconnects and removal with a zombie worker.
- One failure gives a lost send.
- `StreamCap` bounds what the transport buffers before `SendMsg` blocks. Without it the ticker makes the state space infinite.
- `UnwantKeys` is empty in `wm_safety` and `wm_withdrawn`: an unwant only lowers refcounts, and it multiplies the safety run's states by 20. In `wm_advertised_reorder` the key may be unwanted at any time.
- `IncomingCap` is 1, not 10. The bound only decides when callers block, and a batch at a time is enough to interleave callers with the Run loop.

### Fairness

- Weak fairness on the Run-loop actions, the rebroadcast tick and each worker's DoWork: they are goroutines that are always scheduled and a ticker that always fires.
- Weak fairness on the peer handling received messages.
- No fairness on callers, on the network's connects, disconnects and failures, or on zombie workers beyond their one pending select. These are the environment and may never act.

## 4. Model of the ARC-cached blockstore

`Blockstore.tla` is the abstract interface. It holds a set of stored keys, and every call takes effect at one instant. `ret[c]` is the last call caller `c` returned from, as method, keys and result.

`ArcCache.tla` models each arccache method as the sequence of calls it makes:

- `hasCached` is the first step.
- Then comes one backing-store call.
- Then an `arc.Add` or `arc.Remove`.

Each call is atomic: the ARC and the store hold their own locks. Nothing is held between calls. `pc[c]` records where caller `c` is, `call[c]` the method and its keys, and `res[c]` the store's answer.

- `Evict` is the ARC dropping an entry at any time.
- `StoreFail` is any store error, bounded by `MaxFailures`. It returns the error without touching the cache, as every method does.

### Runs

| Run | Setting | Checks | Result |
|---|---|---|---|
| `arc_sequential` | one caller, two keys, two store errors (54k states) | CachedAbsentIsAbsent, CachedPresentIsPresent, `ImplementsBlockstore` | pass |
| `arc_stale_absent` | two callers, one key | CachedAbsentIsAbsent | violation |

- **arc_sequential**. Whenever no method is running on a key, its ARC entry agrees with the store. This covers every error path and eviction.
- **arc_sequential**, refinement. `Blockstore` is checked as a property, under a refinement mapping. Each method is linearised at its hasCached answer or its store call. Before the method returns, the abstract `ret` already shows the result the method will return.
- **arc_stale_absent**. A Has that read "absent" caches it after a concurrent Put stored the block and cached "present". Until the entry is evicted or a later Put replaces it, Get and Has report the block as missing, and DeleteBlock answers ErrNotFound without calling the store (arc_cache.go:35), which a forced `block rm` swallows.
- `CachedPresentIsPresent` is also violated with two callers (the `arc_stale_absent` constants), although that is not one of the runs. A DeleteBlock runs between a Put's write and its `arc.Add(k, true)`. The cache then says "present" for a deleted block, and every later Put of that block is skipped.

With two callers the refinement mapping above is too strict to serve as a linearisability check. A concurrent Put could linearise at its cache update instead of its store call. The two violated invariants are stated only at instants when no method on the key is running, so they do not depend on the mapping.

## 5. Model of the DAG modifier

`File.tla` is what a DagModifier promises its users, the mfs file descriptors. It is a byte file with an offset, behaving as an io.ReadWriteSeeker with WriteAt and Truncate. A write or seek past the end fills the gap with zeros. Its definitions are written from the interface contract, so `PROJECT.json` marks them spec-modelled. `ByteString.tla` holds the byte-sequence operators both modules use.

`DagModifier.tla` models the fields of the DagModifier as the record `dm`:

| Field | Code |
|---|---|
| `node` | the bytes of `curNode`; the DAG's layout is left out |
| `buf`, `hasBuf` | `wrBuf` and `wrBuf != nil` |
| `ws`, `cur` | `writeStart`, `curWrOff` (uint64, wrapping at `Width` bits) |
| `read` | `dm.read`: a DagReader on a snapshot of the node, with its own offset. Its blocks are left out here; `DagReader.tla` models them |
| `out` | the bytes the last Read returned |

Every method is an operator from a state to the set of its outcomes. Methods that call other methods (WriteAt calls Size, expandSparse, Sync and Write; Seek and Truncate call Sync) chain them with `Then`, which stops at the first error, as the code's `if err != nil { return }` does. Each outcome carries the DAGService errors it met; a run bounds them by `MaxFailures`.

The model keeps one case that depends on the DAG's shape. A write past the end reaches modifyDag with an offset past the data. On a leaf, `f.Data[offset:]` panics; on a tree, the write appends at the end. Both outcomes are kept, and a panic ends the behaviour. `last` records each call and whether it failed, so action properties can talk about the step.

### Runs

| Run | Setting | Checks | Result |
|---|---|---|---|
| `dag_all` | every method and whence, 1 DAGService error, buffer of 1 byte (1M states) | TypeOK | pass |
| `dag_refines` | Write, Seek (set, cur), Sync, no errors | `ImplementsFile` | pass |

- **dag_all**. Across every method, error and wrap-around, a buffer holding bytes is always allocated: Write sets `wrBuf` before appending to it (dagmodifier.go:121-123), and Sync clears both together. The offsets stay uint64 by construction, so the wrap hazard at dagmodifier.go:370 is not caught by this run.
- Read returns io.EOF with a short read, as CtxReadFull does; curWrOff still advances by what was read. Truncate's error leaves a leaf cut in place (the dagserv.Add after the cut) or, for a tree, the node untouched (GetNode or ds.Add inside dagTruncate). A modifyDag error partway through a tree, after it rewrote some links of curNode, is not modelled: the model's DAG is one leaf.
- **dag_refines**. Write, Seek and Sync implement `File`. The mapping is: content is the DAG with the buffer applied, and pos is `int64(curWrOff)`.
Seven disagreements are stated as properties of `DagModifier.tla` but are not among the runs. Each is found with the `MC_DagModifier` constants, WriteBufferSize 3, MaxFailures 0 unless stated, Whences {set} unless stated, deadlock unchecked, and these Ops and property.

| Ops | Property | What TLC finds |
|---|---|---|
| write, read | WriteFollowsOffset | Read advances `curWrOff` but not `writeStart`, so a Write after a Read goes to the old offset (dagmodifier.go:297). |
| write, writeat | WriteAtOverwrites | WriteAt at `writeStart` with fewer bytes than are buffered appends instead of overwriting (dagmodifier.go:64). |
| seek, Whences {end} | SeekEndFromEnd | SEEK_END moves to size minus offset, against the "standard unix seek" of dagreader.go:215 (dagmodifier.go:374). |
| write, writeat; Offsets `MCFarOffsets`, Width 4, MaxLen 5 | NoWriteGap | WriteAt's `expandSparse(offset - Size())` counts the unsynced buffer in Size, so after the Sync the DAG ends before the write (dagmodifier.go:72). |
| write, seek, truncate, sync | NoWriteGap | Truncate below `writeStart` leaves it past the end, and the next Sync panics on a leaf (dagmodifier.go:397, 215). |
| read, truncate | ReadReturnsContent | Truncate keeps an open reader, so the next Read returns removed bytes (dagmodifier.go:423). |
| write, sync; MaxFailures 1 | FailedSyncKeepsContent | An error after modifyDag consumed the buffer loses the write (dagmodifier.go:171). |

### The DagReader

`DagReader.tla` models `unixfs/io/dagreader.go` over a file DAG of two levels: a root node whose unixfs data holds the first bytes, and raw leaves behind its links. The reader's fields are the record `dr`:

| Field | Code |
|---|---|
| `src`, `pos` | `buf`: a bytes.Reader over the root data (0) or leaf `src`, at `pos` |
| `lp` | `linkPosition` |
| `off` | `offset` |

Operators, each giving the set of outcomes of one call:

- `ReadLoop` is CtxReadFull. `Read` calls it with `len(b)`, and `WriteTo` calls it with no limit.
- `PrecalcNextBuf` is precalcNextBuf. A fetch may fail, up to `MaxFailures` times.
- `SeekSet` is Seek with SEEK_SET, and `FindLink` is its link search.
- `SeekTarget` gives the target of SEEK_CUR and SEEK_END.

`ReadSeeker.tla` is what the reader promises, written from io.Reader, io.Seeker and io.WriterTo. The refinement maps it with content as the root data followed by the leaves, and pos as `offset`.

| Run | Setting | Checks | Result |
|---|---|---|---|
| `dr_within` | three files of 3 to 5 bytes, opened from nine root nodes, with 0 to 2 root bytes and 2 or 3 leaves; Read of 0 to 2 bytes, WriteTo, Seek set/cur to -1 to 4 inside the file; no fetch errors (153 states) | `ImplementsReadSeeker` | pass |

- **dr_within**. Reads and seeks cross every root/leaf and leaf/leaf boundary and implement `ReadSeeker`. This covers the root-data branch, which restarts the links, and the link search, which picks the first block larger than what is left.
- A seek to the end of the file or past it violates the refinement; this is not one of the runs. Check it with `SeekPastEnd = TRUE`. No block is larger than what is left, so `linkPosition` keeps its old value and `precalcNextBuf` loads that stale leaf. TLC's trace: `Seek(3, SEEK_SET)` on a three-byte file succeeds, and the next `Read(1)` returns the file's first byte instead of EOF (dagreader.go:246). `Seek(0, SEEK_END)` reaches the same state.
- SEEK_END seeks to size minus offset here too (dagreader.go:279). Its refinement violation is reproduced with `Whences` {set, cur, end}.
- A failed fetch in Seek leaves `linkPosition` moved while `buf` and `offset` stay (dagreader.go:256). The next Read then loads the leaf after the seek target. `ReadSeeker` has no failing Read, so this case is argued from the code, not checked.
- `NewDagReader` is a recursive operator over the node-type switch, and the initial states are the files it opens:
  - file and raw nodes open a reader on their data and leaves;
  - a metadata node opens its first link's node, through one or two metadata levels in `MC_DagReader`;
  - a directory, a symlink, a metadata node without links and an unknown type open none.
- Not modelled:
  - nested file nodes (a child DagReader per link);
  - `Close`, whose effect on NodeGetter promises already being fetched belongs to merkledag, which is not in the repository.

### Bounds

- The file holds two bytes of two distinct values, so an overwrite is visible.
- Writes are one byte. Offsets are 0 and 2: the start, and the end of the file.
- `MaxLen` 3 bounds the DAG and the buffer.
- `WriteBufferSize` is 1 in `dag_all`, so Write's own Sync happens. It is 3 elsewhere, so a buffer can hold several writes.
- `Width` 3 or 4 makes the integers wrap in reach. `dag_refines` uses 4, so that no legal offset wraps: at 64 bits an offset below the file size never does.
- The runs have no fairness and check no liveness. Every method is a synchronous call by one user, so nothing must eventually happen.
- Deadlock is not checked. A panic ends the program, and `MaxLen` leaves states with no successor.

## 6. Model of the supernode routing server

`Supernode.tla` models `Server.handleMessage` as the datastore sees it. Each request is handled in the goroutine of its stream, so handlers run concurrently. A handler's ADD_PROVIDER is a sequence of steps, with `req[r].st` saying where it is:

- `ReceiveAddProvider`: the message arrives. `Client.Provide` sends the list `<<p>>`; other clients may send any list.
- `AddProviderSkip`: an entry naming someone other than the sender is logged and skipped.
- `AddProviderRead`: the sender's own entry. storeProvidersToPeerstore runs, then the Get of putRoutingProviders. A Get error is ignored and reads as no providers.
- `AddProviderWrite`: the merged record is Put.
- `AddProviderPutFail`: the Put fails, and the handler returns at once.
- `AddProviderDone`: the loop ends.

`PutValue` is PUT_VALUE. It stores the record unverified, because `verify` is commented out, and it ignores a Put error while it echoes the request. Two kinds of sender are modelled:

- `ClientPutValue` is `Client.PutValue`, whose `makeRecord` names the client as the author.
- Any peer may also send a PUT_VALUE carrying a record of any author.

The client's queries go through the proxy to a handler that answers from one datastore read. A proxy error (counted in `failures`) fails the query. `answer` holds the last answer a client got:

- `FindProviders` is `Client.FindProvidersAsync`, answered by GET_PROVIDERS (`HandleGetProviders`, one `getRoutingProviders`). The client's goroutine passes on any part of the answer before its ctx is done.
- `GetValue` is `Client.GetValue` and `GetValues`, answered by GET_VALUE (`GetRoutingRecord`). A missing record means no response.
- `FindPeer` is `Client.FindPeer`, answered by FIND_NODE (`HandleFindNode`). The peerstore's PeerInfo always carries the requested ID, so FindPeer always "finds" the peer, with addresses only when the peer announced itself.

PING, `Ping` and `Bootstrap` change nothing and answer constants.

The records are abstracted to who they name:

- a provider record is the set of IDs in it, since `mergedRecords` is a map by ID;
- a value record is its author.

The auxiliary variable `acked` records the providers whose Put returned nil.

Records and provider lists are separate variables. In the code both live in one datastore: records at `k.DsKey()` ("// TODO namespace", server.go:142) and provider lists at `/routing/providers/<k>`. Whether a crafted key aliases the two depends on go-key, which is not in the repository (hazard at server.go:141).

### Runs

| Run | Setting | Checks | Result |
|---|---|---|---|
| `sn_safety` | one handler, one key, two peers, one Put or proxy error, no Get errors (10k states) | NoProviderLost | pass |
| `sn_lost_update` | two handlers, no errors | NoProviderLost | violation |

- **sn_safety**. With ADD_PROVIDER handled one at a time, every stored provider stays stored, across failed Puts, lists that name third parties or the sender twice, and client queries in between. The merge by ID in putRoutingProviders keeps what it read, so the two losses below come only from the interleaving and from the ignored Get error.
- Two disagreements are recorded as hazards, not runs:
  - A PUT_VALUE of a record naming someone else is stored (server.go:72). An invariant that the author of a stored record sent it fails at the first such message.
  - A PUT_VALUE whose Put fails is lost silently: Client.PutValue only sends, and the handler ignores the error.
- **sn_lost_update**. Both handlers read the empty record and each Puts only itself, so the provider acknowledged first is lost.
- `NoProviderLost` is violated without concurrency too, although that is not one of the runs. With `GetCanFail = TRUE`, one handler and one error, p2's Get fails and its Put overwrites p1 (server.go:192).

### Bounds

- One key, since handlers of different keys touch different records.
- Two peers, so one record can lose one of two providers.
- Two handlers in `sn_lost_update`, which is what a lost update takes; one in `sn_safety`, which is the setting where the merge alone decides.
- The lists are `<<p1>>`, `<<p2>>`, a third-party list `<<p2, p1>>` and a duplicate `<<p1, p1>>`.

No liveness is checked, and no fairness is assumed: a handler does no waiting beyond its datastore calls.

## 7. Model of block removal

`RmBlocks.tla` models `RmBlocks` (`blocks/blockstore/util/remove.go`) against the `pin add` and `pin rm` commands (`core/commands/pin.go`). `RmBlocks` starts a goroutine; the command reads its results with `ProcRmOutput`. `rm.st` says where the goroutine is:

- `RmBlocksCall`: the command starts the goroutine and begins reading.
- `GCLock`: `blocks.GCLock()` waits until no PinLock or GC lock is held.
- `FilterPinned`: `CheckIfPinned` over all cids. A pinned cid becomes an error message. On a pinner error the abort message is queued and nothing is deleted.
- `DeleteNext`: `DeleteBlock` of the next unpinned cid, once the previous result has been sent. Under `Force` an ErrNotFound is ignored. Any other error is sent, and a success is sent unless `Quiet`.
- `Deliver`: a send on the unbuffered `out` meets `ProcRmOutput`'s receive. The abort message ends `ProcRmOutput` ("aborted"), and an error sets `someFailed`.
- `Finish`: the deferred unlock and `close(out)`. `ProcRmOutput` returns nil or "some blocks not removed".
- `PinAdd(k)`: under the PinLock, fetch the DAG and pin it. `PinRm(k)` unpins with no lock.

The pinner is abstracted to a set of pinned keys, and a message on `out` to whether it has a hash and an error. The GC lock and the PinLock are the two sides of the GCBlockstore's RWMutex. The blockstore itself is outside the repository, so that exclusion is modelled from its interface. `left` records the requested keys still stored when the goroutine ended.

### Runs

| Run | Setting | Checks | Result |
|---|---|---|---|
| `rm_all` | two keys, cid lists `<<k1>>` and `<<k1, k2>>`, Force, one error (897 states) | NoPinnedBlockRemoved, SuccessMeansRemoved, GCLockReleased | pass |

- **NoPinnedBlockRemoved**. A `pin add` between `FilterPinned` and `DeleteBlock` would pin a block that is then deleted. The GC lock held across both rules this out.
- **SuccessMeansRemoved**. `ProcRmOutput` returns nil only if every requested block is gone. `Force` swallows ErrNotFound only, which leaves nothing behind. The model takes ErrNotFound to mean the block is not stored; behind the ARC cache it can also come from a stale cached "absent" (arc_cache.go:35, see `arc_stale_absent`).
- **GCLockReleased**. The goroutine never blocks for good on a send after `ProcRmOutput` stopped reading, because `FilterPinned` returns right after the abort message. Otherwise the GC lock would be held forever and every `pin add` would wait.

### Bounds and fairness

- Two keys and a two-cid list give one pinned and one unpinned cid in one call. Either can be pinned, unpinned or already missing.
- One error reaches the pinner failure and a failed `DeleteBlock`.
- `Force` is TRUE, since that is the branch where errors are swallowed. `Quiet` is FALSE, so that success messages also go through the channel.
- Weak fairness is put on the goroutine's steps and on `ProcRmOutput`'s receive: both are goroutines that are always scheduled. The users who pin and call the command get no fairness.
- Deadlock is checked. A user can always pin or unpin, so the system never stops.

## 8. Model of the notification bus

`Notifications.tla` models `exchange/bitswap/notifications/notifications.go`. The pubsub library it wraps is not in the repository, so the bus follows spec section 4.2:

- Publish delivers to every subscription of the key.
- A subscription made with `AddSubOnceEach` ends with the delivery of the key; one made with `AddSub` stays. `once` records which call Subscribe made (line 46).
- A subscriber whose buffer is full is dropped.
- A channel held under no key is closed.

Actions:

- `Subscribe(s, ks)`: no keys gives a closed `blocksCh`. Otherwise `valuesCh` is registered under every key, and the goroutine starts. `size` is `len(keys)`, the buffer of both channels.
- `Publish(k)`: `Pub` on the block's key, with the bus behaviour above.
- `Shutdown`: the bus releases and closes every channel.
- `Receive`, `Send`, `Return`: the goroutine's outer select, its inner select, and its return with the deferred `Unsub` and `close(blocksCh)`.
- `Cancel` and `Read`: the caller's ctx ends, and the caller reads `blocksCh`.

A block is abstracted to its key. The history variable `delivered` is what the goroutine put on `blocksCh`.

### Run

| Run | Setting | Checks | Result |
|---|---|---|---|
| `nt_all` | two subscribers, two keys, key lists `<<>>`, `<<k1>>`, `<<k1, k2>>`, `<<k2, k2>>` (26k states) | TypeOK, NoBufferFull, StreamEventuallyCloses | pass |

- **NoBufferFull**. The bus never finds a `valuesCh` full, and the goroutine never waits on a full `blocksCh`. This holds even when the caller reads nothing and a key is published again and again, because Subscribe registers with `AddSubOnceEach`: with `AddSub` the second publish of a key overflows the `len(keys)` buffer. `TypeOK` also bounds what `blocksCh` carries by `len(keys)`, as the comment on `Subscribe` says.
- **StreamEventuallyCloses**. `blocksCh` is closed once every key was published, the bus was shut down, or the ctx ended. A subscription of no keys is closed at once.

### Bounds and fairness

- Two keys and a duplicated list give both a subscription that needs two deliveries and one whose `len(keys)` exceeds its distinct keys.
- Two subscribers let one publish reach two channels.
- Weak fairness on each goroutine's `Receive`, `Send` and `Return`: the runtime schedules a goroutine whose select case is ready.
- No fairness on callers, publishers, ctx or `Shutdown`.
- Deadlock is checked. `Publish` is always enabled.
- Not modelled: the library's command channel (`bufferSize` 16) and the ordering of `Unsub` after `Shutdown`. These belong to the library, whose code is not in the repository.

## 9. Not modelled

- Engine accounting (SentBytes/ReceivedBytes), SendBlock and the decision engine's outbox.
- DagModifier's CtxReadFull and GetNode, which are Sync plus a read, and the DAG's layout (trickle balancing, block splitting).
- The supernode proxy package (not in the repository). It is abstracted to delivering a request to the handler or failing.
- Merkledag coding and the block set: pure data conversions without interleaving.
- `ipfs init` (`cmd/ipfs/init.go`): a fixed sequence of fsrepo, node and namesys calls, which are not in the repository. A failure after the repo is written leaves it incomplete, and init then refuses to run again (init.go:142).
- `pin ls`: it reads the pinner and walks the DAG without a lock (hazard at pin.go:331), and the pinner's recursive/direct split is not in the repository.
- The other CLI commands, gateway, init/config, assets, importer and tests: I/O and parsing. The state changes they make are calls into the components above.
