# A TLA+ development of nostr.js

nostr.js is a TypeScript client library for the nostr protocol. This directory holds TLA+ models of
its networking core, its event stores and the client on top of them, the TLC configurations that
model-check them, and proofs of the main invariants of the core. Paths below are relative to the
library's `src/` directory.

All of the code runs on one JavaScript thread. What makes it hard is not parallelism but
*interleaving*: socket events, timers, promise continuations, abort signals, IndexedDB requests and
application calls come in any order; a handler calls back into the application, which may call any
method again; an `await` may last longer than what it was begun on; and everything is retried.

## 1. Inventory

| Part | State it keeps | Operations | What is hard, and what makes it correct |
|---|---|---|---|
| **Relay connection** `relay/relay.ts`, `relay/ping.ts` | generation, status, `#ws`, the attempt in flight, reconnect timer and count, stop flag, ping loop | `connect`, `disconnect`, `close`, socket events, connect timeout, reconnect timer, ping | Events of superseded sockets, callbacks that reconnect inside `close()`, opens that fail half-way. Correct: *connected* means one live socket of the current generation; no orphan socket; a relay that has subscriptions always comes back. |
| **Relay subscriptions** `relay/subscription-registry.ts`, `relay/subscription.ts` | registered REQs, live groups by filter, per handle open/EOSE/timer, per REQ the watermark | subscribe, close, abort, EVENT, EOSE, CLOSED, EOSE timeout, replay, AUTH retry, `closeAll` | Coalescing of subscribers, replay from a watermark in whole seconds, retries that outlive the connection. Correct: registry, handles and remote relay agree; a reconnect loses and repeats only what it must. |
| **Relay requests and AUTH** `relay/ok-tracker.ts`, `relay/count-tracker.ts`, `relay/auth.ts` | entries with timers, challenge, authenticated and answered challenge, shared AUTH promise | `publish`, `count`, `auth`, `resetAuth`, OK, COUNT, CLOSED, AUTH, timeouts | The signer may take for ever. Correct: the client never believes itself authenticated when the relay does not; every request settles. |
| **Relay pool** `relay/pool.ts` | relay per URL, last activity, invalid-event window, suspensions, resume timers | `ensureRelay`, eviction, idle cleanup, `closeRelays`, `close`, close listener, suspend, resume | Between `ensureRelay()` and the caller's continuation the relay may be evicted, closed or suspended. Correct: the pool owns every socket; a suspension holds, then lifts; callers settle. |
| **Fan-in** `relay/fan-in.ts` | per entry attached or not, `pending`, `pendingEose`, `eoseDone`, EOSE timer | attach, fallback attach, EOSE, end, close, `fetchRouted` | Each URL must be counted once, whether it fails, attaches late or ends. Correct: it is open exactly while an entry may deliver. |
| **NEG sessions** `relay/neg-session.ts`, `nips/nip77.ts`, `client/sync.ts` | sealed vectors, round, have, need | NEG-OPEN, NEG-MSG, NEG-ERR, deadline, upload, download | Splits, bounds and cut frames must cover every range once. Correct: the exact difference is found, then moved or reported. |
| **Client** `client/client.ts` | persistence queue, flush in progress, shutdown flag | fetch, subscribe, publish, observe, shutdown | Events that arrive during the flush or after shutdown. Correct: what was queued is stored or reported. |
| **Private messages** `client/dm.ts` | seen wraps, processed rumors | send, fetch, subscribe | Dedup over wraps and relays. |
| **Gossip** `gossip/gossip.ts` | routes per author, recency | ingest, route, clear | Lists in any order and of one second. Correct: the winner's routes; routing a filter leaves nobody out. |
| **Memory event store** `storage/put.ts`, `deletion.ts`, `memory-index.ts`, `memory.ts` | events, indexes, tombstones, watermarks | put, remove, evict, query, clear | Deletions before what they delete, markers that are capped. Correct: the newest version holds; what was deleted stays so. |
| **Persistent event stores** `storage/indexeddb.ts`, `idb-*.ts`, `sqlite.ts` | tables, caches beside them, write queue | open, upgrade, put, remove, clear, bounds, query, close | Aborted transactions, crashes, reloads, cursors that interleave. Correct: they implement the memory store, batch by batch. |
| **Reactive store** `store/reactive.ts` | watches with cached snapshots, dirty set, pins, recency | add, remove, watch, subscribe | No stale snapshot, no missed notification; eviction bounds the store and spares what is watched. |
| **Loaders** `loaders/*` | in-flight promises, batches, fetch records, outbox bounds | load, clear, sync, live | Batches race `clear()`; bounds read from storage race events and crashes. Correct: a bound never skips an event. |
| **Signers** `signer/*` | pending requests by id, subscription, open flag | request, response, timeout, auth URL, relay switch, close, handshake | A timeout races the publish and the answer. Correct: each request settles once; a closed signer stays closed. |
| **NIP helpers, messages, crypto, utilities** `nips/*`, `core/*`, `wasm/*` | none | pure functions | Left to unit tests, but for filters and the NIP-01 winner. |
| **Test relay** `testing/*` | in-memory relay and network | | Test code, but for its NIP-77 responder. |

How they interact: the client and the loaders route filters through gossip to the fan-in, which asks
the pool for relays. The pool owns `Relay` objects and listens to their `close`, `auth` and
`invalidevent` events. A relay composes the connection, the registry and the trackers: a socket death
rejects the requests and keeps or closes the subscriptions, an open replays them, `auth-required:`
answers make both wait in `ensureAuthed()`. Events that come in go to the reactive store, which holds
a memory index, and to the client's queue, which puts them into a persistent store in batches; the
loaders read the index and keep their bounds in the store.

## 2. Modules

| Module | Code | About |
|---|---|---|
| `RelayConnection` | `Relay` (`relay/relay.ts`), `PingLoop` (`relay/ping.ts`) | life of the connection |
| `RelayConnection_proofs` | | its theorems |
| `RelaySubscriptions` | `SubscriptionRegistry`, `Subscription`, dispatch of EVENT, EOSE, CLOSED | what subscribers see |
| `RelaySubscriptions_proofs` | | its theorems |
| `RelayRequests` | `OkTracker`, `CountTracker`, `RelayAuth`, the AUTH retries | requests and NIP-42 |
| `RelayRequests_proofs` | | its theorems |
| `RelayPool` | `Pool`, with the use its callers make of a relay | many relays |
| `RelayPool_proofs` | | its theorems |
| `FanIn` | `fanIn()` | counting EOSEs and ends |
| `StorePolicy` | `storage/put.ts`, `storage/deletion.ts` | operators: what a store does with an event |
| `MemoryIndex` | `storage/memory-index.ts` | operators over the index's state |
| `EventStoreSpec` | `storage/memory.ts`, `storage/types.ts` | the abstract event store |
| `IndexedDbStore` | `storage/indexeddb.ts`, `idb-schema.ts`, `idb-helpers.ts` | tables, caches, transactions |
| `SqliteStore` | `storage/sqlite.ts` | the same writes on SQLite |
| `PersistentStores` | | both together (it extends them), and the refinement |
| `PersistentStores_proofs` | | their theorems, the refinement among them |
| `SeqFilter` | `filter()` | a sequence restricted to a set of its elements |
| `StoreLemmas` | | lemmas about folds, filters, the put decision and the deletion state |
| `EventQueries` | `idb-query.ts`, queries of `sqlite.ts` and `memory-index.ts`, `core/filter.ts` | one filter asked of three stores |
| `ReactiveStore` | `store/reactive.ts` | watches over a `MemoryIndex` |
| `ClientFeed` | `loaders/outbox.ts`, queue of `client/client.ts` | what survives crashes |
| `ClientData_proofs` | | theorems of these two |
| `Loaders` | `loaders/dataloader.ts`, `loaders/replaceable.ts` | batches and fetch records |
| `NegSync` | `nips/nip77.ts`, `relay/neg-session.ts`, `client/sync.ts` | one NIP-77 sync |
| `Nip46` | `signer/nip46.ts` | the remote signer |
| `Gossip` | `gossip/gossip.ts`, `nips/nip65.ts`, lists of `nips/nip17.ts` | routes |
| `ClientParts_proofs` | | theorems of `Nip46`, `Loaders`, `FanIn`, `Gossip`, `NegSync` and `EventQueries` |
| `MC*` | | TLC instances; `MCClientData` extends `ReactiveStore` and instantiates `ClientFeed` |

Each module models one layer and takes from the layer below only what it promises.
`RelaySubscriptions` and `RelayRequests` see a connection that is up or down;
`RelayConnection` says when. `RelayPool` sees a relay that is *down*, *stopped* (by `close()` or
`disconnect()`), *connecting* or *open*, and whether its reconnect timer is armed; `FanIn` sees an
`ensureRelay()` that resolves or rejects. `EventStoreSpec`, `IndexedDbStore` and `ReactiveStore` are
built from the same operators (`StorePolicy`, `MemoryIndex`), as the classes call the same functions;
`ClientFeed` takes of the store that it writes in order. Parts that share no state are checked in
one run whose behaviours are each that of one part (`mode` in `MCClientData`, `MCClientParts`).

### RelayConnection

A `connect()` attempt and its socket share a name of `Conns`; `cur` is the attempt whose captured generation
equals `#gen`, `ws` is `#ws`, `connecting` stands for the promise, its finish function and its timer,
`listening` for the sockets with listeners. `sock` is the ready state of every socket ever made and not closed,
so an orphan is visible. `wired` and `pending` record on which connection a REQ or a request went out. `orphans`
is history: sockets that a `close()`, re-entered from its own callbacks, let go of with their listeners on.
`attempts` is the number of failed attempts up to the length of the backoff table (the code counts on, which
makes no difference to any delay).

A handler is one action. Two handlers call the application back while they run: `close()` and
`#handleSocketDeath()`. They are split where the callbacks run, and `cb` says which half is due:
`BeginClose`/`EndClose` around the `onclose` callbacks of `close()`; the socket-death actions,
`EndOnclose` and `EndDeath` around the `onclose` callbacks and the `close` listeners. In between any
application call may happen and nothing else can.

`connect()` is `Connect` or `ConnectThrows`; the backoff timer is `RetryConnect`,
`RetryConnectThrows` or `RetryIdle`, and `RetryCatch` is its catch block, which runs as a
continuation. `OpenSucceeds`, `OpenReplayFails` and `OpenStale` are the three ways through `onOpen`;
`NetError` and `NetClose` are `onError` and `onClose`, guarded or not. `PeerDies` makes a socket
silent; `PingTick`, `PingReply` and `PingTimeout` are the keepalive.

### RelaySubscriptions

All subscribers ask for one filter, since groups of other filters do not interact. A REQ is named
after the handle that opened it. `subs` is `#subs`, `joinable` is the group of `#liveByFp`, `last` and
`ids` are the watermark. The remote relay is modelled as NIP-01 has it: it holds REQs with their
`since`, sends stored events in any order, then EOSE, and new ones in order of arrival. What it has
still to send is its state; messages in flight for a REQ that was closed are ignored by the code, so
nothing else needs to be remembered. `cut` is history: events that were at risk when a REQ was cut.

### RelayRequests

`state` tells whether a request has an entry in its tracker, waits for AUTH, or has settled;
`waitsFor` and `round` are the local state of the coroutines in `ensureAuthed()`, and `attempt` that
of the inner coroutine of `auth()`. Continuations run before the next macrotask, so `Settle` is an
attempt that settles together with what all its waiters do next (`Continue`, `Finish`). A stale
`authRetry()`, of an entry that was replaced, goes on as entry `<<r, "old">>`.

### RelayPool

A caller is one call of `ensureRelay()` with what follows: it awaits `connect()`, then has a
continuation due (`got`, `failing`, or `attach` in the fan-in's fallback), then uses the relay.
`Macrotask` says that socket events and timers find no continuation due. `timers` holds the relays
whose reconnect timer is armed, which is independent of their status: a `subscribe()` on a relay that is
still connecting arms it (`Subscribed`), the open does not clear it, and when the socket then dies without
subscriptions `close` drops the relay from the pool while the timer lives on (`SocketDeath`). `resume[u]` is
the sequence of all resume timers of a URL that run, oldest first, of which `#resumeTimers` names at most the
newest (`recorded`): `ensureRelay()` forgets a suspension and not its timer, and the next suspension
overwrites the name. `strays` records the relays that may connect outside the pool: those that a `fetch()`
connects on its own after the pool has let go of them, and those that `close` drops with their timer armed.

### FanIn

An entry is a (job, URL) pair, counted as the code counts it. `Count` is what `settleEose()`,
`fireEose()`, `pending -= 1` and `finish()` do in a row, with an `oneose()` that may call `close()`.
A `subscribe()` that throws after it has registered its REQ is `FailRegistered`; when that REQ ends it
is counted again (`twice`), the exemption of `FanInCounts`.

### The event stores

An event is a record with its address and the ids and addresses it deletes. `Decide` is `decidePut()`,
`Plan`, `Absorb` and `Covers` are the deletion state. `MemoryIndex` keeps the events, the deletion
state, the watermarks and the order of the tombstones; the indexes by author, kind and tag are functions
of these and left out. `EventStoreSpec` makes of it the store an application relies on: each batch
at once, nothing half, as `storage/types.ts` has it. `MemoryEventStore` itself awaits between the puts of a
batch (`memory.ts:15-22`), so that other calls may come between: a batch of one event is what it does, a longer
one is the contract, which IndexedDB keeps.

`IndexedDbStore` keeps the committed tables (`db`) apart from the tombstones in memory (`cache`), since the code
decides with the latter and crashes with the former. A write begins a transaction with a copy of the tables and,
for puts, of the cache; each event of a batch is a step; a transaction commits, aborts or dies with the page.
Loads of the cache (`Opened`, `Loaded`) wait in line among the transactions. `Migrate` is the upgrade from
version 1. `SqliteStore` is atomic: each write is one exclusive transaction of the driver. `PersistentStores`
gives SQLite what IndexedDB commits, and holds the refinement mapping: `stored` is the table of events, `del`
its tombstones in canonical form (`Canon` drops pending entries that can never match), `bound` the outbox bound.

`EventQueries` models the cursor merge of IndexedDB as the callbacks that run it (`Pump`, `OnEvent`), and
the two other stores as functions of filter and content.

### ReactiveStore, ClientFeed, Loaders

`ReactiveStore` has per watch the flags of `WatchImpl` and the registration of its host; the flush is
`TakeDirty`, `Notify` and `FlushDone`, so that a subscriber may call anything in between. `add()` and
`hydrate()` are a series of `PutOne` that `Write` ends with the eviction. `told` is what the subscriber could
last know. `ClientFeed` has one author, one kind, one relay and a clock; the store's writes are a queue of which
the head may fail. A fetch of `sync()` brings any part of what it asked for (`SyncFetched`): the limit, a
timeout, a CLOSED and a lost socket all end it early, and nothing tells `sync()` so; `LeftOut` are the events
that the bound of such a batch passes. The histories `excused`, `late` and `owed` record by name what the code
does not promise. `Loaders` names a promise after the call of `load()` that made it.

### NegSync, Nip46, Gossip

`NegSync` numbers all events in the protocol's order; a range is its upper bound, a mode and what it
carries; a fingerprint is the set it is computed of. `minimalBound` may choose any bound between two items.
Both sides run `Reconcile`. A download brings any part of its batch (`Fetch`). Left out are `dryRun`, which
stops after the reconciliation, and `observe: false` and `persistEvents: false`, which keep what was
downloaded from the client's index or store. `Nip46` has one record per `#sendRequest()`. `Gossip` is a function
of state, with `heard` as history to compare with the winner.

## 3. Runs

| Run | Question | States | Result |
|---|---|---|---|
| `connection` | Who owns the socket; does reconnect always happen; do attempts and dead peers resolve? | 257,038 | holds |
| `subscriptions-registry` | Do registry, handles and remote relay agree on the REQs? | 1,899,672 | holds |
| `subscriptions-watermark` | What do `since` and the same-second ids lose and repeat over reconnects? | 2,577,052 | holds |
| `requests` | Is the client's belief to be authenticated sound; is a request ever forgotten or settled by a stale retry? | 321,546 | holds |
| `requests-settle` | Does every request settle against a relay that re-challenges for ever? | 86,601 | holds |
| `pool` | Does the pool own its sockets, do suspensions hold and lift, do callers settle? | 268,506 | holds |
| `persistent-stores` | Does IndexedDB implement the memory store; do its caches and rows stay true; does SQLite agree; does NIP-09 hold in any order? | 667,068 | holds |
| `client-data` | Is a snapshot ever stale, a notification missed, an old version back, an event skipped by a bound? | 495,500 | holds |
| `client-parts` | Fan-in counts, NIP-77 differences, signer requests, loads, queries, routes: one question each | 449,997 | holds |
| `close-event` | Is the `close` event terminal? (`relay/relay.ts:85`) | 875 | violated |
| `never-loss` | Is re-delivery the worst case of a reconnect? (`relay/subscription.ts:211`) | 28,720 | violated |
| `frame-limit` | Does a converged reconciliation know the difference? (`nips/nip77.ts:40`) | 22,640 | violated |

A violated run states what a comment of the code says and shows a trace of the code that contradicts
it; `PROJECT.json` quotes the comments and tells the traces.

- **close-event.** `subscribe()` while connecting arms the reconnect timer, the open does not clear it;
  the subscription is closed, the socket dies, `close` is emitted, the timer reconnects.
- **never-loss.** Stored events come newest first; a break before EOSE leaves the older ones behind the
  watermark of the replay. The property asks only for events that the relay held when the REQ arrived, while
  nothing is posted: in the trace two are stored, the newer comes, the socket dies, the replay begins at the
  newer, the older never comes. `NoFreshEventLost` is what does hold.
- **frame-limit.** A responder whose reply exceeds its frame throws away the range it has just processed
  and sends a fingerprint of what comes *after* it. An empty client that meets a relay with more ids than fit
  into a frame converges without learning of any. Without a limit on the responder's side
  (`RelayLimit = 0` in `client-parts`, whatever the client's) the difference is exact.

Five more configurations are kept as reproducers of disagreements; they are run by hand, and TLC finds each
violated:

| Configuration, module | Property | What it shows |
|---|---|---|
| `MCSubsLateSubscriber`, `MCRelaySubscriptions` | `LateSubscriberSeesStored` | A subscriber that joins a group after stored events were delivered but before EOSE gets the EOSE and not those events (`relay/subscription-registry.ts:211-214`). |
| `MCSubsSurvives`, `MCRelaySubscriptions` | `SurvivesReconnect` | An AUTH retry of the old connection drops the subscription by id after the new connection has replayed it (`relay/relay.ts:700`, `relay/subscription-registry.ts:127`). |
| `MCPoolCap`, `MCRelayPool` | `CapNeverFailsRequest` | A relay whose `ensureRelay()` has resolved is idle until the continuation runs, so another `ensureRelay()` evicts it (`relay/pool.ts:44`, `298`). |
| `MCPoolReuse`, `MCRelayPool` | `ConnectionReuse` | The catch block of `ensureRelay()` forgets the URL's entry without comparing identities (`relay/pool.ts:108`, `366`). |
| `MCLeakedSigner`, `MCClientParts` | `NoLeakedSigner` | A handshake that times out while its signer asks for relays leaves that signer subscribed (`signer/nip46.ts:301`, `358`). |

## 4. Properties worth knowing

- `ConnectionOwned`, `NoOrphanSocket`, `StopQuiesces`: ownership of sockets across superseded attempts
  and reentrant callbacks. When an `onclose` callback of `close()` calls `connect()`, the `finally` of
  `close()` severs the new socket and lets go of the old one, open and heard. `NoOrphanSocket` exempts such
  behaviours; `StopQuiesces` says that after a stop no attempt, timer or keepalive is left and no socket open or
  heard but those (`orphans`).
- `NeverStranded`: with reconnect enabled and subscriptions open, something is always under way.
- `NoReqLeaks`, `RegistryOwnsHandles`: the exemptions `stranded`, `bornClosed` and `spanned` name the
  ways in which the code does leak: a live handle opened inside `closeAll()`, a one-shot whose signal
  was aborted beforehand, a retry that outlived its connection.
- `NoFreshEventLost`, `RepeatsOnlyBehindWatermark`: the exact guarantee of the watermark.
- `BeliefSound`, `StaleRetryHarmless`: late answers and stale coroutines do no harm.
- `PoolOwnsSockets`, `SuspendedStaysDown`, `SuspensionLifts`, `CallersSettle`: the pool. The first two exempt
  `strays`. `SuspendedStaysDown` is about the time in which the pool counts a URL as suspended, which the timer
  of an earlier suspension may end before its time (section 7).
- `ImplementsMemoryStore`: every step of IndexedDB is a write of the memory store or a stutter, and the
  state it leaves is the same function of its arguments. It fails when a batch is half visible, when a crash
  keeps part of one, or when tables and memory decide differently. It needs `Careful` (below).
- `CacheFaithful`, `AddressRowsExact`, `SqliteAgrees`: the redundant copies (tombstones in memory,
  address rows, SQLite's narrow lookup) never differ from what they stand for.
- `DeletedNeverServed`: NIP-09 whatever the order of arrival, with the one exception of section 7.
- `QueriesExact`: the merged cursors give the NIP-01 order and limit for every order of callbacks, and
  chunked SQL, deferred tags and index candidates give the same answer.
- `SnapshotFresh`, `NoMissedNotification`, `EvictionBounds`, `NewestHolds`: the reactive store.
- `FeedSafe` = `FeedNeverSkips` (an event on the relay is held, on its way, or will be asked for) and
  `BoundBehindStore` (the same of what a crash leaves) and `ShutdownFlushes`.
- `FanInCounts`, `SyncExact`, `SignerSound`, `LoadsShared`, `RoutesRight`: each a conjunction of the two
  promises its part makes, named in its module.
- `RequestsReturn`, `LoadsSettle`: nobody waits for ever on the remote signer or a batch.

## 5. Bounds, and why they are enough

- **RelayConnection** (`connection`): three connection names allow an orphan, a closing socket and a
  fresh attempt at once (no action looks at more than the current and one other socket); two
  subscriptions distinguish one that was replayed from one opened meanwhile; one request, as requests
  do not interact; a backoff table of two delays, so that the count saturates. Bound in the model: at
  most one `connect()` inside the callbacks of one behaviour's `close()`; the WebSocket constructor
  throws only outside callbacks; a `close()` or a socket death *inside* a callback is atomic.
- **RelaySubscriptions**: registry questions need two subscribers and one event; watermark questions one
  subscriber, two events of the same second, a later one that is in the future at first, and a forged
  one, over two seconds (`LastSecond`). Delivery counts saturate at 2. Not modelled: two subscriptions
  with the same explicit id; a handle closed by a callback in the middle of one delivery.
- **RelayRequests**: two challenges, which the relay may alternate for ever; two attempts in flight, a
  stale one and the next; `Rounds` is 2 where the code has 3. Safety is checked with a publish and a
  subscription, liveness with a publish and a COUNT. At most one stale retry per request. The relay
  object has an `authSigner`; the remote relay accepts an AUTH only for the challenge it issued last.
- **RelayPool** (`pool`): two URLs, a cap of one, two callers, two `Relay` objects (a name is used again when
  nothing refers to it), `Limit` 0 (the first invalid event suspends) and `Cooldown` of one tick; invalid events
  come from one of the URLs (`Faulty`), whose resume timers may be two at a time (`MaxTimers`), the least with
  which one outlives its suspension. Liveness is checked for one caller (`Watched`), as callers are alike. With
  `Limit` 1 the safety properties were checked once as well (526,996 states); the theorems cover any `Limit`,
  any number of timers and of faulty URLs. `CapNeverFailsRequest` and `ConnectionReuse` (reproducers) use three
  relays. The pinned list is empty in the runs; the theorems cover any. Left open: which idle relay goes first.
  Left out: the rejection of insecure URLs. A timer that is due may run late. Assumed: a caller uses its relay
  in the continuation of `ensureRelay()`, as all callers in the library do.
- **persistent-stores**: ten events: a note and three versions of an address (two of one second), four deletion
  requests (by id, by address, by a stranger, of a request), an ephemeral and an invalid one; batches of one
  and two, so that the second event of a batch sees the first; every set of nine of them as a version
  1 database. `MaxOpens` bounds the `open()` calls in flight. `Careful`: the application awaits `open()`
  before it writes and its writes before it closes; `WritesAbort = {"put"}`: only batches of puts
  abort. Without either, `CacheFaithful` fails (section 7).
- **client-data**: a behaviour is that of the index or of the feed (`mode`). The index has room for one event,
  one tombstone of a kind and two watermarks, so that the caps on events and tombstones are reached at once
  (that on watermarks is not, with one address); in a behaviour it sees the requests of the author (`"own"`) or
  those of somebody else (`"other"`), and has one of two watches (a query with a limit, an address), as watches
  meet only in the pins and the dirty set. `Hydrations` and `Removals` have one element each. The feed has two
  events, the first posted at once and the second at least a second later, a clock of three seconds, two writes
  under way at a time (`SmallFeed`) and one fault (a crash or a failed write); a fetch may bring less than it
  asked for every time. The theorems of section 8 hold of every size; the lowered bound of section 7 needs three
  events and four seconds and was met there, not in this run; `LeftOut` is met with two events, two seconds
  apart. With `Ahead` an event may be dated ahead of the clock.
- **client-parts**: four URL entries; five events with two buckets and a threshold of three, so that
  splits nest twice (a pair of sets per behaviour: all 1,024), a client frame of three units and `MaxRounds`
  8; two ordinary and two handshake requests; three loads of two keys with one `clear()`, batches of two;
  five stored events over two seconds, every subset, with lists below and above `MaxCursors` and `Chunk`;
  eight relay lists of three authors with room for two.

Runs with `CHECK_DEADLOCK FALSE` are those of parts that may legitimately come to rest: a closed relay, a
sync that is done, a query that was answered, every bounded resource used up. The pool's run checks deadlock.

## 6. Fairness

Nothing is assumed of applications, signers' answers (only that they come), or remote relays.

- `RelayConnection`: handlers run to completion; the timers of the keepalive and of a connect attempt
  fire when they stay due; a socket on which `close()` was called gets its close event, as the WebSocket
  standard has it. Opening is *not* fair: the network may refuse for ever.
- `RelayRequests`: request and AUTH timeouts fire, and the signer answers, rejects or has no key. With
  a signer that never answers, a request that waits for AUTH never settles: its timeout is paused.
- `RelayPool`: continuations run (weak fairness); an attempt settles, the clock ticks and a due
  resume timer fires although continuations keep them from running now and then (strong fairness): the event loop
  reaches its macrotasks, and `AttemptSettles` is what `RelayConnection` contributes.
- `Nip46`: `publish()` settles, timers fire, promises go on. Whether the bunker answers is left open.
- `Loaders`: microtasks run and a fetch ends, at the latest by its timeout.

The other modules state no fairness: what they promise is safety.

## 7. What the code does not promise

Exceptions that properties name, and divergences met while modelling that no run is spent on:

- **Stores.** One author per pending id is remembered, so a stranger's request for an unknown event can
  displace the author's (`deletion.ts:109`; `PendingRequestHolds` is false). A stranger's request also drops
  the watermark of an evicted winner, after which an older version is accepted (`memory-index.ts:498`;
  `NewestHoldsAlways` is false, against the comment at `reactive.ts:249`).
- **Connection and pool.** `connect()` inside an `onclose` callback of `close()` leaves the old socket open and
  heard (`orphans`). A relay dropped from the pool by `close` while a `subscribe()` of before its open has left
  the reconnect timer armed comes back outside the pool (`relay.ts:553-566`, `pool.ts:334-337`). A resume timer
  that outlives its suspension, when `ensureRelay()` finds the suspension over before the late timer has run,
  ends the next one early (`pool.ts:320-325`, `257`), so that a suspension may be shorter than the `until` it was
  announced with.
- **IndexedDB.** A write begun while the cache is still loading decides with, and may restore, an empty one
  (`Careful = FALSE`). An aborted `remove()` or `clear()` leaves the cache ahead of the tables, as only
  `putMany()` restores it (`WritesAbort` with `"remove"` or `"clear"`). `txDone()` (`idb-helpers.ts:29`) has no
  `onabort` handler: a transaction that the browser aborts at commit never settles, and the write queue waits
  behind it. The lower bound of a prefix range is 0, so negative `created_at` are not found.
- **Outbox feed.** With `Ahead = TRUE`, `FeedNeverSkips` is false: an event dated ahead of the clock moves the
  bound past events posted later and dated earlier (`outbox.ts:393-396`). A bound with no stored row is derived
  from events that came by other ways. A fetch that ends early, at its limit (`outbox.ts:357`), a timeout, a
  CLOSED or a lost socket, is applied as if it were complete: the bound moves to the newest event it brought,
  and what it left out below is not asked for again (`LeftOut`), whatever "Worst case is re-delivery, never
  loss" says at `outbox.ts:396`; after one that brings nothing a live subscription does the same; a slow
  `putMany()` lets the flush of the bounds overtake the queue. `#hydrateBoundsFromStore` (`outbox.ts:344-349`)
  sets, after two awaits, the bound in memory to the one it had read, although `#noteEvent()` may have raised it
  meanwhile and the higher one may be on its way to the disk: a live event dated between the two is then behind
  the bound on disk before it is stored, and a crash loses it (`Passed` in `ClientFeed`, excused as `late`).
  `shutdown()` does not wait for fetches in flight.
- **Remote signer.** A `switchRelays()` that was answered before `close()` and goes on after it resubscribes
  (`lateSwitch`). The result of a request may be rejected while its publish is still awaited, with no handler
  on it.
- **Fan-in.** The REQ of a `subscribe()` that threw after registering stays behind and its end is counted
  twice.
- **Loaders.** `clear()` has no caller in the library; the model includes it, so that `LoadsShared` says
  what it would cost: at most one more request per `clear()`.

## 8. Proofs

`tlapm` checks every proof, for every value of the constants. What is assumed of them is named in the
modules that declare them and says what kind of thing a constant is (`NobodyAssumption`,
`BackoffAssumption`, `ClockAssumption`, `OptionsAssumption`, `RoundsAssumption`, `EventsAssumption`,
`ReactiveAssumption` and the like: a name that is no object's, finite sets of entries or requests, unique ids,
natural numbers). No property below is inductive as it stands; each item says what was missing.

- **RelayConnection_proofs.** `TypeOK`, `ConnectionOwned`, `SubsServed`, `NoRequestOutlivesSocket`,
  `StopQuiesces`, `NoOrphanSocket`, `NeverStranded`. `IInv` adds `Ownership` (`cur`, `ws` and `connecting` name
  the same attempt, except while `close()` runs its callbacks with the old socket still in hand; a socket
  heard under the current generation is `#ws`; the keepalive runs only while connected), `Stopped` (what a stop
  leaves in the status), `PendingOwned` and `Wanted` (the request and reconnect invariants carried through
  the callback phases, which end on a state the application has changed).
- **RelayPool_proofs.** `TypeOK`, `PoolOwnsSockets`, `SuspendedStaysDown`, with armed reconnect timers and any
  number of resume timers. `IInv` adds `Halted`: the pooled
  relay of a suspended URL has been stopped, and a caller about to use a stopped relay does not hold the
  pooled one, so that its `fetch()` cannot bring a suspended relay back. `TypeOK` carries the links between
  callers, relays and URLs, without which ownership is not preserved by eviction.
- **RelayRequests_proofs.** `TypeOK`, `BeliefSound`, `NoForgottenRequest`, and that every step keeps
  `StaleRetryHarmless`. `IInv` adds `ChallengeTracked` (the challenge is the one of this connection),
  `PromiseAlive` (the shared AUTH promise is of a coroutine that runs; a request that joins it is not
  forgotten) and `OneWait` (a request does not wait for AUTH and for its answer at once, and does not
  outlive its connection). `ContinueInv` says once what all continuations of a settled attempt leave.
- **RelaySubscriptions_proofs.** `TypeOK`, `RegistryOwnsHandles`, `NoFreshEventLost`, and that every step keeps
  `NoReqLeaks` and `RepeatsOnlyBehindWatermark`. `IInv` adds `HandlesNamed`, `RetriesClosed` (an AUTH retry of
  this connection waits for a REQ the relay has closed), `InFlight` (what a relay still has to send is what
  the open REQ asks for), `WatermarkBehind` and `WatermarkCovers`: an event at the watermark was handed to
  every handle that was attached, and a fresh one in flight is not older than the watermark nor than what
  comes before it. Those two are why the inclusive `since` is enough.
- **ClientParts_proofs.** Of the remote signer `SignerSound`, from `OneTimer` (a timer and a listener per
  request in flight, one by one rather than counted), `AnswersFit`, `HandshakeOpen` and `NoLateSwitch`. Of the
  loader `LoadsShared`, from `PromiseTracked`, `Queued`, `Batched`, `MissIsTrue` and `InFlightCounts`, which counts
  a promise that a `clear()` made stray. Of the fan-in `FanInCounts`, from `EoseCounted` and `OpenCounted`
  (the two counters are the cardinalities they stand for), `OverSettled`, `TimerOpen` and `EndedCloses`.
  Of the routing table `RoutesRight`, if ids are unique and there is a discovery relay (`GossipAssumption`):
  `GossipInv` names, for each tracked pubkey, the two lists that lead among those heard since it is tracked
  and says that its routes are made of them; an accepted list leads, a refused one leaves the leader in place.
  What is made of the routes follows from their being sequences (`FilterCovered`, `FeedCovered`).
  Of the synchronisation `SyncExact`, for a relay whose answers are not cut short (`RelayLimit = 0`; `frame-limit`
  shows it false otherwise) and whatever the client's limit, if an id list may be split at all
  (`SyncAssumption`: `Threshold >= Buckets`, as 32 and 16 are). `OnWire` says of the message under way that its
  ranges are a `Chain`: each begins where the one before ends, a list or a relay's fingerprint is exact, and a
  client's fingerprint matches only what is equal, the one of a frame cut short included, since the relay has
  something in what was thrown away. What differs and is not found lies in a range that is not passed over
  (`Left`). `SplitIs` says that the buckets cover a range once wherever their bounds fall, `TurnKeeps` is one
  turn of the loop of `reconcile()`, `ReconcileIs` the whole of it, for either side. `Moved` follows the
  difference through upload and download. The loop is a fold over a sequence, which `ReconcileRuns` turns
  into a chain of accumulators that an induction over their numbers can use.
  Of the queries `QueriesExact`, for stores of finitely many events with ids of their own and filters with
  finite lists (`QueriesAssumption`). A sorted sequence is one in which an event has the place of the number of
  events before it (`Ranked`), so that an answer is known from the places of its events: `RankedJoin` appends a
  second to what is newer, `RankedOut` and `RankedIn` go from a part to the whole and back. `ScanInv` says of the
  scan that while a second is drained all newer events are taken in order, those of the second are in the buffer
  or to come, and older ones are to come (`Drained`), and that a cursor either has a request in flight and
  offers nothing, or offers what is newer than all it has left (`Walked`). `RangesAre` says that the ranges miss
  no matching event, `ChunksAre` and `PlanFits` that the statements of SQLite together find what the filter's
  indexed part does, and `RowsFirst` that the first events of the whole are among the first of each statement.
- **PersistentStores_proofs.** `AddressRowsExact` without a hypothesis: aborts, crashes, every upgrade. `TypeOK`,
  `CacheFaithful`, `DeletedNeverServed` and `SqliteAgrees` for a `Disciplined` application and browser (`Careful`,
  and only batches of puts abort; section 7 says what happens otherwise), and `ImplementsMemoryStore`
  when the memory store has no cap on tombstones, as IndexedDB has none (`MaxTombstones = Nothing`). `Stored`
  holds the tables together; `Turns` says that one write runs at a time, `Faithful` that the tombstones in
  memory are those of the tables but for what the write in progress has added, `Cleanly` what an aborted one
  restores; `InStep` relates SQLite's tables to IndexedDB's, `Follows` a write in progress to the prefix of its
  batch that the memory store would have put. The fold over a batch is a recursive function, about which
  `StoreLemmas` has an induction that the provers can use: over the subsets of a finite set, from a
  smallest one for which the claim would fail.
- **ClientData_proofs.** Of the feed `FeedSafe`, if no event is dated ahead of the clock (`~Ahead`; otherwise it is
  false). `FeedInv` adds that writes end in the order they began (`InTurn`, `InOrder`), that no bound on its
  way is ahead of what will be stored before it, and that a `sync()` under way asks for all that is neither
  stored nor on its way (`Behind`), what a live subscription still covers
  (`LiveCovers`) and what is owed (`Owing`). Of the reactive store `SnapshotFresh`, `NoMissedNotification`,
  `EvictionBounds`, and `NewestHolds` when `MaxWatermarks` is not smaller than the number of addresses
  (the oldest watermark is forgotten otherwise, and an old version with it accepted). `ReactiveInv` says of
  the index that it is `Sound` (one event and one watermark at most per address, nothing stored that is
  deleted), of recency that it lists the stored ids once each (`Listed`), of `newest` that what is not stored has
  a watermark (`NewestKept`), and of each watch that it is `Awake`: subscribed only while registered, its
  snapshot fresh unless marked, its subscriber told or about to be. `PutIs`, `RemoveIdsIs` and `EvictIs` say
  once what each operation of the index leaves; `WriteIs` what a series of them does to a watch that was not
  invalidated.

Only model-checked: the liveness properties (`AttemptSettles`, `DeadPeerDetected`, `RequestsSettle`,
`SuspensionLifts`, `CallersSettle`, `RequestsReturn`, `LoadsSettle`), since TLAPS does not treat liveness under
fairness. Every other property of a passing run has its theorem, some under the hypothesis named above.

## 9. What is left

- `RelayPromise`: what a relay promises its pool (*down*, *stopped*, *connecting*, *open*, the reconnect timer),
  as an abstract specification implemented by `RelayConnection`; today it is an assumption `RelayPool` makes in
  words.
- `SyncExact` for a relay whose frames are cut short but never within an id list it owes.
- The two hazards without a property: the late subscriber (a reproducer shows it) and `txDone()`.

## 10. Not modelled

Parsing and encoding, cryptography, HTTP helpers, the WebAssembly loader, `dm.ts`, and the test relay but for
NIP-77: pure or external code where a model would only restate the implementation. Of modelled parts: explicit
subscription ids used twice, and COUNT ids used twice (`count-tracker.ts:145`); paging of `ReqQuery`;
`fetchRouted` and the dedup of events in the fan-in; syncs over several relays; several watch objects of one
key; listeners and `seenOn` of the reactive store; SQLite's bounds and schema. The `reconnect` event is modelled
(`event` in `RelayConnection`) without a property: a subscription during the first connect makes the first open
fire it.
