# Verification of garage

TLA+ models of the concurrent, stateful parts of this repository, TLC runs that
check them on small instances, and TLAPS proofs for instances of any size.
`PROJECT.json` maps each definition to the source lines it models, and lists the
components, runs, mutants, hazards, findings and theorems.

## The system

The heart of the repository is Rust. Two cache servers store blobs (`ddcache`) and
small values (`dkvcache`); they register in etcd, find each other there, and move
replicas among themselves. They are built on the `g1` libraries (futures, tasks,
channels, collections). Two BitTorrent clients, `bittorrent` and the newer `bt`, use
the same libraries. The rest (codecs, bindings, Python, Java, build tools) is
sequential or pure I/O; "Not modelled" below says why each part is left out.

| Part of the code | Module | What makes it hard |
|---|---|---|
| `ddcache/storage` map.rs | `BlobMap`, `GuardedMap`, `LockQueue` | a lock is taken after the table's mutex is released; sentinels, bounded retries |
| `ddcache/storage` lib.rs | `BlobStorage` | commits of several steps, failed system calls, crashes, cancellation |
| `ddcache/server` | `CacheServer` | an actor asleep on state that others change, leases nobody redeems, shutdown |
| `ddcache/peer`, `client` | `CachePeers` | decisions from stale membership, transfers that fail half-way |
| `ddcache/client/service` | `ServiceDiscovery` | events lost while re-subscribing, delayed disconnects |
| `dkvcache/storage` | `KvStorage` | caches stored outside the transaction, buffered recency, scans by page |
| `etcd/pubsub`, `etcd/watch` | `Etcd` | lapsed leases, lost and repeated events |
| `g1/base` ready queue | `ReadyQueue` | wakers against close and detach |
| `g1/tokio` tasks | `JoinTasks` | cancel, abort, time-outs and drops that race a task's end |
| `g1/tokio` channels | `Broadcast`, `Mpmc`, `TokioSync` | waiters against close and drop |
| `g1/base` collections, `g1/cache` | `Collections`, `LruCache` | nodes and rows that are reused |
| `g1/msg`, `g1/actor` | `ReqRep` | late and repeated answers |
| `bittorrent` | `PieceScheduler`, `Transceiver`, `PeerManager`, `PeerConn`, `UtpConn`, `DhtRouting` | peers that come and go, lost packets |
| `bt` | `TorrentModel`, `PieceSchedule`, `TorrentPeers`, `PeerNotices`, `BlockDownload`, `BlockUpload`, `DhtNode` | tasks that follow a shared model through updates |
| both bencode crates | `Bencode` | partial input, non-canonical input |

## How the modules fit together

`GuardedMap` says what the blob map promises: one cell per hash, handed out through
read, write and remove guards. `BlobMap` models map.rs and implements it
(`ImplementsGuardedMap`, checked by TLC and proved). `LockQueue` adds the order in
which a lock serves its waiters, for liveness. `BlobStorage` and `CacheServer` are
built on the actions of `GuardedMap`: a step of theirs is a step of the map together
with the step of the file system or of the server.

The other modules share no state with each other in the code, or only through a
channel or a service that is part of their environment. Each has its own variables
(with a prefix), `...Init`, `...Next` and properties. Four suites put several of them
in one run: `MCBasics`, `MCActors`, `MCNetwork` and `MCTorrent` extend them and add
a variable `focus`, chosen at the start, that says which one a behaviour exercises
while the others stand still. Within a suite the modules that do interact do so:
`Transceiver` uses the operators of `PieceScheduler`, `PieceSchedule`, `PeerNotices` and
`TorrentPeers` follow the updates of `TorrentModel`, the ordered map of `Collections` is
built on its list, `JoinTasks`, `Broadcast` and `Mpmc` use the notifier and the semaphore
of `TokioSync`.

`MCBlobMap`, `MCBlobStorage` and `MCCacheServer` give the constants of the other runs
their values. `MCBlobMap` and `MCCacheServer` have a variable `mode`: how many tasks or
requests a behaviour has, and of which kinds, so that one run covers both a crowd
on one key and fewer tasks with richer data.

### BlobMap (map.rs)

`map` and `older` are the table and its recency order, `tag` and `meta` the state
behind each Arc, `pc`, `arc`, `key`, `tries`, `new`, `left` the place and the local
variables of a task. One action is one critical section of the mutex, one grant
of a lock, or one update of the size counter. Lookups that change nothing are
stuttering steps. The panics of the code are places a task can go to, so that
`NeverPanics` is a property and not an assumption.

### LockQueue (tokio's RwLock, as map.rs uses it)

`line` holds the tasks that wait for a lock. `Grant` is a grant of `BlobMap` that
passes nobody except a reader among readers. The order matters: with a lock that
may favour readers, two readers that overlap keep a remover waiting for ever,
which takes three tasks to see. The mutant of `InTurn` is that lock. A task takes
its place as it leaves the mutex; in the code it does so at its first poll of the
lock, a little later.

### BlobStorage (lib.rs, blob.rs, hash.rs)

`file` is the directory: per hash a length, an attribute, and `torn`, which marks
contents whose attribute is not written. `queue` is the expire queue, a bag. `op` is
what each task is doing. A commit is five steps (length, attribute, queue, size,
map); each system call may fail where the code returns early; `Reopen` is a crash
followed by `Storage::open`. The unlink in `WriteGuard::drop` is unwrapped by the
code and is taken not to fail. Recency is not modelled here, so eviction picks
any free blob, which includes the one the code picks.

### CacheServer (server.rs, state.rs, blob_server.rs)

The requests and the two cleanup tasks are the tasks of the guarded map.
`Turn(Branch)` is one round of the actor's loop: a branch of `select!`, then the
timeout and the expiry sleep are computed again. Nothing else updates `timer` and
`armed`, which is how the model shows an actor asleep while others change what it
sleeps on. `lease` and `deadlines` are `Inner`; times are kept as the time left, so
the clock needs no bound. `stream` is a blob connection. `wait` says that a task
waits for an entry's lock; it turns `"stale"` when that entry leaves the map.
A request without an envelope is dropped (`Ignore`). An error of the socket or of a
cleanup task makes the actor return without the drain (`ReturnError`). Abstracted: a Pull is a Read (they differ in recency only), a Push
is a Write that may be declined, every `expire_at` has passed, and random tokens are any token
not in use. A token may be drawn again, as in the code; the panic after four
unlucky draws is left out, and the runs have at least as many tokens as permits.

### The tasks around a cache server

- `CachePeers` follows one key through any number of servers: `cpView` is each
  server's map of servers, `cpStore` and `cpReaders` the blob and its guards at each
  server, `cpTasks` the pull and push tasks of the peer actors, `cpInbound` a pushed
  blob that the receiving server has yet to commit or to drop. `cpRank` is the
  rendezvous order. A task reads the view when the code does, not when it acts.
  Servers leave views (`PeerStops`), and a transfer may fail on one side or the other.
- `ServiceDiscovery` is the actor that keeps the map of servers: `sdEtcd` is what is
  registered, `sdServers` the map with the client tasks, `sdLeave` the delay queue.
- `Etcd` has two parts. The publisher (`ep...`) grants a lease, puts the key, keeps the
  lease alive, and starts again when it lapses. The watcher (`ew...`) turns a watch
  stream into broadcast events; a subscriber folds them into a copy.
- `KvStorage` (`kv...`) has the table, the two caches beside it and the buffered uses;
  a transaction is one step, and storing the caches after the commit are two
  others. An update may read the clock before it waits for the write lock
  (`StampUpdate`). `ks...` is a scan by pages while other threads change the table.

### g1

- `ReadyQueue`: futures are polled without the lock, so a wake, a detach or another
  poller may come between; the serial of a spot stands for the spot.
- `JoinTasks`: guards, the queue that owns them, the propagator tasks, and shutdown
  with its time-out. The flag and its notifier are values.
- `Broadcast` and `Mpmc`: creating a future, trying, and waiting are separate steps.
- `Collections`: list, ordered map, table and graph, each beside the sequence or
  relation it stands for (`vlRef`, `omRef`). `LruCache` is one SQLite table beside the
  list it stands for.
- `ReqRep`: the actor and the stub the macro generates, over a network that loses,
  repeats and delays.

### BitTorrent

One action is one turn of an actor's loop, trailing bookkeeping included. A hash
map is iterated in no fixed order, so an operation whose outcome depends on it
has a set of outcomes. `UtpConn` has both ends of a connection and the packets
between them, with sequence numbers modulo `SeqN`. Delay sets run out at any time,
oldest first. `Bencode` is checked on every text over an alphabet up to a length, and on
longer cases; it keeps the bytes of the format, because the format is what both
crates have to agree on.

Left out there: what a follower does when the broadcast channel of its torrent
overflows (it ends with an error), I/O errors of the storage, and the socket under
a uTP connection except for a full queue, which ends the connection (`Overflow`).

## Runs

| Run | Instance | Shows |
|---|---|---|
| `blob_map` | 3 tasks on a hash that two keys share, or 2 tasks and a second hash; 3 Arcs, 2 tries | the map's invariant, live and exclusive guards, the size and the recency order, a stable view for readers, and the refinement of `GuardedMap` |
| `blob_map_live` | 3 tasks, 1 key, 3 Arcs | operations return, sentinels leave, no remover starves |
| `blob_map_stuck` | 2 tasks, 8 tries | **violation**, see Findings |
| `storage` | 2 tasks, 2 keys that collide, lengths to 2, one time or never, failures, crashes | map, directory and expire queue agree; nothing is orphaned; at rest the counter is the bytes on disk; expiry is neither early nor lost; a reader's file is stable |
| `storage_crash` | 1 task, a crash at any step | **violation**, see Findings |
| `server` | 3 requests for 2 permits; or 2 requests with eviction, expiry and shutdown | guards, permits, leases, timer and deadlines have owners; each request has one answer; no expiring blob is forgotten |
| `server_live` | 2 requests for plain blobs; or 1 for blobs of all kinds | requests end, whatever the client does; a due expiry is started |
| `server_evict` | 1 request | **violation**, see Findings |
| `basics` | the g1 libraries, a few tasks and values each | channels deliver exactly and close in order, no future or task is lost, collections agree with what they stand for |
| `actors` | the actors of `bittorrent`, of the cache cluster and `dkvcache` | each keeps its bookkeeping through faults and in any order of events |
| `network` | one uTP connection, or two calls over datagrams | streams arrive whole, windows agree, each request ends with its own answer or for a reason |
| `torrent` | the tasks of `bt`, both routing tables, both bencode crates | followers of the model are exact, connections and requests are accounted for, lookups and formats are sound |

**Bounds.** Two colliding keys and three tasks are the least with which a task waits
for an entry that a second one removes and a third one replaces; three Arcs leave
one to allocate while two tasks keep dead ones. `NumTries` is 2 where the run
passes, so that the last try happens; `blob_map_stuck` has the code's 8.
`MaxCopies` = 2 lets an item be queued again by a second commit. `MaxLen`, `Times` and
`MaxTime` are the least with which a blob is rewritten with another size or another
expiry. Three requests for two permits make a request find none left. `CpServers` has
three servers, one of which may leave: with two, a push can only go to the one
other server, and nothing goes wrong that needs a third. Two futures, two tasks in
`pop_ready` and one in `ready` let a task that takes one result hand on the next.
Serials and sequence numbers
wrap within the runs (`BcSerials` 4, `SeqN` 16 from 14). Capacities and limits are 1 or 2
so that they are reached. Constants named `...Max...` bound how many faults, messages,
time units or updates a behaviour has. They are guards of the actions and all
the interesting cases lie below them. Times whose order matters (`EpTtl` and
`EpRetry`, `SdDisconnect`, `ScBackoff` and `ScHour`) keep the order the code's constants
have. Tasks, requests and futures are interchangeable, hence the symmetry sets of
`blob_map`, `storage`, `server` and `basics`; runs with liveness have none, and `blob_map_live`
follows one task of three. In `server_live` each request is handled once, so no
endless stream of readers can keep a lock from a waiter there; that question is
`blob_map_live`'s.

**Fairness.** In `LockQueue`: a lock that keeps becoming free for the next in line
is given to it, a thread that keeps finding the mutex free gets it, and a guard's
holder goes on. This is one strong fairness condition per task, since where a task
is decides which of the three it waits for. In `CacheServer`: ready tasks run,
`select!` picks at random among its ready branches (weak fairness per branch), a blob
connection ends at `blob_request_timeout`, time passes, the stats interval ticks,
and ddcached shuts everything down when one actor has ended. Nothing is assumed of
clients: no request, connection or shutdown has to happen. The other runs check
safety, for which no fairness is assumed. Where something must not be forgotten
they say so as safety: who waits has somebody left to wake them, or what is behind
has an event on its way.

**Deadlock** is checked in the map and storage runs. It is not in the others:
requests, messages and faults are finite there, and a server, a channel or a
connection that has shut down stops.

## Findings

- `blob_map_stuck`: `BlobMap::write` panics with "map is stuck in removing entry"
  after eight tries although the entry is on its way out: the remover has only been
  descheduled between releasing the lock and taking the mutex.
- `storage_crash`: a writer truncates a committed blob in place; after a crash
  `Storage::open` finds the old attribute and serves the uncommitted contents.
- `server_evict`: eviction is checked when a handler task is joined. Writes have no
  such task and commit later, so a workload of writes is never evicted.

### Known behaviours

These were met while modelling. No line of the repository claims the contrary,
or the step is outside what a run exercises, so they are not findings; the
properties are stated so that they are true of the code as it is.

- `ddcache/peer`, three servers or more: the push task for one new server may run
  its cleanup before the task for another has pushed, and a pull may commit after
  the last cleanup. A blob can then be left without a replica, or a stray copy
  remain. A cleanup that was decided before a server left the view may remove the
  blob from a server that has become a replica meanwhile. `BlobsMoveSafely` says
  what does hold: only the client's remove takes the blob from a server that is a
  replica among all servers, and, as long as none has left, from one of the view.
- `ddcache/client/service`: a server that leaves while the subscription is broken
  stays in the map, and one that is seen while its client fails or is still stopping
  is missing until it is seen again.
- `dkvcache/storage`: the cached length and next expiry are stored after the
  commit. When two commits overtake each other, the older value stays until a
  transaction that is alone; and an update that waited for the write lock sets the
  recency back to when it was called.
- `g1/tokio` mpmc.rs:181: after `close` a receiver that holds a permit may find the
  queue empty, and the `unwrap` panics; `MpmcIsSound` excludes it until the channel
  is closed. A receiver of the broadcast channel that is dropped frees slots and
  tells no sender that waits for room.
- `bittorrent/manager`: an error of the listener ends the actor without a drain, so
  peers stay started for its subscribers. `bittorrent/peer` incoming.rs:52: the answer
  of a cancelled request removes the same request made again.
- `bittorrent/utp` socket.rs: the `..` of lines 253-260 keeps the channels alive, a
  reset that is queued after the shutdown began is not sent, and the removal at
  line 226 may take the stub of a newer connection.
- `bt/schedule` lib.rs:279 asserts that a piece without candidates is ours; it fails
  when a peer is updated while a missing piece has no known holder, and ends the
  scheduler; `FollowersAreExact` speaks of the behaviours until then. `init_torrent` (233-260) keeps the
  schedule of an earlier session; `bt/model` lib.rs:218-220 asserts after a remove and
  a second init; `bt/peer` model.rs:37 and :44 panic on a repeated entry.
- `bt/txrx`: a snub can race the block it is about (comment in state.rs:277-278).
- `bt/peer` half_open/conn.rs:134-163 hands a connection over on shutdown even
  after an error, with its sink closed, and without the message that overflowed
  the backlog. A disconnect asked for after that shutdown began is ignored.
- The DHT lookups do not filter the node's own identifier, and a bucket that is
  split off in `bt/dht` has no refresh deadline until it is written again.
- Bencode: a `char` is written as its bytes and read as a code point, non-canonical
  integers are accepted, an enum read from an empty dictionary and a value
  without its key panic, and a `u64` above `i64::MAX` is not read back.

## Proofs

Eight modules hold the theorems. Each theorem holds for every value of the
constants that satisfies the named assumptions, and TLC evaluates those in a run.

| Module | Theorem | States | Assumes |
|---|---|---|---|
| `BlobMapProofs` | `MapInvariant`, `NoPanic`, `LiveGuards`, `Exclusion`, `Sentinels`, `StableReads` | `MapInv`; no panic is reached; guards are live and exclusive; each sentinel has one remover; what a reader sees is stable | `HashAssumption`, `MetadataAssumption`, `TriesAssumption`, `NullAssumption` |
| | `Refinement` | `BlobMap` implements `GuardedMap` | the same |
| `GuardedMapProofs` | `GuardedMapInvariant` | guards of the abstract map exclude each other | `GuardedMapConstants` |
| `StorageProofs` | `StorageInvariant`, `ExpiryIsTracked`, `SafeSteps` | `StorageInv`, `ExpiryTracked`, `StepsAreSafe` | `GuardedMapConstants`, `StorageConstants`, `MetadataIsRecord` |
| `ServerProofs` | `ServerInvariant`, `AnsweredOnce`, `ExpiryIsKept` | `ServerInv`, `OneResponse`, `ExpiryKept` | `GuardedMapConstants`, `ServerAssumption` |
| `TaskProofs` | `PublicationStays`, `WatchCatchesUp` | `PublicationHolds`, `CopyCatchesUp` | `EtcdPubSubAssumption`, `EtcdWatchAssumption` |
| | `DirectoryIsFollowed` | `DirectoryIsTrue` | `ServiceAssumption` |
| | `NoTaskIsLost` | `ShutdownIsSound` | `JoinAssumption` |
| `PeerProofs` | `ReplicasAreKept` | `BlobsMoveSafely` | `CachePeersAssumption` |
| `KvProofs` | `StoredIsCached` | `CachedIsStored` | none |
| `MpmcProofs` | `PlacesAreAccounted` | `MpmcIsSound` | `MpmcAssumption` |

**BlobMap.** The safety properties are not inductive. That a guard is live needs
that an Arc whose state is not `Removing` is the one in the table under the hash of
its key (`LiveIsMapped`), also for a task that only waits for it. That holds because
only the task with the exclusive lock sets the sentinel (`LocksExclude`), and because
a `New` entry is locked from the moment it is inserted (`NewIsLocked`). The eviction
scan needs that what it has left to visit is in the table, which holds because it
keeps the mutex (`ScanInTable`). `MapInv` is the conjunction. The proof goes through
`TaskStep`, which says when moving one task preserves `MapInv`, with one lemma for
each kind of change to the table; `NextInv` has a step per action. `Refinement` maps
the cell of a hash to the Arc in the table and shows each action to be a step of
`GuardedMap` or a stutter, given `MapInv`.

**BlobStorage.** `StorageInv` joins the abstract map's invariant, that a task's step
fits its guard (`TasksFit`), that the directory is what the map and the tasks in
progress say (`FilesMatch`, `NoOrphans`), and that an expiry somebody needs is in the
queue or about to be put there (`NeededIsTracked`). `Frame` says which of these a step
of one task leaves alone. `StepsAreSafe` is an action property and follows from it.

**CacheServer.** The three properties are proved together, each needing the others:
a lease's deadline is why its guard has an owner, an owner is why an answer is sent
once, and the answer decides what the timer must still wake for. The lemmas
`MapKept`, `ResponsesKept`, `DeadlinesKept`, `TimerKept`, `OwnedKept`, `WaitersKept` and
`ExpiryKnown` take one part each.

**The cluster.** The publisher's invariant adds to the property that a lease kept
alive has the key under it (`KeptAliveIsPublished`) and outlasts the next sleep
(`HeldOutlastsSleep`). The watcher's is `Following`: for each key, the last event about
it that is still in the stream or the queue says its value, and where there is
none the copy has it. The directory's is `SdTrue`, for each server: the events under
way are true at their end, and a server is known, coming, or leaving with a timer,
except those that left while no subscription stood (`sdLost`) or were seen while
their client stopped (`sdMissed`); `BreaksCounted` shows that only a broken
subscription adds to the first. For the peers, `CpInv` adds to the type that each guard belongs to a task or a
transfer that is going on (`GuardsKnown`) and that a task about to remove the blob
does so at a stray (`RemovesStrays`). It became one in the view the task read. A
stray in any view is one among more servers, since no fewer are ahead of it
(`DesignatedAmongFewer`): so it is one among all servers, and stays one in its view
while that only grows.

**KvStorage.** `KvInv` says where each thread is in its transaction (`ThreadOK`), that
what is cached was once stored (`AllPast`), that a buffered use is not forgotten, and
that the caches follow the table unless two commits raced (`CachesFollow`).

**JoinTasks and Mpmc.** `JtInv` says that who sleeps on a notifier has somebody left
to wake them (`Sleepers`) and which guards speak for which tasks (`Guards`). `MpInv`
counts the permits: free places and the places held, in use or being handed over
add up to the size, for the two semaphores (`FreeAddsUp`, `UsedAddsUp`), and closing
reaches them in order. The counting rests on the cardinality facts of finite sets.

### Only model-checked

- Liveness, which needs fairness and ENABLED: `OperationsReturn`, `ServerIsLive`.
- Sums over sets, which need induction over data: the size in `TableAccounted`, and
  `SizeIsDiskUse`.
- What is computed over sequences by folds or recursion, for the same reason:
  `BroadcastIsExact`, `CollectionsAreExact`, `CacheIsLru`, `ScanIsExact`, `FormatIsSound`,
  `DhtIsSound`, `UtpInv`, `StreamIsSound`, `DownloadIsComplete`, `DownloadIsSound`,
  `FollowersAreExact`.
- The others are checked on their instances and have no proof yet: `QueueIsSound`,
  `ManagerIsConsistent`, `RequestsAreKept`, `ScheduleIsSound`, `RequestsAreAnswered`,
  `PeersAreKept`, `UploadIsFair`.

## Not modelled

- Encoders, adapters and bindings (`ddcache/rpc`, the wire formats of `bt`, serde, JSON and
  YAML adapters, the other g1 libraries): sequential functions without state.
- Sockets, files and system calls (`g1/tokio` I/O, `bt` storage and statistics, `httpxd`),
  and requests to services (trackers, the rest of the etcd client).
- The raw client of ddcache and the actors of `dkvcache`: the constructions of
  `ReqRep` and `CacheServer` over again.
- uTP's congestion control, the sockets under it, the messages of the DHTs.
- Small sequential containers and pools, the task combinators, the ready array.
- The Python and Java trees, build tools and experiments, which share no state with
  the caches.
