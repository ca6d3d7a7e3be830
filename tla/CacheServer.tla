----------------------------- MODULE CacheServer -----------------------------
(***************************************************************************)
(* The ddcache server (ddcache/server/src): the actor that takes requests, *)
(* the handler tasks it spawns, the leases that keep a storage guard and a *)
(* concurrency permit until the client's blob connection arrives (state),  *)
(* the blob server that spends them, and the evict and expire tasks.       *)
(*                                                                         *)
(* The storage is a GuardedMap: the requests, the evict task and the       *)
(* expire task are its tasks.  Request::Pull is a Read that leaves the     *)
(* recency alone, which a GuardedMap does not have, so both are Read.      *)
(* Every expire_at has passed: a queued item is due.                       *)
(***************************************************************************)
EXTENDS GuardedMap, Sequences, FiniteSets

CONSTANTS
  Requests, Evictor, Expirer,   \* the users of the storage
  Tokens,                       \* what rand::random draws from
  MaxConcurrency, LeaseTimeout,
  Lwm, Hwm,                     \* storage_size_lwm, storage_size_hwm
  NoRequest, NoTimer

ASSUME ServerAssumption ==
  /\ Tasks = Requests \cup {Evictor, Expirer}
  /\ Evictor # Expirer /\ {Evictor, Expirer} \cap Requests = {}
  /\ NoRequest \notin Requests /\ NoTimer \notin Nat
  /\ MaxConcurrency \in Nat \ {0} /\ LeaseTimeout \in Nat \ {0}
  /\ Lwm \in Nat /\ Hwm \in Nat /\ Lwm <= Hwm
  /\ \A m \in Metadata : m.expire \in BOOLEAN
  /\ ~Fresh.expire

VARIABLES
  task,       \* request -> its handler task in Actor.tasks, or "call": not one
  wait,       \* user -> how it waits for the lock of want
  want,       \* user -> the key it waits for
  permits,    \* the requests whose semaphore permit is out
  sent,       \* request -> the number of responses sent to response_send
  outbox,     \* the responses response_recv has not yielded
  lease,      \* Inner.map: token -> request
  deadlines,  \* Inner.deadlines: the time left, and the token
  stream,     \* request -> the blob connection that took its lease
  queue,      \* the keys in the expire queue
  server,     \* the actor: "running", "draining", "stopped"
  serving,    \* the blob server's actor is in its loop
  timer,      \* the time left of Actor::run's timeout
  armed,      \* the select! in progress sleeps until next_expire_at
  evict, expire   \* evict_task and expire_task

reqVars == <<task, permits, sent, outbox>>
lockVars == <<wait, want>>
leaseVars == <<lease, deadlines>>
actorVars == <<server, timer, armed, evict, expire>>
vars == <<mapVars, reqVars, lockVars, leaseVars, actorVars, stream, queue, serving>>

Handlers == {"read", "readMetadata", "remove"}

Init ==
  /\ cell \in [Hashes -> {Absent} \cup [key : Keys, tag : {"Present"}, meta : {Fresh}]]
  /\ \A h \in Hashes : cell[h] # Absent => HashOf[cell[h].key] = h
  /\ guard = [t \in Tasks |-> "none"] /\ at = [t \in Tasks |-> NoKey]
  /\ pending = [t \in Tasks |-> Fresh] /\ size = 0
  /\ task = [r \in Requests |-> "new"]
  /\ wait = [t \in Tasks |-> "no"] /\ want = [t \in Tasks |-> NoKey]
  /\ permits = {} /\ sent = [r \in Requests |-> 0] /\ outbox = {}
  /\ lease = [n \in Tokens |-> NoRequest] /\ deadlines = <<>>
  /\ stream = [r \in Requests |-> "none"] /\ queue = {}
  /\ server = "running" /\ serving = TRUE
  /\ timer = NoTimer /\ armed = FALSE /\ evict = "none" /\ expire = "none"

-----------------------------------------------------------------------------
(* Shared parts *)

\* (mutant) The timeout is not set again at the top of the loop.
TurnUntimed(Branch) ==
  /\ server = "running" /\ Branch
  /\ armed' = (expire' = "none" /\ queue' # {})
  /\ UNCHANGED <<server, serving, timer>>

\* A turn of Actor::run's loop: a branch of select!, then back to the top, where
\* the timeout follows the front deadline and select! makes its futures anew.
Turn(Branch) ==
  /\ server = "running" /\ Branch
  /\ timer' = IF deadlines' = <<>> THEN NoTimer ELSE Head(deadlines').left
  /\ armed' = (expire' = "none" /\ queue' # {})
  /\ UNCHANGED <<server, serving>>

Respond(r) ==
  /\ sent' = [sent EXCEPT ![r] = @ + 1]
  /\ outbox' = outbox \cup {r}

\* (mutant) Who waits on an entry that leaves the map is not woken.
WaitsForever(w) == wait' = w

\* Who waits on an entry that leaves the map finds the sentinel.
Waits(w) ==
  wait' = [t \in Tasks |->
             IF w[t] = "lock" /\ cell[HashOf[want[t]]] # Absent /\ cell'[HashOf[want[t]]] = Absent
               THEN "stale" ELSE w[t]]

FreeTokens == {n \in Tokens : lease[n] = NoRequest}

\* next_token, then the map and the deadline of the new lease.
Insert(r) ==
  \E n \in FreeTokens :
    /\ lease' = [lease EXCEPT ![n] = r]
    /\ deadlines' = Append(deadlines, [left |-> LeaseTimeout, token |-> n])


\* Dropping the Io of some leases: their guards, then their permits.
DropIos(rs) ==
  /\ cell' = [h \in Hashes |->
                IF \E r \in rs : guard[r] = "write" /\ HashOf[at[r]] = h /\ cell[h].tag = "New"
                  THEN Absent ELSE cell[h]]
  /\ guard' = [t \in Tasks |-> IF t \in rs THEN "none" ELSE guard[t]]
  /\ at' = [t \in Tasks |-> IF t \in rs THEN NoKey ELSE at[t]]
  /\ permits' = permits \ rs
  /\ Waits(wait)
  /\ UNCHANGED <<pending, size>>

-----------------------------------------------------------------------------
(* Actor::handle_request.  "new": not received; "call": handled in place; *)
(* "ignored": without the envelope that an answer would go to.            *)

Receive(r) == task[r] = "new"
Acquire == Cardinality(permits) < MaxConcurrency
InPlace(r) == task' = [task EXCEPT ![r] = "call"] /\ Respond(r)

\* envelope::Error::InvalidFrameSequence: there is nobody to answer.
Ignore(r) ==
  /\ Receive(r) /\ task' = [task EXCEPT ![r] = "ignored"]
  /\ UNCHANGED <<mapVars, permits, sent, outbox, lockVars, leaseVars, evict, expire, stream, queue>>

\* A request that does not decode, or whose key, metadata or blob is too large.
Refuse(r) ==
  /\ Receive(r) /\ InPlace(r)
  /\ UNCHANGED <<mapVars, permits, lockVars, leaseVars, evict, expire, stream, queue>>

Unavailable(r) ==
  /\ Receive(r) /\ ~Acquire /\ InPlace(r)
  /\ UNCHANGED <<mapVars, permits, lockVars, leaseVars, evict, expire, stream, queue>>

Cancel(r, n) ==
  /\ Receive(r) /\ Acquire
  /\ lease' = [lease EXCEPT ![n] = NoRequest]
  /\ DropIos({lease[n]} \cap Requests)
  /\ InPlace(r)
  /\ UNCHANGED <<want, deadlines, evict, expire, stream, queue>>

Spawn(r, handler, k) ==
  /\ Receive(r) /\ Acquire
  /\ task' = [task EXCEPT ![r] = handler]
  /\ want' = [want EXCEPT ![r] = k]
  /\ permits' = permits \cup {r}
  /\ UNCHANGED <<mapVars, wait, sent, outbox, leaseVars, evict, expire, stream, queue>>

\* Handler::write, and push, which takes write_new for try_write.
Write(r, k) ==
  /\ Receive(r) /\ Acquire
  /\ LockWrite(r, k) \/ InsertNew(r, k)
  /\ Insert(r)
  /\ permits' = permits \cup {r}
  /\ InPlace(r)
  /\ UNCHANGED <<lockVars, evict, expire, stream, queue>>

WriteDeclined(r, k) ==
  /\ Receive(r) /\ Acquire /\ cell[HashOf[k]] # Absent
  /\ InPlace(r)
  /\ UNCHANGED <<mapVars, permits, lockVars, leaseVars, evict, expire, stream, queue>>

\* Handler::write_metadata: lock, commit and release without an await.
WriteMetadata(r, k, m) ==
  /\ Receive(r) /\ Acquire
  /\ cell[HashOf[k]].key = k /\ Writable(HashOf[k])
  /\ SizeOf[m] = SizeOf[cell[HashOf[k]].meta]
  /\ SetCell(HashOf[k], Blob(k, "Present", m))
  /\ queue' = IF m.expire THEN queue \cup {k} ELSE queue
  /\ InPlace(r)
  /\ UNCHANGED <<guard, at, pending, size, permits, lockVars, leaseVars, evict, expire, stream>>

\* Its commit fails: the writer's drop removes the blob.
WriteMetadataFails(r, k) ==
  /\ Receive(r) /\ Acquire
  /\ cell[HashOf[k]].key = k /\ Writable(HashOf[k])
  /\ SetCell(HashOf[k], Absent)
  /\ size' = size - SizeOf[cell[HashOf[k]].meta]
  /\ Waits(wait)
  /\ InPlace(r)
  /\ UNCHANGED <<guard, at, pending, permits, want, leaseVars, evict, expire, stream, queue>>

-----------------------------------------------------------------------------
(* The handler tasks: Handler::read and pull, read_metadata, remove *)

Finish(r) ==
  /\ task' = [task EXCEPT ![r] = "finished"]
  /\ permits' = permits \ {r}

\* (mutant) A miss returns without a response.
MissSilently(r) ==
  /\ task[r] \in Handlers /\ wait[r] = "no" /\ guard[r] = "none"
  /\ Finish(r)
  /\ UNCHANGED <<mapVars, sent, outbox, lockVars, leaseVars, actorVars, stream, queue, serving>>

\* check_key fails, or BlobMap::get finds no entry of the key.
Miss(r) ==
  /\ task[r] \in Handlers /\ wait[r] = "no" /\ guard[r] = "none"
  /\ Respond(r) /\ Finish(r)
  /\ UNCHANGED <<mapVars, lockVars, leaseVars, actorVars, stream, queue, serving>>

Find(r) ==
  /\ task[r] \in Handlers /\ wait[r] = "no" /\ guard[r] = "none"
  /\ cell[HashOf[want[r]]].key = want[r]
  /\ wait' = [wait EXCEPT ![r] = "lock"]
  /\ UNCHANGED <<mapVars, want, reqVars, leaseVars, actorVars, stream, queue, serving>>

Stale(r) ==
  /\ task[r] \in Handlers /\ wait[r] = "stale"
  /\ wait' = [wait EXCEPT ![r] = "no"]
  /\ Respond(r) /\ Finish(r)
  /\ UNCHANGED <<mapVars, want, leaseVars, actorVars, stream, queue, serving>>

\* The guard and the permit go into a lease before the response is sent.
Read(r) ==
  /\ task[r] = "read" /\ wait[r] = "lock"
  /\ LockRead(r, want[r])
  /\ Insert(r)
  /\ wait' = [wait EXCEPT ![r] = "no"]
  /\ task' = [task EXCEPT ![r] = "leased"]
  /\ UNCHANGED <<want, permits, sent, outbox, actorVars, stream, queue, serving>>

ReadRespond(r) ==
  /\ task[r] = "leased"
  /\ Respond(r)
  /\ task' = [task EXCEPT ![r] = "finished"]
  /\ UNCHANGED <<mapVars, permits, lockVars, leaseVars, actorVars, stream, queue, serving>>

ReadMetadata(r) ==
  /\ task[r] = "readMetadata" /\ wait[r] = "lock"
  /\ Readable(HashOf[want[r]])
  /\ wait' = [wait EXCEPT ![r] = "no"]
  /\ Respond(r) /\ Finish(r)
  /\ UNCHANGED <<mapVars, want, leaseVars, actorVars, stream, queue, serving>>

Remove(r) ==
  /\ task[r] = "remove" /\ wait[r] = "lock"
  /\ LockRemove(r, want[r])
  /\ wait' = [wait EXCEPT ![r] = "no"]
  /\ UNCHANGED <<want, reqVars, leaseVars, actorVars, stream, queue, serving>>

\* Storage::do_remove: a failed unlink leaves the blob and is answered.
RemoveFails(r) ==
  /\ task[r] = "remove" /\ guard[r] = "remove"
  /\ DropGuard(r)
  /\ Respond(r) /\ Finish(r)
  /\ UNCHANGED <<lockVars, leaseVars, actorVars, stream, queue, serving>>

Discharge(t) ==
  /\ guard[t] = "remove" /\ DischargeSize(t)
  /\ UNCHANGED <<reqVars, lockVars, leaseVars, actorVars, stream, queue, serving>>

Removed(r) ==
  /\ task[r] = "remove" /\ RemoveCell(r) /\ Waits(wait)
  /\ Respond(r) /\ Finish(r)
  /\ UNCHANGED <<want, leaseVars, actorVars, stream, queue, serving>>

\* cancel.wait() wins the select! of a task that waits for a lock, or the task is
\* aborted there.
Abandon(r) ==
  /\ server # "running" /\ task[r] \in Handlers /\ guard[r] = "none"
  /\ wait' = [wait EXCEPT ![r] = "no"]
  /\ Finish(r)
  /\ UNCHANGED <<mapVars, want, sent, outbox, leaseVars, actorVars, stream, queue, serving>>

-----------------------------------------------------------------------------
(* The other branches of Actor::run's select! *)

SendResponse(r) ==
  /\ r \in outbox
  /\ outbox' = outbox \ {r}
  /\ UNCHANGED <<mapVars, task, permits, sent, lockVars, leaseVars, evict, expire, stream, queue>>

\* State::remove_expired pops while the front has expired.
Expired(n) ==
  /\ \A i \in 1 .. n : deadlines[i].left = 0
  /\ n < Len(deadlines) => deadlines[n + 1].left # 0

\* (mutant) Expired deadlines are popped, their leases stay in the map.
RemoveExpiredForgets ==
  \E n \in 0 .. Len(deadlines) :
    /\ timer = 0 /\ Expired(n)
    /\ deadlines' = SubSeq(deadlines, n + 1, Len(deadlines))
    /\ UNCHANGED <<mapVars, reqVars, lockVars, lease, evict, expire, stream, queue>>

RemoveExpired ==
  \E n \in 0 .. Len(deadlines) :
    LET tokens == {deadlines[i].token : i \in 1 .. n} IN
    /\ timer = 0 /\ Expired(n)
    /\ DropIos({lease[m] : m \in tokens} \cap Requests)
    /\ lease' = [m \in Tokens |-> IF m \in tokens THEN NoRequest ELSE lease[m]]
    /\ deadlines' = SubSeq(deadlines, n + 1, Len(deadlines))
    /\ UNCHANGED <<want, task, sent, outbox, evict, expire, stream, queue>>

\* handle_task, then check_then_spawn_evict.
JoinTask(r) ==
  /\ task[r] = "finished"
  /\ task' = [task EXCEPT ![r] = "joined"]
  /\ evict' = IF evict = "none" /\ size > Hwm THEN "running" ELSE evict
  /\ UNCHANGED <<mapVars, permits, sent, outbox, lockVars, leaseVars, expire, stream, queue>>

SpawnExpire ==
  /\ armed
  /\ expire' = "running"
  /\ UNCHANGED <<mapVars, reqVars, lockVars, leaseVars, evict, stream, queue>>

JoinEvict ==
  /\ evict = "finished"
  /\ evict' = "none"
  /\ UNCHANGED <<mapVars, reqVars, lockVars, leaseVars, expire, stream, queue>>

JoinExpire ==
  /\ expire = "finished"
  /\ expire' = "none"
  /\ UNCHANGED <<mapVars, reqVars, lockVars, leaseVars, evict, stream, queue>>

\* (mutant) The interval is not polled.
LogStatsNever == FALSE

\* log_stats_interval changes nothing, and sends the actor round its loop.
LogStats ==
  /\ UNCHANGED <<mapVars, reqVars, lockVars, leaseVars, evict, expire, stream, queue>>

\* Actor::run returns by `?`: its tasks are aborted and not joined, and the
\* spawn_blocking closure of evict runs on.
ReturnError ==
  /\ server' = "stopped"
  /\ evict' = IF evict \in {"running", "detached"} THEN "detached" ELSE "none"
  /\ expire' = IF expire = "running" THEN "running" ELSE "none"
  /\ UNCHANGED <<mapVars, reqVars, lockVars, leaseVars, timer, armed, stream, queue, serving>>

\* handle_cleanup_task passes on a cleanup task's I/O error.
CleanupFails == server = "running" /\ "failed" \in {evict, expire} /\ ReturnError

\* duplex.try_next or duplex.send fails.
SocketFails == server = "running" /\ ReturnError

\* The cancel signal, or the end of the socket.
Stop ==
  /\ server = "running"
  /\ server' = "draining"
  /\ UNCHANGED <<mapVars, reqVars, lockVars, leaseVars, timer, armed, evict, expire, stream, queue, serving>>

DrainTask(r) ==
  /\ server = "draining" /\ task[r] = "finished"
  /\ task' = [task EXCEPT ![r] = "joined"]
  /\ UNCHANGED <<mapVars, permits, sent, outbox, lockVars, leaseVars, actorVars, stream, queue, serving>>

TasksJoined == \A r \in Requests : task[r] \in {"new", "call", "ignored", "joined"}

\* evict returns at once; its spawn_blocking closure runs on.
DrainEvict ==
  /\ server = "draining" /\ TasksJoined /\ evict \in {"running", "finished"}
  /\ evict' = IF evict = "running" THEN "detached" ELSE "none"
  /\ UNCHANGED <<mapVars, reqVars, lockVars, leaseVars, server, timer, armed, expire, stream, queue, serving>>

DrainExpire ==
  /\ server = "draining" /\ TasksJoined /\ evict \in {"none", "detached"} /\ expire = "finished"
  /\ expire' = "none"
  /\ UNCHANGED <<mapVars, reqVars, lockVars, leaseVars, server, timer, armed, evict, stream, queue, serving>>

\* evict is joined before expire: its error leaves the latter to be aborted.
DrainFails ==
  /\ server = "draining" /\ TasksJoined
  /\ evict = "failed" \/ (evict \in {"none", "detached"} /\ expire = "failed")
  /\ ReturnError

Stopped ==
  /\ server = "draining" /\ TasksJoined
  /\ evict \in {"none", "detached"} /\ expire = "none"
  /\ server' = "stopped"
  /\ UNCHANGED <<mapVars, reqVars, lockVars, leaseVars, timer, armed, evict, expire, stream, queue, serving>>

-----------------------------------------------------------------------------
(* The evict and expire tasks *)

EvictNext(k) ==
  /\ evict \in {"running", "detached"} /\ size > Lwm
  /\ LockRemove(Evictor, k)
  /\ UNCHANGED <<reqVars, lockVars, leaseVars, actorVars, stream, queue, serving>>

Evicted ==
  /\ RemoveCell(Evictor) /\ Waits(wait)
  /\ UNCHANGED <<reqVars, want, leaseVars, actorVars, stream, queue, serving>>

EvictFails ==
  /\ guard[Evictor] = "remove" /\ DropGuard(Evictor)
  /\ evict' = IF evict = "running" THEN "failed" ELSE "none"
  /\ UNCHANGED <<reqVars, lockVars, leaseVars, server, timer, armed, expire, stream, queue, serving>>

EvictDone ==
  /\ evict \in {"running", "detached"} /\ guard[Evictor] = "none"
  /\ size <= Lwm \/ \A h \in Hashes : ~Writable(h)
  /\ evict' = IF evict = "running" THEN "finished" ELSE "none"
  /\ UNCHANGED <<mapVars, reqVars, lockVars, leaseVars, server, timer, armed, expire, stream, queue, serving>>

ExpireIdle == expire = "running" /\ wait[Expirer] = "no" /\ guard[Expirer] = "none"

ExpireNext(k) ==
  /\ ExpireIdle /\ k \in queue
  /\ queue' = queue \ {k}
  /\ want' = [want EXCEPT ![Expirer] = k]
  /\ wait' = [wait EXCEPT ![Expirer] = IF cell[HashOf[k]].key = k THEN "lock" ELSE "no"]
  /\ UNCHANGED <<mapVars, reqVars, leaseVars, actorVars, stream, serving>>

\* remove_expire drops the guard of a blob that no longer expires.
ExpireLocked ==
  /\ expire = "running" /\ wait[Expirer] = "lock"
  /\ wait' = [wait EXCEPT ![Expirer] = "no"]
  /\ IF cell[HashOf[want[Expirer]]].meta.expire
       THEN LockRemove(Expirer, want[Expirer])
       ELSE Writable(HashOf[want[Expirer]]) /\ UNCHANGED mapVars
  /\ UNCHANGED <<reqVars, want, leaseVars, actorVars, stream, queue, serving>>

ExpireStale ==
  /\ expire = "running" /\ wait[Expirer] = "stale"
  /\ wait' = [wait EXCEPT ![Expirer] = "no"]
  /\ UNCHANGED <<mapVars, reqVars, want, leaseVars, actorVars, stream, queue, serving>>

ExpireRemoved ==
  /\ RemoveCell(Expirer) /\ Waits(wait)
  /\ UNCHANGED <<reqVars, want, leaseVars, actorVars, stream, queue, serving>>

\* The ExpireGuard of a failed removal puts the key back.
ExpireFails ==
  /\ guard[Expirer] = "remove" /\ DropGuard(Expirer)
  /\ queue' = queue \cup {want[Expirer]}
  /\ expire' = "failed"
  /\ UNCHANGED <<reqVars, lockVars, leaseVars, server, timer, armed, evict, stream, serving>>

ExpireDone ==
  /\ ExpireIdle /\ queue = {}
  /\ expire' = "finished"
  /\ UNCHANGED <<mapVars, reqVars, lockVars, leaseVars, server, timer, armed, evict, stream, queue, serving>>

\* The guard's cancel in the drain, or its drop.
ExpireIsCancelled ==
  server = "stopped" \/ (server = "draining" /\ TasksJoined /\ evict \in {"none", "detached"})

\* (mutant) Cancelled at its await, the task forgets the key it popped.
ExpireCancelledForgets ==
  /\ ExpireIsCancelled /\ expire = "running" /\ guard[Expirer] = "none"
  /\ wait' = [wait EXCEPT ![Expirer] = "no"]
  /\ expire' = "finished"
  /\ UNCHANGED <<mapVars, reqVars, want, leaseVars, server, timer, armed, evict, stream, queue, serving>>

\* Cancelled at its await, the ExpireGuard puts the key back, too.
ExpireCancelled ==
  /\ ExpireIsCancelled /\ expire = "running" /\ guard[Expirer] = "none"
  /\ queue' = IF wait[Expirer] = "no" THEN queue ELSE queue \cup {want[Expirer]}
  /\ wait' = [wait EXCEPT ![Expirer] = "no"]
  /\ expire' = "finished"
  /\ UNCHANGED <<mapVars, reqVars, want, leaseVars, server, timer, armed, evict, stream, serving>>

-----------------------------------------------------------------------------
(* The blob server: txrx_blob, and what its tasks drop when cancelled *)

\* (mutant) The lease is looked up and not removed.
RedeemKeeps(n) ==
  /\ serving /\ lease[n] # NoRequest
  /\ stream' = [stream EXCEPT ![lease[n]] = "open"]
  /\ UNCHANGED <<mapVars, reqVars, lockVars, leaseVars, actorVars, queue, serving>>

Redeem(n) ==
  /\ serving /\ lease[n] # NoRequest
  /\ lease' = [lease EXCEPT ![n] = NoRequest]
  /\ stream' = [stream EXCEPT ![lease[n]] = "open"]
  /\ UNCHANGED <<mapVars, reqVars, lockVars, deadlines, actorVars, queue, serving>>

\* into_std or open fails; nothing was written.
RedeemFails(n) ==
  /\ serving /\ lease[n] # NoRequest
  /\ lease' = [lease EXCEPT ![n] = NoRequest]
  /\ DropIos({lease[n]})
  /\ UNCHANGED <<want, task, sent, outbox, deadlines, actorVars, stream, queue, serving>>

\* All bytes sent, a short count, an error, the timeout, or a cancellation.
StreamRead(r) ==
  /\ stream[r] = "open" /\ guard[r] = "read"
  /\ DropIos({r})
  /\ stream' = [stream EXCEPT ![r] = "none"]
  /\ UNCHANGED <<want, task, sent, outbox, leaseVars, actorVars, queue, serving>>

\* WriteGuard::commit queues the expiry, then updates size and map.
StreamCommit(r, m) ==
  /\ stream[r] = "open" /\ guard[r] = "write"
  /\ ChargeSize(r, m)
  /\ queue' = IF m.expire THEN queue \cup {at[r]} ELSE queue
  /\ UNCHANGED <<reqVars, lockVars, leaseVars, actorVars, stream, serving>>

StreamCommitted(r) ==
  /\ stream[r] = "open" /\ CommitCell(r)
  /\ permits' = permits \ {r}
  /\ stream' = [stream EXCEPT ![r] = "none"]
  /\ UNCHANGED <<task, sent, outbox, lockVars, leaseVars, actorVars, queue, serving>>

\* A write that does not commit gives its permit back and erases the blob.
StreamAbort(r) ==
  /\ stream[r] = "open" /\ guard[r] = "write"
  /\ DischargeSize(r)
  /\ permits' = permits \ {r}
  /\ UNCHANGED <<task, sent, outbox, lockVars, leaseVars, actorVars, stream, queue, serving>>

StreamErased(r) ==
  /\ stream[r] = "open" /\ RemoveCell(r) /\ Waits(wait)
  /\ stream' = [stream EXCEPT ![r] = "none"]
  /\ UNCHANGED <<reqVars, want, leaseVars, actorVars, queue, serving>>

StopServing ==
  /\ serving /\ serving' = FALSE
  /\ UNCHANGED <<mapVars, reqVars, lockVars, leaseVars, actorVars, stream, queue>>

\* The last Arc of State goes with the two actors and their tasks.
DropState ==
  /\ server = "stopped" /\ ~serving
  /\ \A r \in Requests : stream[r] = "none" /\ task[r] \notin Handlers \cup {"leased"}
  /\ DropIos({lease[n] : n \in Tokens} \cap Requests)
  /\ lease' = [n \in Tokens |-> NoRequest] /\ deadlines' = <<>>
  /\ UNCHANGED <<want, task, sent, outbox, actorVars, stream, queue, serving>>

\* (mutant) A deadline that has passed keeps counting.
TickBelow ==
  /\ deadlines' = [i \in DOMAIN deadlines |-> [deadlines[i] EXCEPT !.left = @ - 1]]
  /\ timer' = IF timer \in {0, NoTimer} THEN timer ELSE timer - 1
  /\ UNCHANGED <<mapVars, reqVars, lockVars, lease, server, armed, evict, expire, stream, queue, serving>>

\* Time passes.
Tick ==
  /\ deadlines' = [i \in DOMAIN deadlines |->
                     [deadlines[i] EXCEPT !.left = IF @ = 0 THEN 0 ELSE @ - 1]]
  /\ timer' = IF timer \in {0, NoTimer} THEN timer ELSE timer - 1
  /\ UNCHANGED <<mapVars, reqVars, lockVars, lease, server, armed, evict, expire, stream, queue, serving>>

-----------------------------------------------------------------------------
Call(r) ==
  \/ Ignore(r) \/ Refuse(r) \/ Unavailable(r) \/ (\E n \in Tokens : Cancel(r, n))
  \/ \E k \in Keys :
       \/ Write(r, k) \/ WriteDeclined(r, k) \/ WriteMetadataFails(r, k)
       \/ \E m \in Metadata : WriteMetadata(r, k, m)
       \/ \E handler \in Handlers : Spawn(r, handler, k)

Granted(r) == Read(r) \/ ReadMetadata(r) \/ Remove(r)
Handle(r) == Miss(r) \/ Find(r) \/ Stale(r) \/ ReadRespond(r) \/ RemoveFails(r) \/ Removed(r)
Drain == DrainEvict \/ DrainExpire \/ DrainFails \/ Stopped \/ DropState

EvictTask == (\E k \in Keys : EvictNext(k)) \/ Evicted \/ EvictFails \/ EvictDone
ExpireTask ==
  (\E k \in Keys : ExpireNext(k)) \/ ExpireStale \/ ExpireRemoved \/ ExpireFails
    \/ ExpireDone \/ ExpireCancelled

Stream(r) ==
  \/ StreamRead(r) \/ StreamCommitted(r) \/ StreamAbort(r) \/ StreamErased(r)
  \/ \E m \in Metadata : StreamCommit(r, m)

Next ==
  \/ \E r \in Requests : Turn(Call(r)) \/ Turn(SendResponse(r)) \/ Turn(JoinTask(r))
  \/ Turn(RemoveExpired) \/ Turn(SpawnExpire) \/ Turn(JoinEvict) \/ Turn(JoinExpire) \/ Turn(LogStats)
  \/ \E r \in Requests : Granted(r) \/ Handle(r) \/ Abandon(r) \/ DrainTask(r) \/ Stream(r)
  \/ \E t \in Tasks : Discharge(t)
  \/ EvictTask \/ ExpireTask \/ ExpireLocked
  \/ \E n \in Tokens : Redeem(n) \/ RedeemFails(n)
  \/ CleanupFails \/ SocketFails \/ Stop \/ StopServing \/ Drain \/ Tick

Spec == Init /\ [][Next]_vars

\* Tasks that are ready run; select! picks among its ready branches at random;
\* a blob connection ends at blob_request_timeout; a tokio lock is fair;
\* ddcached shuts everything down once one actor has ended.
Fairness ==
  /\ \A r \in Requests :
       /\ SF_vars(Granted(r)) /\ WF_vars(Handle(r) \/ Abandon(r)) /\ WF_vars(Stream(r))
       /\ WF_vars(Turn(SendResponse(r))) /\ WF_vars(Turn(JoinTask(r))) /\ WF_vars(DrainTask(r))
  /\ \A t \in Tasks : WF_vars(Discharge(t))
  /\ WF_vars(Turn(RemoveExpired)) /\ WF_vars(Turn(SpawnExpire))
  /\ WF_vars(Turn(JoinEvict)) /\ WF_vars(Turn(JoinExpire)) /\ WF_vars(Turn(LogStats))
  /\ WF_vars(CleanupFails) /\ WF_vars(Drain) /\ WF_vars(Tick)
  /\ WF_vars(server # "running" /\ StopServing) /\ WF_vars(~serving /\ Stop)
  /\ WF_vars(EvictTask) /\ WF_vars(ExpireTask) /\ SF_vars(ExpireLocked)

FairSpec == Spec /\ Fairness

-----------------------------------------------------------------------------
(* Properties *)

\* The variables' types.
Deadline == [left : 0 .. LeaseTimeout, token : Tokens]
TypeOK ==
  /\ task \in [Requests -> Handlers \cup {"new", "call", "ignored", "leased", "finished", "joined"}]
  /\ wait \in [Tasks -> {"no", "lock", "stale"}] /\ want \in [Tasks -> Keys \cup {NoKey}]
  /\ permits \subseteq Requests /\ outbox \subseteq Requests
  /\ sent \in [Requests -> 0 .. 1]
  /\ lease \in [Tokens -> Requests \cup {NoRequest}]
  /\ deadlines \in Seq(Deadline)
  /\ stream \in [Requests -> {"none", "open"}] /\ queue \subseteq Keys
  /\ server \in {"running", "draining", "stopped"} /\ serving \in BOOLEAN
  /\ timer \in 0 .. LeaseTimeout \cup {NoTimer} /\ armed \in BOOLEAN
  /\ evict \in {"none", "running", "detached", "failed", "finished"}
  /\ expire \in {"none", "running", "failed", "finished"}

\* A guard of a request is in exactly one place (its running handler, one
\* lease, or one blob connection), and a permit is out exactly for the requests
\* that run a handler or whose guard is leased or streamed: Handler, State and
\* txrx_blob hand both over without leaking or doubling either.
Leased(r) == \E n \in Tokens : lease[n] = r
Spent(r) == task[r] \notin Handlers \cup {"new"}
Owned(r) ==
  /\ \A m, n \in Tokens : lease[m] = r /\ lease[n] = r => m = n
  /\ Leased(r) => stream[r] = "none" /\ Spent(r) /\ guard[r] \in {"read", "write"}
  /\ stream[r] = "open" => Spent(r) /\ guard[r] \notin {"none", "remove"}
  /\ ~Spent(r) => guard[r] = "none" \/ (task[r] = "remove" /\ guard[r] \in {"remove", "discharged"})
  /\ guard[r] # "none" => Leased(r) \/ stream[r] = "open" \/ task[r] = "remove"
  /\ r \in permits <=> (task[r] \in Handlers \/ guard[r] \notin {"none", "discharged"})
ResourcesOwned == \A r \in Requests : Owned(r)

\* Who waits for a lock waits for the entry of the key it wants, with no guard in
\* hand; the cleanup tasks have no guards but a remover's, and the expire task that
\* of the key it has popped.
WaiterFits(t) ==
  /\ wait[t] # "no" => guard[t] = "none" /\ want[t] \in Keys
  /\ wait[t] = "lock" => cell[HashOf[want[t]]].key = want[t]
HandlerFits(r) == IF task[r] \in Handlers THEN want[r] \in Keys ELSE wait[r] = "no"
CleanersFit ==
  /\ \A t \in {Evictor, Expirer} : guard[t] \in {"none", "remove", "discharged"}
  /\ guard[Expirer] # "none" => at[Expirer] = want[Expirer]
  /\ wait[Evictor] = "no"
WaitersFit ==
  (\A t \in Tasks : WaiterFits(t)) /\ (\A r \in Requests : HandlerFits(r)) /\ CleanersFit

\* Actor::run sleeps on the front of State.deadlines, which handler tasks fill
\* behind its back.  Every lease has a deadline, the front is the earliest, and
\* the actor's timeout is no later than it unless something else is about to
\* send the actor round its loop.
LeasesTimed ==
  /\ \A n \in Tokens : lease[n] # NoRequest => \E i \in DOMAIN deadlines : deadlines[i].token = n
  /\ \A i, j \in DOMAIN deadlines : i < j => deadlines[i].left <= deadlines[j].left
  /\ server = "running" /\ deadlines # <<>> =>
       \/ timer # NoTimer /\ timer <= Head(deadlines).left
       \/ outbox # {} \/ \E r \in Requests : task[r] \in {"leased", "finished"}

\* Every request gets one response: none gets two, and none is done without one
\* unless the server stopped under it or it came without an envelope to answer to,
\* which handle_request drops.
OneResponse ==
  \A r \in Requests :
    /\ sent[r] <= 1
    /\ task[r] \in Handlers \cup {"new", "leased", "ignored"} => sent[r] = 0
    /\ server = "running" /\ task[r] \in {"call", "finished", "joined"} => sent[r] = 1

\* A blob that expires stays known to the expire queue or to the task that has
\* popped it, through failed removals, cancellation and shutdown.
KnownToExpire(k) ==
  k \in queue \/ (want[Expirer] = k /\ (wait[Expirer] = "lock" \/ guard[Expirer] # "none"))
ExpiryKept ==
  \A h \in Hashes : cell[h].tag = "Present" /\ cell[h].meta.expire => KnownToExpire(cell[h].key)

\* So does one that is being committed.
CommitsKnown ==
  \A t \in Tasks : guard[t] = "charged" /\ pending[t].expire => KnownToExpire(at[t])

\* A due item reaches an expire task, though the commit that queues it does not
\* wake the actor.
ExpiryStarts == queue # {} ~> expire # "none" \/ server # "running" \/ queue = {}

\* A storage above the high water mark gets an evict task.
EvictionStarts == size > Hwm ~> evict # "none" \/ size <= Hwm \/ server # "running"

\* Guards, permits and deadlines are where the actor and its handlers left them:
\* each guard in one place, each permit accounted for, each lease timed.
ServerInv ==
  GuardedMapInv /\ TypeOK /\ ResourcesOwned /\ WaitersFit /\ LeasesTimed /\ CommitsKnown

\* A request comes to its end, whatever holds the lock its handler waits for: the
\* handler task is joined, and the guard it took is given back, by its client or
\* without it.
RequestsEnd ==
  \A r \in Requests : task[r] \in Handlers \/ guard[r] # "none" ~>
    guard[r] = "none" /\ (task[r] \in {"call", "joined"} \/ server = "stopped")

\* What the server gets done without being asked again.
ServerIsLive == RequestsEnd /\ ExpiryStarts
=============================================================================
