-------------------------------- MODULE Etcd --------------------------------
(* PubSub::publish (etcd/pubsub/src/lib.rs): a task keeps one key in etcd  *)
(* under a lease whose id is a hash of the key, through an unstable        *)
(* cluster, late keep-alives and restarts of the publishing process.  etcd *)
(* itself, a key bound to a lease that removes it on expiry, is external.  *)
EXTENDS Naturals, Sequences

CONSTANTS
    EpTtl,         \* time_to_live
    EpRetry,       \* TIMEOUT of the retries
    EpMaxDelays,   \* bounds the times the task is late
    EpMaxErrors,   \* bounds the busy answers of etcd
    EpMaxRestarts, \* bounds restarts of the process, each with its own data
    EpMaxTime

ASSUME EtcdPubSubAssumption == EpTtl \in Nat \ {0}

VARIABLES
    epLease,   \* time left of the lease, 0 when there is none
    epKey,     \* data under the key (the generation of its publisher), 0 when absent
    epPub,     \* the task: gen, action, until (asleep), the start of the retries (none or one)
    epDelays, epErrors, epClock,
    epHeld     \* ghost: this publisher has published, and nothing was late since

etcdPubSubVars == <<epLease, epKey, epPub, epDelays, epErrors, epClock, epHeld>>

NewPublisher(gen) == [gen |-> gen, action |-> "LeaseGrant", until |-> 0, retry |-> {}]

EtcdPubSubInit ==
    /\ epLease = 0 /\ epKey = 0 /\ epPub = NewPublisher(1)
    /\ epDelays = 0 /\ epErrors = 0 /\ epClock = 0 /\ epHeld = FALSE

Awake == epPub.action # "Failed" /\ epPub.until <= epClock

Advance(action, until) ==
    epPub' = [epPub EXCEPT !.action = action, !.until = until, !.retry = {}]

\* Busy etcd, or NOT_FOUND for a lease that has expired: from the beginning
\* again after a second, until this has gone on for too long.
TooBusy ==
    IF \E t \in epPub.retry : epClock - t > EpRetry
    THEN epPub' = [epPub EXCEPT !.action = "Failed"]
    ELSE epPub' = [epPub EXCEPT !.action = "LeaseGrant", !.until = epClock + 1,
                                !.retry = IF @ = {} THEN {epClock + 1} ELSE @]

GrantNextExisting == IF epLease = 0 THEN "Publish" ELSE "LeaseKeepAlive"

\* A lease that exists is answered with BAD_REQUEST and is used as it is.
GrantNext == "Publish"

LeaseGrant ==
    /\ Awake /\ epPub.action = "LeaseGrant"
    /\ epLease' = IF epLease = 0 THEN EpTtl ELSE epLease
    /\ Advance(GrantNext, epClock)
    /\ UNCHANGED <<epKey, epDelays, epErrors, epClock, epHeld>>

Publish ==
    /\ Awake /\ epPub.action = "Publish"
    /\ IF epLease > 0
       THEN epKey' = epPub.gen /\ epHeld' = TRUE /\ Advance("LeaseKeepAlive", epClock)
       ELSE TooBusy /\ UNCHANGED <<epKey, epHeld>>
    /\ UNCHANGED <<epLease, epDelays, epErrors, epClock>>

\* How long the task sleeps after a keep-alive.
KeepAliveEveryTtl == EpTtl

KeepAliveEvery == EpTtl \div 2

LeaseKeepAlive ==
    /\ Awake /\ epPub.action = "LeaseKeepAlive"
    /\ IF epLease > 0
       THEN epLease' = EpTtl /\ Advance("LeaseKeepAlive", epClock + KeepAliveEvery)
       ELSE Advance("LeaseGrant", epClock) /\ UNCHANGED epLease
    /\ UNCHANGED <<epKey, epDelays, epErrors, epClock, epHeld>>

\* etcd answers UNAUTHORIZED or SERVICE_UNAVAILABLE.
EtcdBusy ==
    /\ Awake /\ epErrors < EpMaxErrors /\ epErrors' = epErrors + 1
    /\ TooBusy /\ epHeld' = FALSE
    /\ UNCHANGED <<epLease, epKey, epDelays, epClock>>

\* The process restarts and publishes other data under the same id.
Restart ==
    /\ epPub.gen <= EpMaxRestarts
    /\ epPub' = [NewPublisher(epPub.gen + 1) EXCEPT !.until = epClock]
    /\ epHeld' = FALSE
    /\ UNCHANGED <<epLease, epKey, epDelays, epErrors, epClock>>

\* Time passes; while the task is awake it passes only by a delay.
EtcdTick ==
    /\ epClock < EpMaxTime /\ epClock' = epClock + 1
    /\ IF Awake THEN epDelays < EpMaxDelays /\ epDelays' = epDelays + 1 /\ epHeld' = FALSE
                ELSE UNCHANGED <<epDelays, epHeld>>
    /\ epLease' = IF epLease = 0 THEN 0 ELSE epLease - 1
    /\ epKey' = IF epLease <= 1 THEN 0 ELSE epKey
    /\ UNCHANGED <<epPub, epErrors>>

EtcdPubSubNext ==
    LeaseGrant \/ Publish \/ LeaseKeepAlive \/ EtcdBusy \/ Restart \/ EtcdTick

EtcdPubSubSpec == EtcdPubSubInit /\ [][EtcdPubSubNext]_etcdPubSubVars

-----------------------------------------------------------------------------

\* While a publisher keeps a lease alive the lease holds its own data, not a
\* predecessor's and not nothing: through lapses, busy answers and restarts,
\* no path reaches the keep-alive loop without publishing again.
KeptAliveIsPublished ==
    epPub.action = "LeaseKeepAlive" /\ epLease > 0 => epKey = epPub.gen

\* A publisher that is never late and never refused does not lapse.
PublishedStays == epHeld => epKey = epPub.gen

\* A lease that is kept alive stands for data that is published.
PublicationHolds == KeptAliveIsPublished /\ PublishedStays

-----------------------------------------------------------------------------
(* The watcher task that turns an etcd watch into broadcast events         *)
(* (etcd/watch/src/lib.rs over watch_from and scan_from of                 *)
(* etcd/client/src/watch.rs), and a subscriber that folds the events into  *)
(* a copy of the keys.  etcd changes between any two steps of the task,    *)
(* the stream breaks, requests fail.  etcd and the broadcast channel are   *)
(* external.                                                               *)

CONSTANTS
    EwKeys, EwValues,  \* 0, absent, is not in EwValues
    EwRetries,         \* NUM_RETRIES
    EwCapacity,        \* events a slow subscriber may be behind
    EwMaxChanges, EwMaxFaults

ASSUME EtcdWatchAssumption == EwCapacity \in Nat \ {0} /\ EwRetries \in Nat

VARIABLES
    ewStore,   \* etcd: key -> value, 0 when absent
    ewStream,  \* [open, broken, events]: the watch stream
    ewActor,   \* [pc, retry]
    ewQueue,   \* events broadcast and not yet received by the subscriber
    ewCopy,    \* the subscriber's copy
    ewLagged,  \* the subscriber has missed events
    ewChanges, ewFaults

etcdWatchVars == <<ewStore, ewStream, ewActor, ewQueue, ewCopy, ewLagged, ewChanges, ewFaults>>

NoStream == [open |-> FALSE, broken |-> FALSE, events |-> <<>>]

EtcdWatchInit ==
    /\ ewStore \in [EwKeys -> {0} \cup EwValues]
    /\ ewStream = NoStream /\ ewActor = [pc |-> "watch", retry |-> 0]
    /\ ewQueue = <<>> /\ ewCopy = [k \in EwKeys |-> 0] /\ ewLagged = FALSE
    /\ ewChanges = 0 /\ ewFaults = 0

\* A put or a delete, which an open stream reports.
EtcdChange(k, v) ==
    /\ ewChanges < EwMaxChanges /\ ewChanges' = ewChanges + 1
    /\ v # ewStore[k]
    /\ ewStore' = [ewStore EXCEPT ![k] = v]
    /\ ewStream' = IF ewStream.open /\ ~ ewStream.broken
                   THEN [ewStream EXCEPT !.events = Append(@, [key |-> k, value |-> v])] ELSE ewStream
    /\ UNCHANGED <<ewActor, ewQueue, ewCopy, ewLagged, ewFaults>>

StreamBreaks ==
    /\ ewFaults < EwMaxFaults /\ ewFaults' = ewFaults + 1
    /\ ewStream.open /\ ~ ewStream.broken
    /\ ewStream' = [ewStream EXCEPT !.broken = TRUE]
    /\ UNCHANGED <<ewStore, ewActor, ewQueue, ewCopy, ewLagged, ewChanges>>

\* event_send.send: a full channel drops the oldest event.
Broadcasts(event) ==
    /\ ewQueue' = IF Len(ewQueue) = EwCapacity THEN Append(Tail(ewQueue), event) ELSE Append(ewQueue, event)
    /\ ewLagged' = (ewLagged \/ Len(ewQueue) = EwCapacity)

\* init: a failed try_init is retried with a backoff, and the last one ends
\* the task.
InitFails ==
    /\ ewActor.pc \in {"watch", "scan"}
    /\ ewFaults < EwMaxFaults /\ ewFaults' = ewFaults + 1
    /\ ewActor' = IF ewActor.retry < EwRetries THEN [pc |-> "watch", retry |-> ewActor.retry + 1]
                                               ELSE [ewActor EXCEPT !.pc = "stopped"]
    /\ ewStream' = NoStream
    /\ UNCHANGED <<ewStore, ewQueue, ewCopy, ewLagged, ewChanges>>

\* try_init, first half: the stream is created before the scan.
WatchFrom ==
    /\ ewActor.pc = "watch"
    /\ ewStream' = [NoStream EXCEPT !.open = TRUE]
    /\ ewActor' = [ewActor EXCEPT !.pc = "scan"]
    /\ UNCHANGED <<ewStore, ewQueue, ewCopy, ewLagged, ewChanges, ewFaults>>

\* Second half, and the Init event.
ScanFrom ==
    /\ ewActor.pc = "scan"
    /\ Broadcasts([init |-> ewStore])
    /\ ewActor' = [pc |-> "run", retry |-> 0]
    /\ UNCHANGED <<ewStore, ewStream, ewCopy, ewChanges, ewFaults>>

\* stream.next: an event, or the error or end of a broken stream
NextEvent ==
    /\ ewActor.pc = "run" /\ ewStream.events # <<>>
    /\ Broadcasts(Head(ewStream.events))
    /\ ewStream' = [ewStream EXCEPT !.events = Tail(@)]
    /\ UNCHANGED <<ewStore, ewActor, ewCopy, ewChanges, ewFaults>>

StreamIgnored ==
    /\ ewActor.pc = "run" /\ ewStream.broken /\ ewStream.events = <<>>
    /\ ewStream' = [NoStream EXCEPT !.open = TRUE]
    /\ UNCHANGED <<ewStore, ewActor, ewQueue, ewCopy, ewLagged, ewChanges, ewFaults>>

StreamEnds ==
    /\ ewActor.pc = "run" /\ ewStream.broken /\ ewStream.events = <<>>
    /\ ewStream' = NoStream
    /\ ewActor' = [pc |-> "watch", retry |-> 0]
    /\ UNCHANGED <<ewStore, ewQueue, ewCopy, ewLagged, ewChanges, ewFaults>>

\* A subscriber replaces its copy on Init and applies an event to it.
SubscriberReceives ==
    /\ ewQueue # <<>> /\ ewQueue' = Tail(ewQueue)
    /\ LET event == Head(ewQueue)
       IN ewCopy' = IF "init" \in DOMAIN event THEN event.init
                    ELSE [ewCopy EXCEPT ![event.key] = event.value]
    /\ UNCHANGED <<ewStore, ewStream, ewActor, ewLagged, ewChanges, ewFaults>>

EtcdWatchNext ==
    \/ \E k \in EwKeys, v \in {0} \cup EwValues : EtcdChange(k, v)
    \/ StreamBreaks \/ InitFails \/ WatchFrom \/ ScanFrom \/ NextEvent \/ StreamEnds
    \/ SubscriberReceives

EtcdWatchSpec == EtcdWatchInit /\ [][EtcdWatchNext]_etcdWatchVars

-----------------------------------------------------------------------------

\* A subscriber that keeps up has a copy equal to etcd whenever the watcher
\* has nothing left to report: no change falls between the scan and the
\* stream, and what a broken stream did not report is in the next Init.
CopyCatchesUp ==
    /\ ewActor.pc = "run" /\ ewStream.open /\ ~ ewStream.broken /\ ewStream.events = <<>>
    /\ ewQueue = <<>> /\ ~ ewLagged
    => ewCopy = ewStore
=============================================================================
