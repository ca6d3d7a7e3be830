----------------------------- MODULE TaskProofs -----------------------------
(* Proofs for tasks.  Around a cache server: that a key published in etcd   *)
(* stays published, that a watched copy of etcd catches up, and that the    *)
(* map of servers follows the directory.  In g1/tokio: that a cancellation  *)
(* is not lost on its way to a task, and that no guard loses its task, in a *)
(* JoinQueue or outside one, for any number of tasks.                       *)
EXTENDS Etcd, ServiceDiscovery, JoinTasks, SequenceTheorems, TLAPS

(* Which element of a kind comes last in a queue of events. *)

\* No element of s is in M; the last one that is, is in G.
NoneIn(s, M) == \A i \in 1 .. Len(s) : s[i] \notin M
LastIn(s, M, G) ==
    \E i \in 1 .. Len(s) : s[i] \in G /\ \A j \in 1 .. Len(s) : j > i => s[j] \notin M

\* An element that is appended is the last of its kind.
LEMMA LastOfAppend ==
  ASSUME NEW S, NEW s \in Seq(S), NEW e \in S, NEW M, NEW G
  PROVE  /\ e \in G => LastIn(Append(s, e), M, G)
         /\ e \notin M /\ NoneIn(s, M) => NoneIn(Append(s, e), M)
         /\ e \notin M /\ LastIn(s, M, G) => LastIn(Append(s, e), M, G)
<1> DEFINE t == Append(s, e)
<1>1. /\ Len(s) \in Nat /\ Len(t) = Len(s) + 1 /\ t[Len(s) + 1] = e
      /\ \A i \in 1 .. Len(s) : t[i] = s[i]
  BY AppendProperties, LenProperties
<1> HIDE DEF t
<1>2. \A i \in 1 .. Len(t) : i = Len(s) + 1 \/ i \in 1 .. Len(s)
  BY <1>1
<1>3. Len(s) + 1 \in 1 .. Len(t) /\ \A i \in 1 .. Len(s) : i \in 1 .. Len(t)
  BY <1>1
<1>4. \A j \in 1 .. Len(t) : ~(j > Len(s) + 1)
  BY <1>1
<1>5. e \in G => LastIn(t, M, G)
  BY <1>1, <1>3, <1>4, Zenon DEF LastIn
<1>6. e \notin M /\ NoneIn(s, M) => NoneIn(t, M)
  BY <1>1, <1>2, Zenon DEF NoneIn
<1>7. e \notin M /\ LastIn(s, M, G) => LastIn(t, M, G)
  BY <1>1, <1>2, <1>3, Zenon DEF LastIn
<1> QED BY <1>5, <1>6, <1>7 DEF t

\* The head of a sequence.
LEMMA FirstOf ==
  ASSUME NEW S, NEW s \in Seq(S), s # <<>>
  PROVE  Head(s) \in S /\ Head(s) = s[1]
BY HeadTailProperties, EmptySeq, LenProperties

\* What is left when the first element is taken.
LEMMA LastOfTail ==
  ASSUME NEW S, NEW s \in Seq(S), s # <<>>, NEW M, NEW G
  PROVE  /\ NoneIn(s, M) => NoneIn(Tail(s), M) /\ Head(s) \notin M
         /\ LastIn(s, M, G) => LastIn(Tail(s), M, G) \/ (NoneIn(Tail(s), M) /\ Head(s) \in G)
<1> DEFINE t == Tail(s)
<1>1. /\ Len(s) \in Nat /\ Len(s) > 0 /\ Len(t) = Len(s) - 1 /\ Head(s) = s[1]
      /\ \A i \in 1 .. Len(t) : t[i] = s[i + 1]
  BY HeadTailProperties, EmptySeq, LenProperties
<1> HIDE DEF t
<1>2. \A i \in 1 .. Len(t) : i + 1 \in 1 .. Len(s)
  BY <1>1
<1>3. 1 \in 1 .. Len(s)
  BY <1>1
<1>4. NoneIn(s, M) => NoneIn(t, M) /\ Head(s) \notin M
  BY <1>1, <1>2, <1>3, Zenon DEF NoneIn
<1>5. ASSUME LastIn(s, M, G)
      PROVE  LastIn(t, M, G) \/ (NoneIn(t, M) /\ Head(s) \in G)
  <2>1. PICK i \in 1 .. Len(s) : s[i] \in G /\ \A j \in 1 .. Len(s) : j > i => s[j] \notin M
    BY <1>5, Zenon DEF LastIn
  <2>2. CASE i = 1
    <3>1. \A j \in 1 .. Len(t) : j + 1 > i
      BY <1>1, <2>2
    <3> QED BY <1>1, <1>2, <2>1, <2>2, <3>1, Zenon DEF NoneIn
  <2>3. CASE i # 1
    <3>1. i - 1 \in 1 .. Len(t) /\ t[i - 1] = s[i]
      BY <1>1, <2>1, <2>3
    <3>2. \A j \in 1 .. Len(t) : j > i - 1 => j + 1 > i
      BY <1>1, <2>1
    <3> QED BY <1>1, <1>2, <2>1, <3>1, <3>2, Zenon DEF LastIn
  <2> QED BY <2>2, <2>3, Zenon
<1> QED BY <1>4, <1>5, Zenon DEF t

\* There is none in an empty queue.
LEMMA LastOfEmpty ==
  ASSUME NEW M, NEW G
  PROVE  NoneIn(<<>>, M) /\ ~LastIn(<<>>, M, G)
BY DEF NoneIn, LastIn

-----------------------------------------------------------------------------

(* PubSub::publish.  What is not in the two properties and makes them       *)
(* inductive is the time a held lease has left: more than the task sleeps.  *)

EpPublisher ==
    [gen : Nat, action : {"LeaseGrant", "Publish", "LeaseKeepAlive", "Failed"},
     until : Nat, retry : SUBSET Nat]

EpTypeOK ==
    /\ epLease \in Nat /\ epKey \in Nat /\ epClock \in Nat /\ epHeld \in BOOLEAN
    /\ epPub \in EpPublisher

HeldOutlastsSleep ==
    epHeld => /\ epPub.action = "LeaseKeepAlive" /\ epLease > 0 /\ epKey = epPub.gen
              /\ epLease + epClock > epPub.until

EpInv == EpTypeOK /\ KeptAliveIsPublished /\ HeldOutlastsSleep

\* The next action of the task, the time it is asleep until, and nothing else.
LEMMA Advances ==
  ASSUME epPub \in EpPublisher, NEW until \in Nat,
         NEW action \in {"LeaseGrant", "Publish", "LeaseKeepAlive"}, Advance(action, until)
  PROVE  /\ epPub' \in EpPublisher
         /\ epPub'.gen = epPub.gen /\ epPub'.action = action /\ epPub'.until = until
BY Zenon DEF EpPublisher, Advance

\* Going back to the beginning, or giving up, keeps the task well-formed and ends
\* its keep-alive loop.
LEMMA TooBusyLeaves ==
  ASSUME EpTypeOK, TooBusy
  PROVE  epPub' \in EpPublisher /\ epPub'.action # "LeaseKeepAlive"
<1>1. CASE \E t \in epPub.retry : epClock - t > EpRetry
  BY <1>1, Zenon DEF EpTypeOK, EpPublisher, TooBusy
<1>2. CASE ~ \E t \in epPub.retry : epClock - t > EpRetry
  <2>1. PICK since : since = IF epPub.retry = {} THEN {epClock + 1} ELSE epPub.retry
    BY Zenon
  <2>2. since \in SUBSET Nat /\ epClock + 1 \in Nat
    BY <2>1 DEF EpTypeOK, EpPublisher
  <2>3. epPub' = [epPub EXCEPT !.action = "LeaseGrant", !.until = epClock + 1, !.retry = since]
    BY <1>2, <2>1, Zenon DEF TooBusy
  <2> QED BY <2>2, <2>3, Zenon DEF EpTypeOK, EpPublisher
<1> QED BY <1>1, <1>2, Zenon

\* Every step of the publisher, of etcd and of the clock keeps the invariant.
LEMMA PublisherStep ==
  ASSUME EpInv, [EtcdPubSubNext]_etcdPubSubVars
  PROVE  EpInv'
<1> USE DEF EpInv, EpTypeOK, KeptAliveIsPublished, HeldOutlastsSleep
<1>0. epPub.until \in Nat /\ epPub.gen \in Nat /\ epClock \in Nat /\ EpTtl \in Nat /\ EpTtl > 0
  <2>1. epPub.until \in Nat /\ epPub.gen \in Nat
    BY Zenon DEF EpPublisher
  <2> QED BY <2>1, EtcdPubSubAssumption
<1>1. CASE LeaseGrant
  <2>1. epPub' \in EpPublisher /\ epPub'.action = "Publish" /\ ~ epHeld
    BY <1>0, <1>1, Advances, Zenon DEF LeaseGrant, GrantNext
  <2> QED BY <1>0, <1>1, <2>1 DEF LeaseGrant
<1>2. CASE Publish
  <2>1. CASE epLease > 0
    <3>1. /\ epPub' \in EpPublisher /\ epPub'.gen = epPub.gen
          /\ epPub'.action = "LeaseKeepAlive" /\ epPub'.until = epClock
      BY <1>0, <1>2, <2>1, Advances, Zenon DEF Publish
    <3> QED BY <1>0, <1>2, <2>1, <3>1 DEF Publish
  <2>2. CASE ~ epLease > 0
    BY <1>2, <2>2, TooBusyLeaves, Zenon DEF Publish
  <2> QED BY <2>1, <2>2, Zenon
<1>3. CASE LeaseKeepAlive
  <2>1. CASE epLease > 0
    <3>1. KeepAliveEvery \in Nat /\ KeepAliveEvery < EpTtl
      BY <1>0 DEF KeepAliveEvery
    <3>2. epClock + KeepAliveEvery \in Nat /\ EpTtl + epClock > epClock + KeepAliveEvery
      BY <1>0, <3>1
    <3>3. /\ epPub' \in EpPublisher /\ epPub'.gen = epPub.gen
          /\ epPub'.action = "LeaseKeepAlive" /\ epPub'.until = epClock + KeepAliveEvery
      BY <1>3, <2>1, <3>2, Advances, Zenon DEF LeaseKeepAlive
    <3> QED BY <1>0, <1>3, <2>1, <3>2, <3>3, Zenon DEF LeaseKeepAlive
  <2>2. CASE ~ epLease > 0
    <3>1. epPub' \in EpPublisher /\ epPub'.action = "LeaseGrant" /\ ~ epHeld
      BY <1>0, <1>3, <2>2, Advances, Zenon DEF LeaseKeepAlive
    <3> QED BY <1>3, <2>2, <3>1, Zenon DEF LeaseKeepAlive
  <2> QED BY <2>1, <2>2, Zenon
<1>4. CASE EtcdBusy
  BY <1>4, TooBusyLeaves, Zenon DEF EtcdBusy
<1>5. CASE Restart
  <2>1. epPub.gen + 1 \in Nat
    BY <1>0
  <2>2. epPub' \in EpPublisher /\ epPub'.action = "LeaseGrant"
    BY <1>0, <1>5, <2>1, Zenon DEF Restart, NewPublisher, EpPublisher
  <2> QED BY <1>5, <2>2, Zenon DEF Restart
<1>6. CASE EtcdTick
  <2>1. epPub' = epPub /\ (epHeld' => epHeld /\ epPub.until > epClock)
    BY <1>0, <1>6 DEF EtcdTick, Awake
  <2>2. epHeld' \in BOOLEAN
    BY <1>6, Zenon DEF EtcdTick
  <2>3. epHeld => epLease > 0 /\ epKey = epPub.gen /\ epLease + epClock > epPub.until
    BY Zenon
  <2>4. /\ epClock' \in Nat /\ epLease' \in Nat /\ epKey' \in Nat
        /\ epLease' > 0 => epKey' = epKey /\ epLease > 0
        /\ epHeld' => epLease' > 0 /\ epLease' + epClock' > epPub.until
    BY <1>0, <1>6, <2>1, <2>3 DEF EtcdTick
  <2> QED BY <2>1, <2>2, <2>3, <2>4, Zenon
<1>7. CASE UNCHANGED etcdPubSubVars
  BY <1>7, Zenon DEF etcdPubSubVars
<1> QED BY <1>1, <1>2, <1>3, <1>4, <1>5, <1>6, <1>7, Zenon DEF EtcdPubSubNext

\* PubSub::publish keeps a lease alive only with its own data under it, and a task
\* that is neither late nor refused never lets its key lapse, for any time to live.
THEOREM PublicationStays == EtcdPubSubSpec => []PublicationHolds
<1>1. EtcdPubSubInit => EpInv
  <2> SUFFICES ASSUME EtcdPubSubInit PROVE EpInv
    OBVIOUS
  <2>1. epPub \in EpPublisher /\ epPub.action = "LeaseGrant"
    BY Zenon DEF EtcdPubSubInit, NewPublisher, EpPublisher
  <2> QED BY <2>1, Zenon DEF EtcdPubSubInit, EpInv, EpTypeOK, KeptAliveIsPublished, HeldOutlastsSleep
<1>2. EpInv /\ [EtcdPubSubNext]_etcdPubSubVars => EpInv'
  BY PublisherStep
<1>3. EpInv => PublicationHolds
  BY Zenon DEF EpInv, HeldOutlastsSleep, PublicationHolds, PublishedStays
<1> QED BY <1>1, <1>2, <1>3, PTL DEF EtcdPubSubSpec

-----------------------------------------------------------------------------
(* The watcher task.  Whatever is under way, the last event about a key in  *)
(* an open stream is its value in etcd; when there is none, the last one in *)
(* the channel is, or else the copy has it.                                 *)

EwMaybe == {0} \cup EwValues
EwPuts == [key : EwKeys, value : EwMaybe]
EwInits == [init : [EwKeys -> EwMaybe]]
EwEvents == EwPuts \cup EwInits

\* The events that say something about k, and those that say v.
About(k) == {e \in EwPuts : e.key = k} \cup EwInits
Says(k, v) == {e \in EwPuts : e.key = k /\ e.value = v} \cup {e \in EwInits : e.init[k] = v}

EwTypeOK ==
    /\ ewStore \in [EwKeys -> EwMaybe] /\ ewCopy \in [EwKeys -> EwMaybe]
    /\ ewStream \in [open : BOOLEAN, broken : BOOLEAN, events : Seq(EwPuts)]
    /\ ewActor \in [pc : {"watch", "scan", "run", "stopped"}, retry : Nat]
    /\ ewQueue \in Seq(EwEvents) /\ ewLagged \in BOOLEAN

EwLive == ewStream.open /\ ~ ewStream.broken
StreamTells(k) ==
    \/ NoneIn(ewStream.events, About(k))
    \/ LastIn(ewStream.events, About(k), Says(k, ewStore[k]))
QueueTells(k) ==
    \/ NoneIn(ewQueue, About(k)) /\ ewCopy[k] = ewStore[k]
    \/ LastIn(ewQueue, About(k), Says(k, ewStore[k]))
Following ==
    EwLive => \A k \in EwKeys :
        /\ StreamTells(k)
        /\ ewActor.pc = "run" /\ ~ ewLagged /\ NoneIn(ewStream.events, About(k)) => QueueTells(k)

EwInv == EwTypeOK /\ Following

\* A put tells about its key only, a snapshot about every key, and a subscriber
\* can tell them apart.
LEMMA EventKinds ==
  /\ \A e \in EwPuts : "init" \notin DOMAIN e
  /\ \A e \in EwInits : "init" \in DOMAIN e
  /\ \A e \in EwPuts, k \in EwKeys, v \in EwMaybe :
        (e \in About(k) <=> e.key = k) /\ (e \in Says(k, v) <=> e.key = k /\ e.value = v)
  /\ \A e \in EwInits, k \in EwKeys, v \in EwMaybe :
        e \in About(k) /\ (e \in Says(k, v) <=> e.init[k] = v)
<1>1. \A e \in EwPuts : DOMAIN e = {"key", "value"}
  BY DEF EwPuts
<1>2. \A e \in EwInits : DOMAIN e = {"init"}
  BY DEF EwInits
<1>3. (\A e \in EwPuts : "init" \notin DOMAIN e) /\ (\A e \in EwInits : "init" \in DOMAIN e)
  BY <1>1, <1>2
<1>4. \A e \in EwPuts : e \notin EwInits
  BY <1>3, Zenon
<1> QED BY <1>3, <1>4, Zenon DEF About, Says

\* event_send.send, when nothing is dropped.
LEMMA BroadcastKeeps ==
  ASSUME EwTypeOK, NEW e \in EwEvents, Broadcasts(e)
  PROVE  /\ ewQueue' \in Seq(EwEvents) /\ ewLagged' \in BOOLEAN
         /\ ~ ewLagged' => ~ ewLagged /\ ewQueue' = Append(ewQueue, e)
<1>1. /\ Append(ewQueue, e) \in Seq(EwEvents)
      /\ ewQueue # <<>> => Append(Tail(ewQueue), e) \in Seq(EwEvents)
  BY AppendProperties, HeadTailProperties DEF EwTypeOK
<1>2. Len(ewQueue) = EwCapacity => ewQueue # <<>>
  BY EtcdWatchAssumption
<1> QED BY <1>1, <1>2, Zenon DEF Broadcasts, EwTypeOK

\* Every step of the watcher, of etcd and of the subscriber keeps the types.
LEMMA WatchTypes ==
  ASSUME EwTypeOK, [EtcdWatchNext]_etcdWatchVars
  PROVE  EwTypeOK'
<1> USE DEF EwTypeOK
<1>0. /\ NoStream \in [open : BOOLEAN, broken : BOOLEAN, events : Seq(EwPuts)]
      /\ [NoStream EXCEPT !.open = TRUE] \in [open : BOOLEAN, broken : BOOLEAN, events : Seq(EwPuts)]
  BY EmptySeq, Zenon DEF NoStream
<1>1. ASSUME NEW k \in EwKeys, NEW v \in EwMaybe, EtcdChange(k, v)
      PROVE  EwTypeOK'
  <2>1. [key |-> k, value |-> v] \in EwPuts /\ ewStream.events \in Seq(EwPuts)
    BY Zenon DEF EwPuts
  <2>2. Append(ewStream.events, [key |-> k, value |-> v]) \in Seq(EwPuts)
    BY <2>1, AppendProperties, Zenon
  <2>3. ewStream' \in [open : BOOLEAN, broken : BOOLEAN, events : Seq(EwPuts)]
    BY <1>1, <2>2, Zenon DEF EtcdChange
  <2> QED BY <1>1, <2>3, Zenon DEF EtcdChange
<1>2. CASE StreamBreaks
  BY <1>2, Zenon DEF StreamBreaks
<1>3. CASE InitFails
  <2>1. ewActor.retry + 1 \in Nat
    OBVIOUS
  <2> QED BY <1>0, <1>3, <2>1, Zenon DEF InitFails
<1>4. CASE WatchFrom
  BY <1>0, <1>4, Zenon DEF WatchFrom
<1>5. CASE ScanFrom
  <2>1. [init |-> ewStore] \in EwEvents /\ 0 \in Nat
    BY Zenon DEF EwEvents, EwInits
  <2> QED BY <1>5, <2>1, BroadcastKeeps, Zenon DEF ScanFrom
<1>6. CASE NextEvent
  <2>1. ewStream.events \in Seq(EwPuts) /\ ewStream.events # <<>>
    BY <1>6, Zenon DEF NextEvent
  <2>2. Head(ewStream.events) \in EwEvents /\ Tail(ewStream.events) \in Seq(EwPuts)
    BY <2>1, HeadTailProperties, Zenon DEF EwEvents
  <2> QED BY <1>6, <2>2, BroadcastKeeps, Zenon DEF NextEvent
<1>7. CASE StreamEnds
  BY <1>0, <1>7, Zenon DEF StreamEnds
<1>8. CASE SubscriberReceives
  <2>1. Head(ewQueue) \in EwEvents /\ Tail(ewQueue) \in Seq(EwEvents)
    BY <1>8, HeadTailProperties, Zenon DEF SubscriberReceives
  <2>2. CASE Head(ewQueue) \in EwPuts
    <3>1. Head(ewQueue).value \in EwMaybe
      BY <2>2, Zenon DEF EwPuts
    <3> QED BY <1>8, <2>1, <2>2, <3>1, EventKinds, Zenon DEF SubscriberReceives
  <2>3. CASE Head(ewQueue) \in EwInits
    <3>1. Head(ewQueue).init \in [EwKeys -> EwMaybe]
      BY <2>3, Zenon DEF EwInits
    <3> QED BY <1>8, <2>1, <2>3, <3>1, EventKinds, Zenon DEF SubscriberReceives
  <2> QED BY <2>1, <2>2, <2>3, Zenon DEF EwEvents
<1>9. CASE UNCHANGED etcdWatchVars
  BY <1>9, Zenon DEF etcdWatchVars
<1> QED BY <1>1, <1>2, <1>3, <1>4, <1>5, <1>6, <1>7, <1>8, <1>9, Zenon DEF EtcdWatchNext, EwMaybe

\* The stream and the channel keep telling the truth about every key.
LEMMA FollowingStep ==
  ASSUME EwInv, [EtcdWatchNext]_etcdWatchVars
  PROVE  Following'
<1>0. EwTypeOK /\ EwTypeOK'
  BY WatchTypes, Zenon DEF EwInv
<1>1. /\ ewStream.events \in Seq(EwPuts) /\ ewQueue \in Seq(EwEvents)
      /\ \A k \in EwKeys : ewStore[k] \in EwMaybe
  BY <1>0, Zenon DEF EwTypeOK
<1>2. ASSUME NEW k \in EwKeys, NEW v \in EwMaybe, EtcdChange(k, v), EwLive', NEW j \in EwKeys
      PROVE  /\ StreamTells(j)'
             /\ (ewActor.pc = "run" /\ ~ ewLagged /\ NoneIn(ewStream.events, About(j)) => QueueTells(j))'
  <2>1. PICK e \in EwPuts : e = [key |-> k, value |-> v]
    BY Zenon DEF EwPuts
  <2>2. EwLive /\ ewStream'.events = Append(ewStream.events, e)
    BY <1>0, <1>2, <2>1, Zenon DEF EwLive, EtcdChange, EwTypeOK
  <2>3. e.key = k /\ e.value = v
    BY <2>1, Zenon
  <2>4. CASE j = k
    <3>1. ewStore'[j] = v
      BY <1>0, <1>2, <2>4, Zenon DEF EtcdChange, EwTypeOK
    <3>2. e \in Says(j, v) /\ e \in About(j)
      BY <2>3, <2>4, EventKinds, Zenon
    <3>3. LastIn(ewStream'.events, About(j), Says(j, v))
      BY <1>1, <2>2, <3>2, LastOfAppend
    <3>4. ~NoneIn(ewStream'.events, About(j))
      <4>1. LastIn(ewStream'.events, About(j), About(j))
        BY <1>1, <2>2, <3>2, LastOfAppend
      <4> QED BY <4>1, Zenon DEF LastIn, NoneIn
    <3> QED BY <3>1, <3>3, <3>4, Zenon DEF StreamTells
  <2>5. CASE j # k
    <3>1. ewStore'[j] = ewStore[j]
      BY <1>0, <1>2, <2>5, Zenon DEF EtcdChange, EwTypeOK
    <3>2. e \notin About(j)
      BY <1>1, <2>3, <2>5, EventKinds, Zenon
    <3>3. StreamTells(j)'
      BY <1>1, <1>2, <2>2, <3>1, <3>2, LastOfAppend DEF EwInv, Following, StreamTells
    <3>4. NoneIn(ewStream'.events, About(j)) => NoneIn(ewStream.events, About(j))
      <4>1. /\ Len(ewStream.events) \in Nat /\ Len(ewStream'.events) = Len(ewStream.events) + 1
            /\ \A i \in 1 .. Len(ewStream.events) : ewStream'.events[i] = ewStream.events[i]
        BY <1>1, <2>2, AppendProperties, LenProperties
      <4>2. \A i \in 1 .. Len(ewStream.events) : i \in 1 .. Len(ewStream'.events)
        BY <4>1
      <4> QED BY <4>1, <4>2, Zenon DEF NoneIn
    <3> QED BY <1>2, <2>2, <3>1, <3>3, <3>4, Zenon DEF EwInv, Following, QueueTells, EtcdChange
  <2> QED BY <2>4, <2>5, Zenon
<1>3. CASE StreamBreaks
  BY <1>0, <1>3, Zenon DEF StreamBreaks, Following, EwLive, EwTypeOK
<1>4. CASE InitFails \/ StreamEnds
  BY <1>4 DEF InitFails, StreamEnds, Following, EwLive, NoStream
<1>5. CASE WatchFrom
  <2>1. ewStream'.events = <<>> /\ ewActor'.pc = "scan"
    BY <1>0, <1>5, Zenon DEF WatchFrom, NoStream, EwTypeOK
  <2> QED BY <2>1, LastOfEmpty, Zenon DEF Following, StreamTells
<1>6. CASE ScanFrom
  <2>1. PICK e \in EwInits : e = [init |-> ewStore]
    BY <1>0, Zenon DEF EwInits, EwTypeOK
  <2>2. e \in EwEvents /\ e.init = ewStore /\ Broadcasts(e)
    BY <1>6, <2>1, Zenon DEF EwEvents, ScanFrom
  <2>3. \A k \in EwKeys : e \in Says(k, ewStore[k])
    BY <1>1, <2>2, EventKinds, Zenon
  <2>4. ~ ewLagged' => ewQueue' = Append(ewQueue, e)
    BY <1>0, <2>2, BroadcastKeeps, Zenon
  <2>5. ASSUME ~ ewLagged', NEW k \in EwKeys
        PROVE  LastIn(ewQueue', About(k), Says(k, ewStore[k]))
    <3>1. e \in Says(k, ewStore[k]) /\ ewQueue' = Append(ewQueue, e)
      BY <2>3, <2>4, <2>5, Zenon
    <3> QED BY <1>1, <2>2, <3>1, LastOfAppend
  <2> QED BY <1>6, <2>5, Zenon DEF ScanFrom, EwInv, Following, EwLive, StreamTells, QueueTells
<1>7. ASSUME NextEvent, EwLive', NEW k \in EwKeys
      PROVE  /\ StreamTells(k)'
             /\ (ewActor.pc = "run" /\ ~ ewLagged /\ NoneIn(ewStream.events, About(k)) => QueueTells(k))'
  <2>1. PICK e : e = Head(ewStream.events)
    OBVIOUS
  <2>2. /\ ewStream.events # <<>> /\ e \in EwPuts /\ e \in EwEvents
        /\ ewStream'.events = Tail(ewStream.events) /\ EwLive
    BY <1>0, <1>1, <1>7, <2>1, HeadTailProperties, Zenon DEF NextEvent, EwEvents, EwLive, EwTypeOK
  <2>3. /\ ~ ewLagged' => ~ ewLagged /\ ewQueue' = Append(ewQueue, e)
        /\ UNCHANGED <<ewStore, ewActor, ewCopy>> /\ ewActor.pc = "run"
    BY <1>0, <1>7, <2>1, <2>2, BroadcastKeeps, Zenon DEF NextEvent
  <2>4. StreamTells(k)
    BY <2>2, Zenon DEF EwInv, Following
  <2>5. StreamTells(k)'
    BY <1>1, <2>2, <2>3, <2>4, LastOfTail DEF StreamTells
  <2>6. CASE NoneIn(ewStream.events, About(k))
    <3>1. e \notin About(k)
      BY <1>1, <2>1, <2>2, <2>6, LastOfTail, Zenon
    <3>2. ~ ewLagged' => QueueTells(k)
      BY <2>2, <2>3, <2>6, Zenon DEF EwInv, Following
    <3>3. ~ ewLagged' => QueueTells(k)'
      <4> SUFFICES ASSUME ~ ewLagged' PROVE QueueTells(k)'
        OBVIOUS
      <4>1. ewQueue' = Append(ewQueue, e) /\ QueueTells(k)
        BY <2>3, <3>2, Zenon
      <4>2. /\ NoneIn(ewQueue, About(k)) => NoneIn(ewQueue', About(k))
            /\ LastIn(ewQueue, About(k), Says(k, ewStore[k])) => LastIn(ewQueue', About(k), Says(k, ewStore[k]))
        BY <1>1, <2>2, <3>1, <4>1, LastOfAppend
      <4> QED BY <2>3, <4>1, <4>2, Zenon DEF QueueTells
    <3> QED BY <2>5, <3>3, Zenon
  <2>7. CASE ~NoneIn(ewStream.events, About(k)) /\ NoneIn(ewStream'.events, About(k))
    <3>1. e \in Says(k, ewStore[k])
      <4>1. LastIn(ewStream.events, About(k), Says(k, ewStore[k]))
        BY <2>4, <2>7, Zenon DEF StreamTells
      <4>2. ~LastIn(Tail(ewStream.events), About(k), Says(k, ewStore[k]))
        <5>1. Says(k, ewStore[k]) \subseteq About(k)
          BY Zenon DEF Says, About
        <5> QED BY <2>2, <2>7, <5>1, Zenon DEF LastIn, NoneIn
      <4> QED BY <1>1, <2>1, <2>2, <4>1, <4>2, LastOfTail, Zenon
    <3>2. ~ ewLagged' => LastIn(ewQueue', About(k), Says(k, ewStore[k]))
      <4> SUFFICES ASSUME ewQueue' = Append(ewQueue, e)
                   PROVE  LastIn(ewQueue', About(k), Says(k, ewStore[k]))
        BY <2>3, Zenon
      <4> QED BY <1>1, <2>2, <3>1, LastOfAppend
    <3> QED BY <2>3, <2>5, <3>2, Zenon DEF QueueTells
  <2> QED BY <2>5, <2>6, <2>7, Zenon
<1>8. ASSUME SubscriberReceives, EwLive', NEW k \in EwKeys
      PROVE  /\ StreamTells(k)'
             /\ (ewActor.pc = "run" /\ ~ ewLagged /\ NoneIn(ewStream.events, About(k)) => QueueTells(k))'
  <2>1. PICK e : e = Head(ewQueue)
    OBVIOUS
  <2>2. /\ ewQueue # <<>> /\ e \in EwEvents /\ ewQueue' = Tail(ewQueue)
        /\ UNCHANGED <<ewStore, ewStream, ewActor, ewLagged>>
    BY <1>1, <1>8, <2>1, HeadTailProperties, Zenon DEF SubscriberReceives
  <2>3. ewCopy' = IF "init" \in DOMAIN e THEN e.init ELSE [ewCopy EXCEPT ![e.key] = e.value]
    BY <1>8, <2>1, Zenon DEF SubscriberReceives
  <2>4. e \in Says(k, ewStore[k]) => ewCopy'[k] = ewStore[k]
    BY <1>0, <1>1, <2>2, <2>3, EventKinds DEF EwEvents, EwTypeOK
  <2>5. e \notin About(k) => ewCopy'[k] = ewCopy[k]
    BY <1>0, <1>1, <2>2, <2>3, EventKinds DEF EwEvents, EwTypeOK
  <2>6. QueueTells(k) => QueueTells(k)'
    BY <1>1, <2>1, <2>2, <2>4, <2>5, LastOfTail, Zenon DEF QueueTells
  <2> QED BY <1>8, <2>2, <2>6, Zenon DEF EwInv, Following, EwLive, StreamTells
<1>9. CASE UNCHANGED etcdWatchVars
  BY <1>9, Zenon DEF etcdWatchVars, EwInv, Following, EwLive, StreamTells, QueueTells
<1> QED BY <1>2, <1>3, <1>4, <1>5, <1>6, <1>7, <1>8, <1>9, Zenon DEF EtcdWatchNext, EwMaybe, Following

\* A subscriber of the watcher that misses no event has exactly what is in etcd as
\* soon as nothing is under way: no change falls between the scan and the stream,
\* and none is lost with a broken stream.
THEOREM WatchCatchesUp == EtcdWatchSpec => []CopyCatchesUp
<1>1. EtcdWatchInit => EwInv
  <2> SUFFICES ASSUME EtcdWatchInit PROVE EwInv
    OBVIOUS
  <2>1. ~ EwLive
    BY Zenon DEF EtcdWatchInit, EwLive, NoStream
  <2>2. <<>> \in Seq(EwPuts) /\ <<>> \in Seq(EwEvents) /\ 0 \in Nat
    BY EmptySeq, Zenon
  <2>3. EwTypeOK
    BY <2>2, Zenon DEF EtcdWatchInit, EwTypeOK, EwMaybe, NoStream
  <2> QED BY <2>1, <2>3, Zenon DEF EwInv, Following
<1>2. EwInv /\ [EtcdWatchNext]_etcdWatchVars => EwInv'
  BY WatchTypes, FollowingStep, Zenon DEF EwInv
<1>3. EwInv => CopyCatchesUp
  <2> SUFFICES ASSUME EwInv, ewActor.pc = "run", EwLive, ewStream.events = <<>>, ewQueue = <<>>, ~ ewLagged
               PROVE  ewCopy = ewStore
    BY Zenon DEF CopyCatchesUp, EwLive
  <2>1. \A k \in EwKeys : ewCopy[k] = ewStore[k]
    BY LastOfEmpty, Zenon DEF EwInv, Following, QueueTells
  <2> QED BY <2>1 DEF EwInv, EwTypeOK
<1> QED BY <1>1, <1>2, <1>3, PTL DEF EtcdWatchSpec

-----------------------------------------------------------------------------
(* The map of servers.  What is known of a server is in the map, in the     *)
(* stream, in the scan of the task or in will_disconnect; the times make    *)
(* the last disconnection of a server that is gone find it unseen.          *)

SdEvents == [id : SdIds, create : BOOLEAN]
SdOf(i) == {e \in SdEvents : e.id = i}
SdThat(i, create) == {e \in SdEvents : e.id = i /\ e.create = create}
LastIs(i, create) == LastIn(sdStream.events, SdOf(i), SdThat(i, create))

SdActors == [pc : {"loop", "scan", "scanned", "leave", "decide"}, id : SUBSET SdIds, scan : SUBSET SdIds]

SdTypeOK ==
    /\ sdEtcd \subseteq SdIds /\ sdMissed \subseteq SdIds /\ sdLost \subseteq SdIds /\ sdClock \in Nat
    /\ sdStream \in [broken : BOOLEAN, events : Seq(SdEvents)]
    /\ DOMAIN sdServers \subseteq SdIds
    /\ sdServers \in [DOMAIN sdServers -> {"run", "cancel", "ended"}]
    /\ DOMAIN sdSeen \subseteq SdIds /\ sdSeen \in [DOMAIN sdSeen -> Nat]
    /\ \A i \in DOMAIN sdSeen : sdSeen[i] < sdClock
    /\ sdLeave \in Seq([id : SdIds, at : Nat])
    /\ sdActor \in SdActors

\* The stream's last word about a server is true, or was until it broke.
EventsTrue(i) ==
    \/ NoneIn(sdStream.events, SdOf(i)) \/ LastIs(i, FALSE)
    \/ LastIs(i, TRUE) /\ i \in sdEtcd \cup sdLost

\* What has changed since the task scanned etcd is in the stream.
ScanTrue(i) ==
    /\ sdActor.pc \in {"scanned", "decide"} /\ i \in sdActor.scan \ (sdEtcd \cup sdLost) => LastIs(i, FALSE)
    /\ sdActor.pc = "decide" /\ i \in sdEtcd \ sdActor.scan => sdStream.broken \/ LastIs(i, TRUE)

Running(i) == i \in DOMAIN sdServers /\ sdServers[i] = "run"

KnownOrComing(i) ==
    i \in sdEtcd => \/ Running(i) \/ i \in sdMissed \/ sdStream.broken \/ LastIs(i, TRUE)
                    \/ sdActor.pc = "scan" \/ (sdActor.pc = "scanned" /\ i \in sdActor.scan)

Unseen(i, time) == i \in DOMAIN sdSeen => sdSeen[i] + SdDisconnect < time

InDelay(i) == \E n \in 1 .. Len(sdLeave) : sdLeave[n].id = i /\ Unseen(i, sdLeave[n].at)
InHand(i) == sdActor.pc \in {"leave", "decide"} /\ sdActor.id = {i} /\ Unseen(i, sdClock)
Leaving(i) == Running(i) /\ i \notin sdEtcd \cup sdLost => LastIs(i, FALSE) \/ InDelay(i) \/ InHand(i)

SdTrue(i) == EventsTrue(i) /\ ScanTrue(i) /\ KnownOrComing(i) /\ Leaving(i)

SdInv == SdTypeOK /\ \A i \in SdIds : SdTrue(i)

\* Servers seen now are recorded with this instant; update_last_seen forgets the
\* ones that were seen too long ago.
LEMMA SeenNow ==
  ASSUME SdTypeOK, NEW ids \in SUBSET SdIds,
         NEW seen, seen = Saw(ids) \/ seen = UpdateLastSeen(ids)
  PROVE  /\ DOMAIN seen \subseteq SdIds /\ seen \in [DOMAIN seen -> Nat]
         /\ \A j \in DOMAIN seen : seen[j] < sdClock + 1
         /\ \A j \in DOMAIN seen \ ids : j \in DOMAIN sdSeen /\ seen[j] = sdSeen[j]
         /\ \A j \in ids : j \in DOMAIN seen /\ seen[j] = sdClock
         /\ seen = UpdateLastSeen(ids) => \A j \in DOMAIN seen : sdClock - seen[j] <= SdDisconnect
<1> DEFINE all == Saw(ids)
<1>1. /\ DOMAIN all = DOMAIN sdSeen \cup ids
      /\ \A j \in ids : all[j] = sdClock
      /\ \A j \in DOMAIN all \ ids : all[j] = sdSeen[j]
  BY Zenon DEF Saw
<1>2. \A j \in DOMAIN all : all[j] \in Nat /\ all[j] < sdClock + 1
  <2> SUFFICES ASSUME NEW j \in DOMAIN all PROVE all[j] \in Nat /\ all[j] < sdClock + 1
    BY Zenon
  <2>1. CASE j \in ids
    BY <1>1, <2>1 DEF SdTypeOK
  <2>2. CASE j \notin ids
    <3>1. sdSeen[j] \in Nat /\ sdSeen[j] < sdClock /\ all[j] = sdSeen[j]
      BY <1>1, <2>2, Zenon DEF SdTypeOK
    <3> QED BY <3>1 DEF SdTypeOK
  <2> QED BY <2>1, <2>2, Zenon
<1>3. \A j \in ids : sdClock - all[j] <= SdDisconnect
  BY <1>1, ServiceAssumption DEF SdTypeOK
<1>4. all \in [DOMAIN all -> Nat] /\ DOMAIN all \subseteq SdIds
  BY <1>1, <1>2, Zenon DEF SdTypeOK, Saw
<1>5. CASE seen = UpdateLastSeen(ids)
  <2>0. PICK S : S = {j \in DOMAIN all : sdClock - all[j] <= SdDisconnect} /\ seen = [j \in S |-> all[j]]
    BY <1>5 DEF UpdateLastSeen
  <2> HIDE DEF all
  <2>1. DOMAIN seen = S /\ (\A j \in S : seen[j] = all[j]) /\ S \subseteq DOMAIN all
    BY <2>0, Zenon
  <2>2. seen \in [DOMAIN seen -> Nat]
    BY <1>2, <2>0, <2>1, Zenon
  <2>3. \A j \in ids : j \in DOMAIN seen /\ seen[j] = sdClock
    BY <1>1, <1>3, <2>0, <2>1, Zenon
  <2> QED BY <1>1, <1>2, <1>4, <2>0, <2>1, <2>2, <2>3, Zenon
<1>6. CASE seen = Saw(ids) /\ seen # UpdateLastSeen(ids)
  BY <1>1, <1>2, <1>4, <1>6, Zenon
<1> QED BY <1>5, <1>6, Zenon

\* connect_impl.
LEMMA ConnectKeeps ==
  ASSUME SdTypeOK, NEW ids \in SUBSET SdIds, Connect(ids)
  PROVE  /\ DOMAIN sdServers' \subseteq SdIds /\ sdMissed' \subseteq SdIds
         /\ sdServers' \in [DOMAIN sdServers' -> {"run", "cancel", "ended"}]
         /\ \A j \in SdIds : Running(j) => Running(j)'
         /\ \A j \in ids : Running(j)' \/ j \in sdMissed'
         /\ \A j \in SdIds \ ids : Running(j)' => Running(j)
         /\ \A j \in sdMissed : j \in sdMissed' \/ Running(j)'
<1>1. /\ DOMAIN sdServers' = DOMAIN sdServers \cup ids
      /\ \A j \in DOMAIN sdServers : sdServers'[j] = sdServers[j]
      /\ \A j \in ids \ DOMAIN sdServers : sdServers'[j] = "run"
      /\ sdServers' = [j \in DOMAIN sdServers' |-> sdServers'[j]]
  BY Zenon DEF Connect
<1>2. sdServers' \in [DOMAIN sdServers' -> {"run", "cancel", "ended"}]
  BY <1>1, Zenon DEF SdTypeOK
<1>3. DOMAIN sdServers' \subseteq SdIds /\ sdMissed' \subseteq SdIds
  BY <1>1, Zenon DEF SdTypeOK, Connect
<1> QED BY <1>1, <1>2, <1>3, Zenon DEF SdTypeOK, Connect, Running

\* Every step of the task and of its surroundings keeps the types.
LEMMA SdTypes == SdTypeOK /\ [ServiceNext]_serviceVars => SdTypeOK'
<1> SUFFICES ASSUME SdTypeOK, [ServiceNext]_serviceVars PROVE SdTypeOK'
  OBVIOUS
<1>0. /\ sdActor.pc \in {"loop", "scan", "scanned", "leave", "decide"}
      /\ sdActor.id \in SUBSET SdIds /\ sdActor.scan \in SUBSET SdIds
      /\ sdStream.events \in Seq(SdEvents) /\ sdStream.broken \in BOOLEAN
      /\ SdIdle \in SdActors /\ sdClock + 1 \in Nat /\ sdClock + SdDisconnect \in Nat
  <2>1. sdClock + 1 \in Nat /\ sdClock + SdDisconnect \in Nat
    BY ServiceAssumption DEF SdTypeOK
  <2> QED BY <2>1, Zenon DEF SdTypeOK, SdActors, SdIdle
<1>1. \A j \in DOMAIN sdSeen : sdSeen[j] < sdClock + 1
  <2> SUFFICES ASSUME NEW j \in DOMAIN sdSeen PROVE sdSeen[j] < sdClock + 1
    BY Zenon
  <2>1. sdSeen[j] \in Nat /\ sdSeen[j] < sdClock /\ sdClock \in Nat
    BY Zenon DEF SdTypeOK
  <2> QED BY <2>1
<1>2. CASE SdTick
  BY <1>0, <1>1, <1>2, Zenon DEF SdTick, SdTypeOK
<1>3. CASE SubscriberBreaks
  <2>1. sdStream' \in [broken : BOOLEAN, events : Seq(SdEvents)]
    BY <1>0, <1>3, Zenon DEF SubscriberBreaks, SdTypeOK
  <2> QED BY <1>3, <2>1, Zenon DEF SubscriberBreaks, SdTypeOK
<1>4. CASE HandleEvent
  <2>1. PICK e : e = Head(sdStream.events)
    OBVIOUS
  <2>2. sdStream.events # <<>> /\ e \in SdEvents /\ Tail(sdStream.events) \in Seq(SdEvents)
    BY <1>0, <1>4, <2>1, HeadTailProperties, Zenon DEF HandleEvent
  <2>3. sdStream' \in [broken : BOOLEAN, events : Seq(SdEvents)]
    BY <1>0, <1>4, <2>2, Zenon DEF HandleEvent, SdTypeOK
  <2>4. e.id \in SdIds /\ {e.id} \in SUBSET SdIds
    BY <2>2, Zenon DEF SdEvents
  <2>5. CASE e.create
    <3>1. Connect({e.id}) /\ sdSeen' = Saw({e.id}) /\ sdLeave' = sdLeave /\ sdClock' = sdClock + 1
      BY <1>4, <2>1, <2>5, Zenon DEF HandleEvent
    <3>2. /\ DOMAIN sdServers' \subseteq SdIds /\ sdMissed' \subseteq SdIds
          /\ sdServers' \in [DOMAIN sdServers' -> {"run", "cancel", "ended"}]
      BY <2>4, <3>1, ConnectKeeps, Zenon
    <3>3. /\ DOMAIN sdSeen' \subseteq SdIds /\ sdSeen' \in [DOMAIN sdSeen' -> Nat]
          /\ \A j \in DOMAIN sdSeen' : sdSeen'[j] < sdClock'
      BY <2>4, <3>1, SeenNow
    <3> QED BY <1>0, <1>4, <2>3, <3>1, <3>2, <3>3, Zenon DEF HandleEvent, SdTypeOK
  <2>6. CASE ~ e.create
    <3>1. sdLeave' = Append(sdLeave, [id |-> e.id, at |-> LeaveAt]) /\ sdClock' = sdClock + 1
      BY <1>4, <2>1, <2>6, Zenon DEF HandleEvent
    <3>2. [id |-> e.id, at |-> LeaveAt] \in [id : SdIds, at : Nat]
      BY <1>0, <2>4, Zenon DEF LeaveAt
    <3>3. sdLeave' \in Seq([id : SdIds, at : Nat])
      BY <3>1, <3>2, AppendProperties, Zenon DEF SdTypeOK
    <3>4. UNCHANGED <<sdSeen, sdServers, sdMissed>>
      BY <1>4, <2>1, <2>6, Zenon DEF HandleEvent
    <3> QED BY <1>0, <1>1, <1>4, <2>3, <3>1, <3>3, <3>4, Zenon DEF HandleEvent, SdTypeOK
  <2> QED BY <2>5, <2>6, Zenon
<1>5. CASE Resubscribe
  <2>1. sdActor' \in SdActors
    BY <1>0, <1>5, Zenon DEF Resubscribe, SdTypeOK, SdActors
  <2>2. sdStream' \in [broken : BOOLEAN, events : Seq(SdEvents)]
    BY <1>5, EmptySeq, Zenon DEF Resubscribe
  <2> QED BY <1>5, <2>1, <2>2, Zenon DEF Resubscribe, SdTypeOK
<1>6. CASE ReinitScan
  <2>1. sdActor' \in SdActors
    BY <1>0, <1>6, Zenon DEF ReinitScan, SdTypeOK, SdActors
  <2> QED BY <1>6, <2>1, Zenon DEF ReinitScan, SdTypeOK
<1>7. CASE ReinitConnect
  <2>1. /\ Connect(sdActor.scan) /\ sdSeen' = UpdateLastSeen(sdActor.scan)
        /\ sdClock' = sdClock + 1 /\ sdActor' = SdIdle
    BY <1>7, Zenon DEF ReinitConnect
  <2>2. /\ DOMAIN sdServers' \subseteq SdIds /\ sdMissed' \subseteq SdIds
        /\ sdServers' \in [DOMAIN sdServers' -> {"run", "cancel", "ended"}]
    BY <1>0, <2>1, ConnectKeeps, Zenon
  <2>3. /\ DOMAIN sdSeen' \subseteq SdIds /\ sdSeen' \in [DOMAIN sdSeen' -> Nat]
        /\ \A j \in DOMAIN sdSeen' : sdSeen'[j] < sdClock'
    BY <1>0, <2>1, SeenNow
  <2> QED BY <1>0, <1>7, <2>1, <2>2, <2>3, Zenon DEF ReinitConnect, SdTypeOK
<1>8. CASE PopLeave
  <2>1. Head(sdLeave) \in [id : SdIds, at : Nat] /\ Tail(sdLeave) \in Seq([id : SdIds, at : Nat])
    BY <1>8, HeadTailProperties, Zenon DEF PopLeave, SdTypeOK
  <2>2. sdActor' \in SdActors
    BY <1>8, <2>1, Zenon DEF PopLeave, SdActors
  <2> QED BY <1>8, <2>1, <2>2, Zenon DEF PopLeave, SdTypeOK
<1>9. CASE LeaveScan
  <2>1. sdActor' \in SdActors
    BY <1>0, <1>9, Zenon DEF LeaveScan, SdTypeOK, SdActors
  <2> QED BY <1>9, <2>1, Zenon DEF LeaveScan, SdTypeOK
<1>10. CASE Disconnect
  <2>1. /\ sdSeen' = UpdateLastSeen(sdActor.scan) /\ sdClock' = sdClock + 1 /\ sdActor' = SdIdle
        /\ \E i \in sdActor.id : sdServers' = [sdServers EXCEPT ![i] = "cancel"] \/ sdServers' = sdServers
    BY <1>10, Zenon DEF Disconnect
  <2>2. /\ DOMAIN sdServers' \subseteq SdIds
        /\ sdServers' \in [DOMAIN sdServers' -> {"run", "cancel", "ended"}]
    BY <2>1, Zenon DEF SdTypeOK
  <2>3. /\ DOMAIN sdSeen' \subseteq SdIds /\ sdSeen' \in [DOMAIN sdSeen' -> Nat]
        /\ \A j \in DOMAIN sdSeen' : sdSeen'[j] < sdClock'
    BY <1>0, <2>1, SeenNow
  <2> QED BY <1>0, <1>10, <2>1, <2>2, <2>3, Zenon DEF Disconnect, SdTypeOK
<1>11. ASSUME NEW i \in SdIds, Registers(i) PROVE SdTypeOK'
  <2>1. [id |-> i, create |-> i \notin sdEtcd] \in SdEvents
    BY Zenon DEF SdEvents
  <2>2. Append(sdStream.events, [id |-> i, create |-> i \notin sdEtcd]) \in Seq(SdEvents)
    BY <1>0, <2>1, AppendProperties, Zenon
  <2>3. sdStream' \in [broken : BOOLEAN, events : Seq(SdEvents)]
    BY <1>0, <1>11, <2>2, Zenon DEF Registers, SdTypeOK
  <2> QED BY <1>11, <2>3, Zenon DEF Registers, SdTypeOK
<1>12. ASSUME NEW i \in DOMAIN sdServers, ClientEnds(i) PROVE SdTypeOK'
  <2>1. DOMAIN sdServers' = DOMAIN sdServers /\ sdServers' \in [DOMAIN sdServers -> {"run", "cancel", "ended"}]
    <3>1. sdServers' = [sdServers EXCEPT ![i] = "ended"]
      BY <1>12, Zenon DEF ClientEnds
    <3> QED BY <3>1, Zenon DEF SdTypeOK
  <2>2. sdMissed' \subseteq SdIds
    <3>1. sdMissed' = sdMissed \/ sdMissed' = sdMissed \cup {i}
      BY <1>12, Zenon DEF ClientEnds
    <3> QED BY <3>1, Zenon DEF SdTypeOK
  <2> QED BY <1>12, <2>1, <2>2, Zenon DEF ClientEnds, SdTypeOK
<1>13. ASSUME NEW i \in DOMAIN sdServers, HandleTask(i) PROVE SdTypeOK'
  <2>1. DOMAIN sdServers' \subseteq SdIds /\ sdServers' \in [DOMAIN sdServers' -> {"run", "cancel", "ended"}]
    BY <1>13, Zenon DEF HandleTask, SdTypeOK
  <2> QED BY <1>13, <2>1, Zenon DEF HandleTask, SdTypeOK
<1>14. CASE UNCHANGED serviceVars
  BY <1>14, Zenon DEF serviceVars, SdTypeOK
<1> QED BY <1>2, <1>3, <1>4, <1>5, <1>6, <1>7, <1>8, <1>9, <1>10, <1>11, <1>12, <1>13, <1>14, Zenon DEF ServiceNext

\* What the stream says of a server stays when an event of another comes or goes.
LEMMA EventsOfOthers ==
  ASSUME SdTypeOK, NEW i \in SdIds, NEW e \in SdEvents, e.id # i,
         \/ sdStream'.events = Append(sdStream.events, e)
         \/ sdStream.events # <<>> /\ e = Head(sdStream.events) /\ sdStream'.events = Tail(sdStream.events)
  PROVE  /\ LastIs(i, TRUE) => LastIs(i, TRUE)'
         /\ LastIs(i, FALSE) => LastIs(i, FALSE)'
         /\ NoneIn(sdStream.events, SdOf(i)) => NoneIn(sdStream'.events, SdOf(i))
<1>1. e \notin SdOf(i) /\ (\A c \in BOOLEAN : e \notin SdThat(i, c)) /\ sdStream.events \in Seq(SdEvents)
  BY Zenon DEF SdOf, SdThat, SdTypeOK
<1>2. PICK s : s = sdStream.events
  OBVIOUS
<1>3. PICK t : t = sdStream'.events
  OBVIOUS
<1>4. \A c \in BOOLEAN : LastIn(s, SdOf(i), SdThat(i, c)) => LastIn(t, SdOf(i), SdThat(i, c))
  <2> SUFFICES ASSUME NEW c \in BOOLEAN, LastIn(s, SdOf(i), SdThat(i, c))
               PROVE  LastIn(t, SdOf(i), SdThat(i, c))
    BY Zenon
  <2>1. CASE t = Append(s, e)
    BY <1>1, <1>2, <2>1, LastOfAppend
  <2>2. CASE s # <<>> /\ e = Head(s) /\ t = Tail(s)
    BY <1>1, <1>2, <2>2, LastOfTail
  <2> QED BY <1>2, <1>3, <2>1, <2>2, Zenon
<1>5. NoneIn(s, SdOf(i)) => NoneIn(t, SdOf(i))
  <2> SUFFICES ASSUME NoneIn(s, SdOf(i)) PROVE NoneIn(t, SdOf(i))
    OBVIOUS
  <2>1. CASE t = Append(s, e)
    BY <1>1, <1>2, <2>1, LastOfAppend, Zenon
  <2>2. CASE s # <<>> /\ e = Head(s) /\ t = Tail(s)
    BY <1>1, <1>2, <2>2, LastOfTail, Zenon
  <2> QED BY <1>2, <1>3, <2>1, <2>2, Zenon
<1>6. \A c \in BOOLEAN : LastIs(i, c) <=> LastIn(s, SdOf(i), SdThat(i, c))
  BY <1>2, Zenon DEF LastIs
<1>7. /\ LastIs(i, TRUE)' <=> LastIn(t, SdOf(i), SdThat(i, TRUE))
      /\ LastIs(i, FALSE)' <=> LastIn(t, SdOf(i), SdThat(i, FALSE))
  BY <1>3, Zenon DEF LastIs, SdOf, SdThat, SdEvents
<1> QED BY <1>2, <1>3, <1>4, <1>5, <1>6, <1>7, Zenon

\* The first event of a server is handled: what the stream says last of it comes
\* later, or was that event.
LEMMA EventOfServer ==
  ASSUME SdTypeOK, NEW i \in SdIds, sdStream.events # <<>>,
         NEW e \in SdEvents, e = Head(sdStream.events), e.id = i,
         sdStream'.events = Tail(sdStream.events)
  PROVE  /\ ~ NoneIn(sdStream.events, SdOf(i))
         /\ LastIs(i, TRUE) /\ ~ e.create => LastIs(i, TRUE)'
         /\ LastIs(i, FALSE) /\ e.create => LastIs(i, FALSE)'
         /\ LastIs(i, TRUE) => LastIs(i, TRUE)' \/ NoneIn(sdStream'.events, SdOf(i))
         /\ LastIs(i, FALSE) => LastIs(i, FALSE)' \/ NoneIn(sdStream'.events, SdOf(i))
<1>1. e \in SdOf(i) /\ sdStream.events \in Seq(SdEvents)
  BY Zenon DEF SdOf, SdTypeOK
<1>2. (e.create => e \notin SdThat(i, FALSE)) /\ (~ e.create => e \notin SdThat(i, TRUE))
  BY Zenon DEF SdThat
<1>3. ~ NoneIn(sdStream.events, SdOf(i))
  BY <1>1, LastOfTail, Zenon
<1>4. \A c \in BOOLEAN : LastIn(sdStream.events, SdOf(i), SdThat(i, c)) =>
          \/ LastIn(Tail(sdStream.events), SdOf(i), SdThat(i, c))
          \/ NoneIn(Tail(sdStream.events), SdOf(i)) /\ e \in SdThat(i, c)
  <2> SUFFICES ASSUME NEW c \in BOOLEAN, LastIn(sdStream.events, SdOf(i), SdThat(i, c))
               PROVE  \/ LastIn(Tail(sdStream.events), SdOf(i), SdThat(i, c))
                      \/ NoneIn(Tail(sdStream.events), SdOf(i)) /\ e \in SdThat(i, c)
    BY Zenon
  <2> QED BY <1>1, LastOfTail
<1>5. /\ LastIs(i, TRUE)' <=> LastIn(Tail(sdStream.events), SdOf(i), SdThat(i, TRUE))
      /\ LastIs(i, FALSE)' <=> LastIn(Tail(sdStream.events), SdOf(i), SdThat(i, FALSE))
  BY Zenon DEF LastIs, SdOf, SdThat, SdEvents
<1> QED BY <1>2, <1>3, <1>4, <1>5, Zenon DEF LastIs

\* A disconnection that is waiting stays ahead of the last time its server was seen,
\* as long as it is not seen again.
LEMMA DelayKept ==
  ASSUME SdTypeOK, NEW i \in SdIds, InDelay(i),
         i \in DOMAIN sdSeen' => i \in DOMAIN sdSeen /\ sdSeen'[i] = sdSeen[i],
         \/ sdLeave' = sdLeave
         \/ \E e \in [id : SdIds, at : Nat] : sdLeave' = Append(sdLeave, e)
  PROVE  InDelay(i)'
<1>1. PICK n \in 1 .. Len(sdLeave) : sdLeave[n].id = i /\ Unseen(i, sdLeave[n].at)
  BY Zenon DEF InDelay
<1>2. CASE sdLeave' = sdLeave
  BY <1>1, <1>2, Zenon DEF InDelay, Unseen
<1>3. ASSUME NEW e \in [id : SdIds, at : Nat], sdLeave' = Append(sdLeave, e) PROVE InDelay(i)'
  <2>1. n \in 1 .. Len(sdLeave') /\ sdLeave'[n] = sdLeave[n]
    BY <1>1, <1>3, AppendProperties, LenProperties DEF SdTypeOK
  <2> QED BY <1>1, <2>1, Zenon DEF InDelay, Unseen
<1> QED BY <1>2, <1>3, Zenon

\* handle_subscriber_event keeps what is known of every server.
LEMMA HandleEventKeeps ==
  ASSUME SdTypeOK, HandleEvent, NEW i \in SdIds, SdTrue(i)
  PROVE  SdTrue(i)'
<1>1. PICK e : e = Head(sdStream.events)
  OBVIOUS
<1>2. /\ sdStream.events # <<>> /\ e \in SdEvents /\ sdStream'.events = Tail(sdStream.events)
      /\ sdStream'.broken = sdStream.broken
      /\ sdActor.pc = "loop" /\ UNCHANGED <<sdEtcd, sdActor, sdLost>>
  <2>1. sdStream.events \in Seq(SdEvents) /\ sdStream.events # <<>>
    BY Zenon DEF SdTypeOK, HandleEvent
  <2>2. e \in SdEvents
    BY <1>1, <2>1, HeadTailProperties, Zenon
  <2> QED BY <2>1, <2>2, Zenon DEF SdTypeOK, HandleEvent
<1>3. e.id \in SdIds /\ {e.id} \in SUBSET SdIds /\ e.create \in BOOLEAN
  BY <1>2, Zenon DEF SdEvents
<1>4. e.create => /\ Connect({e.id}) /\ sdSeen' = Saw({e.id}) /\ sdLeave' = sdLeave
  BY <1>1, Zenon DEF HandleEvent
<1>5. ~ e.create => /\ sdLeave' = Append(sdLeave, [id |-> e.id, at |-> LeaveAt])
                    /\ UNCHANGED <<sdSeen, sdServers, sdMissed>>
  BY <1>1, Zenon DEF HandleEvent
<1>6. ~ InHand(i) /\ ScanTrue(i)' /\ sdActor.pc \notin {"scan", "scanned"}
  BY <1>2, Zenon DEF InHand, ScanTrue
<1>7. LeaveAt \in Nat /\ [id |-> e.id, at |-> LeaveAt] \in [id : SdIds, at : Nat]
  <2>1. LeaveAt \in Nat
    BY ServiceAssumption DEF LeaveAt, SdTypeOK
  <2> QED BY <1>3, <2>1, Zenon
<1>8. CASE e.id # i
  <2>1. /\ LastIs(i, TRUE) => LastIs(i, TRUE)'
        /\ LastIs(i, FALSE) => LastIs(i, FALSE)'
        /\ NoneIn(sdStream.events, SdOf(i)) => NoneIn(sdStream'.events, SdOf(i))
    BY <1>1, <1>2, <1>8, EventsOfOthers, Zenon
  <2>2. /\ Running(i) <=> Running(i)'
        /\ i \in sdMissed => i \in sdMissed' \/ Running(i)'
    <3>1. CASE e.create
      BY <1>3, <1>4, <1>8, <3>1, ConnectKeeps, Zenon
    <3>2. CASE ~ e.create
      BY <1>5, <3>2, Zenon DEF Running
    <3> QED BY <3>1, <3>2, Zenon
  <2>3. InDelay(i) => InDelay(i)'
    <3>1. i \in DOMAIN sdSeen' => i \in DOMAIN sdSeen /\ sdSeen'[i] = sdSeen[i]
      BY <1>4, <1>5, <1>8, Zenon DEF Saw
    <3> QED BY <1>4, <1>5, <1>7, <3>1, DelayKept, Zenon
  <2>4. EventsTrue(i)'
    BY <1>2, <2>1, Zenon DEF SdTrue, EventsTrue
  <2>5. KnownOrComing(i)'
    BY <1>2, <1>6, <2>1, <2>2, Zenon DEF SdTrue, KnownOrComing
  <2>6. Leaving(i)'
    BY <1>2, <1>6, <2>1, <2>2, <2>3, Zenon DEF SdTrue, Leaving
  <2> QED BY <1>6, <2>4, <2>5, <2>6, Zenon DEF SdTrue
<1>9. CASE e.id = i
  <2>1. /\ ~ NoneIn(sdStream.events, SdOf(i))
        /\ LastIs(i, TRUE) /\ ~ e.create => LastIs(i, TRUE)'
        /\ LastIs(i, FALSE) /\ e.create => LastIs(i, FALSE)'
        /\ LastIs(i, TRUE) => LastIs(i, TRUE)' \/ NoneIn(sdStream'.events, SdOf(i))
        /\ LastIs(i, FALSE) => LastIs(i, FALSE)' \/ NoneIn(sdStream'.events, SdOf(i))
    BY <1>1, <1>2, <1>9, EventOfServer, Zenon
  <2>2. EventsTrue(i)'
    BY <1>2, <2>1, Zenon DEF SdTrue, EventsTrue
  <2>3. CASE e.create
    <3>1. Running(i)' \/ i \in sdMissed'
      BY <1>3, <1>4, <1>9, <2>3, ConnectKeeps, Zenon
    <3>2. KnownOrComing(i)'
      BY <3>1, Zenon DEF KnownOrComing
    <3>3. Leaving(i)'
      BY <1>2, <2>1, <2>3, Zenon DEF SdTrue, EventsTrue, Leaving
    <3> QED BY <1>6, <2>2, <3>2, <3>3, Zenon DEF SdTrue
  <2>4. CASE ~ e.create
    <3>1. KnownOrComing(i)'
      BY <1>2, <1>5, <1>6, <2>1, <2>4, Zenon DEF SdTrue, KnownOrComing, Running
    <3>2. i \in DOMAIN sdSeen => sdSeen[i] + SdDisconnect < LeaveAt
      <4> SUFFICES ASSUME i \in DOMAIN sdSeen PROVE sdSeen[i] + SdDisconnect < LeaveAt
        OBVIOUS
      <4>1. sdSeen[i] \in Nat /\ sdSeen[i] < sdClock /\ sdClock \in Nat
        BY Zenon DEF SdTypeOK
      <4> QED BY <4>1, ServiceAssumption DEF LeaveAt
    <3>3. PICK n : n = Len(sdLeave) + 1
      OBVIOUS
    <3>0. PICK r : r = [id |-> e.id, at |-> LeaveAt]
      BY Zenon
    <3>4. n \in 1 .. Len(sdLeave') /\ sdLeave'[n] = r
      BY <1>5, <1>7, <2>4, <3>0, <3>3, AppendProperties, LenProperties DEF SdTypeOK
    <3>5. sdLeave'[n].id = i /\ sdLeave'[n].at = LeaveAt /\ sdSeen' = sdSeen
      <4>1. r.id = e.id /\ r.at = LeaveAt
        BY <3>0, Zenon
      <4> QED BY <1>5, <1>9, <2>4, <3>4, <4>1, Zenon
    <3>6. InDelay(i)'
      BY <3>2, <3>4, <3>5, Zenon DEF InDelay, Unseen
    <3> QED BY <1>6, <2>2, <3>1, <3>6, Zenon DEF SdTrue, Leaving
  <2> QED BY <2>3, <2>4, Zenon
<1> QED BY <1>8, <1>9, Zenon

\* Leaving: the scan made before a server is disconnected.
LEMMA DisconnectKeeps ==
  ASSUME SdTypeOK, Disconnect, NEW i \in SdIds, SdTrue(i)
  PROVE  SdTrue(i)'
<1>1. sdActor.scan \in SUBSET SdIds /\ sdActor.id \in SUBSET SdIds
  BY Zenon DEF SdTypeOK, SdActors
<1>2. PICK seen : seen = UpdateLastSeen(sdActor.scan)
  OBVIOUS
<1>3. PICK d \in sdActor.id :
        sdServers' = IF /\ d \notin DOMAIN seen \/ sdClock - seen[d] > SdDisconnect
                        /\ d \in DOMAIN sdServers /\ sdServers[d] = "run"
                     THEN [sdServers EXCEPT ![d] = "cancel"] ELSE sdServers
  BY <1>2, Zenon DEF Disconnect
<1>4. /\ sdSeen' = seen /\ sdActor.pc = "decide" /\ sdActor' = SdIdle
      /\ UNCHANGED <<sdEtcd, sdStream, sdLeave, sdMissed, sdLost>>
  BY <1>2, Zenon DEF Disconnect
<1>5. /\ \A j \in DOMAIN seen \ sdActor.scan : j \in DOMAIN sdSeen /\ seen[j] = sdSeen[j]
      /\ \A j \in sdActor.scan : j \in DOMAIN seen /\ seen[j] = sdClock
      /\ \A j \in DOMAIN seen : sdClock - seen[j] <= SdDisconnect
  BY <1>1, <1>2, SeenNow
<1>6. /\ Running(i)' => Running(i)
      /\ Running(i) /\ ~ Running(i)' => i = d /\ (d \notin DOMAIN seen \/ sdClock - seen[d] > SdDisconnect)
      /\ i = d /\ d \notin DOMAIN seen => ~ Running(i)'
  BY <1>3, Zenon DEF Running, SdTypeOK
<1>7. i \in sdActor.scan /\ Running(i) => Running(i)'
  <2> SUFFICES ASSUME i \in sdActor.scan, Running(i), ~ Running(i)' PROVE FALSE
    BY Zenon
  <2>1. sdClock - seen[i] > SdDisconnect /\ seen[i] = sdClock /\ sdClock \in Nat
    BY <1>5, <1>6, Zenon DEF SdTypeOK
  <2> QED BY <2>1, ServiceAssumption
<1>8. sdActor'.pc = "loop"
  BY <1>4, Zenon DEF SdIdle
<1>9. EventsTrue(i)' /\ ScanTrue(i)'
  BY <1>4, <1>8, Zenon DEF SdTrue, EventsTrue, ScanTrue, LastIs
<1>10. KnownOrComing(i)'
  <2> SUFFICES ASSUME i \in sdEtcd PROVE Running(i)' \/ i \in sdMissed \/ sdStream.broken \/ LastIs(i, TRUE)
    BY <1>4, Zenon DEF KnownOrComing, LastIs
  <2> QED BY <1>4, <1>7, Zenon DEF SdTrue, KnownOrComing, ScanTrue
<1>11. Leaving(i)'
  <2> SUFFICES ASSUME Running(i)', i \notin sdEtcd \cup sdLost PROVE LastIs(i, FALSE) \/ InDelay(i)'
    BY <1>4, Zenon DEF Leaving, LastIs
  <2>1. CASE i \in sdActor.scan
    BY <1>4, <2>1, Zenon DEF SdTrue, ScanTrue
  <2>2. CASE i \notin sdActor.scan
    <3>1. InDelay(i) => InDelay(i)'
      BY <1>4, <1>5, <2>2, DelayKept, Zenon
    <3>2. ~ InHand(i)
      <4> SUFFICES ASSUME InHand(i) PROVE FALSE
        OBVIOUS
      <4>1. i = d
        BY <1>3, Zenon DEF InHand
      <4>2. i \in DOMAIN seen
        BY <1>6, <4>1, Zenon
      <4>3. sdSeen[i] \in Nat /\ sdClock \in Nat /\ sdClock - sdSeen[i] <= SdDisconnect
        BY <1>5, <2>2, <4>2, Zenon DEF SdTypeOK
      <4>4. sdSeen[i] + SdDisconnect < sdClock
        BY <1>5, <2>2, <4>2, Zenon DEF InHand, Unseen
      <4> QED BY <4>3, <4>4, ServiceAssumption
    <3> QED BY <1>6, <3>1, <3>2, Zenon DEF SdTrue, Leaving
  <2> QED BY <2>1, <2>2, Zenon
<1> QED BY <1>9, <1>10, <1>11, Zenon DEF SdTrue

\* One step of anyone keeps what is known of a server.
LEMMA SdStep ==
  ASSUME SdTypeOK, [ServiceNext]_serviceVars, NEW i \in SdIds, SdTrue(i)
  PROVE  SdTrue(i)'
<1> USE DEF SdTrue
<1>0. sdStream \in [broken : BOOLEAN, events : Seq(SdEvents)] /\ sdStream.events \in Seq(SdEvents)
  BY Zenon DEF SdTypeOK
<1>1. CASE SdTick
  <2>1. InHand(i) => InHand(i)'
    <3> SUFFICES ASSUME InHand(i) PROVE InHand(i)'
      OBVIOUS
    <3>1. Unseen(i, sdClock) /\ sdClock' = sdClock + 1 /\ sdSeen' = sdSeen /\ sdActor' = sdActor
      BY <1>1, Zenon DEF SdTick, InHand
    <3>2. i \in DOMAIN sdSeen => sdSeen[i] \in Nat
      BY Zenon DEF SdTypeOK
    <3>3. i \in DOMAIN sdSeen => sdSeen[i] + SdDisconnect < sdClock'
      BY <3>1, <3>2, ServiceAssumption DEF SdTypeOK, Unseen
    <3> QED BY <3>1, <3>3, Zenon DEF InHand, Unseen
  <2> QED BY <1>1, <2>1, Zenon DEF SdTick, EventsTrue, ScanTrue, KnownOrComing, Leaving, LastIs, InDelay, Unseen, Running
<1>2. CASE SubscriberBreaks
  <2>1. sdStream'.events = sdStream.events /\ sdStream'.broken
    BY <1>0, <1>2, Zenon DEF SubscriberBreaks
  <2> QED BY <1>2, <2>1, Zenon
          DEF SubscriberBreaks, EventsTrue, ScanTrue, KnownOrComing, Leaving, LastIs, InDelay, InHand, Unseen, Running
<1>3. CASE HandleEvent
  BY <1>3, HandleEventKeeps, Zenon
<1>4. CASE Resubscribe
  <2>1. /\ sdStream.events = <<>> /\ sdStream'.events = <<>> /\ sdActor'.pc = "scan" /\ sdActor.pc = "loop"
        /\ UNCHANGED <<sdEtcd, sdServers, sdSeen, sdLeave, sdClock, sdMissed, sdLost>>
    BY <1>4, Zenon DEF Resubscribe, SdTypeOK, SdActors
  <2>2. EventsTrue(i)'
    BY <2>1, LastOfEmpty, Zenon DEF EventsTrue
  <2>3. ~ LastIs(i, FALSE)
    BY <2>1, LastOfEmpty, Zenon DEF LastIs
  <2> QED BY <2>1, <2>2, <2>3, Zenon DEF ScanTrue, KnownOrComing, Leaving, InDelay, InHand, Unseen, Running
<1>5. CASE ReinitScan
  <2>1. /\ sdActor'.pc = "scanned" /\ sdActor.pc = "scan" /\ sdActor'.scan = sdEtcd
        /\ UNCHANGED <<sdEtcd, sdStream, sdServers, sdSeen, sdLeave, sdClock, sdMissed, sdLost>>
    BY <1>5, Zenon DEF ReinitScan, SdTypeOK, SdActors
  <2> QED BY <2>1, Zenon DEF EventsTrue, ScanTrue, KnownOrComing, Leaving, LastIs, InDelay, InHand, Unseen, Running
<1>6. CASE ReinitConnect
  <2>1. /\ Connect(sdActor.scan) /\ sdSeen' = UpdateLastSeen(sdActor.scan) /\ sdActor'.pc = "loop"
        /\ sdActor.pc = "scanned" /\ UNCHANGED <<sdEtcd, sdStream, sdLeave, sdLost>>
    BY <1>6, Zenon DEF ReinitConnect, SdIdle
  <2>2. sdActor.scan \in SUBSET SdIds
    BY Zenon DEF SdTypeOK, SdActors
  <2>3. /\ Running(i) => Running(i)'
        /\ i \in sdActor.scan => Running(i)' \/ i \in sdMissed'
        /\ i \notin sdActor.scan /\ Running(i)' => Running(i)
        /\ i \in sdMissed => i \in sdMissed' \/ Running(i)'
    BY <2>1, <2>2, ConnectKeeps, Zenon
  <2>4. i \in DOMAIN sdSeen' /\ i \notin sdActor.scan => i \in DOMAIN sdSeen /\ sdSeen'[i] = sdSeen[i]
    BY <2>1, <2>2, SeenNow
  <2>5. i \notin sdActor.scan /\ InDelay(i) => InDelay(i)'
    BY <2>1, <2>4, DelayKept, Zenon
  <2>6. EventsTrue(i)' /\ ScanTrue(i)'
    BY <2>1, Zenon DEF EventsTrue, ScanTrue, LastIs
  <2>7. KnownOrComing(i)'
    BY <2>1, <2>3, Zenon DEF KnownOrComing, LastIs
  <2>8. Leaving(i)'
    BY <2>1, <2>3, <2>5, Zenon DEF Leaving, ScanTrue, LastIs, InHand
  <2> QED BY <2>6, <2>7, <2>8, Zenon
<1>7. CASE PopLeave
  <2>1. PICK e : e = Head(sdLeave)
    OBVIOUS
  <2>2. /\ sdLeave # <<>> /\ sdLeave' = Tail(sdLeave) /\ e.at <= sdClock /\ sdActor.pc = "loop"
        /\ sdActor'.pc = "leave" /\ sdActor'.id = {e.id}
        /\ UNCHANGED <<sdEtcd, sdStream, sdServers, sdSeen, sdClock, sdMissed, sdLost>>
    BY <1>7, <2>1, Zenon DEF PopLeave
  <2>3. e \in [id : SdIds, at : Nat] /\ e = sdLeave[1]
    BY <2>1, <2>2, FirstOf, ZenonT(60) DEF SdTypeOK
  <2>4. InDelay(i) => InDelay(i)' \/ InHand(i)'
    <3> SUFFICES ASSUME NEW n \in 1 .. Len(sdLeave), sdLeave[n].id = i, Unseen(i, sdLeave[n].at)
                 PROVE  InDelay(i)' \/ InHand(i)'
      BY Zenon DEF InDelay
    <3>1. CASE n = 1
      <4>1. e.at \in Nat /\ sdClock \in Nat /\ (i \in DOMAIN sdSeen => sdSeen[i] \in Nat)
        BY <2>3, Zenon DEF SdTypeOK
      <4>2. i \in DOMAIN sdSeen => sdSeen[i] + SdDisconnect < e.at
        BY <2>3, <3>1, Zenon DEF Unseen
      <4>3. i \in DOMAIN sdSeen => sdSeen[i] + SdDisconnect < sdClock
        BY <2>2, <4>1, <4>2, ServiceAssumption
      <4> QED BY <2>2, <2>3, <3>1, <4>3, Zenon DEF InHand, Unseen
    <3>2. CASE n # 1
      <4>1. PICK m : m = n - 1
        OBVIOUS
      <4>2. m \in 1 .. Len(sdLeave') /\ sdLeave'[m] = sdLeave[n]
        BY <2>2, <3>2, <4>1, HeadTailProperties, LenProperties DEF SdTypeOK
      <4> QED BY <2>2, <4>2, Zenon DEF InDelay, Unseen
    <3> QED BY <3>1, <3>2, Zenon
  <2>5. ~ InHand(i)
    BY <2>2, Zenon DEF InHand
  <2> QED BY <2>2, <2>4, <2>5, Zenon DEF EventsTrue, ScanTrue, KnownOrComing, Leaving, LastIs, Running
<1>8. CASE LeaveScan
  <2>1. /\ sdActor'.pc = "decide" /\ sdActor.pc = "leave" /\ sdActor'.scan = sdEtcd /\ sdActor'.id = sdActor.id
        /\ UNCHANGED <<sdEtcd, sdStream, sdServers, sdSeen, sdLeave, sdClock, sdMissed, sdLost>>
    BY <1>8, Zenon DEF LeaveScan, SdTypeOK, SdActors
  <2> QED BY <2>1, Zenon DEF EventsTrue, ScanTrue, KnownOrComing, Leaving, LastIs, InDelay, InHand, Unseen, Running
<1>9. CASE Disconnect
  BY <1>9, DisconnectKeeps, Zenon
<1>10. ASSUME NEW j \in SdIds, Registers(j) PROVE SdTrue(i)'
  <2>1. PICK e : e = [id |-> j, create |-> j \notin sdEtcd]
    BY Zenon
  <2>2. e \in SdEvents /\ e.id = j /\ e.create = (j \notin sdEtcd)
    BY <2>1, Zenon DEF SdEvents
  <2>3. /\ sdStream'.broken = sdStream.broken
        /\ sdStream'.events = IF sdStream.broken THEN sdStream.events ELSE Append(sdStream.events, e)
        /\ UNCHANGED <<sdServers, sdSeen, sdLeave, sdActor, sdClock, sdMissed>>
    BY <1>0, <1>10, <2>1, Zenon DEF Registers
  <2>4. (InDelay(i) <=> InDelay(i)') /\ (InHand(i) <=> InHand(i)') /\ (Running(i) <=> Running(i)')
    BY <2>3, Zenon DEF InDelay, InHand, Running, Unseen
  <2>5. sdStream.broken => /\ LastIs(i, TRUE)' <=> LastIs(i, TRUE)
                           /\ LastIs(i, FALSE)' <=> LastIs(i, FALSE)
                           /\ NoneIn(sdStream'.events, SdOf(i)) <=> NoneIn(sdStream.events, SdOf(i))
    BY <2>3, Zenon DEF LastIs, SdThat, SdOf, SdEvents
  <2>6. CASE j # i
    <3>1. (i \in sdEtcd <=> i \in sdEtcd') /\ (i \in sdLost <=> i \in sdLost')
      BY <1>10, <2>6, Zenon DEF Registers
    <3>2. /\ LastIs(i, TRUE) => LastIs(i, TRUE)'
          /\ LastIs(i, FALSE) => LastIs(i, FALSE)'
          /\ NoneIn(sdStream.events, SdOf(i)) => NoneIn(sdStream'.events, SdOf(i))
      BY <2>2, <2>3, <2>5, <2>6, EventsOfOthers, Zenon
    <3> QED BY <2>3, <2>4, <3>1, <3>2, Zenon DEF EventsTrue, ScanTrue, KnownOrComing, Leaving
  <2>7. CASE j = i /\ sdStream.broken
    <3>1. IF i \in sdEtcd THEN i \notin sdEtcd' /\ i \in sdLost' ELSE i \in sdEtcd'
      BY <1>10, <2>7, Zenon DEF Registers
    <3> QED BY <2>3, <2>4, <2>5, <2>7, <3>1, Zenon DEF EventsTrue, ScanTrue, KnownOrComing, Leaving
  <2>8. CASE j = i /\ ~ sdStream.broken
    <3>1. IF i \in sdEtcd THEN i \notin sdEtcd' ELSE i \in sdEtcd'
      BY <1>10, <2>8, Zenon DEF Registers
    <3>2. IF i \in sdEtcd THEN e \in SdThat(i, FALSE) ELSE e \in SdThat(i, TRUE)
      BY <2>2, <2>8, Zenon DEF SdThat
    <3>3. PICK t : t = sdStream'.events
      OBVIOUS
    <3>4. IF i \in sdEtcd THEN LastIn(t, SdOf(i), SdThat(i, FALSE)) ELSE LastIn(t, SdOf(i), SdThat(i, TRUE))
      <4>1. t = Append(sdStream.events, e)
        BY <2>3, <2>8, <3>3, Zenon
      <4>2. \A c \in BOOLEAN : e \in SdThat(i, c) => LastIn(t, SdOf(i), SdThat(i, c))
        BY <1>0, <2>2, <4>1, LastOfAppend, ZenonT(60)
      <4> QED BY <3>2, <4>2, Zenon
    <3>5. IF i \in sdEtcd THEN LastIs(i, FALSE)' ELSE LastIs(i, TRUE)'
      BY <3>3, <3>4, Zenon DEF LastIs, SdOf, SdThat, SdEvents
    <3> QED BY <2>3, <2>4, <3>1, <3>5, Zenon DEF EventsTrue, ScanTrue, KnownOrComing, Leaving
  <2> QED BY <2>6, <2>7, <2>8, Zenon
<1>11. ASSUME NEW j \in DOMAIN sdServers, ClientEnds(j) PROVE SdTrue(i)'
  <2>1. (Running(i)' => Running(i)) /\ (Running(i) => Running(i)' \/ i \in sdMissed') /\ sdMissed \subseteq sdMissed'
    <3>1. sdServers' = [sdServers EXCEPT ![j] = "ended"]
      BY <1>11, Zenon DEF ClientEnds
    <3>2. sdMissed \subseteq sdMissed' /\ (sdServers[j] = "run" => j \in sdMissed')
      BY <1>11, Zenon DEF ClientEnds
    <3> QED BY <3>1, <3>2, Zenon DEF Running, SdTypeOK
  <2>2. UNCHANGED <<sdEtcd, sdStream, sdSeen, sdLeave, sdActor, sdClock, sdLost>>
    BY <1>11, Zenon DEF ClientEnds
  <2> QED BY <2>1, <2>2, Zenon DEF EventsTrue, ScanTrue, KnownOrComing, Leaving, LastIs, InDelay, InHand, Unseen
<1>12. ASSUME NEW j \in DOMAIN sdServers, HandleTask(j) PROVE SdTrue(i)'
  <2>1. Running(i)' <=> Running(i)
    BY <1>12, Zenon DEF HandleTask, Running
  <2> QED BY <1>12, <2>1, Zenon
          DEF HandleTask, EventsTrue, ScanTrue, KnownOrComing, Leaving, LastIs, InDelay, InHand, Unseen
<1>13. CASE UNCHANGED serviceVars
  BY <1>13, Zenon
     DEF serviceVars, EventsTrue, ScanTrue, KnownOrComing, Leaving, LastIs, InDelay, InHand, Unseen, Running
<1> QED BY <1>1, <1>2, <1>3, <1>4, <1>5, <1>6, <1>7, <1>8, <1>9, <1>10, <1>11, <1>12, <1>13, Zenon DEF ServiceNext

\* Subscriptions that broke are counted before anything is lost with them.
BreaksCounted == sdBudget \in [events : Nat, breaks : Nat, fails : Nat]
                 /\ (sdStream.broken \/ sdLost # {} => sdBudget.breaks # 0)

\* Every step keeps it: only a subscription that breaks adds to the servers lost.
LEMMA BreaksStep == SdTypeOK /\ BreaksCounted /\ [ServiceNext]_serviceVars => BreaksCounted'
<1> SUFFICES ASSUME SdTypeOK, BreaksCounted, [ServiceNext]_serviceVars PROVE BreaksCounted'
  OBVIOUS
<1>0. \A n \in Nat : n + 1 \in Nat /\ n + 1 # 0
  OBVIOUS
<1>1. CASE SubscriberBreaks
  <2>1. sdBudget' = [sdBudget EXCEPT !.breaks = @ + 1]
    BY <1>1, Zenon DEF SubscriberBreaks
  <2>2. sdBudget' \in [events : Nat, breaks : Nat, fails : Nat] /\ sdBudget'.breaks = sdBudget.breaks + 1
    BY <2>1, <1>0, Zenon DEF BreaksCounted
  <2>3. sdBudget.breaks \in Nat
    BY Zenon DEF BreaksCounted
  <2> QED BY <1>0, <2>2, <2>3, Zenon DEF BreaksCounted
<1>2. ASSUME NEW i \in SdIds, Registers(i) PROVE BreaksCounted'
  <2>1. sdBudget' = [sdBudget EXCEPT !.events = @ + 1]
    BY <1>2, Zenon DEF Registers
  <2>2. sdBudget' \in [events : Nat, breaks : Nat, fails : Nat] /\ sdBudget'.breaks = sdBudget.breaks
    BY <2>1, <1>0, Zenon DEF BreaksCounted
  <2>3. sdStream'.broken = sdStream.broken
    BY <1>2, Zenon DEF Registers, SdTypeOK
  <2>4. sdStream.broken \/ sdLost' \subseteq sdLost
    BY <1>2, Zenon DEF Registers
  <2> QED BY <2>2, <2>3, <2>4, Zenon DEF BreaksCounted
<1>3. ASSUME NEW i \in DOMAIN sdServers, ClientEnds(i) PROVE BreaksCounted'
  <2>1. sdBudget' = sdBudget \/ sdBudget' = [sdBudget EXCEPT !.fails = @ + 1]
    BY <1>3, Zenon DEF ClientEnds
  <2>2. sdBudget' \in [events : Nat, breaks : Nat, fails : Nat] /\ sdBudget'.breaks = sdBudget.breaks
    BY <2>1, <1>0, Zenon DEF BreaksCounted
  <2> QED BY <1>3, <2>2, Zenon DEF ClientEnds, BreaksCounted
<1>4. CASE HandleEvent \/ Resubscribe
  <2>1. sdBudget' = sdBudget /\ sdLost' = sdLost
    BY <1>4, Zenon DEF HandleEvent, Resubscribe
  <2>2. sdStream'.broken => sdStream.broken
    BY <1>4, Zenon DEF HandleEvent, Resubscribe, SdTypeOK
  <2> QED BY <2>1, <2>2, Zenon DEF BreaksCounted
<1>5. CASE UNCHANGED <<sdBudget, sdLost, sdStream>>
  BY <1>5, Zenon DEF BreaksCounted
<1>6. SdTick \/ ReinitScan \/ ReinitConnect \/ PopLeave \/ LeaveScan \/ Disconnect
        \/ UNCHANGED serviceVars \/ (\E i \in DOMAIN sdServers : HandleTask(i)) =>
        UNCHANGED <<sdBudget, sdLost, sdStream>>
  BY Zenon DEF SdTick, ReinitScan, ReinitConnect, PopLeave, LeaveScan, Disconnect, HandleTask, serviceVars
<1> QED BY <1>1, <1>2, <1>3, <1>4, <1>5, <1>6, Zenon DEF ServiceNext

\* The map of servers follows the directory whatever the order of events, scans and
\* timers: once the task has caught up, a registered server is in the map, unless its
\* client failed or was stopping when it was last seen; one that is gone is on its way
\* out, unless it left while the subscription was broken.
THEOREM DirectoryIsFollowed == ServiceSpec => []DirectoryIsTrue
<1>1. ServiceInit => SdInv
  <2> SUFFICES ASSUME ServiceInit PROVE SdInv
    OBVIOUS
  <2>1. /\ <<>> \in Seq(SdEvents) /\ <<>> \in Seq([id : SdIds, at : Nat]) /\ 0 \in Nat /\ 1 \in Nat /\ 0 < 1
    BY EmptySeq
  <2>2. SdTypeOK
    BY <2>1, Zenon DEF ServiceInit, SdTypeOK, SdActors, SdIdle
  <2>3. ASSUME NEW i \in SdIds PROVE SdTrue(i)
    <3>1. NoneIn(sdStream.events, SdOf(i))
      BY LastOfEmpty, Zenon DEF ServiceInit
    <3>2. sdActor.pc = "loop" /\ (Running(i) <=> i \in sdEtcd)
      BY Zenon DEF ServiceInit, SdIdle, Running
    <3> QED BY <3>1, <3>2, Zenon DEF SdTrue, EventsTrue, ScanTrue, KnownOrComing, Leaving
  <2> QED BY <2>2, <2>3, Zenon DEF SdInv
<1>2. SdInv /\ [ServiceNext]_serviceVars => SdInv'
  BY SdTypes, SdStep, Zenon DEF SdInv
<1>3. SdInv => RegisteredIsKnown /\ GoneIsLeaving
  <2> SUFFICES ASSUME SdInv, UpToDate, NEW i \in SdIds
               PROVE  /\ i \in sdEtcd => i \in DOMAIN sdServers \cup sdMissed
                      /\ i \in DOMAIN sdServers \ (sdEtcd \cup sdLost) =>
                            sdServers[i] # "run" \/ \E n \in DOMAIN sdLeave : sdLeave[n].id = i
    BY Zenon DEF SdInv, SdTypeOK, RegisteredIsKnown, GoneIsLeaving
  <2>1. ~ LastIs(i, TRUE) /\ ~ LastIs(i, FALSE)
    BY LastOfEmpty, Zenon DEF UpToDate, LastIs
  <2>2. SdTrue(i) /\ DOMAIN sdLeave = 1 .. Len(sdLeave)
    BY LenProperties, Zenon DEF SdInv, SdTypeOK
  <2> QED BY <2>1, <2>2, Zenon DEF UpToDate, SdTrue, KnownOrComing, Leaving, Running, InDelay, InHand
<1>4. ServiceInit => BreaksCounted
  <2> SUFFICES ASSUME ServiceInit PROVE BreaksCounted
    OBVIOUS
  <2>1. sdBudget \in [events : Nat, breaks : Nat, fails : Nat]
    BY DEF ServiceInit
  <2>2. ~ sdStream.broken /\ sdLost = {}
    BY DEF ServiceInit
  <2> QED BY <2>1, <2>2, Zenon DEF BreaksCounted
<1>5. SdInv /\ BreaksCounted /\ [ServiceNext]_serviceVars => BreaksCounted'
  BY BreaksStep, Zenon DEF SdInv
<1>6. BreaksCounted => OnlyBreaksLose
  BY Zenon DEF BreaksCounted, OnlyBreaksLose
<1>7. RegisteredIsKnown /\ GoneIsLeaving /\ OnlyBreaksLose => DirectoryIsTrue
  BY Zenon DEF DirectoryIsTrue
<1> QED BY <1>1, <1>2, <1>3, <1>4, <1>5, <1>6, <1>7, PTL DEF ServiceSpec

-----------------------------------------------------------------------------
(* Queues of waiters. *)

LEMMA WaitersIn ==
  ASSUME NEW S, NEW q \in Seq(S)
  PROVE  Range(q) \subseteq S /\ Range(<<>>) = {}
<1>1. DOMAIN q = 1 .. Len(q) /\ \A i \in 1 .. Len(q) : q[i] \in S
  BY LenProperties, ElementOfSeq, Zenon
<1>2. DOMAIN <<>> = {}
  BY EmptySeq, LenProperties
<1> QED BY <1>1, <1>2, Zenon DEF Range

LEMMA WaiterJoins ==
  ASSUME NEW S, NEW q \in Seq(S), NEW w \in S
  PROVE  Append(q, w) \in Seq(S) /\ Range(Append(q, w)) = Range(q) \cup {w}
<1> DEFINE a == Append(q, w)
<1>1. DOMAIN q = 1 .. Len(q) /\ Len(q) \in Nat
  BY LenProperties, Zenon
<1>2. a \in Seq(S) /\ Len(a) = Len(q) + 1
      /\ (\A i \in 1 .. Len(q) : a[i] = q[i]) /\ a[Len(q) + 1] = w
  BY AppendProperties
<1>3. DOMAIN a = 1 .. Len(q) + 1
  BY <1>2, LenProperties
<1>4. \A i : i \in DOMAIN a <=> i \in DOMAIN q \/ i = Len(q) + 1
  BY <1>1, <1>3
<1>5. Range(a) = Range(q) \cup {w}
  BY <1>1, <1>2, <1>4, Zenon DEF Range
<1> QED BY <1>2, <1>5, Zenon

\* Only the waiter that leaves is missing from the queue it leaves.
LEMMA WaiterLeaves ==
  ASSUME NEW S, NEW q \in Seq(S), NEW w
  PROVE  Without(q, w) \in Seq(S) /\ Range(q) \ {w} \subseteq Range(Without(q, w))
<1>1. CASE w \notin Range(q)
  BY <1>1, Zenon DEF Without
<1>2. CASE w \in Range(q)
  <2>1. DOMAIN q = 1 .. Len(q) /\ Len(q) \in Nat /\ (\A i \in 1 .. Len(q) : q[i] \in S)
    BY LenProperties, ElementOfSeq, Zenon
  <2>2. PICK n \in 1 .. Len(q) : q[n] = w /\ n = CHOOSE i \in DOMAIN q : q[i] = w
    BY <1>2, <2>1, Zenon DEF Range
  <2> DEFINE o == [i \in 1 .. Len(q) - 1 |-> IF i < n THEN q[i] ELSE q[i + 1]]
  <2>3. Without(q, w) = o
    BY <1>2, <2>2, Zenon DEF Without
  <2>4. \A i \in 1 .. Len(q) - 1 : i \in 1 .. Len(q) /\ i + 1 \in 1 .. Len(q)
    BY <2>1
  <2>5. \A i \in 1 .. Len(q) - 1 : o[i] \in S
    BY <2>1, <2>4, Zenon
  <2>6. o \in Seq(S)
    <3>1. Len(q) - 1 \in Nat
      BY <2>1, <2>2
    <3> QED BY <2>5, <3>1
  <2>7. ASSUME NEW v \in Range(q) \ {w} PROVE v \in Range(o)
    <3>1. PICK j \in 1 .. Len(q) : q[j] = v /\ j # n
      BY <2>1, <2>2, <2>7, Zenon DEF Range
    <3>2. CASE j < n
      <4>1. j \in 1 .. Len(q) - 1
        BY <2>1, <3>2
      <4> QED BY <3>1, <3>2, <4>1, Zenon DEF Range
    <3>3. CASE ~ (j < n)
      <4>1. j - 1 \in 1 .. Len(q) - 1 /\ ~ (j - 1 < n) /\ (j - 1) + 1 = j
        BY <2>1, <3>1, <3>3
      <4>2. o[j - 1] = v
        BY <3>1, <4>1, Zenon
      <4> QED BY <4>1, <4>2, Zenon DEF Range
    <3> QED BY <3>2, <3>3, Zenon
  <2> QED BY <2>3, <2>6, <2>7, Zenon
<1> QED BY <1>1, <1>2, Zenon

-----------------------------------------------------------------------------
(* JoinTasks: the flags call all their waiters and never one of them, so   *)
(* that a watcher of a flag is in its queue or has been called.            *)

Watchers == {"task", "parent", "self"} \X JtTasks
WaitersOfFlag == [permit : {FALSE}, waiting : Seq(Watchers), woken : {{}}, called : SUBSET Watchers]

Reach(n) == Range(n.waiting) \cup n.called

JtTypeOK ==
  /\ jtFlag \in [Flags -> [set : BOOLEAN, notify : WaitersOfFlag, calls : {0, 1}]]
  /\ jtTask \in [JtTasks -> {"enabling", "looking", "waiting", "stopping"} \cup Ended]
  /\ jtProp \in [JtTasks -> {"none", "starting", "enabled parent", "enabled self", "waiting", "ended"}]
  /\ jtGuard \in [JtTasks -> {"outside", "queued", "ready", "joined", "detached", "shutting down",
                              "finished", "timed out", "dropped"}]
  /\ jtQueue \in {"open", "closed", "joining", "returned", "panicked", "dropped"}
  /\ jtResult \in {"ok", "timeout", "aborted", "err"}

\* Whoever has enabled a future is registered, and has been called once the flag
\* that it found clear has been set and its waiters have been called.
Sleeps(f, w, looks) ==
  /\ w \in Reach(jtFlag[f].notify)
  /\ ~ looks /\ WasSet(f) => w \in jtFlag[f].notify.called

TaskSleeps(t) ==
  jtTask[t] \in {"looking", "waiting"} => Sleeps(t, Watcher(t), jtTask[t] = "looking")
ParentSleeps(t) ==
  jtProp[t] \in {"enabled parent", "enabled self", "waiting"} =>
    Sleeps(OfQueue, Parent(t), jtProp[t] = "enabled parent")
SelfSleeps(t) ==
  jtProp[t] \in {"enabled self", "waiting"} => Sleeps(t, Self(t), jtProp[t] = "enabled self")

Sleepers == \A t \in JtTasks : TaskSleeps(t) /\ ParentSleeps(t) /\ SelfSleeps(t)

\* What became of the guards, at every stage of the queue.
Guards ==
  /\ \A t \in JtTasks : jtGuard[t] \in {"ready", "joined"} => jtTask[t] \in Ended
  /\ jtQueue \in {"open", "closed", "joining"} => \A t \in JtTasks : jtGuard[t] # "detached"
  /\ jtQueue \in {"returned", "dropped"} => \A t \in JtTasks : jtGuard[t] # "queued"
  /\ jtQueue = "returned" /\ jtResult = "ok" =>
       \A t \in JtTasks : jtGuard[t] \notin {"queued", "ready", "detached"}
  /\ jtQueue \notin {"panicked", "dropped"} =>
       \A t \in JtTasks : jtGuard[t] = "joined" =>
         (jtResult = "ok" => jtTask[t] = "ok") /\ (jtTask[t] = "err" => jtResult = "err")

JtInv == JtTypeOK /\ Sleepers /\ Guards

FlagRecord == [set : BOOLEAN, notify : WaitersOfFlag, calls : {0, 1}]
Noticed(r) == r.set /\ r.calls = 0

\* What Enable, Forget and NotifyWaiters do to the waiters of a flag.
LEMMA EnableIs ==
  ASSUME NEW n \in WaitersOfFlag, NEW w \in Watchers
  PROVE  /\ Enable(n, w) \in WaitersOfFlag
         /\ Reach(Enable(n, w)) = Reach(n) \cup {w} /\ Enable(n, w).called = n.called
<1>1. n.permit = FALSE /\ n.waiting \in Seq(Watchers) /\ n.woken = {} /\ n.called \in SUBSET Watchers
  BY Zenon DEF WaitersOfFlag
<1>2. PICK q : q = Append(n.waiting, w)
  BY Zenon
<1>3. q \in Seq(Watchers) /\ Range(q) = Range(n.waiting) \cup {w}
  BY <1>1, <1>2, WaiterJoins, SMTT(30)
<1>4. Enable(n, w) = [n EXCEPT !.waiting = q]
  BY <1>1, <1>2, Zenon DEF Enable
<1>5. PICK m : m = [n EXCEPT !.waiting = q]
  BY Zenon
<1>6. m \in WaitersOfFlag /\ m.waiting = q /\ m.called = n.called
  BY <1>3, <1>5, Zenon DEF WaitersOfFlag
<1> QED BY <1>3, <1>4, <1>5, <1>6, Zenon DEF Reach

LEMMA ForgetIs ==
  ASSUME NEW n \in WaitersOfFlag, NEW w
  PROVE  /\ Forget(n, w) \in WaitersOfFlag
         /\ Reach(n) \ {w} \subseteq Reach(Forget(n, w)) /\ n.called \ {w} \subseteq Forget(n, w).called
<1>1. n.permit = FALSE /\ n.waiting \in Seq(Watchers) /\ n.woken = {} /\ n.called \in SUBSET Watchers
  BY Zenon DEF WaitersOfFlag
<1>2. PICK q : q = Without(n.waiting, w)
  BY Zenon
<1>3. q \in Seq(Watchers) /\ Range(n.waiting) \ {w} \subseteq Range(q)
  BY <1>1, <1>2, WaiterLeaves, Zenon
<1>4. PICK m : m = [n EXCEPT !.woken = n.woken \ {w}, !.called = n.called \ {w}]
  BY Zenon
<1>5. m \in WaitersOfFlag /\ m.waiting = n.waiting /\ m.called = n.called \ {w}
  <2>1. n.woken \ {w} = {} /\ n.called \ {w} \in SUBSET Watchers
    BY <1>1, Zenon
  <2> QED BY <1>4, <2>1, Zenon DEF WaitersOfFlag
<1>6. PICK o : o = [m EXCEPT !.waiting = q]
  BY Zenon
<1>7. o \in WaitersOfFlag /\ o.waiting = q /\ o.called = n.called \ {w}
  BY <1>3, <1>5, <1>6, Zenon DEF WaitersOfFlag
<1>8. Forget(n, w) = o
  BY <1>1, <1>2, <1>4, <1>5, <1>6, Zenon DEF Forget, Awaited
<1> QED BY <1>3, <1>7, <1>8, Zenon DEF Reach

LEMMA NotifyWaitersIs ==
  ASSUME NEW n \in WaitersOfFlag
  PROVE  /\ NotifyWaiters(n) \in WaitersOfFlag
         /\ Reach(NotifyWaiters(n)) = Reach(n) /\ NotifyWaiters(n).called = Reach(n)
<1>1. n.permit = FALSE /\ n.waiting \in Seq(Watchers) /\ n.woken = {} /\ n.called \in SUBSET Watchers
  BY Zenon DEF WaitersOfFlag
<1>2. Range(n.waiting) \subseteq Watchers /\ Range(<<>>) = {}
  BY <1>1, WaitersIn, Zenon
<1>3. <<>> \in Seq(Watchers)
  BY EmptySeq
<1>4. PICK c : c = n.called \cup Range(n.waiting)
  BY Zenon
<1>5. PICK m : m = [n EXCEPT !.waiting = <<>>, !.called = c]
  BY Zenon
<1>6. m \in WaitersOfFlag /\ m.waiting = <<>> /\ m.called = c
  BY <1>1, <1>2, <1>3, <1>4, <1>5, Zenon DEF WaitersOfFlag
<1>7. NotifyWaiters(n) = m
  BY <1>4, <1>5, Zenon DEF NotifyWaiters
<1> QED BY <1>2, <1>4, <1>6, <1>7, Zenon DEF Reach

\* What a step carries over of the watchers of every flag, those of L excepted: they
\* stay registered, they stay called, and they are called before the flag is noticed.
Carries(old, new, L) ==
  \A f \in Flags :
    /\ Reach(old[f].notify) \ L \subseteq Reach(new[f].notify)
    /\ old[f].notify.called \ L \subseteq new[f].notify.called
    /\ Noticed(new[f]) => Noticed(old[f]) \/ Reach(old[f].notify) \ L \subseteq new[f].notify.called

LEMMA CarriesOn ==
  ASSUME NEW a, NEW b, NEW c, NEW L, NEW M, Carries(a, b, L), Carries(b, c, M)
  PROVE  Carries(a, c, L \cup M)
BY ZenonT(60) DEF Carries

LEMMA CarriesAll ==
  ASSUME NEW a, NEW L PROVE Carries(a, a, L)
BY Zenon DEF Carries

\* The waiters of one flag change.
NewWaiters(a, f, n) == [a EXCEPT ![f].notify = n]

LEMMA WaitersChange ==
  ASSUME NEW a \in [Flags -> FlagRecord], NEW f \in Flags, NEW n \in WaitersOfFlag
  PROVE  /\ NewWaiters(a, f, n) \in [Flags -> FlagRecord]
         /\ NewWaiters(a, f, n)[f].notify = n
         /\ NewWaiters(a, f, n)[f].set = a[f].set /\ NewWaiters(a, f, n)[f].calls = a[f].calls
         /\ \A g \in Flags : g # f => NewWaiters(a, f, n)[g] = a[g]
<1>1. a[f] \in FlagRecord
  BY Zenon
<1>2. PICK r : r = [a[f] EXCEPT !.notify = n]
  BY Zenon
<1>3. r \in FlagRecord /\ r.notify = n /\ r.set = a[f].set /\ r.calls = a[f].calls
  BY <1>1, <1>2, Zenon DEF FlagRecord
<1>4. NewWaiters(a, f, n) = [a EXCEPT ![f] = r]
  BY <1>2, Zenon DEF NewWaiters
<1> QED BY <1>3, <1>4, Zenon

FlagEnabled(a, f, w) == [a EXCEPT ![f].notify = Enable(@, w)]
FlagForgotten(a, f, w) == [a EXCEPT ![f].notify = Forget(@, w)]

LEMMA OneEnables ==
  ASSUME NEW a \in [Flags -> FlagRecord], NEW f \in Flags, NEW w \in Watchers,
         NEW b, b = FlagEnabled(a, f, w)
  PROVE  /\ b \in [Flags -> FlagRecord] /\ Carries(a, b, {})
         /\ w \in Reach(b[f].notify)
<1>1. a[f].notify \in WaitersOfFlag
  BY Zenon DEF FlagRecord
<1>2. PICK n : n = Enable(a[f].notify, w)
  BY Zenon
<1>3. n \in WaitersOfFlag /\ Reach(n) = Reach(a[f].notify) \cup {w} /\ n.called = a[f].notify.called
  BY <1>1, <1>2, EnableIs, Zenon
<1>4. b = NewWaiters(a, f, n)
  BY <1>2, Zenon DEF NewWaiters, FlagEnabled
<1>5. /\ b \in [Flags -> FlagRecord]
      /\ b[f].notify = n /\ b[f].set = a[f].set /\ b[f].calls = a[f].calls
      /\ \A g \in Flags : g # f => b[g] = a[g]
  <2>1. n \in WaitersOfFlag
    BY <1>3, ZenonT(60)
  <2> QED BY <1>4, <2>1, WaitersChange, SMTT(30)
<1>6. Carries(a, b, {})
  <2>1. ASSUME NEW g \in Flags
        PROVE  /\ Reach(a[g].notify) \ {} \subseteq Reach(b[g].notify)
               /\ a[g].notify.called \ {} \subseteq b[g].notify.called
               /\ Noticed(b[g]) => Noticed(a[g])
    <3>1. CASE g = f
      BY <1>3, <1>5, <3>1, Zenon DEF Noticed
    <3>2. CASE g # f
      BY <1>5, <3>2, Zenon
    <3> QED BY <3>1, <3>2, Zenon
  <2> QED BY <2>1, Zenon DEF Carries
<1> QED BY <1>3, <1>5, <1>6, Zenon

LEMMA EnableSetsNone ==
  ASSUME NEW a \in [Flags -> FlagRecord], NEW f, NEW w, NEW g \in Flags
  PROVE  FlagEnabled(a, f, w)[g].set = a[g].set
<1>1. a[g] \in FlagRecord
  BY Zenon
<1>2. PICK n : n = Enable(a[f].notify, w)
  BY Zenon
<1>3. PICK r : r = [a[f] EXCEPT !.notify = n]
  BY Zenon
<1>4. FlagEnabled(a, f, w)[g] = IF g = f THEN r ELSE a[g]
  BY <1>2, <1>3, Zenon DEF FlagEnabled
<1>5. g = f => r.set = a[g].set
  BY <1>1, <1>3, Zenon DEF FlagRecord
<1> QED BY <1>4, <1>5, Zenon

LEMMA OneForgets ==
  ASSUME NEW a \in [Flags -> FlagRecord], NEW f \in Flags, NEW w,
         NEW b, b = FlagForgotten(a, f, w)
  PROVE  /\ b \in [Flags -> FlagRecord] /\ Carries(a, b, {w})
         /\ \A g \in Flags : b[g].set = a[g].set /\ b[g].calls = a[g].calls
<1>1. a[f].notify \in WaitersOfFlag
  BY Zenon DEF FlagRecord
<1>2. PICK n : n = Forget(a[f].notify, w)
  BY Zenon
<1>3. /\ n \in WaitersOfFlag /\ Reach(a[f].notify) \ {w} \subseteq Reach(n)
      /\ a[f].notify.called \ {w} \subseteq n.called
  BY <1>1, <1>2, ForgetIs, Zenon
<1>4. b = NewWaiters(a, f, n)
  BY <1>2, Zenon DEF NewWaiters, FlagForgotten
<1>5. /\ b \in [Flags -> FlagRecord]
      /\ b[f].notify = n /\ b[f].set = a[f].set /\ b[f].calls = a[f].calls
      /\ \A g \in Flags : g # f => b[g] = a[g]
  <2>1. n \in WaitersOfFlag
    BY <1>3, ZenonT(60)
  <2> QED BY <1>4, <2>1, WaitersChange, SMTT(30)
<1>6. Carries(a, b, {w})
  <2>1. ASSUME NEW g \in Flags
        PROVE  /\ Reach(a[g].notify) \ {w} \subseteq Reach(b[g].notify)
               /\ a[g].notify.called \ {w} \subseteq b[g].notify.called
               /\ Noticed(b[g]) => Noticed(a[g])
    <3>1. CASE g = f
      BY <1>3, <1>5, <3>1, Zenon DEF Noticed
    <3>2. CASE g # f
      BY <1>5, <3>2, Zenon
    <3> QED BY <3>1, <3>2, Zenon
  <2> QED BY <2>1, Zenon DEF Carries
<1> QED BY <1>5, <1>6, Zenon

LEMMA FlagsAreSet ==
  ASSUME NEW a \in [Flags -> FlagRecord], NEW S
  PROVE  SetFlag(a, S) \in [Flags -> FlagRecord] /\ Carries(a, SetFlag(a, S), {})
<1> DEFINE b == SetFlag(a, S)
<1>1. ASSUME NEW f \in Flags
      PROVE  b[f] \in FlagRecord /\ b[f].notify = a[f].notify /\ (Noticed(b[f]) => Noticed(a[f]))
  <2>1. CASE f \notin S
    BY <2>1, Zenon DEF SetFlag
  <2>2. CASE f \in S
    <3>1. PICK r : r = [a[f] EXCEPT !.set = TRUE, !.calls = 1]
      BY Zenon
    <3>2. r \in FlagRecord /\ r.notify = a[f].notify /\ r.calls = 1
      BY <3>1, Zenon DEF FlagRecord
    <3>3. r.calls # 0
      BY <3>2
    <3>4. b[f] = r
      BY <2>2, <3>1, Zenon DEF SetFlag
    <3> QED BY <3>2, <3>3, <3>4, Zenon DEF Noticed
  <2> QED BY <2>1, <2>2, Zenon
<1>2. b \in [Flags -> FlagRecord]
  BY <1>1, Zenon DEF SetFlag
<1>3. Carries(a, b, {})
  BY <1>1, Zenon DEF Carries
<1> QED BY <1>2, <1>3, Zenon

LEMMA WaitersAreCalled ==
  ASSUME NEW a \in [Flags -> FlagRecord], NEW f \in Flags,
         NEW b, b = [a EXCEPT ![f].notify = NotifyWaiters(@), ![f].calls = 0]
  PROVE  b \in [Flags -> FlagRecord] /\ Carries(a, b, {})
<1>1. a[f] \in FlagRecord /\ a[f].notify \in WaitersOfFlag
  BY Zenon DEF FlagRecord
<1>2. PICK n : n = NotifyWaiters(a[f].notify)
  BY Zenon
<1>3. n \in WaitersOfFlag /\ Reach(n) = Reach(a[f].notify) /\ n.called = Reach(a[f].notify)
  BY <1>1, <1>2, NotifyWaitersIs, Zenon
<1>4. PICK r : r = [a[f] EXCEPT !.notify = n, !.calls = 0]
  BY Zenon
<1>5. r \in FlagRecord /\ r.notify = n
  BY <1>1, <1>3, <1>4, Zenon DEF FlagRecord
<1>6. b = [a EXCEPT ![f] = r]
  BY <1>2, <1>4, Zenon
<1>7. b \in [Flags -> FlagRecord] /\ b[f] = r /\ \A g \in Flags : g # f => b[g] = a[g]
  BY <1>5, <1>6, Zenon
<1>8. Reach(a[f].notify) \subseteq n.called /\ a[f].notify.called \subseteq n.called
  BY <1>3, Zenon DEF Reach
<1>9. Carries(a, b, {})
  BY <1>3, <1>5, <1>7, <1>8, Zenon DEF Carries
<1> QED BY <1>7, <1>9, Zenon

LEMMA WatchersDiffer ==
  ASSUME NEW t \in JtTasks
  PROVE  /\ Watcher(t) \in Watchers /\ Parent(t) \in Watchers /\ Self(t) \in Watchers
         /\ \A u \in JtTasks : /\ Watcher(t) # Parent(u) /\ Watcher(t) # Self(u) /\ Parent(t) # Self(u)
                               /\ t # u => Watcher(t) # Watcher(u) /\ Parent(t) # Parent(u) /\ Self(t) # Self(u)
BY DEF Watcher, Parent, Self, Watchers

\* Who is not concerned by a step sleeps on as before.
LEMMA TaskSleepsOn ==
  ASSUME NEW t \in JtTasks, TaskSleeps(t), jtTask'[t] = jtTask[t],
         NEW L, Carries(jtFlag, jtFlag', L), Watcher(t) \notin L
  PROVE  TaskSleeps(t)'
<1>1. t \in Flags
  BY Zenon DEF Flags
<1> QED BY <1>1, Zenon DEF TaskSleeps, Sleeps, Carries, WasSet, Noticed

LEMMA ParentSleepsOn ==
  ASSUME NEW t \in JtTasks, ParentSleeps(t), jtProp'[t] = jtProp[t],
         NEW L, Carries(jtFlag, jtFlag', L), Parent(t) \notin L
  PROVE  ParentSleeps(t)'
<1>1. OfQueue \in Flags
  BY Zenon DEF Flags
<1> QED BY <1>1, Zenon DEF ParentSleeps, Sleeps, Carries, WasSet, Noticed

LEMMA SelfSleepsOn ==
  ASSUME NEW t \in JtTasks, SelfSleeps(t), jtProp'[t] = jtProp[t],
         NEW L, Carries(jtFlag, jtFlag', L), Self(t) \notin L
  PROVE  SelfSleeps(t)'
<1>1. t \in Flags
  BY Zenon DEF Flags
<1> QED BY <1>1, Zenon DEF SelfSleeps, Sleeps, Carries, WasSet, Noticed

FlagsOK == jtFlag \in [Flags -> FlagRecord]

\* A step that only sets flags or calls waiters.
LEMMA AllSleepOn ==
  ASSUME Sleepers, UNCHANGED <<jtTask, jtProp>>, Carries(jtFlag, jtFlag', {})
  PROVE  Sleepers'
<1>1. ASSUME NEW t \in JtTasks
      PROVE  TaskSleeps(t)' /\ ParentSleeps(t)' /\ SelfSleeps(t)'
  <2>1. TaskSleeps(t) /\ ParentSleeps(t) /\ SelfSleeps(t)
    BY Zenon DEF Sleepers
  <2>2. jtTask'[t] = jtTask[t] /\ jtProp'[t] = jtProp[t]
    BY Zenon
  <2> QED BY <2>1, <2>2, TaskSleepsOn, ParentSleepsOn, SelfSleepsOn, Zenon
<1> QED BY <1>1, Zenon DEF Sleepers

LEMMA TaskMoves ==
  ASSUME JtTypeOK, Sleepers, NEW t \in JtTasks, NEW pc, jtTask' = [jtTask EXCEPT ![t] = pc], jtProp' = jtProp,
         NEW L \in SUBSET {Watcher(t)}, Carries(jtFlag, jtFlag', L), TaskSleeps(t)'
  PROVE  Sleepers'
<1>1. ASSUME NEW u \in JtTasks
      PROVE  TaskSleeps(u)' /\ ParentSleeps(u)' /\ SelfSleeps(u)'
  <2>1. TaskSleeps(u) /\ ParentSleeps(u) /\ SelfSleeps(u)
    BY Zenon DEF Sleepers
  <2>2. jtProp'[u] = jtProp[u] /\ Parent(u) \notin L /\ Self(u) \notin L
    BY WatchersDiffer, Zenon
  <2>3. ParentSleeps(u)' /\ SelfSleeps(u)'
    BY <2>1, <2>2, ParentSleepsOn, SelfSleepsOn, Zenon
  <2>4. u # t => jtTask'[u] = jtTask[u] /\ Watcher(u) \notin L
    BY WatchersDiffer, Zenon DEF JtTypeOK
  <2>5. u # t => TaskSleeps(u)'
    BY <2>1, <2>4, TaskSleepsOn, Zenon
  <2> QED BY <2>3, <2>5, Zenon
<1> QED BY <1>1, Zenon DEF Sleepers

LEMMA PropMoves ==
  ASSUME JtTypeOK, Sleepers, NEW t \in JtTasks, NEW pc, jtProp' = [jtProp EXCEPT ![t] = pc], jtTask' = jtTask,
         NEW L \in SUBSET {Parent(t), Self(t)}, Carries(jtFlag, jtFlag', L),
         ParentSleeps(t)', SelfSleeps(t)'
  PROVE  Sleepers'
<1>1. ASSUME NEW u \in JtTasks
      PROVE  TaskSleeps(u)' /\ ParentSleeps(u)' /\ SelfSleeps(u)'
  <2>1. TaskSleeps(u) /\ ParentSleeps(u) /\ SelfSleeps(u)
    BY Zenon DEF Sleepers
  <2>2. jtTask'[u] = jtTask[u] /\ Watcher(u) \notin L
    BY WatchersDiffer, Zenon
  <2>3. TaskSleeps(u)'
    BY <2>1, <2>2, TaskSleepsOn, Zenon
  <2>4. u # t => jtProp'[u] = jtProp[u] /\ Parent(u) \notin L /\ Self(u) \notin L
    BY WatchersDiffer, Zenon DEF JtTypeOK
  <2>5. u # t => ParentSleeps(u)' /\ SelfSleeps(u)'
    BY <2>1, <2>4, ParentSleepsOn, SelfSleepsOn, Zenon
  <2> QED BY <2>3, <2>5, Zenon
<1> QED BY <1>1, Zenon DEF Sleepers

\* No step of the flags, the tasks or the propagators loses a sleeper.
LEMMA SleepersKept ==
  ASSUME JtTypeOK, Sleepers, [JoinTasksNext]_joinVars
  PROVE  FlagsOK' /\ Sleepers'
<1>0. jtFlag \in [Flags -> FlagRecord] /\ OfQueue \in Flags /\ JtTasks \subseteq Flags
  BY Zenon DEF JtTypeOK, FlagRecord, Flags
<1>1. ASSUME NEW f \in Flags, CallWaiters(f) PROVE FlagsOK' /\ Sleepers'
  <2>1. jtFlag' \in [Flags -> FlagRecord] /\ Carries(jtFlag, jtFlag', {})
    BY <1>0, <1>1, WaitersAreCalled, Zenon DEF CallWaiters
  <2>2. UNCHANGED <<jtTask, jtProp>>
    BY <1>1, Zenon DEF CallWaiters
  <2> QED BY <2>1, <2>2, AllSleepOn, Zenon DEF FlagsOK
<1>2. ASSUME NEW t \in JtTasks, TaskEnables(t) PROVE FlagsOK' /\ Sleepers'
  <2>1. jtFlag' = FlagEnabled(jtFlag, t, Watcher(t)) /\ t \in Flags /\ Watcher(t) \in Watchers
    BY <1>0, <1>2, WatchersDiffer, Zenon DEF TaskEnables, Enabled, FlagEnabled
  <2>2. /\ jtFlag' \in [Flags -> FlagRecord] /\ Carries(jtFlag, jtFlag', {})
        /\ Watcher(t) \in Reach(jtFlag'[t].notify)
    BY <1>0, <2>1, OneEnables, Zenon
  <2>3. jtTask' = [jtTask EXCEPT ![t] = "looking"] /\ jtProp' = jtProp
    BY <1>2, Zenon DEF TaskEnables
  <2>4. jtTask'[t] = "looking"
    BY <2>3, Zenon DEF JtTypeOK
  <2>5. TaskSleeps(t)'
    BY <2>2, <2>4, Zenon DEF TaskSleeps, Sleeps
  <2> QED BY <2>2, <2>3, <2>5, TaskMoves, Zenon DEF FlagsOK
<1>3. ASSUME NEW t \in JtTasks, TaskLooks(t) PROVE FlagsOK' /\ Sleepers'
  <2>1. PICK pc : pc = IF jtFlag[t].set THEN "stopping" ELSE "waiting"
    BY Zenon
  <2>2. jtTask' = [jtTask EXCEPT ![t] = pc] /\ jtProp' = jtProp /\ jtFlag' = jtFlag
    BY <1>3, <2>1, Zenon DEF TaskLooks
  <2>3. jtTask'[t] = pc
    BY <2>2, Zenon DEF JtTypeOK
  <2>4. Watcher(t) \in Reach(jtFlag[t].notify)
    BY <1>3, Zenon DEF TaskLooks, Sleepers, TaskSleeps, Sleeps
  <2>5. TaskSleeps(t)'
    <3>1. CASE jtFlag[t].set
      <4>1. jtTask'[t] = "stopping"
        BY <2>1, <2>3, <3>1, Zenon
      <4> QED BY <4>1, Zenon DEF TaskSleeps
    <3>2. CASE ~ jtFlag[t].set
      <4>1. ~ WasSet(t)'
        BY <2>2, <3>2, Zenon DEF WasSet
      <4> QED BY <2>2, <2>4, <4>1, Zenon DEF TaskSleeps, Sleeps
    <3> QED BY <3>1, <3>2, Zenon
  <2>6. Carries(jtFlag, jtFlag', {})
    BY <2>2, CarriesAll, Zenon
  <2> QED BY <1>0, <2>2, <2>5, <2>6, TaskMoves, Zenon DEF FlagsOK
<1>4. ASSUME NEW t \in JtTasks, TaskAwakes(t) PROVE FlagsOK' /\ Sleepers'
  <2>1. jtTask' = [jtTask EXCEPT ![t] = "stopping"] /\ jtProp' = jtProp /\ jtFlag' = jtFlag
    BY <1>4, Zenon DEF TaskAwakes
  <2>2. TaskSleeps(t)'
    BY <2>1, Zenon DEF TaskSleeps, JtTypeOK
  <2>3. Carries(jtFlag, jtFlag', {})
    BY <2>1, CarriesAll, Zenon
  <2> QED BY <1>0, <2>1, <2>2, <2>3, TaskMoves, Zenon DEF FlagsOK
<1>5. ASSUME NEW t \in JtTasks, TaskEnds(t) \/ AbortHappens(t) PROVE FlagsOK' /\ Sleepers'
  <2>1. PICK e \in Ended : jtTask' = [jtTask EXCEPT ![t] = e]
    BY <1>5, JoinAssumption, Zenon DEF TaskEnds, AbortHappens, Ended
  <2>2. jtFlag' = FlagForgotten(jtFlag, t, Watcher(t)) /\ jtProp' = jtProp /\ t \in Flags
    BY <1>0, <1>5, Zenon DEF TaskEnds, AbortHappens, Done, FlagForgotten
  <2>3. jtFlag' \in [Flags -> FlagRecord] /\ Carries(jtFlag, jtFlag', {Watcher(t)})
    BY <1>0, <2>2, OneForgets, Zenon
  <2>4. jtTask'[t] \in Ended
    BY <2>1, Zenon DEF JtTypeOK
  <2>5. TaskSleeps(t)'
    BY <2>4, Zenon DEF TaskSleeps, Ended
  <2>6. {Watcher(t)} \in SUBSET {Watcher(t)}
    BY Zenon
  <2> QED BY <2>1, <2>2, <2>3, <2>5, <2>6, TaskMoves, Zenon DEF FlagsOK
<1>6. ASSUME NEW t \in JtTasks, PropStarts(t) PROVE FlagsOK' /\ Sleepers'
  <2>1. jtFlag' = FlagEnabled(jtFlag, OfQueue, Parent(t)) /\ Parent(t) \in Watchers
    BY <1>6, WatchersDiffer, Zenon DEF PropStarts, Enabled, FlagEnabled
  <2>2. /\ jtFlag' \in [Flags -> FlagRecord] /\ Carries(jtFlag, jtFlag', {})
        /\ Parent(t) \in Reach(jtFlag'[OfQueue].notify)
    BY <1>0, <2>1, OneEnables, Zenon
  <2>3. jtProp' = [jtProp EXCEPT ![t] = "enabled parent"] /\ jtTask' = jtTask
    BY <1>6, Zenon DEF PropStarts
  <2>4. jtProp'[t] = "enabled parent"
    BY <2>3, Zenon DEF JtTypeOK
  <2>5. ParentSleeps(t)' /\ SelfSleeps(t)'
    BY <2>2, <2>4, Zenon DEF ParentSleeps, SelfSleeps, Sleeps
  <2> QED BY <2>2, <2>3, <2>5, PropMoves, Zenon DEF FlagsOK
<1>7. ASSUME NEW t \in JtTasks, PropLooksAtParent(t) PROVE FlagsOK' /\ Sleepers'
  <2>1. CASE jtFlag[OfQueue].set
    <3>1. PICK done : done = FlagForgotten(jtFlag, OfQueue, Parent(t))
      BY Zenon
    <3>2. done \in [Flags -> FlagRecord] /\ Carries(jtFlag, done, {Parent(t)})
      BY <1>0, <3>1, OneForgets, Zenon
    <3>3. jtFlag' = SetFlag(done, {t}) /\ jtProp' = [jtProp EXCEPT ![t] = "ended"] /\ jtTask' = jtTask
      BY <1>7, <2>1, <3>1, Zenon DEF PropLooksAtParent, Done, FlagForgotten
    <3>4. jtFlag' \in [Flags -> FlagRecord] /\ Carries(done, jtFlag', {})
      BY <3>2, <3>3, FlagsAreSet, Zenon
    <3>5. Carries(jtFlag, jtFlag', {Parent(t)} \cup {})
      BY <3>2, <3>4, CarriesOn, Zenon
    <3>6. ParentSleeps(t)' /\ SelfSleeps(t)'
      BY <3>3, Zenon DEF ParentSleeps, SelfSleeps, JtTypeOK
    <3>7. {Parent(t)} \cup {} \in SUBSET {Parent(t), Self(t)}
      BY Zenon
    <3> QED BY <3>3, <3>4, <3>5, <3>6, <3>7, PropMoves, Zenon DEF FlagsOK
  <2>2. CASE ~ jtFlag[OfQueue].set
    <3>1. jtFlag' = FlagEnabled(jtFlag, t, Self(t)) /\ Self(t) \in Watchers /\ t \in Flags
      BY <1>0, <1>7, <2>2, WatchersDiffer, Zenon DEF PropLooksAtParent, Enabled, FlagEnabled
    <3>2. /\ jtFlag' \in [Flags -> FlagRecord] /\ Carries(jtFlag, jtFlag', {})
          /\ Self(t) \in Reach(jtFlag'[t].notify)
      BY <1>0, <3>1, OneEnables, Zenon
    <3>3. jtProp' = [jtProp EXCEPT ![t] = "enabled self"] /\ jtTask' = jtTask
      BY <1>7, <2>2, Zenon DEF PropLooksAtParent
    <3>4. jtProp'[t] = "enabled self"
      BY <3>3, Zenon DEF JtTypeOK
    <3>5. Parent(t) \in Reach(jtFlag'[OfQueue].notify)
      BY <1>0, <1>7, <3>2, Zenon DEF PropLooksAtParent, Sleepers, ParentSleeps, Sleeps, Carries
    <3>6. ~ jtFlag'[OfQueue].set
      <4>1. FlagEnabled(jtFlag, t, Self(t))[OfQueue].set = jtFlag[OfQueue].set
        BY <1>0, EnableSetsNone, SMTT(30)
      <4> QED BY <2>2, <3>1, <4>1, Zenon
    <3>7. ParentSleeps(t)' /\ SelfSleeps(t)'
      BY <3>2, <3>4, <3>5, <3>6, Zenon DEF ParentSleeps, SelfSleeps, Sleeps, WasSet
    <3> QED BY <3>2, <3>3, <3>7, PropMoves, Zenon DEF FlagsOK
  <2> QED BY <2>1, <2>2, Zenon
<1>8. ASSUME NEW t \in JtTasks
      PROVE  \E two : /\ two = [jtFlag EXCEPT ![OfQueue].notify = Forget(@, Parent(t)),
                                              ![t].notify = Forget(@, Self(t))]
                      /\ two \in [Flags -> FlagRecord] /\ Carries(jtFlag, two, {Parent(t), Self(t)})
  <2>1. PICK one : one = FlagForgotten(jtFlag, OfQueue, Parent(t))
    BY Zenon
  <2>2. one \in [Flags -> FlagRecord] /\ Carries(jtFlag, one, {Parent(t)})
    BY <1>0, <2>1, OneForgets, Zenon
  <2>3. PICK two : two = FlagForgotten(one, t, Self(t))
    BY Zenon
  <2>4. t \in Flags /\ OfQueue # t
    BY <1>0, JoinAssumption, Zenon
  <2>5. two \in [Flags -> FlagRecord] /\ Carries(one, two, {Self(t)})
    BY <2>2, <2>3, <2>4, OneForgets, Zenon
  <2>6. {Parent(t)} \cup {Self(t)} = {Parent(t), Self(t)}
    BY Zenon
  <2>7. Carries(jtFlag, two, {Parent(t), Self(t)})
    <3>1. Carries(jtFlag, two, {Parent(t)} \cup {Self(t)})
      BY <2>2, <2>5, CarriesOn, Zenon
    <3> QED BY <2>6, <3>1, Zenon
  <2>8. two = [jtFlag EXCEPT ![OfQueue].notify = Forget(@, Parent(t)), ![t].notify = Forget(@, Self(t))]
    <3>1. PICK p : p = Forget(jtFlag[OfQueue].notify, Parent(t))
      BY Zenon
    <3>2. one[t] = jtFlag[t]
      BY <1>0, <2>1, <2>4, Zenon DEF FlagForgotten
    <3>3. PICK q : q = Forget(jtFlag[t].notify, Self(t))
      BY Zenon
    <3>4. two = [[jtFlag EXCEPT ![OfQueue].notify = p] EXCEPT ![t].notify = q]
      BY <2>1, <2>3, <3>1, <3>2, <3>3, Zenon DEF FlagForgotten
    <3>5. [jtFlag EXCEPT ![OfQueue].notify = Forget(@, Parent(t)), ![t].notify = Forget(@, Self(t))]
            = [[jtFlag EXCEPT ![OfQueue].notify = p] EXCEPT ![t].notify = q]
      BY <2>4, <3>1, <3>3, Zenon
    <3> QED BY <3>4, <3>5, Zenon
  <2> QED BY <2>5, <2>7, <2>8, Zenon
<1>9. ASSUME NEW t \in JtTasks, jtProp' = [jtProp EXCEPT ![t] = "ended"], jtTask' = jtTask,
             Carries(jtFlag, jtFlag', {Parent(t), Self(t)})
      PROVE  Sleepers'
  <2>1. ParentSleeps(t)' /\ SelfSleeps(t)'
    BY <1>9, Zenon DEF ParentSleeps, SelfSleeps, JtTypeOK
  <2>2. {Parent(t), Self(t)} \in SUBSET {Parent(t), Self(t)}
    BY Zenon
  <2> QED BY <1>9, <2>1, <2>2, PropMoves, Zenon
<1>10. ASSUME NEW t \in JtTasks, PropLooksAtSelf(t) PROVE FlagsOK' /\ Sleepers'
  <2>1. CASE jtFlag[t].set
    <3>1. PICK two : /\ two = [jtFlag EXCEPT ![OfQueue].notify = Forget(@, Parent(t)),
                                             ![t].notify = Forget(@, Self(t))]
                     /\ two \in [Flags -> FlagRecord] /\ Carries(jtFlag, two, {Parent(t), Self(t)})
      BY <1>8, Zenon
    <3>2. jtFlag' = two /\ jtProp' = [jtProp EXCEPT ![t] = "ended"] /\ jtTask' = jtTask
      BY <1>10, <2>1, <3>1, Zenon DEF PropLooksAtSelf
    <3> QED BY <1>9, <3>1, <3>2, Zenon DEF FlagsOK
  <2>2. CASE ~ jtFlag[t].set
    <3>1. jtFlag' = jtFlag /\ jtProp' = [jtProp EXCEPT ![t] = "waiting"] /\ jtTask' = jtTask
      BY <1>10, <2>2, Zenon DEF PropLooksAtSelf
    <3>2. jtProp'[t] = "waiting" /\ jtProp[t] = "enabled self"
      BY <1>10, <3>1, Zenon DEF JtTypeOK, PropLooksAtSelf
    <3>3. ParentSleeps(t) /\ SelfSleeps(t)
      BY Zenon DEF Sleepers
    <3>4. ParentSleeps(t)'
      BY <3>1, <3>2, <3>3, Zenon DEF ParentSleeps, Sleeps, WasSet
    <3>5. ~ WasSet(t)'
      BY <2>2, <3>1, Zenon DEF WasSet
    <3>6. SelfSleeps(t)'
      BY <3>1, <3>2, <3>3, <3>5, Zenon DEF SelfSleeps, Sleeps
    <3>7. Carries(jtFlag, jtFlag', {})
      BY <3>1, CarriesAll, Zenon
    <3> QED BY <1>0, <3>1, <3>4, <3>6, <3>7, PropMoves, Zenon DEF FlagsOK
  <2> QED BY <2>1, <2>2, Zenon
<1>11. ASSUME NEW t \in JtTasks, PropAwakes(t) PROVE FlagsOK' /\ Sleepers'
  <2>1. PICK two : /\ two = [jtFlag EXCEPT ![OfQueue].notify = Forget(@, Parent(t)),
                                           ![t].notify = Forget(@, Self(t))]
                   /\ two \in [Flags -> FlagRecord] /\ Carries(jtFlag, two, {Parent(t), Self(t)})
    BY <1>8, Zenon
  <2>2. (jtFlag' = two \/ jtFlag' = SetFlag(two, {t})) /\ jtProp' = [jtProp EXCEPT ![t] = "ended"] /\ jtTask' = jtTask
    BY <1>11, <2>1, Zenon DEF PropAwakes
  <2>3. jtFlag' \in [Flags -> FlagRecord] /\ Carries(two, jtFlag', {})
    <3>1. CASE jtFlag' = two
      BY <2>1, <3>1, CarriesAll, Zenon
    <3>2. CASE jtFlag' = SetFlag(two, {t})
      <4>1. two \in [Flags -> FlagRecord]
        BY <2>1, Zenon
      <4>2. SetFlag(two, {t}) \in [Flags -> FlagRecord] /\ Carries(two, SetFlag(two, {t}), {})
        BY <4>1, FlagsAreSet, Zenon
      <4> QED BY <3>2, <4>2, Zenon
    <3> QED BY <2>2, <3>1, <3>2, Zenon
  <2>4. {Parent(t), Self(t)} \cup {} = {Parent(t), Self(t)}
    BY Zenon
  <2>5. Carries(jtFlag, jtFlag', {Parent(t), Self(t)} \cup {})
    BY <2>1, <2>3, CarriesOn, Zenon
  <2> QED BY <1>9, <2>2, <2>3, <2>4, <2>5, Zenon DEF FlagsOK
<1>12. ASSUME NEW t \in JtTasks, Push(t) PROVE FlagsOK' /\ Sleepers'
  <2>1. jtFlag' = jtFlag /\ jtProp' = [jtProp EXCEPT ![t] = "starting"] /\ jtTask' = jtTask
    BY <1>12, Zenon DEF Push
  <2>2. ParentSleeps(t)' /\ SelfSleeps(t)'
    BY <2>1, Zenon DEF ParentSleeps, SelfSleeps, JtTypeOK
  <2>3. Carries(jtFlag, jtFlag', {})
    BY <2>1, CarriesAll, Zenon
  <2> QED BY <1>0, <2>1, <2>2, <2>3, PropMoves, Zenon DEF FlagsOK
<1>13. ASSUME jtTask' = jtTask, jtProp' = jtProp, jtFlag' = jtFlag \/ \E S : jtFlag' = SetFlag(jtFlag, S)
       PROVE  FlagsOK' /\ Sleepers'
  <2>1. jtFlag' \in [Flags -> FlagRecord] /\ Carries(jtFlag, jtFlag', {})
    BY <1>0, <1>13, FlagsAreSet, CarriesAll, Zenon
  <2> QED BY <1>13, <2>1, AllSleepOn, Zenon DEF FlagsOK
<1>14. ASSUME NEW t \in JtTasks, JoinNext(t) \/ GuardCancels(t) \/ GuardJoins(t) \/ GuardDrops(t)
       PROVE  FlagsOK' /\ Sleepers'
  BY <1>13, <1>14, Zenon DEF JoinNext, GuardCancels, GuardJoins, GuardDrops, DropGuards
<1>15. CASE CloseGuards \/ SetCancel \/ JoinedAll
  BY <1>13, <1>15, Zenon DEF CloseGuards, SetCancel, JoinedAll
<1>16. CASE TimeIsUp \/ DropQueue
  BY <1>13, <1>16, Zenon DEF TimeIsUp, DropQueue, DropGuards
<1>17. CASE UNCHANGED joinVars
  BY <1>13, <1>17, Zenon DEF joinVars
<1> QED BY <1>1, <1>2, <1>3, <1>4, <1>5, <1>6, <1>7, <1>10, <1>11, <1>12, <1>14, <1>15, <1>16, <1>17, Zenon
           DEF JoinTasksNext

Results == {"ok", "timeout", "aborted", "err"}
TaskStates == {"enabling", "looking", "waiting", "stopping"} \cup Ended
PropStates == {"none", "starting", "enabled parent", "enabled self", "waiting", "ended"}
GuardStates == {"outside", "queued", "ready", "joined", "detached", "shutting down",
                "finished", "timed out", "dropped"}
QueueStates == {"open", "closed", "joining", "returned", "panicked", "dropped"}

StatesOK ==
  /\ jtTask \in [JtTasks -> TaskStates] /\ jtProp \in [JtTasks -> PropStates]
  /\ jtGuard \in [JtTasks -> GuardStates] /\ jtQueue \in QueueStates /\ jtResult \in Results

LEMMA MergeIs ==
  ASSUME NEW r \in Results, NEW s \in Results
  PROVE  /\ Merge(r, s) \in Results /\ Merge(r, s) \in {r, s}
         /\ Merge(r, s) = "ok" => r = "ok" /\ s = "ok"
         /\ r = "err" \/ s = "err" => Merge(r, s) = "err"
BY DEF Merge, Results

LEMMA StatesKept ==
  ASSUME StatesOK, Guards, [JoinTasksNext]_joinVars
  PROVE  StatesOK'
<1>1. ASSUME NEW t \in JtTasks, TaskEnables(t) \/ TaskLooks(t) \/ TaskAwakes(t) \/ TaskEnds(t) \/ AbortHappens(t)
      PROVE  StatesOK'
  <2>1. PICK pc \in TaskStates : jtTask' = [jtTask EXCEPT ![t] = pc]
    BY <1>1, JoinAssumption, Zenon
       DEF TaskEnables, TaskLooks, TaskAwakes, TaskEnds, AbortHappens, TaskStates, Ended
  <2>2. UNCHANGED <<jtProp, jtGuard, jtQueue, jtResult>>
    BY <1>1, Zenon DEF TaskEnables, TaskLooks, TaskAwakes, TaskEnds, AbortHappens
  <2> QED BY <2>1, <2>2, Zenon DEF StatesOK
<1>2. ASSUME NEW t \in JtTasks,
             PropStarts(t) \/ PropLooksAtParent(t) \/ PropLooksAtSelf(t) \/ PropAwakes(t)
      PROVE  StatesOK'
  <2>1. PICK pc \in PropStates : jtProp' = [jtProp EXCEPT ![t] = pc]
    BY <1>2, Zenon DEF PropStarts, PropLooksAtParent, PropLooksAtSelf, PropAwakes, PropStates
  <2>2. UNCHANGED <<jtTask, jtGuard, jtQueue, jtResult>>
    BY <1>2, Zenon DEF PropStarts, PropLooksAtParent, PropLooksAtSelf, PropAwakes
  <2> QED BY <2>1, <2>2, Zenon DEF StatesOK
<1>3. ASSUME NEW t \in JtTasks, Push(t) PROVE StatesOK'
  <2>1. PICK g \in GuardStates : jtGuard' = [jtGuard EXCEPT ![t] = g]
    BY <1>3, Zenon DEF Push, GuardStates
  <2>2. jtProp' = [jtProp EXCEPT ![t] = "starting"] /\ UNCHANGED <<jtTask, jtQueue, jtResult>>
    BY <1>3, Zenon DEF Push
  <2> QED BY <2>1, <2>2, Zenon DEF StatesOK, PropStates
<1>4. ASSUME NEW t \in JtTasks, JoinNext(t) PROVE StatesOK'
  <2>1. PollGuards(jtGuard) \in [JtTasks -> GuardStates]
    BY Zenon DEF PollGuards, StatesOK, GuardStates
  <2>2. jtGuard' \in [JtTasks -> GuardStates]
    BY <1>4, <2>1, Zenon DEF JoinNext, GuardStates
  <2>3. PollGuards(jtGuard)[t] = "ready"
    BY <1>4, Zenon DEF JoinNext
  <2>4. jtQueue' \in QueueStates /\ jtTask' = jtTask /\ jtProp' = jtProp
        /\ (jtResult' = jtResult \/ (jtTask[t] # "panic" /\ jtResult' = Merge(jtResult, jtTask[t])))
    <3>1. jtTask' = jtTask /\ jtProp' = jtProp
      BY <1>4, Zenon DEF JoinNext
    <3>2. CASE jtTask[t] = "panic"
      <4>1. jtQueue' = "panicked" /\ jtResult' = jtResult
        BY <1>4, <3>2, Zenon DEF JoinNext
      <4>2. jtQueue' \in QueueStates
        BY <4>1, ZenonT(60) DEF QueueStates
      <4> QED BY <3>1, <4>1, <4>2, Zenon
    <3>3. CASE jtTask[t] # "panic"
      <4>1. jtQueue' = jtQueue /\ jtResult' = Merge(jtResult, jtTask[t])
        BY <1>4, <3>3, Zenon DEF JoinNext
      <4> QED BY <3>1, <3>3, <4>1, Zenon DEF StatesOK
    <3> QED BY <3>2, <3>3, Zenon
  <2>5. jtTask[t] \in Ended
    <3>1. PollGuards(jtGuard)[t] = IF jtGuard[t] = "queued" /\ jtTask[t] \in Ended THEN "ready" ELSE jtGuard[t]
      BY Zenon DEF PollGuards
    <3>2. jtGuard[t] = "ready" \/ jtTask[t] \in Ended
      BY <2>3, <3>1, Zenon
    <3> QED BY <3>2, Zenon DEF Guards
  <2>6. jtTask[t] # "panic" => jtTask[t] \in Results
    BY <2>5, Zenon DEF Ended, Results
  <2>7. jtResult' \in Results
    <3>1. jtResult \in Results
      BY Zenon DEF StatesOK
    <3>2. jtTask[t] # "panic" => Merge(jtResult, jtTask[t]) \in Results
      BY <2>6, <3>1, MergeIs, Zenon
    <3> QED BY <2>4, <3>1, <3>2, Zenon
  <2> QED BY <2>2, <2>4, <2>7, Zenon DEF StatesOK
<1>5. ASSUME NEW t \in JtTasks, GuardCancels(t) \/ GuardJoins(t) \/ GuardDrops(t) PROVE StatesOK'
  <2>1. jtGuard' \in [JtTasks -> GuardStates]
    BY <1>5, Zenon DEF GuardCancels, GuardJoins, GuardDrops, DropGuards, GuardStates, StatesOK
  <2>2. UNCHANGED <<jtTask, jtProp, jtQueue, jtResult>>
    BY <1>5, Zenon DEF GuardCancels, GuardJoins, GuardDrops
  <2> QED BY <2>1, <2>2, Zenon DEF StatesOK
<1>6. CASE CloseGuards \/ SetCancel \/ JoinedAll
  <2>1. jtQueue' \in QueueStates /\ UNCHANGED <<jtTask, jtProp, jtGuard, jtResult>>
    BY <1>6, Zenon DEF CloseGuards, SetCancel, JoinedAll, QueueStates
  <2> QED BY <2>1, Zenon DEF StatesOK
<1>7. CASE TimeIsUp
  <2>1. jtGuard' \in [JtTasks -> GuardStates] /\ jtQueue' \in QueueStates
    BY <1>7, Zenon DEF TimeIsUp, DropGuards, GuardStates, QueueStates, StatesOK
  <2>2. jtResult' = Merge(jtResult, "timeout") /\ "timeout" \in Results /\ UNCHANGED <<jtTask, jtProp>>
    BY <1>7, Zenon DEF TimeIsUp, Results
  <2>3. jtResult' \in Results
    BY <2>2, MergeIs, Zenon DEF StatesOK
  <2> QED BY <2>1, <2>2, <2>3, Zenon DEF StatesOK
<1>8. CASE DropQueue
  <2>1. jtGuard' \in [JtTasks -> GuardStates] /\ jtQueue' \in QueueStates
    BY <1>8, Zenon DEF DropQueue, GuardStates, QueueStates, StatesOK
  <2>2. UNCHANGED <<jtTask, jtProp, jtResult>>
    BY <1>8, Zenon DEF DropQueue
  <2> QED BY <2>1, <2>2, Zenon DEF StatesOK
<1>9. ASSUME NEW f \in Flags, CallWaiters(f) PROVE StatesOK'
  BY <1>9, Zenon DEF CallWaiters, StatesOK
<1>10. CASE UNCHANGED joinVars
  BY <1>10, Zenon DEF joinVars, StatesOK
<1> QED BY <1>1, <1>2, <1>3, <1>4, <1>5, <1>6, <1>7, <1>8, <1>9, <1>10, ZenonT(60) DEF JoinTasksNext

\* What the guards are, when only tasks move, and when only a guard that is not in
\* the queue does.
LEMMA TasksMoveOn ==
  ASSUME Guards, UNCHANGED <<jtGuard, jtQueue, jtResult>>,
         \A t \in JtTasks : jtTask[t] \in Ended => jtTask'[t] = jtTask[t]
  PROVE  Guards'
<1>1. \A t \in JtTasks : jtGuard[t] \in {"ready", "joined"} => jtTask'[t] = jtTask[t]
  BY Zenon DEF Guards
<1> QED BY <1>1, Zenon DEF Guards

LEMMA GuardMovesOn ==
  ASSUME Guards, UNCHANGED <<jtTask, jtQueue, jtResult>>,
         \A t \in JtTasks : \/ jtGuard'[t] = jtGuard[t]
                            \/ jtGuard'[t] \in {"outside", "shutting down", "finished", "timed out", "dropped"}
                            \/ jtGuard'[t] = "queued" /\ jtQueue = "open"
  PROVE  Guards'
<1>1. \A t \in JtTasks : jtGuard'[t] \in {"ready", "joined", "detached"} => jtGuard'[t] = jtGuard[t]
  BY Zenon
<1>2. jtQueue # "open" => \A t \in JtTasks : jtGuard'[t] = "queued" => jtGuard[t] = "queued"
  BY Zenon
<1>3. \A t \in JtTasks : jtGuard'[t] \in {"ready", "joined"} => jtTask'[t] \in Ended
  BY <1>1, Zenon DEF Guards
<1>4. jtQueue' \in {"open", "closed", "joining"} => \A t \in JtTasks : jtGuard'[t] # "detached"
  BY <1>1, Zenon DEF Guards
<1>5. jtQueue' \in {"returned", "dropped"} => \A t \in JtTasks : jtGuard'[t] # "queued"
  BY <1>2, Zenon DEF Guards
<1>6. jtQueue' = "returned" /\ jtResult' = "ok" =>
        \A t \in JtTasks : jtGuard'[t] \notin {"queued", "ready", "detached"}
  BY <1>1, <1>2, Zenon DEF Guards
<1>7. jtQueue' \notin {"panicked", "dropped"} =>
        \A t \in JtTasks : jtGuard'[t] = "joined" =>
          (jtResult' = "ok" => jtTask'[t] = "ok") /\ (jtTask'[t] = "err" => jtResult' = "err")
  BY <1>1, Zenon DEF Guards
<1> QED BY <1>3, <1>4, <1>5, <1>6, <1>7, Zenon DEF Guards

\* The guards through every step.
LEMMA GuardsKept ==
  ASSUME StatesOK, Guards, [JoinTasksNext]_joinVars
  PROVE  Guards'
<1>1. ASSUME NEW t \in JtTasks, TaskEnables(t) \/ TaskLooks(t) \/ TaskAwakes(t) \/ TaskEnds(t) \/ AbortHappens(t)
      PROVE  Guards'
  <2>1. jtTask[t] \notin Ended /\ \E pc : jtTask' = [jtTask EXCEPT ![t] = pc]
    BY <1>1, Zenon DEF TaskEnables, TaskLooks, TaskAwakes, TaskEnds, AbortHappens, Ended
  <2>2. UNCHANGED <<jtGuard, jtQueue, jtResult>>
    BY <1>1, Zenon DEF TaskEnables, TaskLooks, TaskAwakes, TaskEnds, AbortHappens
  <2>3. \A u \in JtTasks : jtTask[u] \in Ended => jtTask'[u] = jtTask[u]
    BY <2>1, Zenon DEF StatesOK
  <2> QED BY <2>2, <2>3, TasksMoveOn, Zenon
<1>2. ASSUME UNCHANGED <<jtTask, jtGuard, jtQueue, jtResult>> PROVE Guards'
  BY <1>2, TasksMoveOn, Zenon
<1>3. ASSUME NEW t \in JtTasks,
             PropStarts(t) \/ PropLooksAtParent(t) \/ PropLooksAtSelf(t) \/ PropAwakes(t)
      PROVE  Guards'
  BY <1>2, <1>3, Zenon DEF PropStarts, PropLooksAtParent, PropLooksAtSelf, PropAwakes
<1>4. ASSUME NEW f \in Flags, CallWaiters(f) PROVE Guards'
  BY <1>2, <1>4, Zenon DEF CallWaiters
<1>5. ASSUME NEW t \in JtTasks, Push(t) \/ GuardCancels(t) \/ GuardJoins(t) \/ GuardDrops(t) PROVE Guards'
  <2>1. \A u \in JtTasks : \/ jtGuard'[u] = jtGuard[u]
                           \/ jtGuard'[u] \in {"outside", "shutting down", "finished", "timed out", "dropped"}
                           \/ jtGuard'[u] = "queued" /\ jtQueue = "open"
    BY <1>5, Zenon DEF Push, GuardCancels, GuardJoins, GuardDrops, DropGuards, StatesOK
  <2>2. UNCHANGED <<jtTask, jtQueue, jtResult>>
    BY <1>5, Zenon DEF Push, GuardCancels, GuardJoins, GuardDrops
  <2> QED BY <2>1, <2>2, GuardMovesOn, Zenon
<1>6. CASE CloseGuards \/ SetCancel
  <2>1. jtQueue \in {"open", "closed"} /\ jtQueue' \in {"closed", "joining"} /\ UNCHANGED <<jtTask, jtGuard, jtResult>>
    BY <1>6, Zenon DEF CloseGuards, SetCancel
  <2> QED BY <2>1, Zenon DEF Guards
<1>7. ASSUME NEW t \in JtTasks, JoinNext(t) PROVE Guards'
  <2>1. jtQueue = "joining" /\ PollGuards(jtGuard)[t] = "ready" /\ jtTask' = jtTask
        /\ jtGuard' = [PollGuards(jtGuard) EXCEPT ![t] = "joined"]
    BY <1>7, Zenon DEF JoinNext
  <2>2. \A u \in JtTasks :
          PollGuards(jtGuard)[u] = IF jtGuard[u] = "queued" /\ jtTask[u] \in Ended THEN "ready" ELSE jtGuard[u]
    BY Zenon DEF PollGuards
  <2>3. \A u \in JtTasks : jtGuard'[u] = IF u = t THEN "joined" ELSE PollGuards(jtGuard)[u]
    BY <2>1, Zenon DEF PollGuards
  <2>4. \A u \in JtTasks : PollGuards(jtGuard)[u] = "ready" => jtTask[u] \in Ended
    BY <2>2, Zenon DEF Guards
  <2>5. \A u \in JtTasks : jtGuard'[u] \in {"ready", "joined"} => jtTask'[u] \in Ended
    <3>1. ASSUME NEW u \in JtTasks, jtGuard'[u] \in {"ready", "joined"} PROVE jtTask[u] \in Ended
      <4>1. CASE u = t
        BY <2>1, <2>4, <4>1, Zenon
      <4>2. CASE u # t
        <5>1. PollGuards(jtGuard)[u] = "ready" \/ PollGuards(jtGuard)[u] = "joined"
          BY <2>3, <3>1, <4>2, Zenon
        <5>2. PollGuards(jtGuard)[u] = "joined" => jtGuard[u] = "joined"
          BY <2>2, Zenon
        <5> QED BY <2>4, <5>1, <5>2, Zenon DEF Guards
      <4> QED BY <4>1, <4>2, Zenon
    <3> QED BY <2>1, <3>1, Zenon
  <2>6. \A u \in JtTasks : jtGuard'[u] # "detached"
    <3>1. \A u \in JtTasks : jtGuard[u] # "detached"
      BY <2>1, Zenon DEF Guards
    <3>2. \A u \in JtTasks : PollGuards(jtGuard)[u] # "detached"
      BY <2>2, <3>1, Zenon
    <3> QED BY <2>3, <3>2, Zenon
  <2>7. \A u \in JtTasks : u # t /\ jtGuard'[u] = "joined" => jtGuard[u] = "joined"
    BY <2>2, <2>3, Zenon
  <2>8. CASE jtTask[t] = "panic"
    <3>1. jtQueue' = "panicked"
      BY <1>7, <2>8, Zenon DEF JoinNext
    <3> QED BY <2>5, <3>1, Zenon DEF Guards
  <2>9. CASE jtTask[t] # "panic"
    <3>1. jtQueue' = "joining" /\ jtResult' = Merge(jtResult, jtTask[t])
      BY <1>7, <2>1, <2>9, Zenon DEF JoinNext
    <3>2. jtTask[t] \in Ended
      BY <2>1, <2>4, Zenon
    <3>3. jtTask[t] \in Results /\ jtResult \in Results
      BY <2>9, <3>2, Zenon DEF Ended, Results, StatesOK
    <3>4. /\ jtResult' = "ok" => jtResult = "ok" /\ jtTask[t] = "ok"
          /\ jtResult = "err" \/ jtTask[t] = "err" => jtResult' = "err"
      BY <3>1, <3>3, MergeIs, Zenon
    <3>5. ASSUME NEW u \in JtTasks, jtGuard'[u] = "joined"
          PROVE  (jtResult' = "ok" => jtTask'[u] = "ok") /\ (jtTask'[u] = "err" => jtResult' = "err")
      <4>1. CASE u = t
        BY <2>1, <3>4, <4>1, Zenon
      <4>2. CASE u # t
        <5>1. (jtResult = "ok" => jtTask[u] = "ok") /\ (jtTask[u] = "err" => jtResult = "err")
          BY <2>1, <2>7, <3>5, <4>2, Zenon DEF Guards
        <5> QED BY <2>1, <3>4, <5>1, Zenon
      <4> QED BY <4>1, <4>2, Zenon
    <3> QED BY <2>5, <2>6, <3>1, <3>5, Zenon DEF Guards
  <2> QED BY <2>8, <2>9, Zenon
<1>8. CASE JoinedAll
  <2>1. /\ jtQueue = "joining" /\ jtQueue' = "returned" /\ UNCHANGED <<jtTask, jtGuard, jtResult>>
        /\ \A t \in JtTasks : jtGuard[t] \notin {"queued", "ready"}
    BY <1>8, Zenon DEF JoinedAll
  <2>2. \A t \in JtTasks : jtGuard[t] # "detached"
    BY <2>1, Zenon DEF Guards
  <2>3. \A t \in JtTasks : jtGuard'[t] \notin {"queued", "ready", "detached"}
    BY <2>1, <2>2, Zenon
  <2> QED BY <2>1, <2>3, Zenon DEF Guards
<1>9. CASE TimeIsUp
  <2>1. /\ jtQueue = "joining" /\ jtQueue' = "returned" /\ jtResult' = Merge(jtResult, "timeout") /\ jtTask' = jtTask
        /\ \A t \in JtTasks : jtGuard'[t] = IF jtGuard[t] = "queued" THEN "detached" ELSE jtGuard[t]
    BY <1>9, Zenon DEF TimeIsUp, DropGuards
  <2>2. jtResult \in Results /\ "timeout" \in Results
    BY Zenon DEF StatesOK, Results
  <2>3. jtResult' # "ok" /\ (jtResult = "err" => jtResult' = "err")
    BY <2>1, <2>2, MergeIs, ZenonT(60)
  <2>4. \A t \in JtTasks : jtGuard'[t] # "queued" /\ (jtGuard'[t] \in {"ready", "joined"} => jtGuard'[t] = jtGuard[t])
    BY <2>1, Zenon
  <2>5. \A t \in JtTasks : jtGuard'[t] \in {"ready", "joined"} => jtTask'[t] \in Ended
    BY <2>1, <2>4, Zenon DEF Guards
  <2>6. \A t \in JtTasks : jtGuard'[t] = "joined" => (jtTask'[t] = "err" => jtResult' = "err")
    BY <2>1, <2>3, <2>4, Zenon DEF Guards
  <2> QED BY <2>1, <2>3, <2>4, <2>5, <2>6, Zenon DEF Guards
<1>10. CASE DropQueue
  <2>1. /\ jtQueue' = "dropped" /\ jtTask' = jtTask
        /\ \A t \in JtTasks : jtGuard'[t] = IF jtGuard[t] \in {"queued", "ready"} THEN "detached" ELSE jtGuard[t]
    BY <1>10, Zenon DEF DropQueue
  <2>2. \A t \in JtTasks : jtGuard'[t] \notin {"queued", "ready"} /\ (jtGuard'[t] = "joined" => jtGuard[t] = "joined")
    BY <2>1, Zenon
  <2>3. \A t \in JtTasks : jtGuard'[t] \in {"ready", "joined"} => jtTask'[t] \in Ended
    BY <2>1, <2>2, Zenon DEF Guards
  <2> QED BY <2>1, <2>2, <2>3, Zenon DEF Guards
<1>11. CASE UNCHANGED joinVars
  BY <1>2, <1>11, Zenon DEF joinVars
<1> QED BY <1>1, <1>3, <1>4, <1>5, <1>6, <1>7, <1>8, <1>9, <1>10, <1>11, ZenonT(60) DEF JoinTasksNext

\* No cancellation is lost and shutdown leaves no task behind, for all tasks: no one
\* sleeps on a flag that was set, and the result of shutdown tells what became of
\* the guards that the queue accepted (join_guard.rs, join_queue.rs, oneway.rs).
THEOREM NoTaskIsLost == JoinSpec => []ShutdownIsSound
<1>1. JoinInit => JtInv
  <2> SUFFICES ASSUME JoinInit PROVE JtInv
    BY Zenon
  <2>1. NewNotify \in WaitersOfFlag
    <3>1. <<>> \in Seq(Watchers)
      BY EmptySeq
    <3> QED BY <3>1, Zenon DEF NewNotify, WaitersOfFlag
  <2>2. [set |-> FALSE, notify |-> NewNotify, calls |-> 0] \in [set : BOOLEAN, notify : WaitersOfFlag, calls : {0, 1}]
    BY <2>1, Zenon
  <2>3. JtTypeOK
    BY <2>2, Zenon DEF JoinInit, JtTypeOK
  <2>4. Sleepers
    BY Zenon DEF JoinInit, Sleepers, TaskSleeps, ParentSleeps, SelfSleeps
  <2>5. Guards
    BY Zenon DEF JoinInit, Guards
  <2> QED BY <2>3, <2>4, <2>5, Zenon DEF JtInv
<1>2. JtInv /\ [JoinTasksNext]_joinVars => JtInv'
  <2> SUFFICES ASSUME JtInv, [JoinTasksNext]_joinVars PROVE JtInv'
    BY Zenon
  <2>1. JtTypeOK /\ StatesOK /\ Sleepers /\ Guards
    BY Zenon DEF JtInv, JtTypeOK, StatesOK, TaskStates, PropStates, GuardStates, QueueStates, Results
  <2>2. FlagsOK' /\ Sleepers'
    BY <2>1, SleepersKept, Zenon
  <2>3. StatesOK' /\ Guards'
    BY <2>1, StatesKept, GuardsKept, Zenon
  <2>4. JtTypeOK'
    BY <2>2, <2>3, Zenon
       DEF FlagsOK, FlagRecord, JtTypeOK, StatesOK, TaskStates, PropStates, GuardStates, QueueStates, Results
  <2> QED BY <2>2, <2>3, <2>4, Zenon DEF JtInv
<1>3. JtInv => ShutdownIsSound
  <2> SUFFICES ASSUME JtInv PROVE ShutdownIsSound
    BY Zenon
  <2>1. CancelReachesAll
    BY Zenon DEF JtInv, Sleepers, TaskSleeps, ParentSleeps, SelfSleeps, Sleeps, CancelReachesAll, Notified
  <2>2. ShutdownLeavesNone
    BY Zenon DEF JtInv, Guards, ShutdownLeavesNone
  <2>3. ResultIsHonest
    BY Zenon DEF JtInv, Guards, ResultIsHonest
  <2> QED BY <2>1, <2>2, <2>3, Zenon DEF ShutdownIsSound
<1> QED BY <1>1, <1>2, <1>3, PTL DEF JoinSpec
=============================================================================
