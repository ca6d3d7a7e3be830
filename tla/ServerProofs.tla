---------------------------- MODULE ServerProofs ----------------------------
(***************************************************************************)
(* The safety of CacheServer for any keys, requests, tokens and bounds:    *)
(* ServerInv with OneResponse and ExpiryKept is inductive.                 *)
(*                                                                         *)
(* The parts of the invariant are preserved for reasons of their own, and  *)
(* each has a lemma with one case per action: the map under the server     *)
(* (MapKept), the responses (ResponsesKept), the deadlines and the timer   *)
(* (DeadlinesKept, TimerKept), the guards and permits (OwnedKept), the     *)
(* tasks that wait for a lock (WaitersKept) and the expire queue           *)
(* (ExpiryKnown).                                                          *)
(***************************************************************************)
EXTENDS CacheServer, GuardedMapProofs

USE GuardedMapConstants, ServerAssumption

\* What the proofs carry from step to step.
Inv == ServerInv /\ OneResponse /\ ExpiryKept

-----------------------------------------------------------------------------
(* The guards of the storage *)

\* What State.deadlines holds.
LEMMA DeadlineTypes ==
  ASSUME NEW d \in Seq(Deadline)
  PROVE  /\ Len(d) \in Nat /\ DOMAIN d = 1 .. Len(d)
         /\ \A i \in DOMAIN d : d[i] \in Deadline
         /\ \A i \in DOMAIN d : d[i].left \in 0 .. LeaseTimeout /\ d[i].token \in Tokens
         /\ d # <<>> => 1 \in DOMAIN d /\ Head(d) = d[1]
<1>1. Len(d) \in Nat /\ DOMAIN d = 1 .. Len(d) /\ \A i \in DOMAIN d : d[i] \in Deadline
  OBVIOUS
<1>2. d # <<>> => 1 \in DOMAIN d /\ Head(d) = d[1]
  OBVIOUS
<1>3. \A x \in Deadline : x.left \in 0 .. LeaseTimeout /\ x.token \in Tokens
  BY Zenon DEF Deadline
<1> QED BY <1>1, <1>2, <1>3, Zenon

\* Guards that leases keep can be dropped.
LEMMA LeasesDrop ==
  ASSUME Inv, NEW rs, rs \subseteq Requests,
         \A r \in rs : Leased(r) \/ guard[r] = "read", DropIos(rs)
  PROVE  GuardedMapInv'
<1>1. \A r \in rs : guard[r] \in {"none", "read", "write"}
  BY Zenon DEF Inv, ServerInv, ResourcesOwned, Owned
<1> QED BY <1>1, DropSome, Zenon DEF DropIos, Inv, ServerInv

\* Every step takes the map to another state its guards agree with: the server calls
\* the storage only as the guards it holds allow.
LEMMA MapKept == Inv /\ [Next]_vars => GuardedMapInv'
<1> SUFFICES ASSUME Inv, [Next]_vars PROVE GuardedMapInv'
  BY Zenon
<1>0. GuardedMapInv /\ lease \in [Tokens -> Requests \cup {NoRequest}]
  BY Zenon DEF Inv, ServerInv, TypeOK
<1>1. CASE UNCHANGED mapVars
  BY <1>0, <1>1, MapStep, Zenon
<1>2. CASE GuardedMapNext
  BY <1>0, <1>2, MapStep, Zenon
<1>3. ASSUME NEW r \in Requests, Call(r) PROVE GuardedMapInv'
  <2>1. ASSUME NEW n \in Tokens, Cancel(r, n) PROVE GuardedMapInv'
    <3>1. \A q \in {lease[n]} \cap Requests : Leased(q)
      BY Zenon DEF Leased
    <3> QED BY <2>1, <3>1, LeasesDrop, Zenon DEF Cancel
  <2>2. ASSUME NEW k \in Keys, WriteMetadataFails(r, k) PROVE GuardedMapInv'
    BY <1>0, <2>2, FreeCellChanges, Zenon DEF WriteMetadataFails, Writable
  <2>3. ASSUME NEW k \in Keys, NEW m \in Metadata, WriteMetadata(r, k, m) PROVE GuardedMapInv'
    <3>1. Blob(k, "Present", m) \in [key : {k}, tag : {"Present"}, meta : Metadata]
      BY Zenon DEF Blob
    <3> QED BY <1>0, <2>3, <3>1, FreeCellChanges, Zenon DEF WriteMetadata, Writable
  <2>4. ASSUME NEW k \in Keys, Write(r, k) PROVE GuardedMapInv'
    BY <1>2, <2>4, Zenon DEF Write, GuardedMapNext
  <2>5. CASE \/ Ignore(r) \/ Refuse(r) \/ Unavailable(r)
             \/ \E k \in Keys : WriteDeclined(r, k) \/ \E handler \in Handlers : Spawn(r, handler, k)
    BY <1>1, <2>5, Zenon DEF Ignore, Refuse, Unavailable, WriteDeclined, Spawn
  <2> QED BY <1>3, <2>1, <2>2, <2>3, <2>4, <2>5, Zenon DEF Call
<1>4. CASE RemoveExpired
  <2>1. PICK n \in 0 .. Len(deadlines) :
          DropIos({lease[m] : m \in {deadlines[i].token : i \in 1 .. n}} \cap Requests)
    BY <1>4, Zenon DEF RemoveExpired
  <2>2. \A i \in 1 .. n : deadlines[i].token \in Tokens
    BY <2>1, DeadlineTypes DEF Inv, ServerInv, TypeOK
  <2>3. \A q \in {lease[m] : m \in {deadlines[i].token : i \in 1 .. n}} \cap Requests : Leased(q)
    BY <2>2, Zenon DEF Leased
  <2> QED BY <2>1, <2>3, LeasesDrop, Zenon
<1>5. ASSUME NEW r \in Requests, Granted(r) PROVE GuardedMapInv'
  <2>1. CASE ReadMetadata(r)
    BY <1>1, <2>1, Zenon DEF ReadMetadata
  <2>2. CASE Read(r) \/ Remove(r)
    <3>1. want[r] \in Keys
      BY <2>2, Zenon DEF Read, Remove, Inv, ServerInv, WaitersFit, WaiterFits
    <3> QED BY <1>2, <2>2, <3>1, Zenon DEF Read, Remove, GuardedMapNext
  <2> QED BY <1>5, <2>1, <2>2, Zenon DEF Granted
<1>6. ASSUME NEW r \in Requests, Handle(r) \/ Abandon(r) \/ DrainTask(r) PROVE GuardedMapInv'
  <2>1. CASE Miss(r) \/ Find(r) \/ Stale(r) \/ ReadRespond(r) \/ Abandon(r) \/ DrainTask(r)
    BY <1>1, <2>1, Zenon DEF Miss, Find, Stale, ReadRespond, Abandon, DrainTask
  <2>2. CASE RemoveFails(r) \/ Removed(r)
    BY <1>2, <2>2, Zenon DEF RemoveFails, Removed, GuardedMapNext
  <2> QED BY <1>6, <2>1, <2>2, Zenon DEF Handle
<1>7. ASSUME NEW r \in Requests, Stream(r) PROVE GuardedMapInv'
  <2>1. CASE StreamRead(r)
    BY <2>1, LeasesDrop, Zenon DEF StreamRead
  <2>2. CASE StreamCommitted(r) \/ StreamAbort(r) \/ StreamErased(r) \/ \E m \in Metadata : StreamCommit(r, m)
    BY <1>2, <2>2, Zenon DEF StreamCommitted, StreamAbort, StreamErased, StreamCommit, GuardedMapNext
  <2> QED BY <1>7, <2>1, <2>2, Zenon DEF Stream
<1>8. ASSUME NEW t \in Tasks, Discharge(t) PROVE GuardedMapInv'
  BY <1>2, <1>8, Zenon DEF Discharge, GuardedMapNext
<1>9. CASE EvictTask
  BY <1>1, <1>2, <1>9, Zenon DEF EvictTask, EvictNext, Evicted, EvictFails, EvictDone, GuardedMapNext
<1>10. CASE ExpireTask \/ ExpireLocked
  <2>1. CASE ExpireTask
    BY <1>1, <1>2, <2>1, Zenon DEF ExpireTask, ExpireNext, ExpireStale, ExpireRemoved, ExpireFails, ExpireDone,
         ExpireCancelled, GuardedMapNext
  <2>2. CASE ExpireLocked
    <3>1. want[Expirer] \in Keys
      BY <2>2, Zenon DEF ExpireLocked, Inv, ServerInv, WaitersFit, WaiterFits
    <3> QED BY <1>1, <1>2, <2>2, <3>1, Zenon DEF ExpireLocked, GuardedMapNext
  <2> QED BY <1>10, <2>1, <2>2, Zenon
<1>11. ASSUME NEW n \in Tokens, Redeem(n) \/ RedeemFails(n) PROVE GuardedMapInv'
  <2>1. CASE Redeem(n)
    BY <1>1, <2>1, Zenon DEF Redeem
  <2>2. CASE RedeemFails(n)
    <3>1. lease[n] \in Requests /\ Leased(lease[n])
      BY <1>0, <2>2, Zenon DEF RedeemFails, Leased
    <3> QED BY <2>2, <3>1, LeasesDrop, Zenon DEF RedeemFails
  <2> QED BY <1>11, <2>1, <2>2, Zenon
<1>12. CASE DropState
  <2>1. \A q \in {lease[n] : n \in Tokens} \cap Requests : Leased(q)
    BY Zenon DEF Leased
  <2> QED BY <1>12, <2>1, LeasesDrop, Zenon DEF DropState
<1> QED BY <1>1, <1>3, <1>4, <1>5, <1>6, <1>7, <1>8, <1>9, <1>10, <1>11, <1>12, Zenon
      DEF Next, Turn, vars, Drain, SendResponse, JoinTask, SpawnExpire, JoinEvict, JoinExpire, LogStats,
          CleanupFails, SocketFails, ReturnError, Stop, StopServing, DrainEvict, DrainExpire, DrainFails, Stopped, Tick

-----------------------------------------------------------------------------
(* The responses *)

TaskStates == Handlers \cup {"new", "call", "ignored", "leased", "finished", "joined"}
ServerStates == {"running", "draining", "stopped"}

\* A request is answered by the step that ends its call or its handler, and by no other.
LEMMA ResponsesKept ==
  Inv /\ [Next]_vars =>
    OneResponse' /\ task' \in [Requests -> TaskStates] /\ sent' \in [Requests -> 0 .. 1]
<1> DEFINE Goal == OneResponse' /\ task' \in [Requests -> TaskStates] /\ sent' \in [Requests -> 0 .. 1]
<1> SUFFICES ASSUME Inv, [Next]_vars PROVE Goal
  BY Zenon
<1>0. OneResponse /\ task \in [Requests -> TaskStates] /\ sent \in [Requests -> 0 .. 1]
  BY Zenon DEF Inv, ServerInv, TypeOK, TaskStates
<1>1. ASSUME task' = task, sent' = sent, server' = "running" => server = "running" PROVE Goal
  BY <1>0, <1>1, Zenon DEF OneResponse
<1>2. ASSUME NEW r \in Requests, NEW s \in {"call", "finished"}, task[r] \in Handlers \cup {"new", "leased"},
             task' = [task EXCEPT ![r] = s], Respond(r), server' = server
      PROVE  Goal
  <2>1. sent[r] = 0
    BY <1>0, <1>2, Zenon DEF OneResponse
  <2>2. \A q \in Requests : /\ sent'[q] = IF q = r THEN 1 ELSE sent[q]
                            /\ task'[q] = IF q = r THEN s ELSE task[q]
    BY <1>0, <1>2, <2>1 DEF Respond
  <2>3. task' \in [Requests -> TaskStates] /\ sent' \in [Requests -> 0 .. 1]
    BY <1>0, <1>2, <2>1 DEF Respond, TaskStates
  <2>4. OneResponse'
    BY <1>0, <1>2, <2>2 DEF OneResponse, Handlers
  <2> QED BY <2>3, <2>4, Zenon
<1>3. ASSUME NEW r \in Requests, NEW s \in TaskStates, task' = [task EXCEPT ![r] = s], sent' = sent,
             server' = server,
             \/ task[r] \in Handlers \cup {"new"} /\ s \in Handlers \cup {"leased", "ignored"}
             \/ task[r] \in Handlers /\ s = "finished" /\ server # "running"
             \/ task[r] = "finished" /\ s = "joined"
      PROVE  Goal
  BY <1>0, <1>3, Zenon DEF OneResponse, TaskStates, Handlers
<1> HIDE DEF Goal
<1>4. ASSUME NEW r \in Requests, Call(r), server' = server PROVE Goal
  <2>1. CASE \E k \in Keys, handler \in Handlers : Spawn(r, handler, k)
    BY <1>3, <1>4, <2>1, Zenon DEF Spawn, Receive, TaskStates
  <2>2. CASE Ignore(r)
    BY <1>3, <1>4, <2>2, Zenon DEF Ignore, Receive, TaskStates
  <2>3. CASE ~Ignore(r) /\ ~\E k \in Keys, handler \in Handlers : Spawn(r, handler, k)
    BY <1>2, <1>4, <2>3, Zenon DEF Call, Refuse, Unavailable, Cancel, Write, WriteDeclined, WriteMetadataFails,
         WriteMetadata, Receive, InPlace
  <2> QED BY <2>1, <2>2, <2>3, ZenonT(60)
<1>5. ASSUME NEW r \in Requests, Granted(r) \/ Handle(r) \/ Abandon(r) \/ DrainTask(r) PROVE Goal
  <2>1. CASE Miss(r) \/ Stale(r) \/ ReadRespond(r) \/ ReadMetadata(r) \/ RemoveFails(r) \/ Removed(r)
    BY <1>2, <2>1, Zenon DEF Miss, Stale, ReadRespond, ReadMetadata, RemoveFails, Removed, Finish, Handlers, actorVars
  <2>2. CASE Read(r) \/ Abandon(r) \/ DrainTask(r)
    BY <1>3, <2>2, Zenon DEF Read, Abandon, DrainTask, Finish, Handlers, TaskStates, actorVars
  <2>3. CASE Find(r) \/ Remove(r)
    BY <1>1, <2>3, Zenon DEF Find, Remove, reqVars, actorVars
  <2> QED BY <1>5, <2>1, <2>2, <2>3, Zenon DEF Granted, Handle
<1>6. ASSUME NEW r \in Requests, Turn(SendResponse(r)) \/ Turn(JoinTask(r)) PROVE Goal
  BY <1>1, <1>3, <1>6, Zenon DEF Turn, SendResponse, JoinTask, TaskStates
<1>7. CASE Turn(RemoveExpired) \/ Turn(SpawnExpire) \/ Turn(JoinEvict) \/ Turn(JoinExpire) \/ Turn(LogStats)
  BY <1>1, <1>7, Zenon DEF Turn, RemoveExpired, SpawnExpire, JoinEvict, JoinExpire, LogStats, reqVars
<1>8. ASSUME NEW r \in Requests, Stream(r) PROVE Goal
  BY <1>1, <1>8, Zenon DEF Stream, StreamRead, StreamCommitted, StreamAbort, StreamErased, StreamCommit, reqVars, actorVars
<1>9. ASSUME NEW t \in Tasks, Discharge(t) PROVE Goal
  BY <1>1, <1>9, ZenonT(60) DEF Discharge, reqVars, actorVars
<1>10. CASE EvictTask \/ ExpireTask \/ ExpireLocked
  BY <1>1, <1>10, Zenon DEF EvictTask, EvictNext, Evicted, EvictFails, EvictDone, ExpireTask, ExpireNext, ExpireStale,
       ExpireRemoved, ExpireFails, ExpireDone, ExpireCancelled, ExpireLocked, reqVars, actorVars
<1>11. ASSUME NEW n \in Tokens, Redeem(n) \/ RedeemFails(n) PROVE Goal
  BY <1>1, <1>11, Zenon DEF Redeem, RedeemFails, reqVars, actorVars
<1>12. CASE CleanupFails \/ SocketFails \/ Stop \/ StopServing \/ Drain \/ Tick
  BY <1>1, <1>12, Zenon DEF CleanupFails, SocketFails, ReturnError, Stop, StopServing, Drain, DrainEvict, DrainExpire, DrainFails, Stopped, DropState, Tick,
       reqVars, actorVars
<1>13. CASE UNCHANGED vars
  BY <1>1, <1>13, Zenon DEF vars, reqVars, actorVars
<1> QED BY <1>4, <1>5, <1>6, <1>7, <1>8, <1>9, <1>10, <1>11, <1>12, <1>13, Zenon DEF Next, Turn

-----------------------------------------------------------------------------
(* The leases, their deadlines and the timer of the actor *)

LeaseTypes == lease \in [Tokens -> Requests \cup {NoRequest}] /\ deadlines \in Seq(Deadline)
LeasesHaveDeadlines ==
  \A n \in Tokens : lease[n] # NoRequest => \E i \in DOMAIN deadlines : deadlines[i].token = n
DeadlinesSorted ==
  \A i, j \in DOMAIN deadlines : i < j => deadlines[i].left <= deadlines[j].left
DeadlinesFit == LeaseTypes /\ LeasesHaveDeadlines /\ DeadlinesSorted

\* A new lease gets the last deadline, which is the latest.
LEMMA InsertFits ==
  ASSUME DeadlinesFit, NEW r \in Requests, Insert(r) PROVE DeadlinesFit' /\ deadlines' # <<>>
<1>1. PICK n \in Tokens : /\ lease' = [lease EXCEPT ![n] = r]
                          /\ deadlines' = Append(deadlines, [left |-> LeaseTimeout, token |-> n])
  BY Zenon DEF Insert, FreeTokens
<1> DEFINE d == [left |-> LeaseTimeout, token |-> n]
<1>2. d \in Deadline /\ d.left = LeaseTimeout /\ d.token = n
  BY DEF Deadline
<1> HIDE DEF d
<1>3. /\ deadlines' = Append(deadlines, d) /\ deadlines \in Seq(Deadline)
      /\ Len(deadlines) \in Nat /\ DOMAIN deadlines = 1 .. Len(deadlines)
      /\ \A i \in DOMAIN deadlines : deadlines[i].left \in 0 .. LeaseTimeout
  BY <1>1, DeadlineTypes, Zenon DEF d, DeadlinesFit, LeaseTypes
<1>4. /\ deadlines' \in Seq(Deadline) /\ DOMAIN deadlines' = 1 .. Len(deadlines) + 1
      /\ \A i \in 1 .. Len(deadlines) : deadlines'[i] = deadlines[i]
      /\ deadlines'[Len(deadlines) + 1] = d
  BY <1>2, <1>3
<1>5. LeaseTypes'
  BY <1>1, <1>4, Zenon DEF DeadlinesFit, LeaseTypes
<1>6. LeasesHaveDeadlines'
  <2>1. ASSUME NEW m \in Tokens, lease'[m] # NoRequest
        PROVE  \E i \in DOMAIN deadlines' : deadlines'[i].token = m
    <3>1. CASE m = n
      <4>1. Len(deadlines) + 1 \in DOMAIN deadlines'
        BY <1>3, <1>4
      <4>2. deadlines'[Len(deadlines) + 1].token = n
        BY <1>2, <1>4, Zenon
      <4> QED BY <3>1, <4>1, <4>2, Zenon
    <3>2. CASE m # n
      <4>1. lease[m] # NoRequest
        BY <1>1, <2>1, <3>2, Zenon DEF DeadlinesFit, LeaseTypes
      <4> QED BY <1>3, <1>4, <4>1 DEF DeadlinesFit, LeasesHaveDeadlines
    <3> QED BY <3>1, <3>2, Zenon
  <2> QED BY <2>1, Zenon DEF LeasesHaveDeadlines
<1>7. DeadlinesSorted'
  BY <1>2, <1>3, <1>4 DEF DeadlinesFit, DeadlinesSorted
<1>8. deadlines' # <<>>
  BY <1>3, <1>4
<1> QED BY <1>5, <1>6, <1>7, <1>8, Zenon DEF DeadlinesFit

\* A lease that goes leaves its deadline behind.
LEMMA LeaseGoes ==
  ASSUME DeadlinesFit, deadlines' = deadlines, lease' \in [Tokens -> Requests \cup {NoRequest}],
         \A n \in Tokens : lease'[n] \in {lease[n], NoRequest}
  PROVE  DeadlinesFit'
BY Zenon DEF DeadlinesFit, LeaseTypes, LeasesHaveDeadlines, DeadlinesSorted

\* The leases whose deadlines have passed go with those deadlines.
LEMMA RemoveExpiredFits ==
  ASSUME DeadlinesFit, RemoveExpired PROVE DeadlinesFit'
<1> DEFINE N == Len(deadlines)
<1>0. /\ N \in Nat /\ DOMAIN deadlines = 1 .. N /\ deadlines \in Seq(Deadline)
      /\ lease \in [Tokens -> Requests \cup {NoRequest}]
  BY DeadlineTypes, Zenon DEF DeadlinesFit, LeaseTypes
<1>1. PICK n \in 0 .. N :
        /\ lease' = [m \in Tokens |->
                       IF m \in {deadlines[i].token : i \in 1 .. n} THEN NoRequest ELSE lease[m]]
        /\ deadlines' = SubSeq(deadlines, n + 1, N)
  BY Zenon DEF RemoveExpired
<1>2. /\ deadlines' \in Seq(Deadline) /\ DOMAIN deadlines' = 1 .. N - n
      /\ \A i \in 1 .. N - n : deadlines'[i] = deadlines[i + n]
  <2>1. n + 1 \in 1 .. N + 1 /\ n + 1 \in Int /\ N \in Int /\ N - (n + 1) + 1 = N - n
    BY <1>0
  <2>2. /\ deadlines' = [i \in 1 .. N - n |-> deadlines[i + n]]
        /\ N - n \in Nat /\ \A i \in 1 .. N - n : i + n \in 1 .. N
    BY <1>0, <1>1, <2>1
  <2>3. \A i \in 1 .. N - n : deadlines[i + n] \in Deadline
    BY <1>0, <2>2, DeadlineTypes, Zenon
  <2> QED BY <2>2, <2>3
<1>3. LeaseTypes'
  BY <1>0, <1>1, <1>2, Zenon DEF LeaseTypes
<1>4. LeasesHaveDeadlines'
  <2>1. ASSUME NEW m \in Tokens, lease'[m] # NoRequest
        PROVE  \E i \in DOMAIN deadlines' : deadlines'[i].token = m
    <3>1. lease[m] # NoRequest /\ \A i \in 1 .. n : deadlines[i].token # m
      BY <1>1, <2>1, Zenon
    <3>2. PICK i \in 1 .. N : deadlines[i].token = m
      BY <1>0, <3>1, Zenon DEF DeadlinesFit, LeasesHaveDeadlines
    <3>3. i - n \in 1 .. N - n /\ (i - n) + n = i
      BY <1>0, <3>1, <3>2
    <3> QED BY <1>2, <3>2, <3>3, Zenon
  <2> QED BY <2>1, Zenon DEF LeasesHaveDeadlines
<1>5. DeadlinesSorted'
  <2>1. ASSUME NEW i \in 1 .. N - n, NEW j \in 1 .. N - n, i < j
        PROVE  deadlines[i + n].left <= deadlines[j + n].left
    <3>1. i + n \in 1 .. N /\ j + n \in 1 .. N /\ i + n < j + n
      BY <1>0, <2>1
    <3> QED BY <1>0, <3>1, Zenon DEF DeadlinesFit, DeadlinesSorted
  <2> QED BY <1>2, <2>1, ZenonT(60) DEF DeadlinesSorted
<1> QED BY <1>3, <1>4, <1>5, Zenon DEF DeadlinesFit

\* Time leaves the order of the deadlines alone, and the timer ahead of the first.
LEMMA TickFits ==
  ASSUME DeadlinesFit, Tick
  PROVE  /\ DeadlinesFit' /\ (deadlines' = <<>> <=> deadlines = <<>>)
         /\ deadlines # <<>> =>
              Head(deadlines').left = IF Head(deadlines).left = 0 THEN 0 ELSE Head(deadlines).left - 1
<1> DEFINE N == Len(deadlines)
<1> DEFINE Down(x) == IF x = 0 THEN 0 ELSE x - 1
<1>0. /\ N \in Nat /\ DOMAIN deadlines = 1 .. N /\ deadlines \in Seq(Deadline)
      /\ \A i \in DOMAIN deadlines : /\ deadlines[i] \in Deadline /\ deadlines[i].left \in 0 .. LeaseTimeout
  BY DeadlineTypes, Zenon DEF DeadlinesFit, LeaseTypes
<1>1. /\ deadlines' = [i \in 1 .. N |-> [deadlines[i] EXCEPT !.left = Down(deadlines[i].left)]]
      /\ lease' = lease
  BY <1>0, Zenon DEF Tick
<1>2. \A x \in Deadline : /\ [x EXCEPT !.left = Down(x.left)] \in Deadline
                          /\ [x EXCEPT !.left = Down(x.left)].left = Down(x.left)
                          /\ [x EXCEPT !.left = Down(x.left)].token = x.token
  BY DEF Deadline
<1> HIDE DEF Down
<1>3. /\ deadlines' \in Seq(Deadline) /\ DOMAIN deadlines' = 1 .. N /\ Len(deadlines') = N
  BY <1>0, <1>1, <1>2
<1>4. \A i \in 1 .. N : deadlines'[i].left = Down(deadlines[i].left) /\ deadlines'[i].token = deadlines[i].token
  BY <1>0, <1>1, <1>2, Zenon
<1>5. \A x, y \in Nat : x <= y => Down(x) <= Down(y)
  BY DEF Down
<1>6. LeaseTypes' /\ LeasesHaveDeadlines'
  <2>1. LeaseTypes'
    BY <1>1, <1>3, Zenon DEF DeadlinesFit, LeaseTypes
  <2>2. LeasesHaveDeadlines'
    <3>1. ASSUME NEW n \in Tokens, lease[n] # NoRequest
          PROVE  \E i \in DOMAIN deadlines' : deadlines'[i].token = n
      <4>1. PICK i \in 1 .. N : deadlines[i].token = n
        BY <1>0, <3>1, Zenon DEF DeadlinesFit, LeasesHaveDeadlines
      <4> QED BY <1>3, <1>4, <4>1, Zenon
    <3>2. lease' = lease
      BY <1>1, Zenon
    <3> QED BY <3>1, <3>2, Zenon DEF LeasesHaveDeadlines
  <2> QED BY <2>1, <2>2, Zenon
<1>7. DeadlinesSorted'
  BY <1>0, <1>3, <1>4, <1>5 DEF DeadlinesFit, DeadlinesSorted
<1>8. deadlines' = <<>> <=> deadlines = <<>>
  BY <1>0, <1>3
<1>9. ASSUME deadlines # <<>> PROVE Head(deadlines').left = Down(Head(deadlines).left)
  <2>1. 1 \in 1 .. N /\ Head(deadlines) = deadlines[1] /\ Head(deadlines') = deadlines'[1]
    BY <1>0, <1>3, <1>8, <1>9, DeadlineTypes, Zenon
  <2> QED BY <1>4, <2>1, Zenon
<1> QED BY <1>6, <1>7, <1>8, <1>9, Zenon DEF DeadlinesFit, Down

\* Each lease has a deadline, and the deadlines stay sorted.
LEMMA DeadlinesKept == Inv /\ [Next]_vars => DeadlinesFit'
<1> SUFFICES ASSUME Inv, [Next]_vars PROVE DeadlinesFit'
  BY Zenon
<1>0. DeadlinesFit
  BY Zenon DEF Inv, ServerInv, TypeOK, LeasesTimed, DeadlinesFit, LeaseTypes, LeasesHaveDeadlines, DeadlinesSorted
<1>1. CASE UNCHANGED leaseVars
  BY <1>0, <1>1, Zenon DEF leaseVars, DeadlinesFit, LeaseTypes, LeasesHaveDeadlines, DeadlinesSorted
<1>2. ASSUME NEW n \in Tokens, lease' = [lease EXCEPT ![n] = NoRequest], deadlines' = deadlines
      PROVE  DeadlinesFit'
  BY <1>0, <1>2, LeaseGoes, Zenon DEF DeadlinesFit, LeaseTypes
<1>3. ASSUME NEW r \in Requests, Insert(r) PROVE DeadlinesFit'
  BY <1>0, <1>3, InsertFits, Zenon
<1>4. CASE DropState
  <2>1. deadlines' = <<>> /\ <<>> \in Seq(Deadline) /\ lease' = [n \in Tokens |-> NoRequest]
    BY <1>4 DEF DropState
  <2> QED BY <2>1 DEF DeadlinesFit, LeaseTypes, LeasesHaveDeadlines, DeadlinesSorted
<1>5. ASSUME NEW r \in Requests, Call(r) PROVE DeadlinesFit'
  <2>1. ASSUME NEW n \in Tokens, Cancel(r, n) PROVE DeadlinesFit'
    BY <1>2, <2>1, Zenon DEF Cancel
  <2>2. ASSUME NEW k \in Keys, Write(r, k) PROVE DeadlinesFit'
    BY <1>3, <2>2, Zenon DEF Write
  <2>3. CASE UNCHANGED leaseVars
    BY <1>1, <2>3, Zenon
  <2> QED BY <1>5, <2>1, <2>2, <2>3, Zenon DEF Call, Ignore, Refuse, Unavailable, WriteDeclined, WriteMetadataFails,
            WriteMetadata, Spawn
<1>6. CASE RemoveExpired
  BY <1>0, <1>6, RemoveExpiredFits, ZenonT(60)
<1>7. ASSUME NEW r \in Requests, Granted(r) \/ Handle(r) \/ Abandon(r) \/ DrainTask(r) \/ Stream(r)
      PROVE  DeadlinesFit'
  BY <1>1, <1>3, <1>7, Zenon DEF Granted, Handle, Abandon, DrainTask, Stream, Read, ReadMetadata, Remove, Miss, Find, Stale,
       ReadRespond, RemoveFails, Removed, StreamRead, StreamCommitted, StreamAbort, StreamErased, StreamCommit
<1>8. ASSUME NEW n \in Tokens, Redeem(n) \/ RedeemFails(n) PROVE DeadlinesFit'
  BY <1>2, <1>8, Zenon DEF Redeem, RedeemFails
<1>9. CASE Tick
  BY <1>0, <1>9, TickFits, Zenon
<1>10. CASE EvictTask \/ ExpireTask \/ ExpireLocked \/ \E t \in Tasks : Discharge(t)
  BY <1>1, <1>10, Zenon DEF EvictTask, EvictNext, Evicted, EvictFails, EvictDone, ExpireTask, ExpireNext, ExpireStale,
       ExpireRemoved, ExpireFails, ExpireDone, ExpireCancelled, ExpireLocked, Discharge
<1> QED BY <1>1, <1>4, <1>5, <1>6, <1>7, <1>8, <1>9, <1>10, Zenon
      DEF Next, Turn, vars, Drain, SendResponse, JoinTask, SpawnExpire, JoinEvict, JoinExpire, LogStats,
          CleanupFails, SocketFails, ReturnError, Stop, StopServing, DrainEvict, DrainExpire, DrainFails, Stopped

\* The actor's timeout, or what sends it round its loop before it needs one.
TimerFits ==
  server = "running" /\ deadlines # <<>> =>
    \/ timer # NoTimer /\ timer <= Head(deadlines).left
    \/ outbox # {} \/ \E r \in Requests : task[r] \in {"leased", "finished"}
TimerType == timer \in 0 .. LeaseTimeout \cup {NoTimer}

\* The actor's timer is set for the first deadline whenever there is one, since each
\* turn of its loop sets it again.
LEMMA TimerKept ==
  ASSUME Inv, [Next]_vars, DeadlinesFit', task' \in [Requests -> TaskStates]
  PROVE  TimerType' /\ TimerFits'
<1>0. /\ DeadlinesFit /\ TimerType /\ TimerFits
      /\ task \in [Requests -> TaskStates]
  BY Zenon DEF Inv, ServerInv, TypeOK, LeasesTimed, DeadlinesFit, LeaseTypes, LeasesHaveDeadlines, DeadlinesSorted,
         TimerType, TimerFits, TaskStates
<1>1. \A d \in Seq(Deadline) : d # <<>> => Head(d).left \in 0 .. LeaseTimeout
  BY DeadlineTypes, Zenon
<1>2. ASSUME timer' = IF deadlines' = <<>> THEN NoTimer ELSE Head(deadlines').left PROVE TimerType' /\ TimerFits'
  <2>1. deadlines' # <<>> => Head(deadlines').left \in 0 .. LeaseTimeout
    BY <1>1, Zenon DEF DeadlinesFit, LeaseTypes
  <2> QED BY <1>2, <2>1 DEF TimerType, TimerFits
<1>3. ASSUME timer' = timer, deadlines' = deadlines, outbox \subseteq outbox',
             server' = "running" => server = "running",
             ASSUME NEW r \in Requests, task[r] \in {"leased", "finished"}, server' = "running"
             PROVE  task'[r] \in {"leased", "finished"}
      PROVE  TimerType' /\ TimerFits'
  BY <1>0, <1>3, Zenon DEF TimerType, TimerFits
<1>4. CASE Tick
  <2>1. /\ timer' = IF timer \in {0, NoTimer} THEN timer ELSE timer - 1
        /\ server' = server /\ outbox' = outbox /\ task' = task
    BY <1>4, Zenon DEF Tick, reqVars
  <2>2. /\ deadlines' = <<>> <=> deadlines = <<>>
        /\ deadlines # <<>> =>
             /\ Head(deadlines).left \in 0 .. LeaseTimeout
             /\ Head(deadlines').left = IF Head(deadlines).left = 0 THEN 0 ELSE Head(deadlines).left - 1
    BY <1>0, <1>1, <1>4, TickFits, Zenon DEF DeadlinesFit, LeaseTypes
  <2> QED BY <1>0, <2>1, <2>2 DEF TimerType, TimerFits
<1>5. ASSUME NEW r \in Requests, Read(r) PROVE TimerType' /\ TimerFits'
  BY <1>0, <1>5, Zenon DEF Read, TimerType, TimerFits, actorVars
<1>6. ASSUME NEW r \in Requests, ReadMetadata(r) \/ Remove(r) \/ Handle(r) \/ Abandon(r)
      PROVE  TimerType' /\ TimerFits'
  BY <1>0, <1>3, <1>6, Zenon DEF Handle, Abandon, ReadMetadata, Remove, Miss, Find, Stale, ReadRespond, RemoveFails, Removed,
       Finish, Respond, Handlers, leaseVars, reqVars, actorVars
<1>7. ASSUME NEW r \in Requests, DrainTask(r) \/ Stream(r) PROVE TimerType' /\ TimerFits'
  BY <1>3, <1>7, Zenon DEF DrainTask, Stream, StreamRead, StreamCommitted, StreamAbort, StreamErased, StreamCommit,
       leaseVars, reqVars, actorVars
<1>8. ASSUME NEW n \in Tokens, Redeem(n) \/ RedeemFails(n) PROVE TimerType' /\ TimerFits'
  BY <1>3, <1>8, Zenon DEF Redeem, RedeemFails, leaseVars, reqVars, actorVars
<1>9. CASE EvictTask \/ ExpireTask \/ ExpireLocked \/ \E t \in Tasks : Discharge(t)
  BY <1>3, <1>9, Zenon DEF EvictTask, EvictNext, Evicted, EvictFails, EvictDone, ExpireTask, ExpireNext, ExpireStale,
       ExpireRemoved, ExpireFails, ExpireDone, ExpireCancelled, ExpireLocked, Discharge, leaseVars, reqVars, actorVars
<1>10. CASE CleanupFails \/ SocketFails \/ Stop \/ StopServing \/ DrainEvict \/ DrainExpire \/ DrainFails \/ Stopped
  BY <1>3, <1>10, Zenon DEF CleanupFails, SocketFails, ReturnError, Stop, StopServing, DrainEvict, DrainExpire, DrainFails, Stopped, leaseVars, reqVars, actorVars
<1>11. CASE DropState
  BY <1>0, <1>11, Zenon DEF DropState, TimerType, TimerFits, actorVars
<1>12. CASE UNCHANGED vars
  BY <1>3, <1>12, Zenon DEF vars, leaseVars, reqVars, actorVars
<1> QED BY <1>2, <1>4, <1>5, <1>6, <1>7, <1>8, <1>9, <1>10, <1>11, <1>12, ZenonT(40) DEF Next, Turn, Granted, Drain

-----------------------------------------------------------------------------
(* The types of the other variables *)

WaitTypes == wait \in [Tasks -> {"no", "lock", "stale"}] /\ want \in [Tasks -> Keys \cup {NoKey}]
RequestTypes ==
  /\ permits \subseteq Requests /\ outbox \subseteq Requests /\ queue \subseteq Keys
  /\ stream \in [Requests -> {"none", "open"}]
ActorTypes ==
  /\ server \in ServerStates /\ serving \in BOOLEAN /\ armed \in BOOLEAN
  /\ evict \in {"none", "running", "detached", "failed", "finished"}
  /\ expire \in {"none", "running", "failed", "finished"}

\* The types of the remaining variables, a group at a time.
LEMMA WaitTypesKept == Inv /\ [Next]_vars => WaitTypes'
<1> SUFFICES ASSUME Inv, [Next]_vars PROVE WaitTypes'
  BY Zenon
<1>0. WaitTypes
  BY Zenon DEF Inv, ServerInv, TypeOK, WaitTypes
<1>1. CASE UNCHANGED lockVars
  BY <1>0, <1>1, Zenon DEF lockVars, WaitTypes
<1>2. CASE Waits(wait) /\ want' = want
  BY <1>0, <1>2, Zenon DEF Waits, WaitTypes
<1>3. ASSUME NEW t \in Tasks, NEW w \in {"no", "lock"}, wait' = [wait EXCEPT ![t] = w], want' = want PROVE WaitTypes'
  BY <1>0, <1>3, Zenon DEF WaitTypes
<1>4. ASSUME NEW r \in Requests, NEW k \in Keys, NEW handler \in Handlers, Spawn(r, handler, k) PROVE WaitTypes'
  BY <1>0, <1>4, Zenon DEF Spawn, WaitTypes
<1>5. ASSUME NEW k \in Keys, ExpireNext(k) PROVE WaitTypes'
  BY <1>0, <1>5, ZenonT(60) DEF ExpireNext, WaitTypes
<1>6. ASSUME NEW r \in Requests, Call(r) PROVE WaitTypes'
  BY <1>1, <1>2, <1>4, <1>6, ZenonT(60) DEF Call, Ignore, Refuse, Unavailable, Cancel, Write, WriteDeclined, WriteMetadataFails,
       WriteMetadata, DropIos
<1>7. ASSUME NEW r \in Requests, Granted(r) \/ Handle(r) \/ Abandon(r) \/ DrainTask(r) PROVE WaitTypes'
  BY <1>1, <1>2, <1>3, <1>7, ZenonT(60) DEF Granted, Handle, Abandon, DrainTask, Read, ReadMetadata, Remove, Miss, Find, Stale,
       ReadRespond, RemoveFails, Removed
<1>8. ASSUME NEW r \in Requests, Stream(r) PROVE WaitTypes'
  BY <1>1, <1>2, <1>8, ZenonT(60) DEF Stream, StreamRead, StreamCommitted, StreamAbort, StreamErased, StreamCommit, DropIos
<1>9. CASE EvictTask \/ ExpireTask \/ ExpireLocked \/ \E t \in Tasks : Discharge(t)
  BY <1>1, <1>2, <1>3, <1>5, <1>9, ZenonT(60) DEF EvictTask, EvictNext, Evicted, EvictFails, EvictDone, ExpireTask, ExpireStale,
       ExpireRemoved, ExpireFails, ExpireDone, ExpireCancelled, ExpireLocked, Discharge
<1>10. CASE RemoveExpired \/ DropState \/ \E n \in Tokens : Redeem(n) \/ RedeemFails(n)
  BY <1>1, <1>2, <1>10, ZenonT(60) DEF RemoveExpired, DropState, Redeem, RedeemFails, DropIos
<1> QED BY <1>1, <1>6, <1>7, <1>8, <1>9, <1>10, Zenon
      DEF Next, Turn, vars, Drain, SendResponse, JoinTask, SpawnExpire, JoinEvict, JoinExpire, LogStats,
          CleanupFails, SocketFails, ReturnError, Stop, StopServing, DrainEvict, DrainExpire, DrainFails, Stopped, Tick

\* The variables of the requests.
LEMMA RequestTypesKept == Inv /\ [Next]_vars => RequestTypes'
<1> SUFFICES ASSUME Inv, [Next]_vars PROVE RequestTypes'
  BY Zenon
<1>0. RequestTypes /\ lease \in [Tokens -> Requests \cup {NoRequest}]
  BY Zenon DEF Inv, ServerInv, TypeOK, RequestTypes
<1>1. ASSUME stream' \in [Requests -> {"none", "open"}], NEW rs, rs \subseteq Requests, NEW ks, ks \subseteq Keys,
             outbox' \subseteq outbox \cup rs, permits' \subseteq permits \cup rs, queue' \subseteq queue \cup ks
      PROVE  RequestTypes'
  BY <1>0, <1>1, Zenon DEF RequestTypes
<1>2. stream \in [Requests -> {"none", "open"}]
  BY <1>0, Zenon DEF RequestTypes
<1>3. ASSUME NEW r \in Requests, stream' = [stream EXCEPT ![r] = "none"] PROVE stream' \in [Requests -> {"none", "open"}]
  BY <1>2, <1>3, Zenon
<1>4. ASSUME stream' = stream, queue' = queue, outbox' \subseteq outbox, permits' \subseteq permits PROVE RequestTypes'
  BY <1>0, <1>4, ZenonT(60) DEF RequestTypes
<1>5. ASSUME NEW r \in Requests, Call(r) PROVE RequestTypes'
  <2>1. ASSUME NEW k \in Keys, NEW m \in Metadata, WriteMetadata(r, k, m) PROVE RequestTypes'
    <3>1. queue' \subseteq queue \cup {k}
      BY <2>1, Zenon DEF WriteMetadata
    <3> QED BY <1>1, <1>2, <2>1, <3>1 DEF WriteMetadata, InPlace, Respond
  <2>2. CASE stream' = stream /\ queue' = queue /\ outbox' \subseteq outbox \cup {r} /\ permits' \subseteq permits \cup {r}
    BY <1>1, <1>2, <2>2, ZenonT(60)
  <2> QED BY <1>5, <2>1, <2>2, ZenonT(60) DEF Call, Ignore, Refuse, Unavailable, Cancel, Write, WriteDeclined, WriteMetadataFails,
            Spawn, InPlace, Respond, DropIos
<1>6. ASSUME NEW r \in Requests, Granted(r) \/ Handle(r) \/ Abandon(r) \/ DrainTask(r) PROVE RequestTypes'
  <2>1. stream' = stream /\ queue' = queue /\ outbox' \subseteq outbox \cup {r} /\ permits' \subseteq permits \cup {r}
    BY <1>6, Zenon DEF Granted, Handle, Abandon, DrainTask, Read, ReadMetadata, Remove, Miss, Find, Stale,
         ReadRespond, RemoveFails, Removed, Respond, Finish, reqVars
  <2> QED BY <1>1, <1>2, <2>1, ZenonT(60)
<1>7. ASSUME NEW r \in Requests, Stream(r) PROVE RequestTypes'
  <2>1. ASSUME NEW m \in Metadata, StreamCommit(r, m) PROVE RequestTypes'
    <3>1. at[r] \in Keys
      BY <2>1, HeldCell, Zenon DEF StreamCommit, Inv, ServerInv
    <3>2. queue' \subseteq queue \cup {at[r]} /\ stream' = stream /\ outbox' = outbox /\ permits' = permits
      BY <2>1, Zenon DEF StreamCommit, reqVars
    <3> QED BY <1>1, <1>2, <3>1, <3>2, ZenonT(60)
  <2>2. CASE StreamRead(r) \/ StreamCommitted(r) \/ StreamAbort(r) \/ StreamErased(r)
    <3>1. /\ queue' = queue /\ outbox' = outbox /\ permits' \subseteq permits
          /\ stream' = stream \/ stream' = [stream EXCEPT ![r] = "none"]
      BY <2>2, Zenon DEF StreamRead, StreamCommitted, StreamAbort, StreamErased, DropIos, reqVars
    <3> QED BY <1>0, <1>3, <3>1, Zenon DEF RequestTypes
  <2> QED BY <1>7, <2>1, <2>2, Zenon DEF Stream
<1>8. CASE ExpireTask \/ ExpireLocked
  <2>1. /\ stream' = stream /\ outbox' = outbox /\ permits' = permits
        /\ queue' \subseteq queue \cup ({want[Expirer]} \cap Keys)
    <3>1. guard[Expirer] # "none" \/ wait[Expirer] # "no" => want[Expirer] \in Keys
      BY HeldCell, Zenon DEF Inv, ServerInv, WaitersFit, WaiterFits, CleanersFit
    <3> QED BY <1>8, <3>1, Zenon DEF ExpireTask, ExpireNext, ExpireStale, ExpireRemoved, ExpireFails, ExpireDone,
              ExpireCancelled, ExpireLocked, reqVars
  <2> QED BY <1>0, <2>1, Zenon DEF RequestTypes
<1>9. CASE EvictTask \/ \E t \in Tasks : Discharge(t)
  BY <1>4, <1>9, Zenon DEF EvictTask, EvictNext, Evicted, EvictFails, EvictDone, Discharge, reqVars
<1>10. ASSUME NEW n \in Tokens, Redeem(n) PROVE RequestTypes'
  <2>1. stream' = [stream EXCEPT ![lease[n]] = "open"] /\ queue' = queue /\ outbox' = outbox /\ permits' = permits
    BY <1>10, Zenon DEF Redeem, reqVars
  <2> QED BY <1>0, <2>1, Zenon DEF RequestTypes
<1>11. CASE RemoveExpired \/ DropState \/ \E n \in Tokens : RedeemFails(n)
  BY <1>4, <1>11, Zenon DEF RemoveExpired, DropState, RedeemFails, DropIos
<1>12. CASE \/ \E r \in Requests : SendResponse(r) \/ JoinTask(r)
            \/ SpawnExpire \/ JoinEvict \/ JoinExpire \/ LogStats \/ CleanupFails \/ SocketFails \/ Stop \/ StopServing
            \/ DrainEvict \/ DrainExpire \/ DrainFails \/ Stopped \/ Tick \/ UNCHANGED vars
  BY <1>4, <1>12, Zenon DEF vars, SendResponse, JoinTask, SpawnExpire, JoinEvict, JoinExpire, LogStats,
       CleanupFails, SocketFails, ReturnError, Stop, StopServing, DrainEvict, DrainExpire, DrainFails, Stopped, Tick, reqVars
<1> QED BY <1>5, <1>6, <1>7, <1>8, <1>9, <1>10, <1>11, <1>12, ZenonT(60) DEF Next, Turn, Drain

\* The variables of the actor.
LEMMA ActorTypesKept == Inv /\ [Next]_vars => ActorTypes'
<1> SUFFICES ASSUME Inv, [Next]_vars PROVE ActorTypes'
  BY Zenon
<1>0. ActorTypes
  BY Zenon DEF Inv, ServerInv, TypeOK, ActorTypes, ServerStates
<1>1. CASE UNCHANGED <<actorVars, serving>>
  BY <1>0, <1>1, Zenon DEF ActorTypes, actorVars
<1>2. ASSUME server' = server, serving' = serving, armed' \in BOOLEAN,
             evict' \in {evict, "none", "running"}, expire' \in {expire, "none", "running"}
      PROVE  ActorTypes'
  BY <1>0, <1>2, Zenon DEF ActorTypes
<1>3. (expire' = "none" /\ queue' # {}) \in BOOLEAN
  BY ZenonT(60)
<1>4. ASSUME NEW r \in Requests, Turn(Call(r)) \/ Turn(SendResponse(r)) \/ Turn(JoinTask(r)) PROVE ActorTypes'
  BY <1>2, <1>3, <1>4, Zenon DEF Turn, Call, Ignore, Refuse, Unavailable, Cancel, Write, WriteDeclined, WriteMetadataFails,
       WriteMetadata, Spawn, SendResponse, JoinTask
<1>5. CASE Turn(RemoveExpired) \/ Turn(SpawnExpire) \/ Turn(JoinEvict) \/ Turn(JoinExpire) \/ Turn(LogStats)
  BY <1>2, <1>3, <1>5, Zenon DEF Turn, RemoveExpired, SpawnExpire, JoinEvict, JoinExpire, LogStats
<1>6. ASSUME NEW r \in Requests, Granted(r) \/ Handle(r) \/ Abandon(r) \/ DrainTask(r) \/ Stream(r) PROVE ActorTypes'
  BY <1>1, <1>6, ZenonT(60) DEF Granted, Handle, Abandon, DrainTask, Read, ReadMetadata, Remove, Miss, Find, Stale, ReadRespond,
       RemoveFails, Removed, Stream, StreamRead, StreamCommitted, StreamAbort, StreamErased, StreamCommit
<1>7. CASE EvictTask \/ ExpireTask \/ ExpireLocked \/ \E t \in Tasks : Discharge(t)
  BY <1>0, <1>7, ZenonT(60) DEF EvictTask, EvictNext, Evicted, EvictFails, EvictDone, ExpireTask, ExpireNext, ExpireStale,
       ExpireRemoved, ExpireFails, ExpireDone, ExpireCancelled, ExpireLocked, Discharge, actorVars, ActorTypes
<1>8. CASE CleanupFails \/ SocketFails \/ Stop \/ StopServing \/ Drain \/ Tick \/ \E n \in Tokens : Redeem(n) \/ RedeemFails(n)
  BY <1>0, <1>8, ZenonT(60) DEF CleanupFails, SocketFails, ReturnError, Stop, StopServing, Drain, DrainEvict, DrainExpire, DrainFails, Stopped, DropState, Tick, Redeem,
       RedeemFails, actorVars, ActorTypes, ServerStates
<1> QED BY <1>1, <1>4, <1>5, <1>6, <1>7, <1>8, Zenon DEF Next, vars

-----------------------------------------------------------------------------
(* Guards and permits *)

\* A step leaves a request alone, or takes all from it.
Same(q) ==
  /\ task'[q] = task[q] /\ guard'[q] = guard[q] /\ stream'[q] = stream[q]
  /\ q \in permits' <=> q \in permits
  /\ \A n \in Tokens : lease'[n] = q <=> lease[n] = q
Freed(q) ==
  /\ Spent(q)' /\ guard'[q] = "none" /\ stream'[q] = "none" /\ q \notin permits'
  /\ \A n \in Tokens : lease'[n] # q

\* A request that a step does not touch keeps what it owns.
LEMMA SameOwned == ASSUME NEW q \in Requests, Owned(q), Same(q) PROVE Owned(q)'
<1>1. Leased(q)' <=> Leased(q)
  BY Zenon DEF Same, Leased
<1>2. Spent(q)' <=> Spent(q)
  BY Zenon DEF Same, Spent
<1>3. \A m, n \in Tokens : lease'[m] = q /\ lease'[n] = q => m = n
  BY Zenon DEF Same, Owned
<1> QED BY <1>1, <1>2, <1>3, Zenon DEF Same, Owned

\* A request that has given everything back owns nothing.
LEMMA FreedOwned == ASSUME NEW q \in Requests, Freed(q) PROVE Owned(q)'
<1>1. ~Leased(q)'
  BY Zenon DEF Freed, Leased
<1>2. task'[q] \notin Handlers
  BY Zenon DEF Freed, Spent
<1> QED BY <1>1, <1>2, Zenon DEF Freed, Owned

\* Every step hands a guard or a permit over whole.
LEMMA OwnedKept == Inv /\ [Next]_vars => ResourcesOwned'
<1> SUFFICES ASSUME Inv, [Next]_vars PROVE ResourcesOwned'
  BY Zenon
<1>0. /\ task \in [Requests -> TaskStates] /\ guard \in [Tasks -> GuardKinds]
      /\ stream \in [Requests -> {"none", "open"}] /\ lease \in [Tokens -> Requests \cup {NoRequest}]
      /\ permits \subseteq Requests /\ \A q \in Requests : q \in Tasks /\ Owned(q)
  BY Zenon DEF Inv, ServerInv, TypeOK, TaskStates, GuardedMapInv, GuardedMapTypeOK, ResourcesOwned
<1>1. ASSUME \A q \in Requests : Same(q) \/ Freed(q) PROVE ResourcesOwned'
  BY <1>0, <1>1, SameOwned, FreedOwned, Zenon DEF ResourcesOwned
<1>2. ASSUME NEW r \in Requests, Owned(r)', \A q \in Requests \ {r} : Same(q) PROVE ResourcesOwned'
  BY <1>0, <1>2, SameOwned, Zenon DEF ResourcesOwned
<1>3. CASE UNCHANGED <<task, guard, permits, lease, stream>>
  BY <1>1, <1>3, Zenon DEF Same
\* A new request.
<1>4. ASSUME NEW r \in Requests, task[r] = "new"
      PROVE  /\ guard[r] = "none" /\ stream[r] = "none" /\ r \notin permits
             /\ \A n \in Tokens : lease[n] # r
  BY <1>0, <1>4 DEF Owned, Leased, Spent, Handlers
<1>5. ASSUME NEW r \in Requests, Call(r) PROVE ResourcesOwned'
  <2>0. task[r] = "new"
    BY <1>5, Zenon DEF Call, Ignore, Refuse, Unavailable, Cancel, Write, WriteDeclined, WriteMetadataFails, WriteMetadata, Spawn, Receive
  <2>1. CASE InPlace(r) /\ UNCHANGED <<guard, permits, lease, stream>>
    <3>1. Freed(r) /\ \A q \in Requests \ {r} : Same(q)
      BY <1>0, <1>4, <2>0, <2>1, Zenon DEF InPlace, Freed, Same, Spent, Handlers
    <3> QED BY <1>1, <3>1, Zenon
  <2>2. ASSUME NEW n \in Tokens, Cancel(r, n) PROVE ResourcesOwned'
    <3>1. /\ task' = [task EXCEPT ![r] = "call"] /\ lease' = [lease EXCEPT ![n] = NoRequest] /\ stream' = stream
          /\ guard' = [t \in Tasks |-> IF t \in {lease[n]} \cap Requests THEN "none" ELSE guard[t]]
          /\ permits' = permits \ ({lease[n]} \cap Requests)
      BY <2>2, Zenon DEF Cancel, DropIos, InPlace
    <3>2. lease[n] # r /\ Freed(r)
      BY <1>0, <1>4, <2>0, <3>1, Zenon DEF Freed, Spent, Handlers
    <3>3. ASSUME NEW q \in Requests \ {r}, q # lease[n] PROVE Same(q)
      BY <1>0, <3>1, <3>3, Zenon DEF Same
    <3>4. ASSUME NEW q \in Requests, q = lease[n] PROVE Freed(q)
      <4>1. Leased(q) /\ Owned(q) /\ \A m \in Tokens : lease[m] = q => m = n
        BY <1>0, <3>4 DEF Leased, Owned
      <4> QED BY <1>0, <3>1, <3>2, <3>4, <4>1, ZenonT(60) DEF Freed, Spent, Owned
    <3> QED BY <1>1, <3>2, <3>3, <3>4, Zenon
  <2>3. ASSUME NEW k \in Keys, Write(r, k) PROVE ResourcesOwned'
    <3>1. PICK n \in Tokens : lease[n] = NoRequest /\ lease' = [lease EXCEPT ![n] = r]
      BY <2>3, Zenon DEF Write, Insert, FreeTokens
    <3>2. /\ task' = [task EXCEPT ![r] = "call"] /\ guard' = [guard EXCEPT ![r] = "write"]
          /\ permits' = permits \cup {r} /\ stream' = stream
      BY <2>3, Zenon DEF Write, LockWrite, InsertNew, Hold, InPlace
    <3>3. Owned(r)'
      BY <1>0, <1>4, <2>0, <3>1, <3>2 DEF Owned, Leased, Spent, Handlers
    <3>4. \A q \in Requests \ {r} : Same(q)
      BY <1>0, <3>1, <3>2, Zenon DEF Same
    <3> QED BY <1>2, <3>3, <3>4, Zenon
  <2>4. ASSUME NEW k \in Keys, NEW handler \in Handlers, Spawn(r, handler, k) PROVE ResourcesOwned'
    <3>1. /\ task' = [task EXCEPT ![r] = handler] /\ permits' = permits \cup {r}
          /\ UNCHANGED <<guard, lease, stream>>
      BY <2>4, Zenon DEF Spawn, mapVars, leaseVars
    <3>2. Owned(r)'
      BY <1>0, <1>4, <2>0, <3>1 DEF Owned, Leased, Spent
    <3>3. \A q \in Requests \ {r} : Same(q)
      BY <1>0, <3>1, Zenon DEF Same
    <3> QED BY <1>2, <3>2, <3>3, Zenon
  <2>5. CASE Ignore(r)
    <3>1. task' = [task EXCEPT ![r] = "ignored"] /\ UNCHANGED <<guard, permits, lease, stream>>
      BY <2>5, Zenon DEF Ignore, mapVars, leaseVars
    <3>2. Freed(r) /\ \A q \in Requests \ {r} : Same(q)
      BY <1>0, <1>4, <2>0, <3>1, Zenon DEF Freed, Same, Spent, Handlers
    <3> QED BY <1>1, <3>2, Zenon
  <2> QED BY <1>5, <2>1, <2>2, <2>3, <2>4, <2>5, Zenon DEF Call, Refuse, Unavailable, WriteDeclined, WriteMetadataFails,
            WriteMetadata, mapVars, leaseVars
\* A handler that is done without a guard.
<1>6. ASSUME NEW r \in Requests, task[r] \in Handlers, Finish(r), stream' = stream, lease' = lease,
             guard' = [guard EXCEPT ![r] = "none"] \/ (guard' = guard /\ guard[r] = "none")
      PROVE  ResourcesOwned'
  <2>1. stream[r] = "none" /\ \A n \in Tokens : lease[n] # r
    BY <1>0, <1>6, Zenon DEF Owned, Leased, Spent
  <2>2. Freed(r)
    BY <1>0, <1>6, <2>1, Zenon DEF Freed, Finish, Spent, Handlers
  <2>3. \A q \in Requests \ {r} : Same(q)
    BY <1>0, <1>6, Zenon DEF Same, Finish
  <2> QED BY <1>1, <2>2, <2>3, Zenon
<1>7. ASSUME NEW r \in Requests, Granted(r) PROVE ResourcesOwned'
  <2>0. wait[r] = "lock" /\ task[r] \in Handlers /\ guard[r] = "none"
    BY <1>0, <1>7, Zenon DEF Granted, Read, ReadMetadata, Remove, Handlers, Inv, ServerInv, WaitersFit, WaiterFits
  <2>1. CASE ReadMetadata(r)
    BY <1>6, <2>0, <2>1, Zenon DEF ReadMetadata, mapVars, leaseVars
  <2>2. CASE Read(r)
    <3>1. PICK n \in Tokens : lease[n] = NoRequest /\ lease' = [lease EXCEPT ![n] = r]
      BY <2>2, Zenon DEF Read, Insert, FreeTokens
    <3>2. /\ task' = [task EXCEPT ![r] = "leased"] /\ guard' = [guard EXCEPT ![r] = "read"]
          /\ permits' = permits /\ stream' = stream
      BY <2>2, Zenon DEF Read, LockRead, Hold
    <3>3. Owned(r)'
      BY <1>0, <2>0, <3>1, <3>2 DEF Owned, Leased, Spent, Handlers
    <3>4. \A q \in Requests \ {r} : Same(q)
      BY <1>0, <3>1, <3>2, Zenon DEF Same
    <3> QED BY <1>2, <3>3, <3>4, Zenon
  <2>3. CASE Remove(r)
    <3>1. guard' = [guard EXCEPT ![r] = "remove"] /\ UNCHANGED <<task, permits, lease, stream>> /\ task[r] = "remove"
      BY <2>3, Zenon DEF Remove, LockRemove, Hold, reqVars, leaseVars
    <3>2. Owned(r)'
      BY <1>0, <2>0, <3>1, Zenon DEF Owned, Leased, Spent, Handlers
    <3>3. \A q \in Requests \ {r} : Same(q)
      BY <1>0, <3>1, Zenon DEF Same
    <3> QED BY <1>2, <3>2, <3>3, Zenon
  <2> QED BY <1>7, <2>1, <2>2, <2>3, Zenon DEF Granted
<1>8. ASSUME NEW r \in Requests, Handle(r) \/ Abandon(r) \/ DrainTask(r) \/ JoinTask(r) PROVE ResourcesOwned'
  <2>1. CASE Miss(r) \/ Stale(r) \/ Abandon(r)
    <3>1. guard[r] = "none"
      BY <2>1, Zenon DEF Miss, Stale, Abandon, Inv, ServerInv, WaitersFit, WaiterFits
    <3> QED BY <1>6, <2>1, <3>1, Zenon DEF Miss, Stale, Abandon, mapVars, leaseVars
  <2>2. CASE RemoveFails(r) \/ Removed(r)
    BY <1>6, <2>2, Zenon DEF RemoveFails, Removed, DropGuard, RemoveCell, LetGo, Hold, Handlers, leaseVars
  <2>3. CASE Find(r)
    BY <1>3, <2>3, Zenon DEF Find, mapVars, reqVars, leaseVars
  <2>4. CASE ReadRespond(r) \/ DrainTask(r) \/ JoinTask(r)
    <3>1. /\ task[r] \in {"leased", "finished"} /\ UNCHANGED <<guard, permits, lease, stream>>
          /\ task' = [task EXCEPT ![r] = "finished"] \/ task' = [task EXCEPT ![r] = "joined"]
      BY <2>4, Zenon DEF ReadRespond, DrainTask, JoinTask, mapVars, leaseVars
    <3>2. Owned(r)'
      BY <1>0, <3>1 DEF Owned, Leased, Spent, Handlers
    <3>3. \A q \in Requests \ {r} : Same(q)
      BY <1>0, <3>1, Zenon DEF Same
    <3> QED BY <1>2, <3>2, <3>3, Zenon
  <2> QED BY <1>8, <2>1, <2>2, <2>3, <2>4, Zenon DEF Handle
<1>9. ASSUME NEW r \in Requests, Stream(r) PROVE ResourcesOwned'
  <2>0. stream[r] = "open" /\ Spent(r) /\ \A n \in Tokens : lease[n] # r
    BY <1>0, <1>9, Zenon DEF Stream, StreamRead, StreamCommitted, StreamAbort, StreamErased, StreamCommit, Owned, Leased
  <2>1. CASE StreamRead(r) \/ StreamCommitted(r) \/ StreamErased(r)
    <3>1. /\ stream' = [stream EXCEPT ![r] = "none"] /\ UNCHANGED <<task, lease>>
          /\ \/ guard' = [guard EXCEPT ![r] = "none"]
             \/ guard' = [t \in Tasks |-> IF t \in {r} THEN "none" ELSE guard[t]]
          /\ permits' = permits \ {r} \/ (permits' = permits /\ guard[r] = "discharged")
      BY <2>1, Zenon DEF StreamRead, StreamCommitted, StreamErased, DropIos, CommitCell, RemoveCell, LetGo, Hold, leaseVars, reqVars
    <3>2. r \notin permits'
      BY <1>0, <2>0, <3>1, Zenon DEF Owned, Spent
    <3>3. Freed(r)
      BY <1>0, <2>0, <3>1, <3>2, Zenon DEF Freed, Spent
    <3>4. \A q \in Requests \ {r} : Same(q)
      BY <1>0, <3>1, Zenon DEF Same
    <3> QED BY <1>1, <3>3, <3>4, Zenon
  <2>2. CASE StreamAbort(r) \/ \E m \in Metadata : StreamCommit(r, m)
    <3>1. /\ guard[r] = "write" /\ UNCHANGED <<task, lease, stream>>
          /\ \/ guard' = [guard EXCEPT ![r] = "charged"] /\ permits' = permits
             \/ guard' = [guard EXCEPT ![r] = "discharged"] /\ permits' = permits \ {r}
      BY <2>2, Zenon DEF StreamAbort, StreamCommit, ChargeSize, DischargeSize, leaseVars, reqVars
    <3>2. Owned(r)'
      BY <1>0, <2>0, <3>1 DEF Owned, Leased, Spent, Handlers
    <3>3. \A q \in Requests \ {r} : Same(q)
      BY <1>0, <3>1, Zenon DEF Same
    <3> QED BY <1>2, <3>2, <3>3, Zenon
  <2> QED BY <1>9, <2>1, <2>2, Zenon DEF Stream
<1>10. ASSUME NEW t \in {Evictor, Expirer}, NEW g, guard' = [guard EXCEPT ![t] = g],
              UNCHANGED <<task, permits, lease, stream>>
       PROVE  ResourcesOwned'
  <2>1. \A q \in Requests : Same(q)
    BY <1>0, <1>10, ZenonT(60) DEF Same
  <2> QED BY <1>1, <2>1, Zenon
<1>11. CASE EvictTask \/ ExpireTask \/ ExpireLocked
  BY <1>3, <1>10, <1>11, Zenon DEF EvictTask, EvictNext, Evicted, EvictFails, EvictDone, ExpireTask, ExpireNext, ExpireStale,
       ExpireRemoved, ExpireFails, ExpireDone, ExpireCancelled, ExpireLocked, LockRemove, RemoveCell, DropGuard,
       LetGo, Hold, mapVars, reqVars, leaseVars
<1>12. ASSUME NEW t \in Tasks, Discharge(t) PROVE ResourcesOwned'
  <2>1. /\ guard[t] = "remove" /\ guard' = [guard EXCEPT ![t] = "discharged"]
        /\ UNCHANGED <<task, permits, lease, stream>>
    BY <1>12, Zenon DEF Discharge, DischargeSize, reqVars, leaseVars
  <2>2. CASE t \in {Evictor, Expirer}
    BY <1>10, <2>1, <2>2, Zenon
  <2>3. CASE t \in Requests
    <3>1. Owned(t)'
      BY <1>0, <2>1, <2>3, Zenon DEF Owned, Leased, Spent, Handlers
    <3>2. \A q \in Requests \ {t} : Same(q)
      BY <1>0, <2>1, <2>3, Zenon DEF Same
    <3> QED BY <1>2, <2>3, <3>1, <3>2, Zenon
  <2> QED BY <2>2, <2>3, Zenon
<1>13. ASSUME NEW n \in Tokens, Redeem(n) \/ RedeemFails(n) PROVE ResourcesOwned'
  <2>a. PICK r \in Requests : r = lease[n]
    BY <1>0, <1>13, Zenon DEF Redeem, RedeemFails
  <2>0. /\ lease[n] = r /\ lease' = [lease EXCEPT ![n] = NoRequest] /\ task' = task
        /\ Leased(r) /\ \A m \in Tokens : lease[m] = r => m = n
    BY <1>0, <1>13, <2>a DEF Redeem, RedeemFails, Owned, Leased, reqVars
  <2>1. Spent(r) /\ stream[r] = "none" /\ guard[r] \in {"read", "write"} /\ r \in permits
    BY <1>0, <2>0, Zenon DEF Owned
  <2>2. \A m \in Tokens : lease'[m] # r
    BY <1>0, <2>0, Zenon
  <2>3. \A q \in Requests \ {r} : \A m \in Tokens : lease'[m] = q <=> lease[m] = q
    BY <1>0, <2>0, Zenon
  <2>4. CASE Redeem(n)
    <3>1. stream' = [stream EXCEPT ![r] = "open"] /\ UNCHANGED <<guard, permits>>
      BY <2>a, <2>4, Zenon DEF Redeem, mapVars, reqVars
    <3>2. Owned(r)'
      BY <1>0, <2>0, <2>1, <2>2, <3>1, Zenon DEF Owned, Leased, Spent
    <3>3. \A q \in Requests \ {r} : Same(q)
      BY <1>0, <2>0, <2>3, <3>1, Zenon DEF Same
    <3> QED BY <1>2, <2>0, <3>2, <3>3, Zenon
  <2>5. CASE RedeemFails(n)
    <3>1. /\ guard' = [t \in Tasks |-> IF t \in {r} THEN "none" ELSE guard[t]]
          /\ permits' = permits \ {r} /\ stream' = stream
      BY <2>a, <2>5, Zenon DEF RedeemFails, DropIos
    <3>2. Freed(r)
      BY <1>0, <2>0, <2>1, <2>2, <3>1, Zenon DEF Freed, Spent
    <3>3. \A q \in Requests \ {r} : Same(q)
      BY <1>0, <2>0, <2>3, <3>1, Zenon DEF Same
    <3> QED BY <1>1, <3>2, <3>3, Zenon
  <2> QED BY <1>13, <2>4, <2>5, Zenon
\* The leases of some tokens go at once.
<1>14. ASSUME NEW ts, ts \subseteq Tokens, DropIos({lease[m] : m \in ts} \cap Requests),
              lease' = [m \in Tokens |-> IF m \in ts THEN NoRequest ELSE lease[m]], task' = task, stream' = stream
       PROVE  ResourcesOwned'
  <2> DEFINE rs == {lease[m] : m \in ts} \cap Requests
  <2>1. guard' = [t \in Tasks |-> IF t \in rs THEN "none" ELSE guard[t]] /\ permits' = permits \ rs
    BY <1>14, Zenon DEF DropIos
  <2>2. ASSUME NEW q \in rs PROVE Freed(q)
    <3>1. PICK m \in ts : lease[m] = q
      BY Zenon
    <3>2. Leased(q) /\ Owned(q) /\ q \in Tasks /\ \A n \in Tokens : lease[n] = q => n = m
      BY <1>0, <1>14, <3>1 DEF Leased, Owned
    <3>3. \A n \in Tokens : lease'[n] # q
      BY <1>0, <1>14, <3>1, <3>2, Zenon
    <3> QED BY <1>14, <2>1, <3>2, <3>3, Zenon DEF Freed, Spent, Owned
  <2>3. ASSUME NEW q \in Requests \ rs PROVE Same(q)
    <3>1. \A m \in Tokens : lease'[m] = q <=> lease[m] = q
      BY <1>0, <1>14, <2>3, Zenon
    <3> QED BY <1>0, <1>14, <2>1, <2>3, <3>1, Zenon DEF Same
  <2> QED BY <1>1, <2>2, <2>3, Zenon
<1>15. CASE DropState
  <2>1. lease' = [m \in Tokens |-> IF m \in Tokens THEN NoRequest ELSE lease[m]]
    BY <1>15, Zenon DEF DropState
  <2> QED BY <1>14, <1>15, <2>1, Zenon DEF DropState
<1>16. CASE RemoveExpired
  <2>1. PICK n \in 0 .. Len(deadlines) :
          LET ts == {deadlines[i].token : i \in 1 .. n} IN
          /\ DropIos({lease[m] : m \in ts} \cap Requests)
          /\ lease' = [m \in Tokens |-> IF m \in ts THEN NoRequest ELSE lease[m]]
          /\ UNCHANGED <<task, stream>>
    BY <1>16, Zenon DEF RemoveExpired
  <2>2. {deadlines[i].token : i \in 1 .. n} \subseteq Tokens
    BY <2>1, DeadlineTypes, SMTT(30) DEF Inv, ServerInv, TypeOK
  <2> QED BY <1>14, <2>1, <2>2, Zenon
<1>17. CASE \/ \E r \in Requests : SendResponse(r)
            \/ SpawnExpire \/ JoinEvict \/ JoinExpire \/ LogStats \/ CleanupFails \/ SocketFails \/ Stop \/ StopServing
            \/ DrainEvict \/ DrainExpire \/ DrainFails \/ Stopped \/ Tick \/ UNCHANGED vars
  BY <1>3, <1>17, Zenon DEF vars, SendResponse, SpawnExpire, JoinEvict, JoinExpire, LogStats,
       CleanupFails, SocketFails, ReturnError, Stop, StopServing, DrainEvict, DrainExpire, DrainFails, Stopped, Tick, mapVars, reqVars, leaseVars
<1> QED BY <1>5, <1>7, <1>8, <1>9, <1>11, <1>12, <1>13, <1>15, <1>16, <1>17 DEF Next, Turn, Drain

-----------------------------------------------------------------------------
(* The waiters *)

\* A step leaves the keys of the entries in the map alone, or wakes who waits for one
\* that it takes out.
KeysStay == \A h \in Hashes : cell[h] # Absent => cell'[h].key = cell[h].key
CellsLeave == Waits(wait) /\ \A h \in Hashes : cell'[h] \in {cell[h], Absent}

\* Who waits for a lock waits for an entry in the map.
LEMMA LockedCell ==
  ASSUME Inv, NEW t \in Tasks, wait[t] = "lock"
  PROVE  /\ guard[t] = "none" /\ want[t] \in Keys /\ HashOf[want[t]] \in Hashes
         /\ cell[HashOf[want[t]]].key = want[t] /\ cell[HashOf[want[t]]] # Absent
<1>1. guard[t] = "none" /\ want[t] \in Keys /\ cell[HashOf[want[t]]].key = want[t]
  BY Zenon DEF Inv, ServerInv, WaitersFit, WaiterFits
<1> QED BY <1>1 DEF Absent

\* A waiter that a step does not move stays where it was, or is woken.
LEMMA WaiterStays ==
  ASSUME Inv, NEW t \in Tasks, want'[t] = want[t], guard'[t] \in {guard[t], "none"},
         (wait'[t] = wait[t] /\ KeysStay) \/ CellsLeave
  PROVE  WaiterFits(t)' /\ (wait[t] = "no" => wait'[t] = "no")
<1>1. WaiterFits(t)
  BY Zenon DEF Inv, ServerInv, WaitersFit
<1>2. CASE wait[t] # "lock"
  <2>1. wait'[t] = wait[t]
    BY <1>2, Zenon DEF CellsLeave, Waits
  <2> QED BY <1>1, <1>2, <2>1, Zenon DEF WaiterFits
<1>3. CASE wait[t] = "lock"
  <2> DEFINE h == HashOf[want[t]]
  <2>1. guard[t] = "none" /\ want[t] \in Keys /\ h \in Hashes /\ cell[h].key = want[t] /\ cell[h] # Absent
    BY <1>3, LockedCell, Zenon
  <2>2. CASE wait'[t] = wait[t] /\ KeysStay
    BY <2>1, <2>2, Zenon DEF WaiterFits, KeysStay
  <2>3. CASE CellsLeave
    <3>1. wait'[t] = "stale" \/ cell'[h] # Absent
      BY <1>3, <2>1, <2>3, Zenon DEF CellsLeave, Waits
    <3>2. cell'[h] # Absent => cell'[h] = cell[h]
      BY <2>1, <2>3, Zenon DEF CellsLeave
    <3> QED BY <1>3, <2>1, <3>1, <3>2, Zenon DEF WaiterFits
  <2> QED BY <2>2, <2>3, Zenon
<1> QED BY <1>2, <1>3, Zenon

\* A step of a request, or of none.
LEMMA RequestMoves ==
  ASSUME Inv, NEW r,
         r \in Requests => wait'[r] = "no" /\ (task'[r] \in Handlers => want'[r] \in Keys),
         \A t \in Tasks \ {r} : want'[t] = want[t] /\ guard'[t] \in {guard[t], "none"},
         \A q \in Requests \ {r} : task'[q] = task[q],
         \A t \in {Evictor, Expirer} : t # r /\ guard'[t] = guard[t] /\ at'[t] = at[t],
         (KeysStay /\ \A t \in Tasks \ {r} : wait'[t] = wait[t]) \/ CellsLeave
  PROVE  WaitersFit'
<1>1. ASSUME NEW t \in Tasks \ {r} PROVE WaiterFits(t)' /\ (wait[t] = "no" => wait'[t] = "no")
  BY <1>1, WaiterStays, Zenon
<1>2. \A t \in Tasks : WaiterFits(t)'
  BY <1>1, Zenon DEF WaiterFits
<1>3. \A q \in Requests : HandlerFits(q)'
  BY <1>1 DEF Inv, ServerInv, WaitersFit, HandlerFits
<1>4. CleanersFit'
  BY <1>1, Zenon DEF Inv, ServerInv, WaitersFit, CleanersFit
<1> QED BY <1>2, <1>3, <1>4, Zenon DEF WaitersFit

\* A step of a cleanup task.
LEMMA CleanerMoves ==
  ASSUME Inv, NEW t \in {Evictor, Expirer}, task' = task,
         \A u \in Tasks \ {t} : want'[u] = want[u] /\ guard'[u] = guard[u] /\ at'[u] = at[u],
         (KeysStay /\ \A u \in Tasks \ {t} : wait'[u] = wait[u]) \/ CellsLeave,
         WaiterFits(t)', guard'[t] \in {"none", "remove", "discharged"},
         t = Expirer /\ guard'[t] # "none" => at'[t] = want'[t],
         t = Evictor => wait'[t] = "no"
  PROVE  WaitersFit'
<1>1. ASSUME NEW u \in Tasks \ {t} PROVE WaiterFits(u)' /\ (wait[u] = "no" => wait'[u] = "no")
  BY <1>1, WaiterStays, Zenon
<1>2. \A u \in Tasks : WaiterFits(u)'
  BY <1>1, Zenon
<1>3. \A q \in Requests : HandlerFits(q)'
  BY <1>1, Zenon DEF Inv, ServerInv, WaitersFit, HandlerFits
<1>4. CleanersFit'
  BY <1>1, Zenon DEF Inv, ServerInv, WaitersFit, CleanersFit
<1> QED BY <1>2, <1>3, <1>4, Zenon DEF WaitersFit

\* What the operations of the map do to its keys.
LEMMA SetCellKeys ==
  ASSUME Inv, NEW h \in Hashes, NEW c, SetCell(h, c)
  PROVE  /\ c.key = cell[h].key \/ cell[h] = Absent => KeysStay
         /\ c = Absent => \A f \in Hashes : cell'[f] \in {cell[f], Absent}
<1>1. \A f \in Hashes : cell'[f] = IF f = h THEN c ELSE cell[f]
  BY Zenon DEF SetCell, Inv, ServerInv, GuardedMapInv, GuardedMapTypeOK
<1> QED BY <1>1, Zenon DEF KeysStay

\* An operation of the task t moves its guard alone.
OneGuard(t) ==
  \A u \in Tasks \ {t} : guard'[u] = guard[u] /\ at'[u] = at[u] /\ pending'[u] = pending[u]

\* Taking a guard changes one guard, and no key of an entry.
LEMMA LockKeys ==
  ASSUME Inv, NEW t \in Tasks, NEW k \in Keys,
         LockRead(t, k) \/ LockWrite(t, k) \/ LockRemove(t, k) \/ InsertNew(t, k)
  PROVE  KeysStay /\ OneGuard(t) /\ at'[t] = k /\ guard'[t] \in {"read", "write", "remove"}
<1>1. guard \in [Tasks -> GuardKinds] /\ at \in [Tasks -> Keys \cup {NoKey}] /\ pending \in [Tasks -> Metadata]
  BY Zenon DEF Inv, ServerInv, GuardedMapInv, GuardedMapTypeOK
<1>2. CASE LockRead(t, k) \/ LockWrite(t, k) \/ LockRemove(t, k)
  <2>1. KeysStay
    BY <1>2, Zenon DEF LockRead, LockWrite, LockRemove, KeysStay
  <2>2. PICK g \in {"read", "write", "remove"} : Hold(t, g, k)
    BY <1>2, Zenon DEF LockRead, LockWrite, LockRemove
  <2> QED BY <1>1, <2>1, <2>2, Zenon DEF Hold, OneGuard
<1>3. CASE InsertNew(t, k)
  <2>1. KeysStay
    BY <1>3, SetCellKeys, Zenon DEF InsertNew
  <2> QED BY <1>1, <1>3, <2>1, Zenon DEF InsertNew, Hold, OneGuard
<1> QED BY <1>2, <1>3, Zenon

\* Neither does what the holder of a guard does with it, short of taking the entry out.
LEMMA HeldKeys ==
  ASSUME Inv, NEW t \in Tasks
  PROVE  /\ (\E m \in Metadata : ChargeSize(t, m)) \/ DischargeSize(t) =>
              KeysStay /\ OneGuard(t) /\ guard'[t] \in {"charged", "discharged"} /\ at'[t] = at[t]
         /\ CommitCell(t) => KeysStay /\ OneGuard(t) /\ guard'[t] = "none"
         /\ DropGuard(t) /\ guard[t] = "remove" => KeysStay /\ OneGuard(t) /\ guard'[t] = "none"
         /\ RemoveCell(t) =>
              OneGuard(t) /\ guard'[t] = "none" /\ \A f \in Hashes : cell'[f] \in {cell[f], Absent}
<1>1. guard \in [Tasks -> GuardKinds] /\ at \in [Tasks -> Keys \cup {NoKey}] /\ pending \in [Tasks -> Metadata]
  BY Zenon DEF Inv, ServerInv, GuardedMapInv, GuardedMapTypeOK
<1>2. LetGo(t) => OneGuard(t) /\ guard'[t] = "none"
  BY <1>1, Zenon DEF LetGo, Hold, OneGuard
<1>3. guard[t] # "none" => HashOf[at[t]] \in Hashes /\ cell[HashOf[at[t]]].key = at[t]
  BY HeldCell, Zenon DEF Inv, ServerInv
<1>4. (\E m \in Metadata : ChargeSize(t, m)) \/ DischargeSize(t) =>
        KeysStay /\ OneGuard(t) /\ guard'[t] \in {"charged", "discharged"} /\ at'[t] = at[t]
  BY <1>1, Zenon DEF ChargeSize, DischargeSize, KeysStay, OneGuard
<1>5. CommitCell(t) => KeysStay
  <2>1. Blob(at[t], "Present", pending[t]).key = at[t]
    BY Zenon DEF Blob
  <2> QED BY <1>3, <2>1, SetCellKeys, Zenon DEF CommitCell
<1>6. RemoveCell(t) => \A f \in Hashes : cell'[f] \in {cell[f], Absent}
  BY <1>3, SetCellKeys, Zenon DEF RemoveCell
<1>7. DropGuard(t) /\ guard[t] = "remove" => KeysStay
  BY Zenon DEF DropGuard, KeysStay
<1> QED BY <1>2, <1>4, <1>5, <1>6, <1>7, Zenon DEF CommitCell, RemoveCell, DropGuard

\* Leases that go.
LEMMA DropKeys ==
  ASSUME Inv, NEW rs, rs \subseteq Requests, DropIos(rs)
  PROVE  /\ CellsLeave
         /\ \A t \in Tasks : guard'[t] \in {guard[t], "none"}
         /\ \A t \in {Evictor, Expirer} : guard'[t] = guard[t] /\ at'[t] = at[t]
<1>1. \A h \in Hashes : cell'[h] \in {cell[h], Absent}
  BY ZenonT(60) DEF DropIos
<1> QED BY <1>1, Zenon DEF DropIos, CellsLeave

\* Every task that waits, waits for the entry of its key, or has been told that it left.
LEMMA WaitersKept == Inv /\ [Next]_vars => WaitersFit'
<1> SUFFICES ASSUME Inv, [Next]_vars PROVE WaitersFit'
  BY Zenon
<1>0. /\ task \in [Requests -> TaskStates] /\ wait \in [Tasks -> {"no", "lock", "stale"}]
      /\ want \in [Tasks -> Keys \cup {NoKey}] /\ lease \in [Tokens -> Requests \cup {NoRequest}]
      /\ \A t \in Tasks : WaiterFits(t)
      /\ \A r \in Requests : HandlerFits(r) /\ r \in Tasks
      /\ CleanersFit
  BY Zenon DEF Inv, ServerInv, TypeOK, TaskStates, WaitersFit
<1>1. CASE UNCHANGED <<mapVars, lockVars, task>>
  BY <1>0, <1>1, Zenon DEF WaitersFit, WaiterFits, HandlerFits, CleanersFit, mapVars, lockVars
\* A request moves, and no waiter is woken.
<1>2. ASSUME NEW r \in Requests, wait'[r] = "no", task'[r] \in Handlers => want'[r] \in Keys,
             \A t \in Tasks \ {r} : want'[t] = want[t] /\ wait'[t] = wait[t],
             \A q \in Requests \ {r} : task'[q] = task[q], OneGuard(r), KeysStay
      PROVE  WaitersFit'
  <2>1. \A t \in Tasks \ {r} : guard'[t] = guard[t] /\ at'[t] = at[t]
    BY <1>2, Zenon DEF OneGuard
  <2>2. \A t \in {Evictor, Expirer} : t # r /\ t \in Tasks \ {r}
    BY Zenon
  <2> QED BY <1>2, <2>1, <2>2, RequestMoves, ZenonT(60)
\* Guards go, and the waiters of what goes with them are woken.
<1>3. ASSUME NEW rs, rs \subseteq Requests, DropIos(rs), want' = want, task' = task PROVE WaitersFit'
  <2>1. PICK r : r \notin Tasks
    BY NoSetContainsEverything, Zenon
  <2> QED BY <1>3, <2>1, DropKeys, RequestMoves, Zenon
<1>4. ASSUME NEW r \in Requests, Call(r) PROVE WaitersFit'
  <2>0. task[r] = "new" /\ wait[r] = "no" /\ "new" \notin Handlers
    BY <1>0, <1>4, Zenon DEF Call, Ignore, Refuse, Unavailable, Cancel, Write, WriteDeclined, WriteMetadataFails, WriteMetadata, Spawn,
         Receive, HandlerFits, Handlers
  <2>1. InPlace(r) => task' = [task EXCEPT ![r] = "call"] /\ "call" \notin Handlers
    BY Zenon DEF InPlace, Handlers
  <2>2. CASE InPlace(r) /\ UNCHANGED <<mapVars, lockVars>>
    <3>1. OneGuard(r) /\ KeysStay
      BY <2>2, ZenonT(60) DEF OneGuard, KeysStay, mapVars
    <3> QED BY <1>0, <1>2, <2>0, <2>1, <2>2, <3>1, Zenon DEF lockVars
  <2>3. ASSUME NEW n \in Tokens, Cancel(r, n) PROVE WaitersFit'
    <3>1. /\ CellsLeave /\ \A t \in Tasks : guard'[t] \in {guard[t], "none"}
          /\ \A t \in {Evictor, Expirer} : t # r /\ guard'[t] = guard[t] /\ at'[t] = at[t]
      BY <2>3, DropKeys, Zenon DEF Cancel
    <3>2. wait'[r] = "no"
      BY <1>0, <2>0, <3>1, Zenon DEF CellsLeave, Waits
    <3> QED BY <1>0, <2>1, <2>3, <3>1, <3>2, RequestMoves, ZenonT(60) DEF Cancel
  <2>4. ASSUME NEW k \in Keys, Write(r, k) PROVE WaitersFit'
    <3>1. OneGuard(r) /\ KeysStay
      BY <2>4, LockKeys, ZenonT(60) DEF Write
    <3> QED BY <1>0, <1>2, <2>0, <2>1, <2>4, <3>1, Zenon DEF Write, lockVars
  <2>5. ASSUME NEW k \in Keys, NEW m \in Metadata, WriteMetadata(r, k, m) PROVE WaitersFit'
    <3>1. OneGuard(r)
      BY <2>5, ZenonT(60) DEF WriteMetadata, OneGuard
    <3>2. KeysStay
      BY <2>5, SetCellKeys DEF WriteMetadata, Blob
    <3> QED BY <1>0, <1>2, <2>0, <2>1, <2>5, <3>1, <3>2 DEF WriteMetadata, lockVars
  <2>6. ASSUME NEW k \in Keys, WriteMetadataFails(r, k) PROVE WaitersFit'
    <3>1. CellsLeave
      BY <2>6, SetCellKeys, Zenon DEF WriteMetadataFails, CellsLeave
    <3>2. wait'[r] = "no"
      BY <1>0, <2>0, <3>1, Zenon DEF CellsLeave, Waits
    <3> QED BY <1>0, <2>1, <2>6, <3>1, <3>2, RequestMoves DEF WriteMetadataFails
  <2>7. ASSUME NEW k \in Keys, NEW handler \in Handlers, Spawn(r, handler, k) PROVE WaitersFit'
    <3>1. OneGuard(r) /\ KeysStay
      BY <2>7, Zenon DEF Spawn, OneGuard, KeysStay, mapVars
    <3> QED BY <1>0, <1>2, <2>0, <2>7, <3>1, Zenon DEF Spawn
  <2>8. CASE Ignore(r)
    <3>1. task' = [task EXCEPT ![r] = "ignored"] /\ "ignored" \notin Handlers /\ UNCHANGED <<mapVars, lockVars>>
      BY <2>8, Zenon DEF Ignore, Handlers
    <3>2. OneGuard(r) /\ KeysStay
      BY <3>1, ZenonT(60) DEF OneGuard, KeysStay, mapVars
    <3> QED BY <1>0, <1>2, <2>0, <3>1, <3>2, Zenon DEF lockVars
  <2> QED BY <1>4, <2>2, <2>3, <2>4, <2>5, <2>6, <2>7, <2>8, Zenon DEF Call, Refuse, Unavailable, WriteDeclined
<1>5. ASSUME NEW r \in Requests, Granted(r) \/ Stale(r) \/ Abandon(r) PROVE WaitersFit'
  <2>1. OneGuard(r) /\ KeysStay
    <3>1. CASE Read(r) \/ Remove(r)
      BY <1>0, <3>1, LockKeys, Zenon DEF Read, Remove, WaiterFits
    <3>2. CASE ReadMetadata(r) \/ Stale(r) \/ Abandon(r)
      BY <3>2, Zenon DEF ReadMetadata, Stale, Abandon, mapVars, OneGuard, KeysStay
    <3> QED BY <1>5, <3>1, <3>2, Zenon DEF Granted
  <2>2. /\ wait' = [wait EXCEPT ![r] = "no"] /\ want' = want
        /\ \A q \in Requests \ {r} : task'[q] = task[q]
    BY <1>0, <1>5, Zenon DEF Granted, Read, ReadMetadata, Remove, Stale, Abandon, Finish, reqVars
  <2>3. task'[r] \in Handlers => want[r] \in Keys
    BY <1>0, <1>5, Zenon DEF Granted, Read, ReadMetadata, Remove, Stale, Abandon, Finish, Handlers, reqVars, HandlerFits
  <2> QED BY <1>0, <1>2, <2>1, <2>2, <2>3, Zenon
<1>6. ASSUME NEW r \in Requests, Miss(r) \/ ReadRespond(r) \/ RemoveFails(r) \/ DrainTask(r) \/ JoinTask(r)
      PROVE  WaitersFit'
  <2>1. OneGuard(r) /\ KeysStay
    <3>1. CASE RemoveFails(r)
      BY <1>0, <3>1, HeldKeys, Zenon DEF RemoveFails
    <3>2. CASE Miss(r) \/ ReadRespond(r) \/ DrainTask(r) \/ JoinTask(r)
      BY <3>2, Zenon DEF Miss, ReadRespond, DrainTask, JoinTask, mapVars, OneGuard, KeysStay
    <3> QED BY <1>6, <3>1, <3>2, Zenon
  <2>2. wait[r] = "no"
    BY <1>0, <1>6, Zenon DEF Miss, ReadRespond, RemoveFails, DrainTask, JoinTask, WaiterFits, HandlerFits, Handlers
  <2>3. /\ UNCHANGED <<wait, want>> /\ task' \in {[task EXCEPT ![r] = "finished"], [task EXCEPT ![r] = "joined"]}
    BY <1>6, Zenon DEF Miss, ReadRespond, RemoveFails, DrainTask, JoinTask, Finish, lockVars
  <2>4. task'[r] \notin Handlers /\ \A q \in Requests \ {r} : task'[q] = task[q]
    BY <1>0, <2>3, Zenon DEF Handlers
  <2> QED BY <1>2, <2>1, <2>2, <2>3, <2>4, Zenon
<1>7. ASSUME NEW r \in Requests, Find(r) PROVE WaitersFit'
  <2>1. /\ UNCHANGED <<cell, guard, at, want, task>> /\ wait' = [wait EXCEPT ![r] = "lock"]
        /\ task[r] \in Handlers /\ guard[r] = "none" /\ cell[HashOf[want[r]]].key = want[r] /\ want[r] \in Keys
    BY <1>0, <1>7, Zenon DEF Find, mapVars, reqVars, HandlerFits
  <2> QED BY <1>0, <2>1, ZenonT(60) DEF WaitersFit, WaiterFits, HandlerFits, CleanersFit
<1>8. ASSUME NEW r \in Requests, Removed(r) \/ StreamErased(r) PROVE WaitersFit'
  <2>1. CellsLeave /\ OneGuard(r) /\ guard'[r] = "none" /\ want' = want
    BY <1>0, <1>8, HeldKeys, Zenon DEF Removed, StreamErased, CellsLeave
  <2>2. wait[r] = "no"
    BY <1>0, <1>8, ZenonT(60) DEF Removed, StreamErased, RemoveCell, WaiterFits
  <2>3. wait'[r] = "no"
    BY <1>0, <2>1, <2>2, Zenon DEF CellsLeave, Waits
  <2>4. (task'[r] \in Handlers => want'[r] \in Keys) /\ \A q \in Requests \ {r} : task'[q] = task[q]
    BY <1>0, <1>8, Zenon DEF Removed, StreamErased, Finish, reqVars, HandlerFits, Handlers
  <2>5. \A t \in {Evictor, Expirer} : t # r /\ t \in Tasks \ {r}
    BY Zenon
  <2> QED BY <2>1, <2>3, <2>4, <2>5, RequestMoves DEF OneGuard
<1>9. ASSUME NEW r \in Requests, Stream(r) PROVE WaitersFit'
  <2>1. CASE StreamRead(r)
    BY <1>3, <2>1, Zenon DEF StreamRead
  <2>2. CASE StreamCommitted(r) \/ StreamAbort(r) \/ \E m \in Metadata : StreamCommit(r, m)
    <3>1. OneGuard(r) /\ KeysStay /\ wait[r] = "no"
      BY <1>0, <2>2, HeldKeys, Zenon DEF StreamCommitted, StreamAbort, StreamCommit, CommitCell, WaiterFits
    <3>2. UNCHANGED <<wait, want, task>>
      BY <2>2, Zenon DEF StreamCommitted, StreamAbort, StreamCommit, reqVars, lockVars
    <3> QED BY <1>0, <1>2, <3>1, <3>2, Zenon DEF HandlerFits
  <2> QED BY <1>8, <1>9, <2>1, <2>2, Zenon DEF Stream
<1>10. ASSUME NEW n \in Tokens, RedeemFails(n) PROVE WaitersFit'
  <2>1. {lease[n]} \subseteq Requests
    BY <1>0, <1>10, Zenon DEF RedeemFails
  <2> QED BY <1>3, <1>10, <2>1, Zenon DEF RedeemFails
<1>11. CASE RemoveExpired \/ DropState
  <2>1. PICK rs : rs \subseteq Requests /\ DropIos(rs)
    BY <1>11, Zenon DEF RemoveExpired, DropState
  <2>2. want' = want /\ task' = task
    BY <1>11, Zenon DEF RemoveExpired, DropState
  <2> QED BY <1>3, <2>1, <2>2, Zenon
<1>12. ASSUME NEW t \in Tasks, Discharge(t) PROVE WaitersFit'
  <2>1. /\ UNCHANGED <<wait, want, task>> /\ wait[t] = "no"
        /\ OneGuard(t) /\ KeysStay /\ guard[t] = "remove" /\ at'[t] = at[t]
    BY <1>0, <1>12, HeldKeys, Zenon DEF Discharge, reqVars, lockVars, WaiterFits
  <2>2. guard'[t] = "discharged"
    BY <1>12, Zenon DEF Discharge, DischargeSize, Inv, ServerInv, GuardedMapInv, GuardedMapTypeOK
  <2>3. CASE t \in Requests
    BY <1>0, <1>2, <2>1, <2>3, ZenonT(60) DEF HandlerFits
  <2>4. CASE t \in {Evictor, Expirer}
    BY <1>0, <2>1, <2>2, <2>4, CleanerMoves DEF CleanersFit, WaiterFits, OneGuard
  <2> QED BY <2>3, <2>4, Zenon
<1>13. CASE EvictTask
  <2>1. wait[Evictor] = "no" /\ Evictor \in Tasks
    BY <1>0, Zenon DEF CleanersFit
  <2>2. ASSUME NEW k \in Keys, EvictNext(k) PROVE WaitersFit'
    <3>1. KeysStay /\ OneGuard(Evictor) /\ guard' = [guard EXCEPT ![Evictor] = "remove"]
      BY <2>1, <2>2, LockKeys, Zenon DEF EvictNext, LockRemove, Hold
    <3>2. UNCHANGED <<wait, want, task>> /\ guard'[Evictor] = "remove"
      BY <2>1, <2>2, <3>1, Zenon DEF EvictNext, reqVars, lockVars, Inv, ServerInv, GuardedMapInv, GuardedMapTypeOK
    <3> QED BY <2>1, <3>1, <3>2, CleanerMoves, Zenon DEF OneGuard, WaiterFits
  <2>3. CASE Evicted
    <3>1. CellsLeave /\ OneGuard(Evictor) /\ guard'[Evictor] = "none" /\ UNCHANGED <<want, task>>
      BY <2>1, <2>3, HeldKeys, Zenon DEF Evicted, CellsLeave, reqVars
    <3>2. wait'[Evictor] = "no"
      BY <2>1, <3>1, Zenon DEF CellsLeave, Waits
    <3> QED BY <2>1, <3>1, <3>2, CleanerMoves, Zenon DEF OneGuard, WaiterFits
  <2>4. CASE EvictFails
    <3>1. KeysStay /\ OneGuard(Evictor) /\ guard'[Evictor] = "none" /\ UNCHANGED <<wait, want, task>>
      BY <2>1, <2>4, HeldKeys, Zenon DEF EvictFails, reqVars, lockVars
    <3> QED BY <2>1, <3>1, CleanerMoves, Zenon DEF OneGuard, WaiterFits
  <2>5. CASE EvictDone
    BY <1>1, <2>5, Zenon DEF EvictDone, reqVars
  <2> QED BY <1>13, <2>2, <2>3, <2>4, <2>5, Zenon DEF EvictTask
<1>14. CASE ExpireTask \/ ExpireLocked
  <2>1. Expirer \in Tasks /\ task' = task
    BY <1>14, Zenon DEF ExpireTask, ExpireNext, ExpireStale, ExpireRemoved, ExpireFails, ExpireDone, ExpireCancelled,
         ExpireLocked, reqVars
  <2>2. ASSUME NEW k \in Keys, ExpireNext(k) PROVE WaitersFit'
    <3>1. /\ UNCHANGED <<cell, guard, at>> /\ guard[Expirer] = "none" /\ want' = [want EXCEPT ![Expirer] = k]
          /\ wait' = [wait EXCEPT ![Expirer] = IF cell[HashOf[k]].key = k THEN "lock" ELSE "no"]
      BY <2>2, Zenon DEF ExpireNext, ExpireIdle, mapVars
    <3>2. WaiterFits(Expirer)'
      BY <1>0, <2>1, <3>1, Zenon DEF WaiterFits
    <3>3. KeysStay
      BY <3>1, Zenon DEF KeysStay
    <3> QED BY <1>0, <2>1, <3>1, <3>2, <3>3, CleanerMoves, Zenon
  <2>3. CASE ExpireLocked
    <3>1. want[Expirer] \in Keys /\ guard[Expirer] = "none" /\ want' = want /\ wait' = [wait EXCEPT ![Expirer] = "no"]
      BY <1>0, <2>1, <2>3, Zenon DEF ExpireLocked, WaiterFits
    <3>2. CASE UNCHANGED mapVars
      <4>1. KeysStay /\ UNCHANGED <<guard, at>>
        BY <3>2, Zenon DEF KeysStay, mapVars
      <4> QED BY <1>0, <2>1, <3>1, <4>1, CleanerMoves, Zenon DEF WaiterFits
    <3>3. CASE LockRemove(Expirer, want[Expirer])
      <4>1. KeysStay /\ OneGuard(Expirer) /\ at'[Expirer] = want[Expirer]
        BY <2>1, <3>1, <3>3, LockKeys, Zenon
      <4>2. guard'[Expirer] = "remove"
        BY <2>1, <3>3, Zenon DEF LockRemove, Hold, Inv, ServerInv, GuardedMapInv, GuardedMapTypeOK
      <4> QED BY <1>0, <2>1, <3>1, <4>1, <4>2, CleanerMoves, Zenon DEF WaiterFits, OneGuard
    <3> QED BY <2>3, <3>2, <3>3, Zenon DEF ExpireLocked
  <2>4. CASE ExpireStale \/ ExpireCancelled
    <3>1. /\ KeysStay /\ UNCHANGED <<guard, at, want>> /\ wait' = [wait EXCEPT ![Expirer] = "no"]
          /\ guard[Expirer] = "none"
      BY <1>0, <2>1, <2>4, Zenon DEF ExpireStale, ExpireCancelled, KeysStay, mapVars, WaiterFits
    <3> QED BY <1>0, <2>1, <3>1, CleanerMoves, Zenon DEF WaiterFits
  <2>5. CASE ExpireRemoved
    <3>1. /\ CellsLeave /\ OneGuard(Expirer) /\ guard'[Expirer] = "none" /\ want' = want /\ wait[Expirer] = "no"
      BY <1>0, <2>1, <2>5, HeldKeys, Zenon DEF ExpireRemoved, CellsLeave, RemoveCell, WaiterFits
    <3>2. wait'[Expirer] = "no"
      BY <2>1, <3>1, Zenon DEF CellsLeave, Waits
    <3> QED BY <2>1, <3>1, <3>2, CleanerMoves, Zenon DEF OneGuard, WaiterFits
  <2>6. CASE ExpireFails
    <3>1. /\ KeysStay /\ OneGuard(Expirer) /\ guard'[Expirer] = "none" /\ UNCHANGED <<wait, want>> /\ wait[Expirer] = "no"
      BY <1>0, <2>1, <2>6, HeldKeys, Zenon DEF ExpireFails, lockVars, WaiterFits
    <3> QED BY <2>1, <3>1, CleanerMoves, Zenon DEF OneGuard, WaiterFits
  <2>7. CASE ExpireDone
    BY <1>1, <2>1, <2>7, Zenon DEF ExpireDone
  <2> QED BY <1>14, <2>2, <2>3, <2>4, <2>5, <2>6, <2>7, Zenon DEF ExpireTask
<1>15. CASE \/ \E r \in Requests : SendResponse(r)
            \/ SpawnExpire \/ JoinEvict \/ JoinExpire \/ LogStats \/ CleanupFails \/ SocketFails \/ Stop \/ StopServing
            \/ DrainEvict \/ DrainExpire \/ DrainFails \/ Stopped \/ Tick \/ (\E n \in Tokens : Redeem(n)) \/ UNCHANGED vars
  BY <1>1, <1>15, Zenon DEF vars, SendResponse, SpawnExpire, JoinEvict, JoinExpire, LogStats, CleanupFails, SocketFails, ReturnError, Stop, StopServing,
       DrainEvict, DrainExpire, DrainFails, Stopped, Tick, Redeem, reqVars
<1> QED BY <1>4, <1>5, <1>6, <1>7, <1>8, <1>9, <1>10, <1>11, <1>12, <1>13, <1>14, <1>15, ZenonT(60)
      DEF Next, Turn, Drain, Handle

-----------------------------------------------------------------------------
(* The expire queue *)

\* What is known to the expire task stays so while its entry is in the map.
LEMMA KnownStays ==
  ASSUME Inv, queue \subseteq queue', want'[Expirer] = want[Expirer], guard'[Expirer] = guard[Expirer],
         wait'[Expirer] = wait[Expirer] \/ CellsLeave,
         NEW k \in Keys, cell'[HashOf[k]] # Absent, KnownToExpire(k)
  PROVE  KnownToExpire(k)'
<1>1. CASE k \in queue \/ guard[Expirer] # "none"
  BY <1>1, Zenon DEF KnownToExpire
<1>2. CASE want[Expirer] = k /\ wait[Expirer] = "lock"
  <2>1. cell[HashOf[k]] # Absent
    BY <1>2, LockedCell, Zenon
  <2>2. wait'[Expirer] = "lock"
    BY <1>2, <2>1, Zenon DEF CellsLeave, Waits
  <2> QED BY <1>2, <2>2, Zenon DEF KnownToExpire
<1> QED BY <1>1, <1>2, Zenon DEF KnownToExpire

\* What has to be known after a step is known then if it was before.
LEMMA KnownSuffices ==
  ASSUME GuardedMapInv',
         ASSUME NEW k \in Keys, cell'[HashOf[k]] # Absent,
                \/ cell'[HashOf[k]].key = k /\ cell'[HashOf[k]].tag = "Present" /\ cell'[HashOf[k]].meta.expire
                \/ \E t \in Tasks : guard'[t] = "charged" /\ pending'[t].expire /\ at'[t] = k
         PROVE  KnownToExpire(k)'
  PROVE  ExpiryKept' /\ CommitsKnown'
<1>1. ASSUME NEW h \in Hashes, cell'[h].tag = "Present", cell'[h].meta.expire PROVE KnownToExpire(cell[h].key)'
  <2>1. PICK k \in Keys : k = cell'[h].key /\ HashOf[k] = h /\ cell'[h] # Absent
    BY <1>1 DEF GuardedMapInv, GuardedMapTypeOK, CellsHashed, Absent
  <2>2. KnownToExpire(k)'
    BY <1>1, <2>1, Zenon
  <2> QED BY <2>1, <2>2, Zenon DEF KnownToExpire
<1>2. ASSUME NEW t \in Tasks, guard'[t] = "charged", pending'[t].expire PROVE KnownToExpire(at[t])'
  <2>1. PICK k \in Keys : k = at'[t]
    BY <1>2, Zenon DEF GuardedMapInv, GuardedMapTypeOK, GuardsFit
  <2>2. cell'[HashOf[k]].key = k
    BY <1>2, <2>1, ZenonT(60) DEF GuardedMapInv, GuardsFit, CellOf
  <2>3. KnownToExpire(k)'
    BY <1>2, <2>1, <2>2 DEF Absent
  <2> QED BY <2>1, <2>3, Zenon DEF KnownToExpire
<1> QED BY <1>1, <1>2, Zenon DEF ExpiryKept, CommitsKnown

\* What is needed before a step, in the same terms.
LEMMA KnownBefore ==
  ASSUME Inv, NEW k \in Keys,
         \/ cell[HashOf[k]].key = k /\ cell[HashOf[k]].tag = "Present" /\ cell[HashOf[k]].meta.expire
         \/ \E t \in Tasks : guard[t] = "charged" /\ pending[t].expire /\ at[t] = k
  PROVE  KnownToExpire(k)
BY DEF Inv, ServerInv, ExpiryKept, CommitsKnown

\* A step of others than the expire task keeps the expiring blobs known, if what it
\* writes is queued or was known.
LEMMA ExpiryStays ==
  ASSUME Inv, GuardedMapInv',
         queue \subseteq queue', want'[Expirer] = want[Expirer], guard'[Expirer] = guard[Expirer],
         wait'[Expirer] = wait[Expirer] \/ CellsLeave,
         \A h \in Hashes : \/ cell'[h] = cell[h] \/ cell'[h].tag # "Present" \/ ~cell'[h].meta.expire
                           \/ cell'[h].key \in queue' \/ KnownToExpire(cell'[h].key),
         \A t \in Tasks : \/ guard'[t] # "charged" \/ ~pending'[t].expire \/ at'[t] \in queue'
                          \/ guard[t] = "charged" /\ at'[t] = at[t] /\ pending'[t] = pending[t]
  PROVE  ExpiryKept' /\ CommitsKnown'
<1>1. ASSUME NEW k \in Keys, cell'[HashOf[k]] # Absent,
             \/ cell'[HashOf[k]].key = k /\ cell'[HashOf[k]].tag = "Present" /\ cell'[HashOf[k]].meta.expire
             \/ \E t \in Tasks : guard'[t] = "charged" /\ pending'[t].expire /\ at'[t] = k
      PROVE  KnownToExpire(k)'
  <2>1. k \in queue' \/ KnownToExpire(k)
    <3>1. CASE cell'[HashOf[k]].key = k /\ cell'[HashOf[k]].tag = "Present" /\ cell'[HashOf[k]].meta.expire
      BY <3>1, KnownBefore
    <3>2. CASE \E t \in Tasks : guard'[t] = "charged" /\ pending'[t].expire /\ at'[t] = k
      BY <3>2, KnownBefore
    <3> QED BY <1>1, <3>1, <3>2, ZenonT(60)
  <2>2. CASE k \in queue'
    BY <2>2, Zenon DEF KnownToExpire
  <2>3. CASE KnownToExpire(k)
    BY <1>1, <2>3, KnownStays, Zenon
  <2> QED BY <2>1, <2>2, <2>3, Zenon
<1> QED BY <1>1, KnownSuffices, Zenon

\* So does a step of the expire task that forgets no key whose entry stays.
LEMMA ExpirerMoves ==
  ASSUME Inv, GuardedMapInv', OneGuard(Expirer), guard'[Expirer] # "charged",
         \A h \in Hashes : cell'[h] \in {cell[h], Absent},
         \A k \in Keys : KnownToExpire(k) /\ cell'[HashOf[k]] # Absent => KnownToExpire(k)'
  PROVE  ExpiryKept' /\ CommitsKnown'
<1>1. ASSUME NEW k \in Keys, cell'[HashOf[k]] # Absent,
             \/ cell'[HashOf[k]].key = k /\ cell'[HashOf[k]].tag = "Present" /\ cell'[HashOf[k]].meta.expire
             \/ \E t \in Tasks : guard'[t] = "charged" /\ pending'[t].expire /\ at'[t] = k
      PROVE  KnownToExpire(k)'
  <2>1. HashOf[k] \in Hashes /\ cell'[HashOf[k]] = cell[HashOf[k]]
    BY <1>1, Zenon
  <2>2. ASSUME NEW t \in Tasks, guard'[t] = "charged", pending'[t].expire, at'[t] = k
        PROVE  guard[t] = "charged" /\ pending[t].expire /\ at[t] = k
    BY <2>2, Zenon DEF OneGuard
  <2>3. KnownToExpire(k)
    BY <1>1, <2>1, <2>2, KnownBefore, ZenonT(60)
  <2> QED BY <1>1, <2>3, Zenon
<1> QED BY <1>1, KnownSuffices, Zenon

\* Every step keeps the expiring blobs known, one case per action.
LEMMA ExpiryKnown == ASSUME Inv, [Next]_vars, GuardedMapInv' PROVE ExpiryKept' /\ CommitsKnown'
<1> DEFINE Goal == ExpiryKept' /\ CommitsKnown'
<1>0. /\ wait \in [Tasks -> {"no", "lock", "stale"}] /\ want \in [Tasks -> Keys \cup {NoKey}]
      /\ lease \in [Tokens -> Requests \cup {NoRequest}]
      /\ Expirer \in Tasks /\ \A r \in Requests : r \in Tasks /\ r # Expirer
      /\ \A t \in Tasks : WaiterFits(t)
      /\ CleanersFit
  BY Zenon DEF Inv, ServerInv, TypeOK, WaitersFit
\* The task t moves a guard, and what it writes to the map is known.
<1>1. ASSUME NEW t \in Tasks \ {Expirer}, OneGuard(t), queue \subseteq queue', want'[Expirer] = want[Expirer],
             wait'[Expirer] = wait[Expirer] \/ CellsLeave,
             \A h \in Hashes : \/ cell'[h] = cell[h] \/ cell'[h].tag # "Present" \/ ~cell'[h].meta.expire
                               \/ cell'[h].key \in queue' \/ KnownToExpire(cell'[h].key),
             guard'[t] # "charged" \/ ~pending'[t].expire \/ at'[t] \in queue'
      PROVE  Goal
  BY <1>0, <1>1, ExpiryStays, Zenon DEF OneGuard
<1>2. ASSUME UNCHANGED mapVars, queue \subseteq queue', want'[Expirer] = want[Expirer], wait'[Expirer] = wait[Expirer]
      PROVE  Goal
  BY <1>2, ExpiryStays, ZenonT(60) DEF mapVars
<1>3. ASSUME \A h \in Hashes : cell'[h] \in {cell[h], Absent}
      PROVE  \A h \in Hashes : cell'[h] = cell[h] \/ cell'[h].tag # "Present"
  BY <1>3 DEF Absent
<1>4. ASSUME NEW rs, rs \subseteq Requests, DropIos(rs), want' = want, queue' = queue PROVE Goal
  <2>1. CellsLeave /\ guard'[Expirer] = guard[Expirer]
    BY <1>4, DropKeys, Zenon
  <2>2. \A t \in Tasks : guard'[t] # "charged" \/ (guard[t] = "charged" /\ at'[t] = at[t] /\ pending'[t] = pending[t])
    BY <1>4, Zenon DEF DropIos
  <2> QED BY <1>3, <1>4, <2>1, <2>2, ExpiryStays, Zenon DEF CellsLeave
<1> SUFFICES Goal
  BY Zenon
<1> HIDE DEF Goal
<1>5. ASSUME NEW r \in Requests, Call(r) PROVE Goal
  <2>1. CASE UNCHANGED <<mapVars, lockVars, queue>>
    BY <1>2, <2>1, Zenon DEF lockVars
  <2>2. ASSUME NEW n \in Tokens, Cancel(r, n) PROVE Goal
    BY <1>4, <2>2, Zenon DEF Cancel
  <2>3. ASSUME NEW k \in Keys, Write(r, k) PROVE Goal
    <3>1. OneGuard(r) /\ guard'[r] # "charged" /\ UNCHANGED <<want, wait, queue>>
      BY <1>0, <2>3, LockKeys, ZenonT(60) DEF Write, lockVars
    <3>2. \A h \in Hashes : cell'[h] = cell[h] \/ cell'[h].tag # "Present"
      BY <2>3 DEF Write, LockWrite, InsertNew, SetCell, Blob, Inv, ServerInv, GuardedMapInv, GuardedMapTypeOK
    <3> QED BY <1>0, <1>1, <3>1, <3>2, Zenon
  <2>4. ASSUME NEW k \in Keys, NEW m \in Metadata, WriteMetadata(r, k, m) PROVE Goal
    <3>1. /\ OneGuard(r) /\ UNCHANGED <<want, wait, guard, at, pending>>
          /\ queue' = IF m.expire THEN queue \cup {k} ELSE queue
      BY <2>4, Zenon DEF WriteMetadata, OneGuard, lockVars
    <3>2. \A h \in Hashes : cell'[h] = cell[h] \/ (cell'[h].key = k /\ cell'[h].meta = m)
      BY <2>4, Zenon DEF WriteMetadata, SetCell, Blob, Inv, ServerInv, GuardedMapInv, GuardedMapTypeOK
    <3>3. \A h \in Hashes : cell'[h] = cell[h] \/ ~cell'[h].meta.expire \/ cell'[h].key \in queue'
      BY <3>1, <3>2, Zenon
    <3> QED BY <3>1, <3>3, ExpiryStays, Zenon DEF Goal
  <2>5. ASSUME NEW k \in Keys, WriteMetadataFails(r, k) PROVE Goal
    <3>1. CellsLeave /\ UNCHANGED <<want, queue, guard, at, pending>>
      BY <2>5, SetCellKeys, Zenon DEF WriteMetadataFails, CellsLeave
    <3> QED BY <1>3, <3>1, ExpiryStays, Zenon DEF CellsLeave, Goal
  <2>6. ASSUME NEW k \in Keys, NEW handler \in Handlers, Spawn(r, handler, k) PROVE Goal
    BY <1>0, <1>2, <2>6, Zenon DEF Spawn
  <2> QED BY <1>5, <2>1, <2>2, <2>3, <2>4, <2>5, <2>6 DEF Call, Ignore, Refuse, Unavailable, WriteDeclined
<1>6. ASSUME NEW r \in Requests, Read(r) \/ Remove(r) PROVE Goal
  <2>1. OneGuard(r) /\ guard'[r] # "charged" /\ cell' = cell
    BY <1>0, <1>6, LockKeys, Zenon DEF Read, Remove, LockRead, LockRemove, WaiterFits
  <2>2. UNCHANGED <<want, queue>> /\ wait'[Expirer] = wait[Expirer]
    BY <1>0, <1>6, Zenon DEF Read, Remove
  <2> QED BY <1>0, <1>1, <2>1, <2>2, Zenon
<1>7. ASSUME NEW r \in Requests, ReadMetadata(r) \/ Stale(r) \/ Abandon(r) \/ Find(r) \/ Miss(r) \/ ReadRespond(r)
      PROVE  Goal
  <2>1. UNCHANGED <<mapVars, want, queue>> /\ wait'[Expirer] = wait[Expirer]
    BY <1>0, <1>7, Zenon DEF ReadMetadata, Stale, Abandon, Find, Miss, ReadRespond, lockVars
  <2> QED BY <1>2, <2>1, Zenon
<1>8. ASSUME NEW r \in Requests, RemoveFails(r) PROVE Goal
  <2>1. OneGuard(r) /\ guard'[r] = "none" /\ UNCHANGED <<wait, want, queue>>
    BY <1>0, <1>8, HeldKeys, Zenon DEF RemoveFails, lockVars
  <2>2. cell' = cell
    BY <1>8, Zenon DEF RemoveFails, DropGuard
  <2> QED BY <1>0, <1>1, <2>1, <2>2, Zenon
<1>9. ASSUME NEW r \in Requests, Removed(r) \/ StreamErased(r) PROVE Goal
  <2>1. CellsLeave /\ OneGuard(r) /\ guard'[r] = "none" /\ UNCHANGED <<want, queue>>
    BY <1>0, <1>9, HeldKeys, Zenon DEF Removed, StreamErased, CellsLeave
  <2> QED BY <1>0, <1>1, <1>3, <2>1, Zenon DEF CellsLeave
<1>10. ASSUME NEW r \in Requests, Stream(r) PROVE Goal
  <2>1. CASE StreamRead(r)
    BY <1>4, <2>1, Zenon DEF StreamRead
  <2>2. CASE StreamAbort(r)
    <3>1. OneGuard(r) /\ guard'[r] = "discharged" /\ cell' = cell /\ UNCHANGED <<wait, want, queue>>
      BY <1>0, <2>2, HeldKeys, Zenon DEF StreamAbort, DischargeSize, lockVars, Inv, ServerInv, GuardedMapInv, GuardedMapTypeOK
    <3> QED BY <1>0, <1>1, <3>1, Zenon
  <2>3. ASSUME NEW m \in Metadata, StreamCommit(r, m) PROVE Goal
    <3>1. OneGuard(r) /\ at'[r] = at[r] /\ cell' = cell /\ UNCHANGED <<wait, want>> /\ pending'[r] = m
      BY <1>0, <2>3, HeldKeys, Zenon DEF StreamCommit, ChargeSize, lockVars, Inv, ServerInv, GuardedMapInv, GuardedMapTypeOK
    <3>2. queue' = IF m.expire THEN queue \cup {at[r]} ELSE queue
      BY <2>3, Zenon DEF StreamCommit
    <3> QED BY <1>0, <1>1, <3>1, <3>2, Zenon
  <2>4. CASE StreamCommitted(r)
    <3>1. OneGuard(r) /\ guard'[r] = "none" /\ UNCHANGED <<wait, want, queue>> /\ guard[r] = "charged"
      BY <1>0, <2>4, HeldKeys, Zenon DEF StreamCommitted, CommitCell, lockVars
    <3>2. \A h \in Hashes : cell'[h] = cell[h] \/ (cell'[h].key = at[r] /\ cell'[h].meta = pending[r])
      BY <2>4, Zenon DEF StreamCommitted, CommitCell, SetCell, Blob, Inv, ServerInv, GuardedMapInv, GuardedMapTypeOK
    <3>3. ~pending[r].expire \/ KnownToExpire(at[r])
      BY <1>0, <3>1, Zenon DEF Inv, ServerInv, CommitsKnown
    <3>4. \A h \in Hashes : cell'[h] = cell[h] \/ ~cell'[h].meta.expire \/ KnownToExpire(cell'[h].key)
      BY <3>2, <3>3, Zenon
    <3> QED BY <1>0, <1>1, <3>1, <3>4, Zenon
  <2> QED BY <1>9, <1>10, <2>1, <2>2, <2>3, <2>4, Zenon DEF Stream
<1>11. ASSUME NEW n \in Tokens, RedeemFails(n) PROVE Goal
  <2>1. {lease[n]} \subseteq Requests
    BY <1>0, <1>11, Zenon DEF RedeemFails
  <2> QED BY <1>4, <1>11, <2>1, Zenon DEF RedeemFails
<1>12. CASE RemoveExpired \/ DropState
  <2>1. want' = want /\ queue' = queue
    BY <1>12, Zenon DEF RemoveExpired, DropState
  <2>2. PICK rs : rs \subseteq Requests /\ DropIos(rs)
    BY <1>12, Zenon DEF RemoveExpired, DropState
  <2> QED BY <1>4, <2>1, <2>2, Zenon
<1>13. ASSUME NEW t \in Tasks, Discharge(t) PROVE Goal
  <2>1. OneGuard(t) /\ guard[t] = "remove" /\ guard'[t] = "discharged" /\ cell' = cell /\ UNCHANGED <<wait, want, queue>>
    BY <1>0, <1>13, HeldKeys, Zenon DEF Discharge, DischargeSize, lockVars, Inv, ServerInv, GuardedMapInv, GuardedMapTypeOK
  <2>2. CASE t # Expirer
    BY <1>1, <2>1, <2>2, Zenon
  <2>3. CASE t = Expirer
    <3>1. ASSUME NEW k \in Keys, KnownToExpire(k) PROVE KnownToExpire(k)'
      BY <2>1, <2>3, <3>1, Zenon DEF KnownToExpire
    <3> QED BY <2>1, <2>3, <3>1, ExpirerMoves, Zenon DEF Goal
  <2> QED BY <2>2, <2>3, Zenon
<1>14. CASE EvictTask
  <2>1. Evictor \in Tasks \ {Expirer} /\ queue' = queue /\ want' = want /\ queue \subseteq queue' /\ want'[Expirer] = want[Expirer]
    BY <1>14, Zenon DEF EvictTask, EvictNext, Evicted, EvictFails, EvictDone, lockVars
  <2>2. ASSUME NEW k \in Keys, EvictNext(k) PROVE Goal
    <3>1. OneGuard(Evictor) /\ guard'[Evictor] # "charged" /\ cell' = cell /\ wait' = wait
      BY <2>1, <2>2, LockKeys, Zenon DEF EvictNext, LockRemove, lockVars
    <3> QED BY <1>1, <2>1, <3>1, Zenon
  <2>3. CASE Evicted
    <3>1. CellsLeave /\ OneGuard(Evictor) /\ guard'[Evictor] = "none"
      BY <2>1, <2>3, HeldKeys, Zenon DEF Evicted, CellsLeave
    <3> QED BY <1>1, <1>3, <2>1, <3>1, Zenon DEF CellsLeave
  <2>4. CASE EvictFails
    <3>1. OneGuard(Evictor) /\ guard'[Evictor] = "none" /\ cell' = cell /\ wait' = wait
      BY <2>1, <2>4, HeldKeys, Zenon DEF EvictFails, DropGuard, lockVars
    <3> QED BY <1>1, <2>1, <3>1, Zenon
  <2>5. CASE EvictDone
    BY <1>2, <2>1, <2>5, Zenon DEF EvictDone, lockVars
  <2> QED BY <1>14, <2>2, <2>3, <2>4, <2>5, Zenon DEF EvictTask
<1>15. CASE ExpireTask \/ ExpireLocked
  <2>1. ASSUME NEW k \in Keys, ExpireNext(k) PROVE Goal
    <3>1. /\ UNCHANGED <<cell, guard, at, pending>> /\ queue' = queue \ {k}
          /\ wait[Expirer] = "no" /\ guard[Expirer] = "none" /\ want'[Expirer] = k
          /\ wait'[Expirer] = IF cell[HashOf[k]].key = k THEN "lock" ELSE "no"
      BY <1>0, <2>1, Zenon DEF ExpireNext, ExpireIdle, mapVars
    <3>2. ASSUME NEW j \in Keys, KnownToExpire(j), cell[HashOf[j]].key = j PROVE KnownToExpire(j)'
      BY <3>1, <3>2, Zenon DEF KnownToExpire
    <3>3. \A t \in Tasks : guard[t] # "none" => cell[HashOf[at[t]]].key = at[t]
      BY HeldCell, Zenon DEF Inv, ServerInv
    <3> QED BY <3>1, <3>2, <3>3, KnownBefore, KnownSuffices, ZenonT(60) DEF Goal
  <2>2. CASE ExpireLocked
    <3> DEFINE k == want[Expirer]
    <3>1. /\ k \in Keys /\ cell[HashOf[k]].key = k /\ wait[Expirer] = "lock" /\ want' = want /\ queue' = queue
      BY <1>0, <2>2, LockedCell, Zenon DEF ExpireLocked
    <3>2. CASE LockRemove(Expirer, k)
      <4>1. OneGuard(Expirer) /\ guard'[Expirer] \in {"read", "write", "remove"} /\ cell' = cell
        BY <1>0, <3>1, <3>2, LockKeys, Zenon DEF LockRemove
      <4>2. ASSUME NEW j \in Keys, KnownToExpire(j) PROVE KnownToExpire(j)'
        BY <3>1, <4>1, <4>2, Zenon DEF KnownToExpire
      <4> QED BY <4>1, <4>2, ExpirerMoves, Zenon DEF Goal
    <3>3. CASE ~cell[HashOf[k]].meta.expire /\ Writable(HashOf[k]) /\ UNCHANGED mapVars
      <4>1. UNCHANGED <<cell, guard, at, pending>> /\ \A t \in Tasks : guard[t] # "none" => HashOf[at[t]] # HashOf[k]
        BY <3>3, Zenon DEF mapVars, Writable, Holders
      <4>2. ASSUME NEW j \in Keys, KnownToExpire(j), j # k PROVE KnownToExpire(j)'
        BY <3>1, <4>1, <4>2, Zenon DEF KnownToExpire
      <4> QED BY <3>1, <3>3, <4>1, <4>2, KnownBefore, KnownSuffices, ZenonT(60) DEF Goal
    <3> QED BY <2>2, <3>2, <3>3, Zenon DEF ExpireLocked
  <2>3. CASE ExpireStale \/ ExpireCancelled \/ ExpireDone
    <3>1. UNCHANGED <<cell, guard, at, pending, want>>
      BY <2>3, Zenon DEF ExpireStale, ExpireCancelled, ExpireDone, mapVars, lockVars
    <3>2. ASSUME NEW j \in Keys, KnownToExpire(j) PROVE KnownToExpire(j)'
      BY <1>0, <2>3, <3>1, <3>2, Zenon DEF KnownToExpire, ExpireStale, ExpireCancelled, ExpireDone, ExpireIdle, WaiterFits, lockVars
    <3> QED BY <3>1, <3>2, KnownBefore, KnownSuffices, Zenon DEF Goal
  <2>4. CASE ExpireRemoved
    <3>1. /\ OneGuard(Expirer) /\ guard'[Expirer] = "none" /\ guard[Expirer] = "discharged"
          /\ at[Expirer] = want[Expirer] /\ queue' = queue
          /\ \A h \in Hashes : cell'[h] \in {cell[h], Absent}
      BY <1>0, <2>4, HeldKeys, Zenon DEF ExpireRemoved, RemoveCell, CleanersFit
    <3>2. at[Expirer] \in Keys /\ cell'[HashOf[at[Expirer]]] = Absent
      BY <1>0, <2>4, <3>1, HeldCell, Zenon DEF ExpireRemoved, RemoveCell, SetCell, Inv, ServerInv, GuardedMapInv, GuardedMapTypeOK
    <3>3. ASSUME NEW j \in Keys, KnownToExpire(j), cell'[HashOf[j]] # Absent PROVE KnownToExpire(j)'
      BY <3>1, <3>2, <3>3, Zenon DEF KnownToExpire
    <3> QED BY <3>1, <3>3, ExpirerMoves, Zenon DEF Goal
  <2>5. CASE ExpireFails
    <3>1. /\ OneGuard(Expirer) /\ guard'[Expirer] = "none" /\ cell' = cell /\ queue' = queue \cup {want[Expirer]}
      BY <1>0, <2>5, HeldKeys, Zenon DEF ExpireFails, DropGuard
    <3>2. ASSUME NEW j \in Keys, KnownToExpire(j) PROVE KnownToExpire(j)'
      BY <3>1, <3>2, Zenon DEF KnownToExpire
    <3> QED BY <3>1, <3>2, ExpirerMoves, Zenon DEF Goal
  <2> QED BY <1>15, <2>1, <2>2, <2>3, <2>4, <2>5, Zenon DEF ExpireTask
<1>16. CASE \/ \E r \in Requests : SendResponse(r) \/ DrainTask(r) \/ JoinTask(r)
            \/ SpawnExpire \/ JoinEvict \/ JoinExpire \/ LogStats \/ CleanupFails \/ SocketFails \/ Stop \/ StopServing
            \/ DrainEvict \/ DrainExpire \/ DrainFails \/ Stopped \/ Tick \/ (\E n \in Tokens : Redeem(n)) \/ UNCHANGED vars
  BY <1>2, <1>16, Zenon DEF vars, SendResponse, DrainTask, JoinTask, SpawnExpire, JoinEvict, JoinExpire, LogStats, CleanupFails, SocketFails, ReturnError,
       Stop, StopServing, DrainEvict, DrainExpire, DrainFails, Stopped, Tick, Redeem, lockVars
<1> QED
  BY <1>5, <1>6, <1>7, <1>8, <1>9, <1>10, <1>11, <1>12, <1>13, <1>14, <1>15, <1>16, ZenonT(60)
      DEF Next, Turn, Drain, Granted, Handle

-----------------------------------------------------------------------------
(* The theorems *)

\* The invariant holds when the server starts.
LEMMA InitInv == Init => Inv
<1> SUFFICES ASSUME Init PROVE Inv
  BY Zenon
<1>1. GuardedMapInv
  <2>1. Unguarded
    BY DEF Init, Unguarded, CellsHashed
  <2> QED BY <2>1, UnguardedInv, Zenon
<1>2. TypeOK
  <2>1. deadlines \in Seq(Deadline)
    BY DEF Init
  <2>2. /\ task \in [Requests -> Handlers \cup {"new", "call", "leased", "finished", "joined"}]
        /\ wait \in [Tasks -> {"no", "lock", "stale"}] /\ want \in [Tasks -> Keys \cup {NoKey}]
        /\ sent \in [Requests -> 0 .. 1] /\ lease \in [Tokens -> Requests \cup {NoRequest}]
        /\ stream \in [Requests -> {"none", "open"}]
    BY DEF Init
  <2>3. /\ permits \subseteq Requests /\ outbox \subseteq Requests /\ queue \subseteq Keys
        /\ server \in {"running", "draining", "stopped"} /\ serving \in BOOLEAN
        /\ timer \in 0 .. LeaseTimeout \cup {NoTimer} /\ armed \in BOOLEAN
        /\ evict \in {"none", "running", "detached", "failed", "finished"}
        /\ expire \in {"none", "running", "failed", "finished"}
    BY Zenon DEF Init
  <2> QED BY <2>1, <2>2, <2>3, Zenon DEF TypeOK
<1>3. ResourcesOwned
  BY Zenon DEF Init, ResourcesOwned, Owned, Leased, Spent, Handlers
<1>4. WaitersFit
  BY Zenon DEF Init, WaitersFit, WaiterFits, HandlerFits, CleanersFit, Handlers
<1>5. LeasesTimed
  BY DEF Init, LeasesTimed
<1>6. CommitsKnown /\ OneResponse
  BY DEF Init, CommitsKnown, OneResponse, Handlers
<1>7. ExpiryKept
  <2>1. \A h \in Hashes : cell[h].tag = "Present" => cell[h].meta = Fresh
    BY DEF Init, Absent
  <2> QED BY <2>1, Zenon DEF ExpiryKept
<1> QED BY <1>1, <1>2, <1>3, <1>4, <1>5, <1>6, <1>7, Zenon DEF Inv, ServerInv

\* Every step keeps the invariant.
LEMMA NextInv == Inv /\ [Next]_vars => Inv'
<1> SUFFICES ASSUME Inv, [Next]_vars PROVE Inv'
  BY Zenon
<1>1. GuardedMapInv' /\ ResourcesOwned' /\ WaitersFit'
  BY MapKept, OwnedKept, WaitersKept, Zenon
<1>2. OneResponse' /\ task' \in [Requests -> TaskStates] /\ sent' \in [Requests -> 0 .. 1]
  BY ResponsesKept, Zenon
<1>3. DeadlinesFit'
  BY DeadlinesKept, Zenon
<1>4. TimerType' /\ TimerFits'
  BY <1>2, <1>3, TimerKept, Zenon
<1>5. WaitTypes' /\ RequestTypes' /\ ActorTypes'
  BY WaitTypesKept, RequestTypesKept, ActorTypesKept, Zenon
<1>6. TypeOK'
  BY <1>2, <1>3, <1>4, <1>5, Zenon DEF TypeOK, TaskStates, ServerStates, DeadlinesFit, LeaseTypes, TimerType, WaitTypes,
       RequestTypes, ActorTypes
<1>7. LeasesTimed'
  BY <1>3, <1>4, Zenon DEF LeasesTimed, DeadlinesFit, LeasesHaveDeadlines, DeadlinesSorted, TimerFits
<1>8. ExpiryKept' /\ CommitsKnown'
  BY <1>1, ExpiryKnown, Zenon
<1> QED BY <1>1, <1>2, <1>6, <1>7, <1>8, Zenon DEF Inv, ServerInv

\* Every guard of a request is in one place, every permit is accounted for, every
\* waiter waits for the entry of its key, and every lease has a deadline the actor
\* wakes up for (Handler, State, Actor::run and txrx_blob).
THEOREM ServerInvariant == Spec => []ServerInv
<1>1. Inv => ServerInv
  BY Zenon DEF Inv
<1> QED BY <1>1, InitInv, NextInv, PTL DEF Spec

\* No request is answered twice, and none is done without an answer while the
\* server runs (Actor::handle_request and the handler tasks).
THEOREM AnsweredOnce == Spec => []OneResponse
<1>1. Inv => OneResponse
  BY Zenon DEF Inv
<1> QED BY <1>1, InitInv, NextInv, PTL DEF Spec

\* No blob that expires is forgotten, through failed removals, cancellation and
\* shutdown (Storage::remove_expire and ExpireGuard, under the server's tasks).
THEOREM ExpiryIsKept == Spec => []ExpiryKept
<1>1. Inv => ExpiryKept
  BY Zenon DEF Inv
<1> QED BY <1>1, InitInv, NextInv, PTL DEF Spec
=============================================================================
