------------------------------- MODULE DhtNode ------------------------------
(***************************************************************************)
(* bt/dht: the routing table (route/src/bucket.rs, lib.rs, refresh.rs) and *)
(* the tasks of the node that change it (node/src/insert.rs, route.rs,     *)
(* refresh.rs, table.rs).  A table has one bucket per prefix of self_id;   *)
(* the last one is split when it is full.                                  *)
(***************************************************************************)
EXTENDS Integers, FiniteSets, SequencesExt, FiniteSetsExt

CONSTANTS
  DtBits,        \* NODE_ID_BIT_SIZE
  DtSelf,        \* self_id
  DtK,           \* K
  DtNetworks,    \* the networks there may be, each a set of nodes [id, endpoint]
  DtInactivity,  \* INACTIVITY_TIMEOUT
  DtFailures,    \* FAILURE_THRESHOLD
  DtRefreshTime, \* REFRESH_TIMEOUT
  DtMaxFulls,    \* bound: calls of Insert::insert that wait for pings
  DtMaxCalls,    \* bound: inserts and updates, which other tasks make
  DtMaxTime      \* bound: how far the clock goes

\* The bucket of the last bit, the last that there may be, has room for its two ids.
ASSUME DtKAssumption == DtK >= 2

VARIABLES
  dtNodes,       \* the nodes of the network
  dtBuckets,     \* Table::buckets: items [node, ok, errs], ok = 0 for no last_ok
  dtRefresh,     \* RefreshQueue: [at, bucket]
  dtFulls,       \* the Full of each insert that waits: [item, stale, pings]
  dtRefresher,   \* the refresher: [pc, at, missed], at = 0 for no deadline
  dtCalls,       \* how many inserts and updates there were
  dtClock

dhtTableVars == <<dtNodes, dtBuckets, dtRefresh, dtFulls, dtRefresher, dtCalls, dtClock>>

DtIds == 0 .. 2 ^ DtBits - 1
DtBit(id, i) == (id \div 2 ^ (DtBits - i - 1)) % 2   \* from 0, the first the highest

\* NodeId::distance.
DtDistance ==
    [a, b \in DtIds |-> SumSet({2 ^ i : i \in {j \in 0 .. DtBits - 1 :
                                    (a \div 2 ^ j) % 2 # (b \div 2 ^ j) % 2}})]

\* leading_zeros of the distance to self_id.
DtPrefix == [id \in DtIds |-> Cardinality({i \in 0 .. DtBits - 1 : DtDistance[DtSelf, id] < 2 ^ i})]

DtPosition(buckets, id) == IF DtPrefix[id] < Len(buckets) THEN DtPrefix[id] + 1 ELSE Len(buckets)

(* Bucket: sorted by last_ok, the newest last. *)

DtFind(b, id) == {i \in DOMAIN b : b[i].node.id = id}
DtItem(node, ok) == [node |-> node, ok |-> ok, errs |-> 0]
DtDrop(b, id) == SelectSeq(b, LAMBDA x : x.node.id # id)

\* Mutant of InsertSorted: the new item goes to the end.
InsertLast(b, item) == Append(b, item)

\* insert_sorted, after the items of the same time.
InsertSorted(b, item) ==
    InsertAt(b, 1 + Cardinality({i \in DOMAIN b : b[i].ok <= item.ok}), item)

\* insert: refused when the bucket is full, unless it has the id with an older time.
BucketTakes(b, item) == DtFind(b, item.node.id) # {} \/ Len(b) < DtK
BucketWith(b, item) ==
    IF \E i \in DtFind(b, item.node.id) : b[i].ok >= item.ok THEN b
    ELSE InsertSorted(DtDrop(b, item.node.id), item)

BucketOk(b, node, when) ==
    IF DtFind(b, node.id) = {} \/ \E i \in DtFind(b, node.id) : b[i].ok >= when THEN b
    ELSE InsertSorted(DtDrop(b, node.id), DtItem(node, when))

BucketErr(b, id) ==
    LET more == [i \in DOMAIN b |-> IF b[i].node.id = id THEN [b[i] EXCEPT !.errs = @ + 1] ELSE b[i]]
    IN SelectSeq(more, LAMBDA x : x.errs < DtFailures)

StaleOf(b, now) ==
    [i \in 1 .. Cardinality({j \in DOMAIN b : b[j].ok <= now - DtInactivity}) |-> b[i].node]

(* RefreshQueue: sorted by deadline, at most one entry for a bucket. *)

\* Mutant of RefreshSooner: the old entry of the bucket stays.
RefreshTwice(queue, bucket, when) ==
    InsertAt(queue, 1 + Cardinality({i \in DOMAIN queue : queue[i].at <= when + DtRefreshTime}),
             [at |-> when + DtRefreshTime, bucket |-> bucket])

RefreshSooner(queue, bucket, when) ==
    LET at == when + DtRefreshTime
        others == SelectSeq(queue, LAMBDA e : e.bucket # bucket)
    IN IF \E i \in DOMAIN queue : queue[i].bucket = bucket /\ queue[i].at >= at THEN queue
       ELSE InsertAt(others, 1 + Cardinality({i \in DOMAIN others : others[i].at <= at}),
                     [at |-> at, bucket |-> bucket])

(* Table. *)

\* One round of the loop of insert: the last bucket is split when it refuses the item.
DtMaySplit(buckets, item) ==
    LET i == DtPosition(buckets, item.node.id)
    IN ~BucketTakes(buckets[i], item) /\ i = Len(buckets)
SplitOff(buckets) ==
    LET n == Len(buckets)
        Closer(x) == DtBit(x.node.id, n - 1) = DtBit(DtSelf, n - 1)
    IN Append([buckets EXCEPT ![n] = SelectSeq(@, LAMBDA x : ~Closer(x))],
              SelectSeq(buckets[n], Closer))
RECURSIVE DtRoom(_, _)
DtRoom(buckets, item) == IF DtMaySplit(buckets, item) THEN DtRoom(SplitOff(buckets), item) ELSE buckets

\* get_closest: the bucket of the target, and the ones closer to self_id until it is full.
DtClosest(id) ==
    LET i == DtPosition(dtBuckets, id)
        all == FlattenSeq([j \in 1 .. Len(dtBuckets) - i + 1 |-> Reverse(dtBuckets[i + j - 1])])
        some == SubSeq(all, 1, Min({DtK, Len(all)}))
    IN SortSeq([j \in DOMAIN some |-> some[j].node],
               LAMBDA a, b : DtDistance[a.id, id] < DtDistance[b.id, id])

(* The lock of the table is held for one step.  WriteGuard::drop notifies the *)
(* refresher if it waits: it then polls again.                                *)

Looping == [pc |-> "loop", at |-> 0, missed |-> FALSE]
Notified ==
    CASE dtRefresher.pc = "waiting" -> Looping
      [] dtRefresher.pc = "read" -> [dtRefresher EXCEPT !.missed = TRUE]
      [] OTHER -> dtRefresher
Writes(buckets, refresh) == dtBuckets' = buckets /\ dtRefresh' = refresh /\ dtRefresher' = Notified

DhtTableInit ==
    /\ dtNodes \in DtNetworks
    /\ dtBuckets = << <<>> >> /\ dtRefresh = <<>>
    /\ dtFulls = <<>>
    /\ dtRefresher = Looping
    /\ dtCalls = 0 /\ dtClock = 1

\* The process's clock; it starts at 1, for 0 stands for no last_ok.
TableTick ==
    /\ dtClock < DtMaxTime /\ dtClock' = dtClock + 1
    /\ UNCHANGED <<dtBuckets, dtRefresh, dtFulls, dtRefresher, dtCalls>>

\* Insert::insert, up to the first ping.  last_ok is taken when the node answers, and
\* the insert follows when the lookup that asked has ended.
Called == dtCalls < DtMaxCalls /\ dtCalls' = dtCalls + 1 /\ UNCHANGED dtClock
LastOks == {0} \cup {t \in {dtClock - 1, dtClock} : t > 0}
InsertNode(node, lastOk) ==
    LET item == DtItem(node, lastOk)
        now == IF lastOk = 0 THEN dtClock ELSE lastOk
        buckets == DtRoom(dtBuckets, item)
        i == DtPosition(buckets, node.id)
        taken == BucketTakes(buckets[i], item)
        stale == StaleOf(buckets[i], now)
    IN /\ IF taken THEN Writes([buckets EXCEPT ![i] = BucketWith(@, item)],
                               RefreshSooner(dtRefresh, i - 1, now))
          ELSE Writes(buckets, dtRefresh)
       /\ IF taken \/ lastOk = 0 \/ stale = <<>> THEN UNCHANGED dtFulls
          ELSE /\ Len(dtFulls) < DtMaxFulls
               /\ dtFulls' = Append(dtFulls, [item |-> item, stale |-> stale, pings |-> 0])
       /\ Called

NextStale(f) ==
    dtFulls' = IF Len(dtFulls[f].stale) = 1 THEN RemoveAt(dtFulls, f)
               ELSE [dtFulls EXCEPT ![f].stale = Tail(@), ![f].pings = 0]

\* Full::ok.
StaleAnswers(f) ==
    LET stale == Head(dtFulls[f].stale)
        i == DtPosition(dtBuckets, dtFulls[f].item.node.id)
    IN /\ Writes([dtBuckets EXCEPT ![i] = BucketOk(@, stale, dtClock)],
                 IF DtFind(dtBuckets[i], stale.id) # {} THEN RefreshSooner(dtRefresh, i - 1, dtClock)
                 ELSE dtRefresh)
       /\ NextStale(f) /\ UNCHANGED <<dtCalls, dtClock>>

FirstPingFails(f) ==
    /\ dtFulls[f].pings = 0
    /\ dtFulls' = [dtFulls EXCEPT ![f].pings = 1]
    /\ UNCHANGED <<dtBuckets, dtRefresh, dtRefresher, dtCalls, dtClock>>

\* Full::err: the item goes to the bucket of the stale node, if there is room by now.
StaleFails(f) ==
    LET stale == Head(dtFulls[f].stale)
        i == DtPosition(dtBuckets, stale.id)
        rest == DtDrop(dtBuckets[i], stale.id)
        item == dtFulls[f].item
    IN /\ dtFulls[f].pings = 1
       /\ IF BucketTakes(rest, item)
          THEN /\ Writes([dtBuckets EXCEPT ![i] = BucketWith(rest, item)], dtRefresh)
               /\ dtFulls' = RemoveAt(dtFulls, f)
          ELSE Writes([dtBuckets EXCEPT ![i] = rest], dtRefresh) /\ NextStale(f)
       /\ UNCHANGED <<dtCalls, dtClock>>

\* Router::accept and Lookup::lookup: a node that asks or answers is not inserted.
UpdateOk(node) ==
    LET i == DtPosition(dtBuckets, node.id)
    IN /\ Writes([dtBuckets EXCEPT ![i] = BucketOk(@, node, dtClock)],
                 IF DtFind(dtBuckets[i], node.id) = {} THEN dtRefresh
                 ELSE RefreshSooner(dtRefresh, i - 1, dtClock))
       /\ UNCHANGED dtFulls /\ Called

UpdateErr(id) ==
    /\ Writes([dtBuckets EXCEPT ![DtPosition(dtBuckets, id)] = BucketErr(@, id)], dtRefresh)
    /\ UNCHANGED dtFulls /\ Called

(* The refresher's loop polls written() and wait_refresh() in any order.  A     *)
(* write that falls between a read of the deadline and written() is not told.   *)

FrontAt == IF dtRefresh = <<>> THEN 0 ELSE Head(dtRefresh).at
ReadDeadline ==
    /\ dtRefresher.pc = "loop"
    /\ \E pc \in {"waiting", "read"} : dtRefresher' = [pc |-> pc, at |-> FrontAt, missed |-> FALSE]
    /\ UNCHANGED <<dtBuckets, dtRefresh, dtFulls, dtCalls, dtClock>>
AwaitWritten ==
    /\ dtRefresher.pc = "read"
    /\ dtRefresher' = [dtRefresher EXCEPT !.pc = "waiting"]
    /\ UNCHANGED <<dtBuckets, dtRefresh, dtFulls, dtCalls, dtClock>>

\* sleep_until ends: the front entry is taken, whichever it is by now, and the bucket
\* is looked up.  What the lookup finds is inserted by an insert task.
NextRefresh ==
    /\ dtRefresher.pc = "waiting" /\ dtRefresher.at \in 1 .. dtClock
    /\ dtRefresh' = (IF dtRefresh = <<>> THEN dtRefresh ELSE Tail(dtRefresh))
    /\ dtRefresher' = Looping
    /\ UNCHANGED <<dtBuckets, dtFulls, dtCalls, dtClock>>

DhtTableNext ==
    /\ \/ TableTick
       \/ \E node \in dtNodes, lastOk \in LastOks : InsertNode(node, lastOk)
       \/ \E f \in DOMAIN dtFulls : StaleAnswers(f) \/ FirstPingFails(f) \/ StaleFails(f)
       \/ \E node \in dtNodes : UpdateOk(node) \/ UpdateErr(node.id)
       \/ ReadDeadline \/ AwaitWritten \/ NextRefresh
    /\ UNCHANGED dtNodes

-----------------------------------------------------------------------------

\* Whatever inserts wait for pings while others change the table, every id is in the
\* bucket of its prefix and in it once, the buckets hold at most K nodes in the order
\* of their last answer, none that failed too often stays, and there are never more
\* buckets than bits: with one more, insert would reach its unreachable!().
BucketsAreSound ==
    /\ Len(dtBuckets) <= DtBits
    /\ \A i \in DOMAIN dtBuckets :
         LET b == dtBuckets[i]
         IN /\ Len(b) <= DtK
            /\ \A j \in DOMAIN b : DtPosition(dtBuckets, b[j].node.id) = i /\ b[j].errs < DtFailures
            /\ \A j, k \in DOMAIN b : j < k => b[j].node.id # b[k].node.id /\ b[j].ok <= b[k].ok

\* The refresh queue has one deadline at most for a bucket, the earliest first, and the
\* refresher sleeps no longer than to the first one, unless a write fell between its
\* two polls.  A bucket that was split off and not inserted into, or whose refresh
\* found nothing, has no deadline and is not refreshed.
RefreshIsTimely ==
    /\ \A i, j \in DOMAIN dtRefresh :
         i < j => dtRefresh[i].at <= dtRefresh[j].at /\ dtRefresh[i].bucket # dtRefresh[j].bucket
    /\ \A i \in DOMAIN dtRefresh : dtRefresh[i].bucket < Len(dtBuckets)
    /\ dtRefresher.pc = "waiting" /\ ~dtRefresher.missed => dtRefresher.at = FrontAt

\* get_closest puts every node that shares the target's bucket before all others.
ClosestFirst ==
    \A id \in DtIds :
        LET own == {x.node : x \in ToSet(dtBuckets[DtPosition(dtBuckets, id)])}
            found == DtClosest(id)
        IN ToSet(SubSeq(found, 1, Cardinality(own))) = own

\* The table of bt/dht is sound under concurrent inserts, updates and refreshes.
NodeTableIsSound == BucketsAreSound /\ RefreshIsTimely /\ ClosestFirst

-----------------------------------------------------------------------------
(***************************************************************************)
(* bt/dht/lookup and the lookups of bt/dht/node (node/src/lookup.rs): the  *)
(* iterative search for the nodes, or the peers, closest to a target.  The *)
(* nodes asked answer anything: errors, other nodes, tokens, self_id too.  *)
(***************************************************************************)

CONSTANTS
  DlBits,        \* NODE_ID_BIT_SIZE
  DlAlpha,       \* ALPHA
  DlTarget,      \* target.to_id()
  DlNodes,       \* the nodes that may be told of: [id, endpoint]
  DlMaxBoot,     \* bound: nodes a lookup starts from
  DlMaxTold      \* bound: nodes in one response

VARIABLES
  dlKind,        \* the Target: NodeId ("nodes") or InfoHash ("peers")
  dlQueue,       \* Lookup::queue, from an id to the endpoint
  dlClosest,     \* Lookup::closest
  dlQueried,     \* Lookup::queried
  dlQueries,     \* the queries of this iteration still to be sent
  dlAcc,         \* LookupPeersAcc::closest: <<>> or <<id>>
  dlNodes,       \* lookup_nodes
  dlState,       \* "search" or "done"
  dlLog          \* every query sent: [id, outcome]

dhtLookupVars == <<dlKind, dlQueue, dlClosest, dlQueried, dlQueries, dlAcc, dlNodes, dlState, dlLog>>

DlDistance ==
    [a \in 0 .. 2 ^ DlBits - 1 |-> SumSet({2 ^ i : i \in {j \in 0 .. DlBits - 1 :
                                      (a \div 2 ^ j) % 2 # (DlTarget \div 2 ^ j) % 2}})]

\* The values of a queue, a BTreeMap by distance.
ByDistance(ids) == SetToSortSeq(ids, LAMBDA a, b : DlDistance[a] < DlDistance[b])
FirstOf(s, n) == SubSeq(s, 1, Min({n, Len(s)}))

\* extend_queue: a node told again replaces the endpoint.  The nodes come in any order.
Extended(queue, nodes) ==
    {[id \in DOMAIN queue \cup {n.id : n \in nodes} |->
        IF \E n \in nodes : n.id = id THEN pick[id] ELSE queue[id]] :
        pick \in {p \in [{n.id : n \in nodes} -> {n.endpoint : n \in nodes}] :
                    \A id \in DOMAIN p : [id |-> id, endpoint |-> p[id]] \in nodes}}

\* Lookup::bootstrap and Lookup::new: the closest nodes of the table, or what the
\* bootstrap nodes answered.
DhtLookupInit ==
    /\ dlKind \in {"nodes", "peers"}
    /\ \E told \in SUBSET DlNodes :
         /\ Cardinality(told) \in 1 .. DlMaxBoot
         /\ dlQueue \in Extended([id \in {} |-> 0], told)
    /\ dlClosest = <<>> /\ dlQueried = {} /\ dlQueries = <<>>
    /\ dlAcc = <<>> /\ dlNodes = <<>> /\ dlState = "search" /\ dlLog = <<>>

\* Mutant of Unqueried: the nodes asked before are asked again.
AllOf(queue, queried) == ByDistance(DOMAIN queue)

Unqueried(queue, queried) == ByDistance(DOMAIN queue \ queried)

\* Mutant of Converged: any one of the closest nodes has been seen before.
SomeSeen(closest) == ToSet(closest) \cap ToSet(dlClosest) # {}

Converged(closest) == closest = dlClosest

NextIteration ==
    LET closest == FirstOf(ByDistance(DOMAIN dlQueue), DlAlpha)
        queries == FirstOf(Unqueried(dlQueue, dlQueried), DlAlpha)
    IN /\ dlState = "search" /\ dlQueries = <<>>
       /\ IF Converged(closest)
          THEN dlState' = "done" /\ UNCHANGED <<dlClosest, dlQueried, dlQueries>>
          ELSE /\ dlClosest' = closest
               /\ dlQueried' = dlQueried \cup ToSet(queries)
               /\ dlQueries' = [i \in DOMAIN queries |->
                                  [id |-> queries[i], endpoint |-> dlQueue[queries[i]]]]
               /\ dlState' = IF queries = <<>> THEN "done" ELSE "search"
       /\ UNCHANGED <<dlKind, dlQueue, dlAcc, dlNodes, dlLog>>

Sent(outcome) ==
    /\ dlQueries # <<>>
    /\ dlQueries' = Tail(dlQueries)
    /\ dlLog' = Append(dlLog, [id |-> Head(dlQueries).id, outcome |-> outcome])
    /\ UNCHANGED <<dlKind, dlClosest, dlQueried, dlState>>

\* The request failed, or a find_node was answered without nodes: Table::update_err.
QueryFails ==
    /\ Sent("err")
    /\ UNCHANGED <<dlQueue, dlAcc, dlNodes>>

\* Mutant of Better: the last token is kept, not that of the closest node.
BetterLast(id) == TRUE

Better(id) == \A best \in ToSet(dlAcc) : DlDistance[id] < DlDistance[best]

\* Acc::update, Lookup::update and Table::update_ok.
QueryAnswered(told, token) ==
    LET node == Head(dlQueries)
    IN /\ Sent(IF token THEN "token" ELSE "ok")
       /\ token => dlKind = "peers"
       /\ dlAcc' = IF token /\ Better(node.id) THEN <<node.id>> ELSE dlAcc
       /\ dlQueue' \in Extended(dlQueue, told)
       /\ dlNodes' = Append(dlNodes, node)

DhtLookupNext ==
    \/ NextIteration \/ QueryFails
    \/ \E told \in SUBSET DlNodes, token \in BOOLEAN :
         Cardinality(told) <= DlMaxTold /\ QueryAnswered(told, token)

-----------------------------------------------------------------------------

\* Whatever the nodes answer, a lookup never asks an id twice, it ends with the ALPHA
\* closest nodes it was ever told of all asked, it returns just those that answered
\* it, and the token it announces with is that of the closest node that gave one.
LookupIsSound ==
    LET asked == {dlLog[i].id : i \in DOMAIN dlLog}
        holders == {dlLog[i].id : i \in {j \in DOMAIN dlLog : dlLog[j].outcome = "token"}}
    IN /\ Cardinality(asked) = Len(dlLog)
       /\ dlState = "done" => ToSet(FirstOf(ByDistance(DOMAIN dlQueue), DlAlpha)) \subseteq asked
       /\ {n.id : n \in ToSet(dlNodes)} = {dlLog[i].id : i \in {j \in DOMAIN dlLog : dlLog[j].outcome # "err"}}
       /\ holders = {} <=> dlAcc = <<>>
       /\ \A best \in ToSet(dlAcc), id \in holders : DlDistance[best] <= DlDistance[id]
=============================================================================
