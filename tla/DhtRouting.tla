---------------------------- MODULE DhtRouting ----------------------------
(***************************************************************************)
(* bittorrent/dht: the routing table (routing.rs, kbucket.rs) and the      *)
(* tasks of the agent that change it under its lock (agent/handle.rs,      *)
(* agent/refresh.rs, and the removals of lookup.rs).  The tree is given by *)
(* its leaves: a prefix of bits maps to a bucket, and a prefix of leaves   *)
(* that is not one itself is a branch.  A node is its id and its endpoint. *)
(***************************************************************************)
EXTENDS Integers, FiniteSets, SequencesExt, Functions

CONSTANTS
  DhBits,        \* NODE_ID_BIT_SIZE
  DhSelf,        \* self_id
  DhK,           \* max_bucket_size and the limit of get_closest
  DhNodes,       \* the nodes that are heard of: [id, endpoint]
  DhQueueSize,   \* kbucket_full_queue_size
  DhMaxTasks,    \* bound: NodeRefreshers at a time
  DhMaxTime      \* bound: how many times the clock advances

\* A bucket of the last bit, which no one splits, has room for both of its ids.
ASSUME DhKAssumption == DhK > 2

VARIABLES
  dhTable,       \* RoutingTable::root, prefix -> [items, maySplit]
  dhFull,        \* the queue of KBucketFull
  dhRefresher,   \* the NodeRefresher tasks, a sequence
  dhClock

dhtRoutingVars == <<dhTable, dhFull, dhRefresher, dhClock>>

Ids == 0 .. 2 ^ DhBits - 1
BitsOf == [id \in Ids |-> [i \in 1 .. DhBits |-> (id \div 2 ^ (DhBits - i)) % 2]]

\* Distance::measure, the bits taken as a big-endian number.
DistanceOf ==
    [a, b \in Ids |->
        FoldLeft(LAMBDA n, i : 2 * n + (IF BitsOf[a][i] = BitsOf[b][i] THEN 0 ELSE 1), 0,
                 [i \in 1 .. DhBits |-> i])]

(* KBucket: its items are in the order of last_seen. *)

IdAt(items, id) == {i \in DOMAIN items : items[i].node.id = id}

\* Mutant of BucketInsert: the candidate goes to the end, as if it were the newest.
BucketAppend(items, item) ==
    LET old == IdAt(items, item.node.id)
    IN Append(IF old = {} THEN items ELSE RemoveAt(items, CHOOSE i \in old : TRUE), item)

\* insert into a bucket with room; among equal last_seen the search may stop anywhere.
BucketInsert(items, item) ==
    LET old == IdAt(items, item.node.id)
        i == CHOOSE i \in old : TRUE
        others == IF old = {} THEN items ELSE RemoveAt(items, i)
        seen == IF old = {} \/ items[i].seen < item.seen THEN item.seen ELSE items[i].seen
        place == 1 + Cardinality({j \in DOMAIN others : others[j].seen < seen})
    IN InsertAt(others, place, [item EXCEPT !.seen = seen])

BucketMustInsert(items, item) ==
    BucketInsert(IF Len(items) >= DhK THEN SubSeq(items, Len(items) - DhK + 2, Len(items)) ELSE items, item)

BucketRemove(items, id) ==
    IF IdAt(items, id) = {} THEN items ELSE RemoveAt(items, CHOOSE i \in IdAt(items, id) : TRUE)

(* RoutingTable. *)

EmptyTree == [p \in {<<>>} |-> [items |-> <<>>, maySplit |-> TRUE]]

\* traverse: the leaf of an id; it panics when the leaf is as deep as the id is long.
Traverse(table, id) == CHOOSE p \in DOMAIN table : IsPrefix(p, BitsOf[id])

\* Mutant of Split: either half may be split again.
SplitBoth(table, p) ==
    LET Half(b) == SelectSeq(table[p].items, LAMBDA x : BitsOf[x.node.id][Len(p) + 1] = b)
    IN [q \in (DOMAIN table \ {p}) \cup {Append(p, 0), Append(p, 1)} |->
            IF q \in DOMAIN table THEN table[q]
            ELSE [items |-> Half(Last(q)), maySplit |-> TRUE]]

Split(table, p) ==
    LET Half(b) == SelectSeq(table[p].items, LAMBDA x : BitsOf[x.node.id][Len(p) + 1] = b)
    IN [q \in (DOMAIN table \ {p}) \cup {Append(p, 0), Append(p, 1)} |->
            IF q \in DOMAIN table THEN table[q]
            ELSE [items |-> Half(Last(q)), maySplit |-> Last(q) = BitsOf[DhSelf][Len(q)]]]

\* insert splits the bucket of self_id until there is room or the bucket is another
\* one; full is what KBucketFull says of the incumbents.
RECURSIVE Inserted(_, _)
Inserted(table, item) ==
    LET p == Traverse(table, item.node.id)
        items == table[p].items
    IN IF Len(items) < DhK
       THEN [table |-> [table EXCEPT ![p].items = BucketInsert(@, item)], full |-> {}]
       ELSE IF table[p].maySplit THEN Inserted(Split(table, p), item)
       ELSE [table |-> table, full |-> {items[i].node : i \in DOMAIN items}]

MustInserted(table, item) ==
    [table EXCEPT ![Traverse(table, item.node.id)].items = BucketMustInsert(@, item)]
Removed(table, id) == [table EXCEPT ![Traverse(table, id)].items = BucketRemove(@, id)]
HasId(table, id) == IdAt(table[Traverse(table, id)].items, id) # {}

\* collect_closest, one tree popped from its stack.  bit counts the branches met.
Visit(table, id, s) ==
    LET p == Last(s.stack)
        near == BitsOf[id][s.bit]
    IN IF s.stack = <<>> \/ Len(s.out) >= DhK THEN s
       ELSE IF p \in DOMAIN table
            THEN [s EXCEPT !.stack = Front(@),
                           !.out = @ \o [i \in DOMAIN table[p].items |-> table[p].items[i].node]]
            ELSE [s EXCEPT !.stack = Front(@) \o <<Append(p, 1 - near), Append(p, near)>>,
                           !.bit = @ + 1]

GetClosest(table, id) ==
    LET start == [stack |-> << <<>> >>, out |-> <<>>, bit |-> 1]
        visits == [i \in 1 .. 2 * Cardinality(DOMAIN table) |-> i]
        found == FoldLeft(LAMBDA s, i : Visit(table, id, s), start, visits).out
        sorted == SortSeq(found, LAMBDA a, b : DistanceOf[id, a.id] < DistanceOf[id, b.id])
    IN SubSeq(sorted, 1, IF Len(sorted) < DhK THEN Len(sorted) ELSE DhK)

(* The agent. *)

DhtRoutingInit == dhTable = EmptyTree /\ dhFull = <<>> /\ dhRefresher = <<>> /\ dhClock = 0

\* handle_query: the node that asks is inserted; a full queue drops the notice.
HandleQuery(node) ==
    LET item == [node |-> node, seen |-> dhClock + 1]
        res == Inserted(dhTable, item)
        notice == [incumbents |-> res.full, candidate |-> item]
    IN /\ dhClock < DhMaxTime
       /\ dhTable' = res.table /\ dhClock' = dhClock + 1
       /\ dhFull' = IF res.full = {} \/ Len(dhFull) = DhQueueSize THEN dhFull ELSE Append(dhFull, notice)
       /\ UNCHANGED dhRefresher

SpawnNodeRefresher ==
    /\ dhFull # <<>> /\ Len(dhRefresher) < DhMaxTasks
    /\ dhRefresher' = Append(dhRefresher, [todo |-> Head(dhFull).incumbents,
                                           candidate |-> Head(dhFull).candidate, removed |-> FALSE])
    /\ dhFull' = Tail(dhFull)
    /\ UNCHANGED <<dhTable, dhClock>>

PingAnswered(i, node) ==
    /\ dhRefresher' = [dhRefresher EXCEPT ![i].todo = @ \ {node}]
    /\ UNCHANGED <<dhTable, dhFull, dhClock>>

\* The incumbent is removed by its id, wherever it is by now.
PingFailed(i, node) ==
    /\ dhRefresher' = [dhRefresher EXCEPT ![i].todo = @ \ {node},
                                          ![i].removed = @ \/ HasId(dhTable, node.id)]
    /\ dhTable' = Removed(dhTable, node.id)
    /\ UNCHANGED <<dhFull, dhClock>>

RefresherEnds(i) ==
    /\ dhRefresher[i].todo = {}
    /\ dhTable' = IF dhRefresher[i].removed THEN Inserted(dhTable, dhRefresher[i].candidate).table
                  ELSE dhTable
    /\ dhRefresher' = RemoveAt(dhRefresher, i)
    /\ UNCHANGED <<dhFull, dhClock>>

RefresherCancelled(i) == dhRefresher' = RemoveAt(dhRefresher, i) /\ UNCHANGED <<dhTable, dhFull, dhClock>>

\* A node that a lookup cannot reach is removed.
LookupFails(node) == dhTable' = Removed(dhTable, node.id) /\ UNCHANGED <<dhFull, dhRefresher, dhClock>>

\* KBucketRefresher: the nodes that a lookup returns, for a bucket that was not seen
\* lately when the refresher was spawned, are inserted whatever they displace by now.
RefreshBucket(nodes) ==
    /\ dhClock > 0 /\ dhClock + Len(nodes) <= DhMaxTime
    /\ dhTable' = FoldLeft(LAMBDA t, i : MustInserted(t, [node |-> nodes[i], seen |-> dhClock + i]),
                           dhTable, [i \in DOMAIN nodes |-> i])
    /\ dhClock' = dhClock + Len(nodes)
    /\ UNCHANGED <<dhFull, dhRefresher>>

DhtRoutingNext ==
    \/ \E node \in DhNodes : HandleQuery(node) \/ LookupFails(node)
    \/ SpawnNodeRefresher
    \/ \E i \in DOMAIN dhRefresher :
         \/ \E node \in dhRefresher[i].todo : PingAnswered(i, node) \/ PingFailed(i, node)
         \/ RefresherEnds(i)
         \/ RefresherCancelled(i)
    \/ \E node, other \in DhNodes :
         RefreshBucket(IF node.id = other.id THEN <<node>> ELSE <<node, other>>)

-----------------------------------------------------------------------------

Items == UNION {ToSet(dhTable[p].items) : p \in DOMAIN dhTable}

\* The tree is sound whatever queries, refreshes and removals overlap: every id is in
\* the one bucket of its prefix, at most once and in the order it was last seen, no
\* bucket has more than k nodes, only the bucket of the node itself may be split, and
\* none is so deep that the next lookup of an id would panic in it.
TreeIsSound ==
    \A p \in DOMAIN dhTable :
        LET items == dhTable[p].items
        IN /\ Len(p) < DhBits /\ Len(items) <= DhK
           /\ dhTable[p].maySplit <=> IsPrefix(p, BitsOf[DhSelf])
           /\ \A i \in DOMAIN items : IsPrefix(p, BitsOf[items[i].node.id])
           /\ \A i, j \in DOMAIN items :
                i < j => items[i].node.id # items[j].node.id /\ items[i].seen <= items[j].seen

\* get_closest, which stops at the first buckets that have enough, returns the k nodes
\* of the table that are closest to the target, nearest first.
ClosestIsExact ==
    \A id \in Ids :
        LET found == GetClosest(dhTable, id)
            ids == {x.node.id : x \in Items}
        IN /\ \A i \in 1 .. Len(found) - 1 : DistanceOf[id, found[i].id] < DistanceOf[id, found[i + 1].id]
           /\ Len(found) = IF Cardinality(ids) < DhK THEN Cardinality(ids) ELSE DhK
           /\ \A i \in DOMAIN found, x \in ids :
                x \in {found[j].id : j \in DOMAIN found} \/ DistanceOf[id, found[i].id] < DistanceOf[id, x]

\* The routing table is sound, and answers exactly.
RoutingIsSound == TreeIsSound /\ ClosestIsExact
=============================================================================
