------------------------------ MODULE LruCache ------------------------------
(***************************************************************************)
(* g1/cache/src/lib.rs: an LRU cache in a table of a temporary SQLite      *)
(* database.  A call reads the clock, then does its work in one            *)
(* transaction under the mutex of the connection, so calls of several      *)
(* threads may run with clocks that are out of order.  The SQL statements  *)
(* are modelled by what they select and change.  lcRef is the cache that   *)
(* the table stands for: [key, value, until], least recently used first.   *)
(***************************************************************************)
EXTENDS Integers, Sequences, FiniteSets, FiniteSetsExt, SequencesExt

CONSTANTS
  LcThreads, LcKeys, LcValues,
  LcMaxSize,
  LcTimeout,       \* in seconds
  LcMaxTime, LcMaxRecency   \* bounds: of the clock and of the recency counter

VARIABLES
  lcRows,          \* the table: rows with key, recency, until (expire_at) and value
  lcRecency, lcClock,
  lcCall,          \* what every thread is about to do, and the time it has read
  lcRef

lruVars == <<lcRows, lcRecency, lcClock, lcCall, lcRef>>

NoCall == [now |-> -1]

LruInit ==
  /\ lcRows = {} /\ lcRecency = 0 /\ lcClock = 0
  /\ lcCall = [t \in LcThreads |-> NoCall]
  /\ lcRef = <<>>

(* The statements. *)

Expire(rows, now) == {r \in rows : r.until >= now}

\* Mutant of Evict: the offset is one short.
EvictOneLess(rows) ==
  LET n == Cardinality(rows) - LcMaxSize - 1
      at == {r \in rows : Cardinality({o \in rows : o.recency < r.recency}) = n}
  IN IF n <= 0 \/ at = {} THEN rows
     ELSE {r \in rows : \A a \in at : r.recency >= a.recency}

\* The recency of the row at offset n in the order of recency, if there is one; then
\* every row below it goes.
Evict(rows) ==
  LET n == Cardinality(rows) - LcMaxSize
      at == {r \in rows : Cardinality({o \in rows : o.recency < r.recency}) = n}
  IN IF n <= 0 \/ at = {} THEN rows
     ELSE {r \in rows : \A a \in at : r.recency >= a.recency}

\* INSERT OR REPLACE: the key and the recency are unique.
InsertRow(rows, row) == {r \in rows : r.key # row.key /\ r.recency # row.recency} \cup {row}

RefExpire(now) == SelectSeq(lcRef, LAMBDA e : e.until >= now)
RefDropKey(ref, k) == SelectSeq(ref, LAMBDA e : e.key # k)

(* The calls. *)

Tick == lcClock < LcMaxTime /\ lcClock' = lcClock + 1 /\ UNCHANGED <<lcRows, lcRecency, lcCall, lcRef>>

\* now(): the clock is read before the lock is taken.
ReadClock(t) ==
  /\ lcCall[t] = NoCall
  /\ lcCall' = [lcCall EXCEPT ![t].now = lcClock]
  /\ UNCHANGED <<lcRows, lcRecency, lcClock, lcRef>>

Returns(t) == lcCall' = [lcCall EXCEPT ![t] = NoCall]

\* Mutant of LruGet: the row keeps its recency.
LruPeek(t, k) ==
  LET now == lcCall[t].now
      hit == \E r \in Expire(lcRows, now) : r.key = k
      ref == RefExpire(now)
  IN /\ now >= 0
     /\ lcRows' = Expire(lcRows, now)
     /\ lcRef' = IF hit THEN RefDropKey(ref, k) \o SelectSeq(ref, LAMBDA e : e.key = k) ELSE ref
     /\ Returns(t)
     /\ UNCHANGED <<lcRecency, lcClock>>

LruGet(t, k) ==
  LET now == lcCall[t].now
      rows == Expire(lcRows, now)
      found == {r \in rows : r.key = k}
      ref == RefExpire(now)
  IN /\ now >= 0 /\ (found # {} => lcRecency < LcMaxRecency)
     /\ lcRows' = (rows \ found) \cup {[r EXCEPT !.recency = lcRecency] : r \in found}
     /\ lcRecency' = IF found = {} THEN lcRecency ELSE lcRecency + 1
     /\ lcRef' = IF found = {} THEN ref ELSE RefDropKey(ref, k) \o SelectSeq(ref, LAMBDA e : e.key = k)
     /\ Returns(t)
     /\ UNCHANGED lcClock

\* The order matters: expire, then evict.
LruInsert(t, k, v) ==
  LET now == lcCall[t].now
      row == [key |-> k, recency |-> lcRecency, until |-> now + LcTimeout, value |-> v]
      ref == Append(SelectSeq(lcRef, LAMBDA e : e.key # k /\ e.until >= now),
                    [key |-> k, value |-> v, until |-> now + LcTimeout])
  IN /\ now >= 0 /\ lcRecency < LcMaxRecency
     /\ lcRows' = Evict(Expire(InsertRow(lcRows, row), now))
     /\ lcRecency' = lcRecency + 1
     /\ lcRef' = IF Len(ref) > LcMaxSize THEN Tail(ref) ELSE ref
     /\ Returns(t)
     /\ UNCHANGED lcClock

LruRemove(t, k) ==
  LET now == lcCall[t].now
  IN /\ now >= 0
     /\ lcRows' = {r \in Expire(lcRows, now) : r.key # k}
     /\ lcRef' = RefDropKey(RefExpire(now), k)
     /\ Returns(t)
     /\ UNCHANGED <<lcRecency, lcClock>>

LruLen(t) ==
  LET now == lcCall[t].now
  IN /\ now >= 0
     /\ lcRows' = Expire(lcRows, now) /\ lcRef' = RefExpire(now)
     /\ Returns(t)
     /\ UNCHANGED <<lcRecency, lcClock>>

LruClear(t) ==
  /\ lcCall[t] = NoCall
  /\ lcRows' = {} /\ lcRef' = <<>>
  /\ UNCHANGED <<lcRecency, lcClock, lcCall>>

LruNext ==
  \/ Tick
  \/ \E t \in LcThreads :
       \/ ReadClock(t) \/ LruLen(t) \/ LruClear(t)
       \/ \E k \in LcKeys : LruGet(t, k) \/ LruRemove(t, k) \/ \E v \in LcValues : LruInsert(t, k, v)

-----------------------------------------------------------------------------
RowsInOrder == SetToSortSeq(lcRows, LAMBDA a, b : a.recency < b.recency)

\* In the order of recency the table is the least-recently-used cache it stands for:
\* an entry is evicted only if all others were used after it, and stays for its
\* whole last second, even when the calls carry clocks out of order.
RowsAreLru ==
  [i \in DOMAIN RowsInOrder |-> [key |-> RowsInOrder[i].key, value |-> RowsInOrder[i].value,
                                 until |-> RowsInOrder[i].until]] = lcRef

\* The cache does not outgrow its size, however entries are replaced, expired and
\* inserted, and the columns that the table declares unique are unique without it.
SizeIsBounded ==
  /\ Cardinality(lcRows) <= LcMaxSize
  /\ \A r, s \in lcRows : r.key = s.key \/ r.recency = s.recency => r = s

\* The table is a least-recently-used cache within its size.
CacheIsLru == RowsAreLru /\ SizeIsBounded
=============================================================================
