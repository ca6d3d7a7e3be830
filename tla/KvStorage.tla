------------------------------ MODULE KvStorage -----------------------------
(* dkvcache/storage/src/lib.rs: a key-value cache in SQLite used from      *)
(* several threads.  A transaction takes the buffered recency updates of   *)
(* get, runs on one connection, and after the commit stores the length and *)
(* the next expiration in two caches, outside the transaction.  SQLite is  *)
(* external: one transaction at a time has the write lock, and from there  *)
(* it is one step, or fails and changes nothing; row ids are reused.       *)
(* Values do not matter and are left out.                                  *)
EXTENDS Naturals, Sequences, FiniteSets, FiniteSetsExt

CONSTANTS
    KvThreads, KvKeys,
    KvExpires,   \* expire_at of an entry; 0 is none
    KvTarget,    \* what evict is asked to leave
    KvMaxTime,   \* bounds the clock, which every recorded instant advances
    KvMaxFaults  \* bounds failed transactions and restarts

VARIABLES
    kvRows,      \* key -> [id, exp, rec, born]; born identifies the entry
    kvBuffer,    \* recency_buffer: [id, at]
    kvLen, kvExpireAt,  \* len_cache and next_expire_at_cache
    kvThread,    \* thread -> [pc, ...]
    kvUsed,      \* ghost: key -> the clock that its entry's last user read
    kvRaced,     \* ghost: the last commit came before the caches of another were stored
    kvClock, kvFaults

kvVars == <<kvRows, kvBuffer, kvLen, kvExpireAt, kvThread, kvUsed, kvRaced, kvClock, kvFaults>>

KvIdle == [pc |-> "idle"]

\* query_next_expire_at: the least expire_at, 0 when there is none
NextExpireAt(rows) ==
    LET es == {rows[k].exp : k \in DOMAIN rows} \ {0} IN IF es = {} THEN 0 ELSE Min(es)

KvInit ==
    /\ kvRows = <<>> /\ kvBuffer = <<>>
    /\ kvLen = Cardinality(DOMAIN kvRows) /\ kvExpireAt = NextExpireAt(kvRows)
    /\ kvThread = [t \in KvThreads |-> KvIdle]
    /\ kvUsed = <<>> /\ kvRaced = FALSE /\ kvClock = 1 /\ kvFaults = 0

KvWithout(f, ks) == [k \in DOMAIN f \ ks |-> f[k]]

KvWith(f, k, v) == [j \in DOMAIN f \cup {k} |-> IF j = k THEN v ELSE f[j]]

-----------------------------------------------------------------------------
(* What the statements do to the table. *)

\* execute_flush: UPDATE ... WHERE rowid = ?1 AND recency < ?2, once for each
\* buffered update; the greatest instant is what they leave.
Flushed(rec, ats) == Max({rec} \cup ats)

ExecuteFlush(rows, buffer) ==
    [k \in DOMAIN rows |->
        [rows[k] EXCEPT !.rec = Flushed(@, {b.at : b \in {c \in Range(buffer) : c.id = rows[k].id}})]]

\* INSERT with the row id SQLite chooses
Inserted(rows, k, exp) ==
    LET id == 1 + Max({0} \cup {rows[j].id : j \in DOMAIN rows})
    IN KvWith(rows, k, [id |-> id, exp |-> exp, rec |-> kvClock, born |-> kvClock])

\* The entries evict deletes: as many as exceed the target, least recent first.
Evicted(rows, target) ==
    {es \in SUBSET DOMAIN rows :
        /\ Cardinality(es) = IF Cardinality(DOMAIN rows) > target
                             THEN Cardinality(DOMAIN rows) - target ELSE 0
        /\ \A e \in es, k \in DOMAIN rows \ es : rows[e].rec <= rows[k].rec}

\* expire with the time its caller read
Expired(rows, now) == {k \in DOMAIN rows : rows[k].exp \in 1..now}

\* The tables an operation may leave; an update has read the clock at `at`.
Execute(rows, op, at) ==
    CASE op.name = "set" -> {Inserted(rows, op.key, op.exp)}
      [] op.name = "create" -> {IF op.key \in DOMAIN rows THEN rows ELSE Inserted(rows, op.key, op.exp)}
      [] op.name = "update" ->
            {IF op.key \in DOMAIN rows
             THEN [rows EXCEPT ![op.key].rec = at, ![op.key].exp = exp] ELSE rows :
                exp \in {op.exp} \cup {rows[k].exp : k \in DOMAIN rows \cap {op.key}}}
      [] op.name = "remove" -> {KvWithout(rows, op.keys)}
      [] op.name = "expire" -> {KvWithout(rows, Expired(rows, now)) : now \in 1..kvClock}
      [] op.name = "evict" -> {KvWithout(rows, es) : es \in Evicted(rows, op.target)}
      [] op.name = "flush" -> {rows}

\* An operation that writes or finds an entry is its last user.
Uses(rows, op, at) ==
    [k \in DOMAIN rows |->
        CASE rows[k].born = kvClock -> kvClock
          [] rows[k].born # kvClock /\ op.name = "update" /\ op.key = k -> at
          [] OTHER -> kvUsed[k]]

KvOps ==
    [name : {"set", "create", "update"}, key : KvKeys, exp : KvExpires] \cup
    [name : {"remove"}, keys : SUBSET KvKeys \ {{}}] \cup [name : {"expire", "flush"}] \cup
    [name : {"evict"}, target : {KvTarget}]

-----------------------------------------------------------------------------

\* Mutant of Summary: the next expiration is read before the operation.
SummaryEarly(before, rows) ==
    [pc |-> "len", len |-> Cardinality(DOMAIN rows), next |-> NextExpireAt(before)]

\* What a transaction will store in the caches, read before it commits.
Summary(before, rows) ==
    [pc |-> "len", len |-> Cardinality(DOMAIN rows), next |-> NextExpireAt(rows)]

\* transact: the buffer is taken under its lock,
BeginTransact(t, op) ==
    /\ kvThread[t].pc = "idle"
    /\ kvThread' = [kvThread EXCEPT ![t] = [pc |-> "tx", op |-> op, buffer |-> kvBuffer, at |-> 0]]
    /\ kvBuffer' = <<>>
    /\ UNCHANGED <<kvRows, kvLen, kvExpireAt, kvUsed, kvRaced, kvClock, kvFaults>>

\* an update with nothing to flush reads the clock before it waits for the write
\* lock (an insert has a snapshot by then, and fails if another commit comes first),
StampUpdate(t) ==
    /\ kvThread[t].pc = "tx" /\ kvThread[t].op.name = "update"
    /\ kvThread[t].buffer = <<>> /\ kvThread[t].at = 0
    /\ kvClock < KvMaxTime /\ kvClock' = kvClock + 1
    /\ kvThread' = [kvThread EXCEPT ![t].at = kvClock]
    /\ UNCHANGED <<kvRows, kvBuffer, kvLen, kvExpireAt, kvUsed, kvRaced, kvFaults>>

Stamp(t) == IF kvThread[t].at = 0 THEN kvClock ELSE kvThread[t].at

\* the transaction runs and commits,
RunTransact(t) ==
    /\ kvThread[t].pc = "tx"
    /\ IF kvThread[t].op.name \in {"set", "create", "update"} /\ kvThread[t].at = 0
       THEN kvClock < KvMaxTime /\ kvClock' = kvClock + 1 ELSE UNCHANGED kvClock
    /\ \E rows \in Execute(ExecuteFlush(kvRows, kvThread[t].buffer), kvThread[t].op, Stamp(t)) :
        /\ kvRows' = rows
        /\ kvUsed' = Uses(rows, kvThread[t].op, Stamp(t))
        /\ kvThread' = [kvThread EXCEPT ![t] = Summary(kvRows, rows)]
    /\ kvRaced' = \E u \in KvThreads : kvThread[u].pc \in {"len", "next"}
    /\ UNCHANGED <<kvBuffer, kvLen, kvExpireAt, kvFaults>>

\* Mutant of Restore: the buffer is lost.
RestoreNothing(buffer) == kvBuffer

\* or fails, and the scope guard puts the buffer back,
Restore(buffer) == kvBuffer \o buffer

TransactFails(t) ==
    /\ kvThread[t].pc = "tx" /\ kvFaults < KvMaxFaults /\ kvFaults' = kvFaults + 1
    /\ kvThread' = [kvThread EXCEPT ![t] = KvIdle]
    /\ kvBuffer' = Restore(kvThread[t].buffer)
    /\ UNCHANGED <<kvRows, kvLen, kvExpireAt, kvUsed, kvRaced, kvClock>>

\* and the two caches are assigned one after the other.
StoreLen(t) ==
    /\ kvThread[t].pc = "len"
    /\ kvLen' = kvThread[t].len
    /\ kvThread' = [kvThread EXCEPT ![t].pc = "next"]
    /\ UNCHANGED <<kvRows, kvBuffer, kvExpireAt, kvUsed, kvRaced, kvClock, kvFaults>>

StoreExpireAt(t) ==
    /\ kvThread[t].pc = "next"
    /\ kvExpireAt' = kvThread[t].next
    /\ kvThread' = [kvThread EXCEPT ![t] = KvIdle]
    /\ UNCHANGED <<kvRows, kvBuffer, kvLen, kvUsed, kvRaced, kvClock, kvFaults>>

\* get: the row is read, and its recency buffered afterwards.
KvGet(t, k) ==
    /\ kvThread[t].pc = "idle" /\ k \in DOMAIN kvRows
    /\ kvThread' = [kvThread EXCEPT ![t] =
            [pc |-> "touch", key |-> k, id |-> kvRows[k].id, born |-> kvRows[k].born]]
    /\ UNCHANGED <<kvRows, kvBuffer, kvLen, kvExpireAt, kvUsed, kvRaced, kvClock, kvFaults>>

UpdateRecency(t) ==
    /\ kvThread[t].pc = "touch" /\ kvClock < KvMaxTime /\ kvClock' = kvClock + 1
    /\ kvBuffer' = Append(kvBuffer, [id |-> kvThread[t].id, at |-> kvClock])
    /\ LET k == kvThread[t].key
       IN kvUsed' = IF k \in DOMAIN kvRows /\ kvRows[k].born = kvThread[t].born
                    THEN [kvUsed EXCEPT ![k] = kvClock] ELSE kvUsed
    /\ kvThread' = [kvThread EXCEPT ![t] = KvIdle]
    /\ UNCHANGED <<kvRows, kvLen, kvExpireAt, kvRaced, kvFaults>>

\* A crash loses the buffer, and open reads the caches from the table; a drop
\* runs flush before.
KvRestart ==
    /\ kvFaults < KvMaxFaults /\ kvFaults' = kvFaults + 1
    /\ kvThread' = [t \in KvThreads |-> KvIdle] /\ kvBuffer' = <<>>
    /\ kvLen' = Cardinality(DOMAIN kvRows) /\ kvExpireAt' = NextExpireAt(kvRows)
    /\ kvUsed' = [k \in DOMAIN kvRows |-> kvRows[k].rec] /\ kvRaced' = FALSE
    /\ UNCHANGED <<kvRows, kvClock>>

KvNext ==
    \/ KvRestart
    \/ \E t \in KvThreads :
        \/ \E op \in KvOps : BeginTransact(t, op)
        \/ \E k \in KvKeys : KvGet(t, k)
        \/ StampUpdate(t) \/ RunTransact(t) \/ TransactFails(t) \/ StoreLen(t) \/ StoreExpireAt(t) \/ UpdateRecency(t)

KvSpec == KvInit /\ [][KvNext]_kvVars

-----------------------------------------------------------------------------

Pending ==
    Range(kvBuffer) \cup
    UNION {IF kvThread[t].pc = "tx" THEN Range(kvThread[t].buffer) ELSE {} : t \in KvThreads}

\* The last use of an entry, the last to finish, is not forgotten: the clock it read
\* is the entry's recency, or on its way to it in a buffer, or a later one is, through
\* failed transactions, buffers flushed out of order and row ids used again.  So
\* eviction takes an entry for no older than its last user did.  That one may be an
\* update that waited for the write lock while others used the entry: update has no
\* `recency < ?`, and puts the recency back to when it was called.
NoUseIsForgotten ==
    \A k \in DOMAIN kvRows :
        \/ kvRows[k].rec >= kvUsed[k]
        \/ \E b \in Pending : b.id = kvRows[k].id /\ b.at >= kvUsed[k]

\* When no thread is in a transaction the cached length and next expiration are
\* those of the table, after failures and restarts too, unless the last commit
\* overtook another that had yet to store its caches: the caches stay wrong then
\* until a transaction that is alone.
CachesAreFresh ==
    (\A t \in KvThreads : kvThread[t].pc \in {"idle", "touch"}) /\ ~ kvRaced =>
        kvLen = Cardinality(DOMAIN kvRows) /\ kvExpireAt = NextExpireAt(kvRows)

\* What the storage keeps in memory beside the table, the recency updates to come
\* and the two caches, agrees with the table.
CachedIsStored == NoUseIsForgotten /\ CachesAreFresh

-----------------------------------------------------------------------------
(* dkvcache/storage/src/scan.rs: a scanner that reads the keys a page at a *)
(* time in order of recency, while other threads touch, remove and add     *)
(* entries between two pages.  Entries may have the same recency.          *)

CONSTANTS
    KsKeys,
    KsRecencies,  \* recencies of the entries found at the start: 1..KsRecencies
    KsChunk,      \* CHUNK_SIZE
    KsMaxChanges  \* bounds the changes made during the scan

VARIABLES
    ksRows,       \* key -> [id, rec]
    ksScanner,    \* [desc, state, page]: page is <<>> or <<[rec, id]>>
    ksOut,        \* the keys returned
    ksKept,       \* ghost: keys there at the first query and not changed since
    ksChanges

kvScanVars == <<ksRows, ksScanner, ksOut, ksKept, ksChanges>>

KvScanInit ==
    /\ \E ks \in SUBSET KsKeys :
        ksRows \in {f \in [ks -> [id : 1..Cardinality(ks), rec : 1..KsRecencies]] :
                        \A j, k \in ks : j # k => f[j].id # f[k].id}
    /\ ksScanner \in [desc : BOOLEAN, state : {"start"}, page : {<<>>}]
    /\ ksOut = <<>> /\ ksKept = {} /\ ksChanges = 0

-----------------------------------------------------------------------------

\* ORDER BY recency, rowid
KsBefore(desc, a, b) ==
    LET less(x, y) == x.rec < y.rec \/ (x.rec = y.rec /\ x.id < y.id)
    IN IF desc THEN less(b, a) ELSE less(a, b)

\* The rows the query of the state selects, before its LIMIT.
KsSelected(sc) ==
    {k \in DOMAIN ksRows :
        LET row == ksRows[k]
            page == sc.page[1]
        IN CASE sc.state = "start" -> TRUE
             [] sc.state = "next_page" -> row.rec # page.rec /\ KsBefore(sc.desc, page, row)
             [] sc.state = "this_page" -> row.rec = page.rec /\ KsBefore(sc.desc, page, row)}

\* query: the first CHUNK_SIZE of them, each after as many as come before it
KsQuery(sc) ==
    LET selected == KsSelected(sc)
        before(k) == {j \in selected : KsBefore(sc.desc, ksRows[j], ksRows[k])}
    IN [n \in 1..Min({Cardinality(selected), KsChunk}) |->
           CHOOSE k \in selected : Cardinality(before(k)) = n - 1]

NextStateByPage(state, found) == IF found THEN "next_page" ELSE "end"

NextState(state, found) ==
    CASE found -> "this_page"
      [] ~found /\ state = "this_page" -> "next_page"
      [] ~found /\ state # "this_page" -> "end"

\* Iterator::next
ScanNext ==
    /\ ksScanner.state # "end"
    /\ LET keys == KsQuery(ksScanner)
       IN /\ ksOut' = ksOut \o keys
          /\ ksScanner' = [ksScanner EXCEPT
                 !.state = NextState(@, keys # <<>>),
                 !.page = IF keys = <<>> THEN @ ELSE <<ksRows[keys[Len(keys)]]>>]
    /\ ksKept' = IF ksScanner.state = "start" THEN DOMAIN ksRows ELSE ksKept
    /\ UNCHANGED <<ksRows, ksChanges>>

\* An error of the database ends the scan.
ScanError ==
    /\ ksScanner.state # "end"
    /\ ksScanner' = [ksScanner EXCEPT !.state = "end"]
    /\ ksKept' = {}
    /\ UNCHANGED <<ksRows, ksOut, ksChanges>>

\* Another thread sets, updates, gets or removes k.
KsChange(k) ==
    /\ ksScanner.state # "end"
    /\ ksChanges < KsMaxChanges /\ ksChanges' = ksChanges + 1
    /\ ksKept' = ksKept \ {k}
    /\ LET now == 1 + Max({KsRecencies} \cup {ksRows[j].rec : j \in DOMAIN ksRows})
           new == 1 + Max({0} \cup {ksRows[j].id : j \in DOMAIN ksRows})
           ids == {new} \cup {ksRows[j].id : j \in DOMAIN ksRows \cap {k}}
       IN \/ \E id \in ids, rec \in {now, now - 1} :
                ksRows' = [j \in DOMAIN ksRows \cup {k} |->
                               IF j = k THEN [id |-> id, rec |-> rec] ELSE ksRows[j]]
          \/ /\ k \in DOMAIN ksRows
             /\ ksRows' = [j \in DOMAIN ksRows \ {k} |-> ksRows[j]]
    /\ UNCHANGED <<ksScanner, ksOut>>

KvScanNext == ScanNext \/ ScanError \/ \E k \in KsKeys : KsChange(k)

-----------------------------------------------------------------------------

\* An entry that nobody touches during the scan is returned exactly once by a
\* scan that ends, and such entries come in the order asked for, wherever the
\* pages are cut and whatever happens to the entry the last page ended with.
ScanIsExact ==
    LET kept == SelectSeq(ksOut, LAMBDA k : k \in ksKept)
    IN /\ \A i, j \in 1..Len(kept) :
            i < j => KsBefore(ksScanner.desc, ksRows[kept[i]], ksRows[kept[j]])
       /\ ksScanner.state = "end" => ksKept \subseteq Range(kept)
=============================================================================
