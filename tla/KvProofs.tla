------------------------------ MODULE KvProofs -------------------------------
(* Proofs for the key-value storage: what it keeps beside its table agrees *)
(* with it.  A use of an entry is in its row or in a buffer; every instant *)
(* that is recorded is in the past, so that nothing new is taken for old.  *)
EXTENDS KvStorage, SequenceTheorems, WellFoundedInduction, TLAPS

KvRow == [id : Nat, exp : KvExpires, rec : Nat, born : Nat]
KvUse == [id : Nat, at : Nat]

\* A thread's state, and what a get that has yet to record itself knows of its row.
ThreadOK(t) ==
    /\ kvThread[t].pc \in {"idle", "tx", "len", "next", "touch"}
    /\ kvThread[t].pc = "tx" =>
        /\ DOMAIN kvThread[t] = {"pc", "op", "buffer", "at"} /\ kvThread[t].op \in KvOps
        /\ kvThread[t].buffer \in Seq(KvUse) /\ kvThread[t].at \in Nat /\ kvThread[t].at < kvClock
        /\ kvThread[t].at # 0 => kvThread[t].op.name = "update"
    /\ kvThread[t].pc \in {"len", "next"} => DOMAIN kvThread[t] = {"pc", "len", "next"}
    /\ kvThread[t].pc = "touch" =>
        /\ kvThread[t].id \in Nat /\ kvThread[t].born \in Nat /\ kvThread[t].born < kvClock
        /\ kvThread[t].key \in DOMAIN kvRows /\ kvRows[kvThread[t].key].born = kvThread[t].born =>
                kvRows[kvThread[t].key].id = kvThread[t].id

KvTypeOK ==
    /\ kvClock \in Nat \ {0} /\ kvRaced \in BOOLEAN
    /\ \A k \in DOMAIN kvRows : kvRows[k] \in KvRow
    /\ kvBuffer \in Seq(KvUse)
    /\ DOMAIN kvUsed = DOMAIN kvRows /\ \A k \in DOMAIN kvRows : kvUsed[k] \in Nat
    /\ DOMAIN kvThread = KvThreads

AllPast ==
    /\ \A k \in DOMAIN kvRows :
        kvRows[k].id < kvClock /\ kvRows[k].rec < kvClock /\ kvRows[k].born < kvClock
    /\ \A b \in Pending : b.at < kvClock

Storing(t) == kvThread[t].pc \in {"len", "next"}

\* A thread that is alone after its commit holds or has stored what is in the table.
CachesFollow ==
    ~ kvRaced =>
        /\ \A t, u \in KvThreads : Storing(t) /\ Storing(u) => t = u
        /\ \A t \in KvThreads : Storing(t) => kvThread[t].next = NextExpireAt(kvRows)
        /\ \A t \in KvThreads : kvThread[t].pc = "len" => kvThread[t].len = Cardinality(DOMAIN kvRows)
        /\ (\A t \in KvThreads : kvThread[t].pc # "len") => kvLen = Cardinality(DOMAIN kvRows)
        /\ (\A t \in KvThreads : ~ Storing(t)) => kvExpireAt = NextExpireAt(kvRows)

KvInv == KvTypeOK /\ (\A t \in KvThreads : ThreadOK(t)) /\ AllPast /\ NoUseIsForgotten /\ CachesFollow

\* A bounded set of numbers has a greatest one.
LEMMA MaxOf ==
  ASSUME NEW S \in SUBSET Nat, S # {}, NEW n \in Nat, \A x \in S : x < n
  PROVE  Max(S) \in S /\ \A y \in S : y <= Max(S)
<1> DEFINE T == {m \in Nat : \E x \in S : m = n - x}
<1>1. T \subseteq Nat /\ T # {}
  <2>1. PICK x \in S : x \in Nat /\ x < n
    BY Zenon
  <2>2. n - x \in T
    BY <2>1
  <2> QED BY <2>2, Zenon
<1>2. PICK m \in T : \A k \in T : ~ (<<k, m>> \in OpToRel(<, Nat))
  <2> HIDE DEF T
  <2> QED BY <1>1, NatLessThanWellFounded, WFMin, Zenon
<1>3. \A k \in T : ~ (k < m)
  <2> SUFFICES ASSUME NEW k \in T, k < m PROVE FALSE
    OBVIOUS
  <2>1. k \in Nat /\ m \in Nat
    BY <1>1
  <2>2. <<k, m>> \in OpToRel(<, Nat)
    BY <2>1, Zenon DEF OpToRel
  <2> QED BY <1>2, <2>2, Zenon
<1>4. PICK x \in S : m = n - x
  BY <1>2, Zenon
<1>5. \A y \in S : x >= y
  <2> SUFFICES ASSUME NEW y \in S PROVE x >= y
    OBVIOUS
  <2>1. n - y \in T /\ y \in Nat /\ x \in Nat
    OBVIOUS
  <2>2. ~ (n - y < m)
    BY <1>3, <2>1, Zenon
  <2> QED BY <1>4, <2>1, <2>2
<1>6. Max(S) \in S /\ \A y \in S : Max(S) >= y
  BY <1>5, Zenon DEF Max
<1> QED BY <1>6

\* What is in a buffer.
LEMMA RangeIn ==
  ASSUME NEW S, NEW s \in Seq(S)
  PROVE  Range(s) \subseteq S /\ Range(<<>>) = {}
<1>1. DOMAIN s = 1 .. Len(s) /\ \A i \in 1 .. Len(s) : s[i] \in S
  BY LenProperties, ElementOfSeq, Zenon
<1>2. DOMAIN <<>> = {}
  BY EmptySeq, LenProperties
<1> QED BY <1>1, <1>2, Zenon DEF Range

LEMMA RangeOfAppend ==
  ASSUME NEW S, NEW s \in Seq(S), NEW e \in S
  PROVE  Range(Append(s, e)) = Range(s) \cup {e}
<1>0. DOMAIN s = 1 .. Len(s) /\ Len(s) \in Nat
  BY LenProperties, Zenon
<1> DEFINE a == Append(s, e)
<1>1. /\ DOMAIN a = 1 .. Len(s) + 1 /\ a[Len(s) + 1] = e
      /\ \A i \in 1 .. Len(s) : a[i] = s[i]
  BY <1>0, AppendProperties, LenProperties
<1> HIDE DEF a
<1>2. 1 .. Len(s) + 1 = (1 .. Len(s)) \cup {Len(s) + 1}
  BY <1>0
<1>3. e \in Range(a) /\ \A i \in DOMAIN s : s[i] \in Range(a)
  BY <1>0, <1>1, <1>2, Zenon DEF Range
<1>4. \A i \in DOMAIN a : a[i] = e \/ a[i] \in Range(s)
  BY <1>0, <1>1, <1>2, Zenon DEF Range
<1>5. Range(a) \subseteq Range(s) \cup {e} /\ Range(s) \cup {e} \subseteq Range(a)
  BY <1>3, <1>4, Zenon DEF Range
<1> QED BY <1>5, Zenon DEF a

LEMMA RangeOfConcat ==
  ASSUME NEW S, NEW s \in Seq(S), NEW t \in Seq(S)
  PROVE  Range(s \o t) = Range(s) \cup Range(t)
<1>0. DOMAIN s = 1 .. Len(s) /\ DOMAIN t = 1 .. Len(t) /\ Len(s) \in Nat /\ Len(t) \in Nat
  BY LenProperties, Zenon
<1> DEFINE a == s \o t
<1>1. /\ DOMAIN a = 1 .. Len(s) + Len(t)
      /\ \A i \in 1 .. Len(s) : a[i] = s[i]
      /\ \A i \in 1 .. Len(t) : a[Len(s) + i] = t[i]
  BY <1>0, ConcatProperties, LenProperties
<1> HIDE DEF a
<1>2. /\ \A i \in 1 .. Len(s) : i \in DOMAIN a
      /\ \A i \in 1 .. Len(t) : Len(s) + i \in DOMAIN a
      /\ \A i \in DOMAIN a : i \in 1 .. Len(s) \/ \E j \in 1 .. Len(t) : i = Len(s) + j
  <2>1. \A i \in DOMAIN a : i \in 1 .. Len(s) \/ (i - Len(s) \in 1 .. Len(t) /\ i = Len(s) + (i - Len(s)))
    BY <1>0, <1>1
  <2>2. /\ \A i \in 1 .. Len(s) : i \in DOMAIN a
        /\ \A i \in 1 .. Len(t) : Len(s) + i \in DOMAIN a
    BY <1>0, <1>1
  <2> QED BY <2>1, <2>2, Zenon
<1>3. \A i \in DOMAIN a : a[i] \in Range(s) \cup Range(t)
  <2> SUFFICES ASSUME NEW i \in DOMAIN a PROVE a[i] \in Range(s) \cup Range(t)
    BY Zenon
  <2>1. CASE i \in 1 .. Len(s)
    BY <1>0, <1>1, <2>1, Zenon DEF Range
  <2>2. ASSUME NEW j \in 1 .. Len(t), i = Len(s) + j PROVE a[i] \in Range(t)
    BY <1>0, <1>1, <2>2, Zenon DEF Range
  <2> QED BY <1>2, <2>1, <2>2, Zenon
<1>4. (\A i \in DOMAIN s : s[i] \in Range(a)) /\ (\A i \in DOMAIN t : t[i] \in Range(a))
  BY <1>0, <1>1, <1>2, Zenon DEF Range
<1>5. Range(a) \subseteq Range(s) \cup Range(t) /\ Range(s) \cup Range(t) \subseteq Range(a)
  BY <1>3, <1>4, ZenonT(60) DEF Range
<1> QED BY <1>5, Zenon DEF a

\* execute_flush raises the recency of a row to the last buffered use of it.
LEMMA FlushKeeps ==
  ASSUME KvTypeOK, AllPast, NEW buffer \in Seq(KvUse), \A b \in Range(buffer) : b.at < kvClock,
         NEW rows, rows = ExecuteFlush(kvRows, buffer), NEW k \in DOMAIN kvRows
  PROVE  /\ DOMAIN rows = DOMAIN kvRows /\ rows[k] \in KvRow
         /\ rows[k].id = kvRows[k].id /\ rows[k].born = kvRows[k].born
         /\ rows[k].rec < kvClock /\ kvRows[k].rec <= rows[k].rec
         /\ \A b \in Range(buffer) : b.id = kvRows[k].id => b.at <= rows[k].rec
<1>1. kvRows[k] \in KvRow /\ kvRows[k].rec \in Nat /\ kvRows[k].rec < kvClock /\ kvClock \in Nat
  BY Zenon DEF KvTypeOK, KvRow, AllPast
<1>2. PICK S : S = {kvRows[k].rec} \cup {b.at : b \in {c \in Range(buffer) : c.id = kvRows[k].id}}
  BY Zenon
<1>3. Range(buffer) \subseteq KvUse
  BY RangeIn, ZenonT(60)
<1>4. /\ S \subseteq Nat /\ (\A x \in S : x < kvClock)
      /\ kvRows[k].rec \in S /\ \A b \in Range(buffer) : b.id = kvRows[k].id => b.at \in S
  BY <1>1, <1>2, <1>3, Zenon DEF KvUse
<1>5. Max(S) \in S /\ \A y \in S : y <= Max(S)
  BY <1>1, <1>4, MaxOf, Zenon
<1>6. DOMAIN rows = DOMAIN kvRows /\ rows[k] = [kvRows[k] EXCEPT !.rec = Max(S)]
  BY <1>2, Zenon DEF ExecuteFlush, Flushed
<1>7. /\ rows[k] \in KvRow /\ rows[k].rec = Max(S)
      /\ rows[k].id = kvRows[k].id /\ rows[k].born = kvRows[k].born
  BY <1>1, <1>4, <1>5, <1>6, Zenon DEF KvRow
<1> QED BY <1>4, <1>5, <1>6, <1>7, Zenon

\* What is recorded in rows is past; `at` and c are when an operation read the clock
\* and the clock it leaves.
RowsPast(rows) ==
    \A k \in DOMAIN rows : rows[k] \in KvRow /\ rows[k].id < kvClock /\ rows[k].rec < kvClock
                                              /\ rows[k].born < kvClock

Stamped(op, at, c) ==
    /\ kvClock \in Nat \ {0} /\ at \in Nat /\ c \in Nat /\ kvClock <= c
    /\ op.name = "update" => at < c
    /\ op.name \in {"set", "create"} => kvClock < c

RowAfter(old, op, at, c, rows, k) ==
    /\ rows[k] \in KvRow /\ rows[k].id < c /\ rows[k].rec < c /\ rows[k].born < c
    /\ \/ rows[k].rec = kvClock /\ rows[k].born = kvClock
       \/ /\ k \in DOMAIN old /\ rows[k].id = old[k].id /\ rows[k].born = old[k].born
          /\ \/ rows[k].rec = at /\ op.name = "update" /\ op.key = k
             \/ rows[k].rec = old[k].rec /\ ~ (op.name = "update" /\ op.key = k)

\* What an operation leaves of the table: new entries, the entry it updates, and
\* entries as they were.
LEMMA ExecuteKeeps ==
  ASSUME NEW old, RowsPast(old), NEW op \in KvOps, NEW at, NEW c, Stamped(op, at, c),
         NEW rows \in Execute(old, op, at), NEW k \in DOMAIN rows
  PROVE  RowAfter(old, op, at, c, rows, k)
<1> USE DEF RowsPast, Stamped, RowAfter
<1>1. ASSUME NEW m \in Nat, m < kvClock PROVE m < c
  BY <1>1
<1>2. kvClock \in Nat /\ 0 < kvClock
  OBVIOUS
<1>3. ASSUME k \in DOMAIN old, rows[k] = old[k], ~ (op.name = "update" /\ op.key = k)
      PROVE  rows[k].id < c /\ rows[k].rec < c /\ rows[k].born < c /\ rows[k] \in KvRow
  <2>1. old[k].id \in Nat /\ old[k].rec \in Nat /\ old[k].born \in Nat
    BY <1>3, Zenon DEF KvRow
  <2> QED BY <1>1, <1>3, <2>1, Zenon
<1>4. ASSUME op.key = k, kvClock < c, op.exp \in KvExpires, rows = Inserted(old, op.key, op.exp)
      PROVE  /\ rows[k] \in KvRow /\ rows[k].id < c
             /\ rows[k].rec = kvClock /\ rows[k].born = kvClock
  <2>1. PICK S : S = {0} \cup {old[j].id : j \in DOMAIN old}
    BY Zenon
  <2>2. S \subseteq Nat /\ 0 \in S /\ \A x \in S : x < kvClock
    <3>1. \A j \in DOMAIN old : old[j].id \in Nat /\ old[j].id < kvClock
      BY Zenon DEF KvRow
    <3>2. 0 \in Nat
      OBVIOUS
    <3> QED BY <1>2, <2>1, <3>1, <3>2, Zenon
  <2>3. Max(S) \in Nat /\ Max(S) < kvClock
    BY <1>2, <2>2, MaxOf, Zenon
  <2>4. PICK n \in Nat : n = 1 + Max(S) /\ n < c
    BY <1>2, <1>4, <2>3
  <2>5. PICK e : e = op.exp
    BY Zenon
  <2>6. PICK r : r = [id |-> n, exp |-> e, rec |-> kvClock, born |-> kvClock]
    BY Zenon
  <2>7. r.id = n /\ r.rec = kvClock /\ r.born = kvClock
    BY <2>6, Zenon
  <2>8. e \in KvExpires
    BY <1>4, <2>5, Zenon
  <2>9. r \in KvRow
    BY <1>2, <2>6, <2>8, Zenon DEF KvRow
  <2>10. rows[k] = r
    BY <1>4, <2>1, <2>4, <2>5, <2>6, ZenonT(60) DEF Inserted, KvWith
  <2> QED BY <2>4, <2>7, <2>9, <2>10, Zenon
<1>5. ASSUME op.key # k, rows = Inserted(old, op.key, op.exp) PROVE k \in DOMAIN old /\ rows[k] = old[k]
  BY <1>5, Zenon DEF Inserted, KvWith
<1>6. /\ op.name \in {"set", "create", "update", "remove", "expire", "evict", "flush"}
      /\ op.name \in {"set", "create", "update"} => op.exp \in KvExpires
  BY Zenon DEF KvOps
<1>7. ASSUME NEW ks, rows = KvWithout(old, ks) PROVE k \in DOMAIN old /\ rows[k] = old[k]
  BY <1>7, Zenon DEF KvWithout
<1>8. CASE op.name = "set"
  <2>1. rows = Inserted(old, op.key, op.exp)
    BY <1>8, Zenon DEF Execute
  <2> QED BY <1>2, <1>3, <1>4, <1>5, <1>6, <1>8, <2>1, Zenon
<1>9. CASE op.name = "create"
  <2>1. rows = old \/ rows = Inserted(old, op.key, op.exp)
    BY <1>9, Zenon DEF Execute
  <2> QED BY <1>2, <1>3, <1>4, <1>5, <1>6, <1>9, <2>1, Zenon
<1>10. CASE op.name = "update"
  <2>1. \/ rows = old /\ op.key \notin DOMAIN old
        \/ \E exp \in {op.exp} \cup {old[j].exp : j \in DOMAIN old \cap {op.key}} :
             rows = [old EXCEPT ![op.key].rec = at, ![op.key].exp = exp] /\ op.key \in DOMAIN old
    BY <1>10, Zenon DEF Execute
  <2>2. CASE rows = old /\ op.key \notin DOMAIN old
    BY <1>3, <2>2, Zenon
  <2>3. ASSUME NEW exp \in {op.exp} \cup {old[j].exp : j \in DOMAIN old \cap {op.key}},
               rows = [old EXCEPT ![op.key].rec = at, ![op.key].exp = exp], op.key \in DOMAIN old,
               op.key = k
        PROVE  /\ rows[k] \in KvRow /\ rows[k].id < c /\ rows[k].born < c
               /\ k \in DOMAIN old /\ rows[k].id = old[k].id /\ rows[k].born = old[k].born /\ rows[k].rec = at
    <3>1. exp \in KvExpires /\ old[k] \in KvRow
      BY <1>6, <1>10, <2>3, Zenon DEF KvRow
    <3>2. rows[k] = [[old[k] EXCEPT !.rec = at] EXCEPT !.exp = exp]
      BY <2>3, Zenon
    <3>3. /\ rows[k] \in KvRow /\ rows[k].rec = at
          /\ rows[k].id = old[k].id /\ rows[k].born = old[k].born
      BY <1>2, <3>1, <3>2, Zenon DEF KvRow
    <3>4. old[k].id \in Nat /\ old[k].born \in Nat
      BY <3>1, Zenon DEF KvRow
    <3> QED BY <1>1, <2>3, <3>3, <3>4, Zenon
  <2>4. ASSUME NEW exp, rows = [old EXCEPT ![op.key].rec = at, ![op.key].exp = exp], op.key # k
        PROVE  k \in DOMAIN old /\ rows[k] = old[k]
    BY <2>4, Zenon
  <2> QED BY <1>2, <1>3, <1>10, <2>1, <2>2, <2>3, <2>4, Zenon
<1>11. CASE op.name = "remove"
  <2>1. rows = KvWithout(old, op.keys)
    BY <1>11, Zenon DEF Execute
  <2> QED BY <1>3, <1>7, <1>11, <2>1, Zenon
<1>12. CASE op.name = "expire"
  <2>1. \E now \in 1 .. kvClock : rows = KvWithout(old, Expired(old, now))
    BY <1>12, Zenon DEF Execute
  <2> QED BY <1>3, <1>7, <1>12, <2>1, Zenon
<1>13. CASE op.name = "evict"
  <2>1. \E es \in Evicted(old, op.target) : rows = KvWithout(old, es)
    BY <1>13, Zenon DEF Execute
  <2> QED BY <1>3, <1>7, <1>13, <2>1, Zenon
<1>14. CASE op.name = "flush"
  <2>1. rows = old
    BY <1>14, Zenon DEF Execute
  <2> QED BY <1>3, <1>14, <2>1, Zenon
<1> QED BY <1>6, <1>8, <1>9, <1>10, <1>11, <1>12, <1>13, <1>14, Zenon

\* The uses still to come are in the buffer or with a thread in a transaction.
LEMMA PendingIs ==
  ASSUME NEW b
  PROVE  /\ b \in Pending <=>
                \/ b \in Range(kvBuffer)
                \/ \E t \in KvThreads : kvThread[t].pc = "tx" /\ b \in Range(kvThread[t].buffer)
         /\ b \in Pending' <=>
                \/ b \in Range(kvBuffer')
                \/ \E t \in KvThreads : kvThread'[t].pc = "tx" /\ b \in Range(kvThread'[t].buffer)
<1>1. b \in Pending <=>
        \/ b \in Range(kvBuffer)
        \/ \E t \in KvThreads : kvThread[t].pc = "tx" /\ b \in Range(kvThread[t].buffer)
  BY Zenon DEF Pending
<1>2. b \in Pending' <=>
        \/ b \in Range(kvBuffer')
        \/ \E t \in KvThreads : kvThread'[t].pc = "tx" /\ b \in Range(kvThread'[t].buffer)
  BY Zenon DEF Pending
<1> QED BY <1>1, <1>2, Zenon

UsesHold == KvTypeOK /\ (\A t \in KvThreads : ThreadOK(t)) /\ AllPast /\ NoUseIsForgotten

\* What is to come are uses.
LEMMA PendingAreUses ==
  ASSUME UsesHold
  PROVE  \A b \in Pending : b \in KvUse
<1>1. Range(kvBuffer) \subseteq KvUse
  BY RangeIn, ZenonT(60) DEF UsesHold, KvTypeOK
<1>2. \A u \in KvThreads : kvThread[u].pc = "tx" => Range(kvThread[u].buffer) \subseteq KvUse
  BY RangeIn, ZenonT(60) DEF UsesHold, ThreadOK
<1> QED BY <1>1, <1>2, PendingIs, Zenon

\* A step of one thread that leaves the table alone, and loses no use.
LEMMA ThreadMoves ==
  ASSUME UsesHold, NEW t \in KvThreads, NEW r, kvThread' = [kvThread EXCEPT ![t] = r],
         UNCHANGED <<kvRows, kvUsed, kvRaced>>,
         kvClock' \in Nat \ {0}, kvClock <= kvClock',
         kvBuffer' \in Seq(KvUse), ThreadOK(t)',
         Range(kvBuffer') \cup (IF r.pc = "tx" THEN Range(r.buffer) ELSE {}) =
            Range(kvBuffer) \cup (IF kvThread[t].pc = "tx" THEN Range(kvThread[t].buffer) ELSE {})
  PROVE  UsesHold'
<1>1. /\ DOMAIN kvThread = KvThreads /\ DOMAIN kvThread' = KvThreads /\ kvThread'[t] = r
      /\ \A u \in KvThreads \ {t} : kvThread'[u] = kvThread[u]
  BY Zenon DEF UsesHold, KvTypeOK
<1>0. kvClock \in Nat /\ \A m \in Nat : m < kvClock => m < kvClock'
  <2>1. kvClock \in Nat
    BY Zenon DEF UsesHold, KvTypeOK
  <2> QED BY <2>1
<1>2. KvTypeOK'
  BY <1>1, Zenon DEF UsesHold, KvTypeOK
<1>3. ASSUME NEW u \in KvThreads PROVE ThreadOK(u)'
  BY <1>0, <1>1, ZenonT(60) DEF UsesHold, ThreadOK
<1>4. PICK now, next : /\ now = Range(kvBuffer) \cup (IF kvThread[t].pc = "tx" THEN Range(kvThread[t].buffer) ELSE {})
                       /\ next = Range(kvBuffer') \cup (IF r.pc = "tx" THEN Range(r.buffer) ELSE {})
                       /\ now = next
  BY Zenon
<1>5. ASSUME NEW b PROVE b \in Pending <=> b \in Pending'
  <2>1. b \in Pending <=>
            b \in now \/ \E u \in KvThreads \ {t} : kvThread[u].pc = "tx" /\ b \in Range(kvThread[u].buffer)
    <3>1. b \in now <=> b \in Range(kvBuffer) \/ (kvThread[t].pc = "tx" /\ b \in Range(kvThread[t].buffer))
      BY <1>4, Zenon
    <3> QED BY <3>1, PendingIs, Zenon
  <2>2. b \in Pending' <=>
            b \in next \/ \E u \in KvThreads \ {t} : kvThread'[u].pc = "tx" /\ b \in Range(kvThread'[u].buffer)
    <3>1. b \in next <=> b \in Range(kvBuffer') \/ (kvThread'[t].pc = "tx" /\ b \in Range(kvThread'[t].buffer))
      BY <1>1, <1>4, Zenon
    <3> QED BY <3>1, PendingIs, Zenon
  <2> QED BY <1>1, <1>4, <2>1, <2>2, Zenon
<1>6. AllPast'
  <2>1. \A j \in DOMAIN kvRows : kvRows[j].id \in Nat /\ kvRows[j].rec \in Nat /\ kvRows[j].born \in Nat
    BY Zenon DEF UsesHold, KvTypeOK, KvRow
  <2>2. \A b \in Pending : b.at \in Nat /\ b.at < kvClock
    BY PendingAreUses, Zenon DEF UsesHold, AllPast, KvUse
  <2>3. \A b \in Pending' : b.at < kvClock'
    BY <1>0, <1>5, <2>2, Zenon
  <2> QED BY <1>0, <2>1, <2>3, Zenon DEF UsesHold, AllPast
<1>7. NoUseIsForgotten'
  BY <1>5, Zenon DEF UsesHold, NoUseIsForgotten
<1> QED BY <1>2, <1>3, <1>6, <1>7, Zenon DEF UsesHold

\* A step of one thread that leaves the table and the clock alone, and loses no use.
LEMMA ThreadStep ==
  ASSUME UsesHold, NEW t \in KvThreads, NEW r, kvThread' = [kvThread EXCEPT ![t] = r],
         UNCHANGED <<kvRows, kvUsed, kvClock, kvRaced>>,
         kvBuffer' \in Seq(KvUse), ThreadOK(t)',
         Range(kvBuffer') \cup (IF r.pc = "tx" THEN Range(r.buffer) ELSE {}) =
            Range(kvBuffer) \cup (IF kvThread[t].pc = "tx" THEN Range(kvThread[t].buffer) ELSE {})
  PROVE  UsesHold'
<1>1. kvClock' \in Nat \ {0} /\ kvClock' = kvClock
  BY Zenon DEF UsesHold, KvTypeOK
<1>2. kvClock <= kvClock'
  BY <1>1
<1> QED BY <1>1, <1>2, ThreadMoves, Zenon

\* A transaction takes the uses it was given to the rows.
LEMMA RunKeepsUses ==
  ASSUME UsesHold, NEW t \in KvThreads, RunTransact(t)
  PROVE  UsesHold'
<1> DEFINE op == kvThread[t].op
           buffer == kvThread[t].buffer
<1>1. /\ op \in KvOps /\ buffer \in Seq(KvUse) /\ kvThread[t].pc = "tx"
      /\ kvThread[t].at \in Nat /\ kvThread[t].at < kvClock
      /\ kvBuffer' = kvBuffer /\ kvRaced' \in BOOLEAN
  BY Zenon DEF UsesHold, ThreadOK, RunTransact
<1>a. PICK at, c : at = Stamp(t) /\ c = kvClock'
  BY Zenon
<1>b. /\ kvClock \in Nat \ {0} /\ c \in Nat \ {0} /\ at \in Nat /\ (op.name = "update" => at < c) /\ kvClock <= c
      /\ op.name \in {"set", "create"} => kvClock < c
      /\ (\A m \in Nat : m < kvClock => m < c) /\ (\A m \in Nat : m < kvClock => m # kvClock) /\ at >= at
  <2>1. kvClock \in Nat \ {0}
    BY Zenon DEF UsesHold, KvTypeOK
  <2>2. \/ c = kvClock + 1 /\ op.name \in {"set", "create", "update"} /\ kvThread[t].at = 0
        \/ c = kvClock /\ op.name \notin {"set", "create", "update"}
        \/ c = kvClock /\ kvThread[t].at # 0
    BY <1>a, Zenon DEF RunTransact
  <2>3. kvThread[t].at # 0 => op.name = "update"
    BY <1>1, Zenon DEF UsesHold, ThreadOK
  <2>4. at = IF kvThread[t].at = 0 THEN kvClock ELSE kvThread[t].at
    BY <1>a, Zenon DEF Stamp
  <2> QED BY <1>1, <2>1, <2>2, <2>3, <2>4
<1>2. PICK old : old = ExecuteFlush(kvRows, buffer)
  BY Zenon
<1>3. PICK rows \in Execute(old, op, at) :
         kvRows' = rows /\ kvUsed' = Uses(rows, op, at) /\ kvThread' = [kvThread EXCEPT ![t] = Summary(kvRows, rows)]
  BY <1>a, <1>2, Zenon DEF RunTransact
<1>4. PICK r : r = Summary(kvRows, rows)
  BY Zenon
<1>5. r.pc = "len" /\ DOMAIN r = {"pc", "len", "next"}
  BY <1>4 DEF Summary
<1>6. /\ DOMAIN kvThread = KvThreads /\ DOMAIN kvThread' = KvThreads /\ kvThread'[t] = r
      /\ \A u \in KvThreads \ {t} : kvThread'[u] = kvThread[u]
  BY <1>3, <1>4, Zenon DEF UsesHold, KvTypeOK
<1> HIDE DEF op, buffer
<1>7. \A b \in Range(buffer) : b.at < kvClock
  BY <1>1, PendingIs, Zenon DEF UsesHold, AllPast, buffer
<1>8. ASSUME NEW k \in DOMAIN kvRows
      PROVE  /\ DOMAIN old = DOMAIN kvRows /\ old[k] \in KvRow
             /\ old[k].id = kvRows[k].id /\ old[k].born = kvRows[k].born
             /\ old[k].rec < kvClock /\ kvRows[k].rec <= old[k].rec
             /\ \A b \in Range(buffer) : b.id = kvRows[k].id => b.at <= old[k].rec
  BY <1>1, <1>2, <1>7, FlushKeeps, Zenon DEF UsesHold
<1>9. DOMAIN old = DOMAIN kvRows
  BY <1>2, Zenon DEF ExecuteFlush
<1>10. \A k \in DOMAIN old : old[k] \in KvRow /\ old[k].id < kvClock /\ old[k].rec < kvClock
                                              /\ old[k].born < kvClock
  BY <1>8, <1>9, Zenon DEF UsesHold, AllPast
<1>11. ASSUME NEW k \in DOMAIN rows
       PROVE  /\ rows[k] \in KvRow /\ rows[k].id < c /\ rows[k].rec < c
                                   /\ rows[k].born < c
              /\ \/ rows[k].rec = kvClock /\ rows[k].born = kvClock
                 \/ /\ k \in DOMAIN old /\ rows[k].id = old[k].id /\ rows[k].born = old[k].born
                    /\ \/ rows[k].rec = at /\ op.name = "update" /\ op.key = k
                       \/ rows[k].rec = old[k].rec /\ ~ (op.name = "update" /\ op.key = k)
  <2>1. Stamped(op, at, c) /\ RowsPast(old)
    BY <1>10, <1>b, Zenon DEF Stamped, RowsPast
  <2>2. op \in KvOps /\ rows \in Execute(old, op, at)
    BY <1>1, <1>3, Zenon
  <2>3. RowAfter(old, op, at, c, rows, k)
    BY <2>1, <2>2, ExecuteKeeps, Zenon
  <2> QED BY <2>3, Zenon DEF RowAfter
<1>13. ASSUME NEW k \in DOMAIN rows
       PROVE  /\ kvUsed'[k] \in Nat /\ k \in DOMAIN kvUsed'
              /\ \/ rows[k].rec = kvUsed'[k]
                 \/ /\ k \in DOMAIN kvRows /\ rows[k].id = old[k].id /\ rows[k].rec = old[k].rec
                    /\ kvUsed'[k] = kvUsed[k]
  <2>1. /\ rows[k].born = kvClock => kvUsed'[k] = kvClock
        /\ rows[k].born # kvClock /\ op.name = "update" /\ op.key = k => kvUsed'[k] = at
        /\ rows[k].born # kvClock /\ ~ (op.name = "update" /\ op.key = k) => kvUsed'[k] = kvUsed[k]
    BY <1>3 DEF Uses
  <2>2. k \in DOMAIN kvUsed'
    BY <1>3, Zenon DEF Uses
  <2>3. k \in DOMAIN kvRows => kvUsed[k] \in Nat /\ old[k].born \in Nat /\ old[k].born < kvClock
    BY <1>9, <1>10, Zenon DEF UsesHold, KvTypeOK, KvRow
  <2> QED BY <1>9, <1>11, <1>b, <2>1, <2>2, <2>3, Zenon
<1>14. KvTypeOK'
  <2>1. DOMAIN kvUsed' = DOMAIN kvRows'
    BY <1>3, Zenon DEF Uses
  <2> QED BY <1>1, <1>3, <1>6, <1>11, <1>a, <1>b, <1>13, <2>1, Zenon DEF UsesHold, KvTypeOK
<1>15. ASSUME NEW u \in KvThreads PROVE ThreadOK(u)'
  <2>1. CASE u = t
    BY <1>5, <1>6, <2>1, Zenon DEF ThreadOK
  <2>2. CASE u # t
    <3>1. kvThread'[u] = kvThread[u] /\ ThreadOK(u)
      BY <1>6, <2>2, Zenon DEF UsesHold
    <3>2. ASSUME kvThread[u].pc = "touch"
          PROVE  /\ kvThread[u].id \in Nat /\ kvThread[u].born \in Nat /\ kvThread[u].born < c
                 /\ kvThread[u].key \in DOMAIN rows /\ rows[kvThread[u].key].born = kvThread[u].born =>
                        rows[kvThread[u].key].id = kvThread[u].id
      <4>1. /\ kvThread[u].id \in Nat /\ kvThread[u].born \in Nat /\ kvThread[u].born < kvClock
            /\ kvThread[u].key \in DOMAIN kvRows /\ kvRows[kvThread[u].key].born = kvThread[u].born =>
                   kvRows[kvThread[u].key].id = kvThread[u].id
        BY <3>1, <3>2, Zenon DEF ThreadOK
      <4>2. kvThread[u].born # kvClock /\ kvThread[u].born < c
        BY <1>b, <4>1, Zenon
      <4> QED BY <1>8, <1>9, <1>11, <4>1, <4>2, ZenonT(60)
    <3>3. kvThread[u].pc = "tx" => kvThread[u].at < c
      BY <1>b, <3>1, Zenon DEF ThreadOK
    <3> QED BY <1>1, <1>3, <1>a, <3>1, <3>2, <3>3, Zenon DEF ThreadOK
  <2> QED BY <2>1, <2>2, Zenon
<1>16. /\ \A b : b \in Pending' => b \in Pending
       /\ \A b : b \in Pending => b \in Pending' \/ b \in Range(buffer)
  <2>1. ASSUME NEW b, b \in Pending' PROVE b \in Pending
    <3>1. \/ b \in Range(kvBuffer)
          \/ \E u \in KvThreads \ {t} : kvThread[u].pc = "tx" /\ b \in Range(kvThread[u].buffer)
      BY <1>1, <1>5, <1>6, <2>1, PendingIs, ZenonT(60)
    <3> QED BY <3>1, PendingIs, Zenon
  <2>2. ASSUME NEW b, b \in Pending PROVE b \in Pending' \/ b \in Range(buffer)
    <3>1. \/ b \in Range(kvBuffer) \/ b \in Range(buffer)
          \/ \E u \in KvThreads \ {t} : kvThread[u].pc = "tx" /\ b \in Range(kvThread[u].buffer)
      BY <2>2, PendingIs, Zenon DEF buffer
    <3> QED BY <1>1, <1>6, <3>1, PendingIs, Zenon
  <2> QED BY <2>1, <2>2, Zenon
<1>17. \A b \in Pending : b.at \in Nat /\ b.at < kvClock
  BY PendingAreUses, Zenon DEF UsesHold, AllPast, KvUse
<1>18. AllPast'
  BY <1>1, <1>3, <1>11, <1>a, <1>b, <1>16, <1>17, Zenon DEF AllPast
<1>19. ASSUME NEW k \in DOMAIN rows
       PROVE  rows[k].rec >= kvUsed'[k] \/ \E b \in Pending' : b.id = rows[k].id /\ b.at >= kvUsed'[k]
  <2>0. kvUsed'[k] \in Nat /\ rows[k].rec \in Nat
    BY <1>11, <1>13, Zenon DEF KvRow
  <2>1. CASE rows[k].rec = kvUsed'[k]
    BY <2>0, <2>1
  <2>2. CASE /\ k \in DOMAIN kvRows /\ rows[k].id = old[k].id /\ rows[k].rec = old[k].rec
             /\ kvUsed'[k] = kvUsed[k]
    <3>1. /\ rows[k].id = kvRows[k].id /\ kvRows[k].rec <= rows[k].rec /\ kvRows[k].rec \in Nat
          /\ \A b \in Range(buffer) : b.id = kvRows[k].id => b.at <= rows[k].rec
      BY <1>8, <2>2, Zenon DEF UsesHold, KvTypeOK, KvRow
    <3>2. CASE kvRows[k].rec >= kvUsed[k]
      BY <2>0, <2>2, <3>1, <3>2
    <3>3. ASSUME NEW b \in Pending, b.id = kvRows[k].id, b.at >= kvUsed[k]
          PROVE  rows[k].rec >= kvUsed'[k] \/ (b \in Pending' /\ b.id = rows[k].id /\ b.at >= kvUsed'[k])
      <4>1. CASE b \in Pending'
        BY <2>2, <3>1, <3>3, <4>1, Zenon
      <4>2. CASE b \in Range(buffer)
        <5>1. b.at <= rows[k].rec /\ b.at \in Nat /\ b.at >= kvUsed'[k]
          BY <1>17, <2>2, <3>1, <3>3, <4>2, Zenon
        <5> QED BY <2>0, <5>1
      <4> QED BY <1>16, <4>1, <4>2, Zenon
    <3> QED BY <2>2, <3>2, <3>3, Zenon DEF UsesHold, NoUseIsForgotten
  <2> QED BY <1>13, <2>1, <2>2, Zenon
<1>20. NoUseIsForgotten'
  BY <1>3, <1>19, Zenon DEF NoUseIsForgotten
<1> QED BY <1>14, <1>15, <1>18, <1>20, Zenon DEF UsesHold

\* A use that is recorded after the row was read goes to that row, or to none.
LEMMA UpdateKeepsUses ==
  ASSUME UsesHold, NEW t \in KvThreads, UpdateRecency(t)
  PROVE  UsesHold'
<1>1. PICK id, k, born : id = kvThread[t].id /\ k = kvThread[t].key /\ born = kvThread[t].born
  BY Zenon
<1>2. /\ kvClock' = kvClock + 1 /\ kvBuffer' = Append(kvBuffer, [id |-> id, at |-> kvClock])
      /\ kvUsed' = IF k \in DOMAIN kvRows /\ kvRows[k].born = born THEN [kvUsed EXCEPT ![k] = kvClock] ELSE kvUsed
      /\ kvThread' = [kvThread EXCEPT ![t] = KvIdle] /\ kvThread[t].pc = "touch"
      /\ UNCHANGED <<kvRows, kvRaced>>
  BY <1>1, Zenon DEF UpdateRecency
<1>3. /\ id \in Nat /\ (k \in DOMAIN kvRows /\ kvRows[k].born = born => kvRows[k].id = id)
  BY <1>1, <1>2, Zenon DEF UsesHold, ThreadOK
<1>4. /\ kvClock \in Nat /\ kvClock + 1 \in Nat \ {0} /\ kvClock < kvClock + 1 /\ kvClock >= kvClock
      /\ \A m \in Nat : m < kvClock => m < kvClock + 1
  <2>1. kvClock \in Nat
    BY Zenon DEF UsesHold, KvTypeOK
  <2> QED BY <2>1
<1>5. PICK e : e = [id |-> id, at |-> kvClock]
  BY Zenon
<1>6. e \in KvUse /\ e.id = id /\ e.at = kvClock
  BY <1>3, <1>4, <1>5, Zenon DEF KvUse
<1>7. kvBuffer' \in Seq(KvUse) /\ Range(kvBuffer') = Range(kvBuffer) \cup {e}
  <2>1. kvBuffer \in Seq(KvUse) /\ kvBuffer' = Append(kvBuffer, e)
    BY <1>2, <1>5, Zenon DEF UsesHold, KvTypeOK
  <2>2. kvBuffer' \in Seq(KvUse)
    BY <1>6, <2>1, AppendProperties, Zenon
  <2>3. Range(kvBuffer') = Range(kvBuffer) \cup {e}
    BY <1>6, <2>1, RangeOfAppend, SMTT(30)
  <2> QED BY <2>2, <2>3, Zenon
<1>8. KvIdle.pc = "idle"
  BY Zenon DEF KvIdle
<1>9. /\ DOMAIN kvThread' = KvThreads /\ kvThread'[t].pc = "idle"
      /\ \A u \in KvThreads \ {t} : kvThread'[u] = kvThread[u]
  BY <1>2, <1>8, Zenon DEF UsesHold, KvTypeOK
<1>10. ASSUME NEW b PROVE b \in Pending' <=> b \in Pending \/ b = e
  <2>1. b \in Range(kvBuffer') <=> b \in Range(kvBuffer) \/ b = e
    BY <1>7, Zenon
  <2>2. \A u \in KvThreads : kvThread'[u].pc = "tx" <=> kvThread[u].pc = "tx" /\ u # t
    BY <1>2, <1>9, Zenon
  <2> QED BY <1>2, <1>9, <2>1, <2>2, PendingIs, ZenonT(60)
<1>11. /\ DOMAIN kvUsed' = DOMAIN kvRows
       /\ \A j \in DOMAIN kvRows : \/ kvUsed'[j] = kvUsed[j]
                                   \/ kvUsed'[j] = kvClock /\ kvRows[j].id = id
  BY <1>2, <1>3, Zenon DEF UsesHold, KvTypeOK
<1>12. KvTypeOK'
  BY <1>2, <1>4, <1>7, <1>9, <1>11, Zenon DEF UsesHold, KvTypeOK
<1>13. ASSUME NEW u \in KvThreads PROVE ThreadOK(u)'
  <2>1. CASE u = t
    BY <1>9, <2>1, Zenon DEF ThreadOK
  <2>2. CASE u # t
    BY <1>2, <1>4, <1>9, <2>2, Zenon DEF UsesHold, ThreadOK
  <2> QED BY <2>1, <2>2, Zenon
<1>14. AllPast'
  <2>1. \A b \in Pending : b.at \in Nat
    BY PendingAreUses, Zenon DEF KvUse
  <2>2. \A b \in Pending' : b.at < kvClock + 1
    BY <1>4, <1>6, <1>10, <2>1, Zenon DEF UsesHold, AllPast
  <2>3. \A j \in DOMAIN kvRows : kvRows[j].id \in Nat /\ kvRows[j].rec \in Nat /\ kvRows[j].born \in Nat
    BY Zenon DEF UsesHold, KvTypeOK, KvRow
  <2> QED BY <1>2, <1>4, <2>2, <2>3, Zenon DEF UsesHold, AllPast
<1>15. NoUseIsForgotten'
  <2> SUFFICES ASSUME NEW j \in DOMAIN kvRows
               PROVE  \/ kvRows[j].rec >= kvUsed'[j]
                      \/ \E b \in Pending' : b.id = kvRows[j].id /\ b.at >= kvUsed'[j]
    BY <1>2, Zenon DEF NoUseIsForgotten
  <2>1. CASE kvUsed'[j] = kvUsed[j]
    BY <1>10, <2>1, Zenon DEF UsesHold, NoUseIsForgotten
  <2>2. CASE kvUsed'[j] = kvClock /\ kvRows[j].id = id
    BY <1>4, <1>6, <1>10, <2>2, Zenon
  <2> QED BY <1>11, <2>1, <2>2, Zenon
<1> QED BY <1>12, <1>13, <1>14, <1>15, Zenon DEF UsesHold

\* No step forgets a use.
LEMMA UsesKept == UsesHold /\ [KvNext]_kvVars => UsesHold'
<1> SUFFICES ASSUME UsesHold, [KvNext]_kvVars PROVE UsesHold'
  OBVIOUS
<1>0. KvIdle.pc = "idle" /\ <<>> \in Seq(KvUse) /\ kvBuffer \in Seq(KvUse)
  BY EmptySeq, Zenon DEF KvIdle, UsesHold, KvTypeOK
<1>1. CASE KvRestart
  <2>1. /\ kvThread' = [t \in KvThreads |-> KvIdle] /\ kvBuffer' = <<>> /\ kvRaced' = FALSE
        /\ kvUsed' = [k \in DOMAIN kvRows |-> kvRows[k].rec] /\ UNCHANGED <<kvRows, kvClock>>
    BY <1>1, Zenon DEF KvRestart
  <2>2. \A k \in DOMAIN kvRows : kvRows[k].rec \in Nat /\ kvRows[k].rec >= kvRows[k].rec
    <3>1. \A k \in DOMAIN kvRows : kvRows[k].rec \in Nat
      BY Zenon DEF UsesHold, KvTypeOK, KvRow
    <3> QED BY <3>1
  <2>3. KvTypeOK'
    BY <1>0, <2>1, <2>2, Zenon DEF UsesHold, KvTypeOK
  <2>4. \A t \in KvThreads : ThreadOK(t)'
    BY <1>0, <2>1, Zenon DEF ThreadOK
  <2>5. \A b : b \notin Pending'
    <3>1. Range(<<>>) = {}
      BY <1>0, RangeIn, Zenon
    <3>2. \A t \in KvThreads : kvThread'[t].pc = "idle"
      BY <1>0, <2>1, Zenon
    <3> QED BY <2>1, <3>1, <3>2, PendingIs, Zenon
  <2>6. AllPast'
    BY <2>1, <2>5, Zenon DEF UsesHold, AllPast
  <2>7. NoUseIsForgotten'
    BY <2>1, <2>2, Zenon DEF NoUseIsForgotten
  <2> QED BY <2>3, <2>4, <2>6, <2>7, Zenon DEF UsesHold
<1>2. ASSUME NEW t \in KvThreads, NEW op \in KvOps, BeginTransact(t, op) PROVE UsesHold'
  <2>1. PICK r : r = [pc |-> "tx", op |-> op, buffer |-> kvBuffer, at |-> 0]
    BY Zenon
  <2>2. /\ DOMAIN r = {"pc", "op", "buffer", "at"} /\ r.pc = "tx" /\ r.op = op /\ r.buffer = kvBuffer
        /\ r.at = 0
    BY <2>1, Zenon
  <2>3. /\ kvThread' = [kvThread EXCEPT ![t] = r] /\ kvBuffer' = <<>> /\ kvThread[t].pc = "idle"
        /\ UNCHANGED <<kvRows, kvUsed, kvClock, kvRaced>>
    BY <1>2, <2>1, Zenon DEF BeginTransact
  <2>4. ThreadOK(t)'
    <3>1. kvThread'[t] = r
      BY <2>3, Zenon DEF UsesHold, KvTypeOK
    <3>2. 0 \in Nat /\ kvClock' \in Nat \ {0}
      BY <2>3, Zenon DEF UsesHold, KvTypeOK
    <3>3. 0 < kvClock'
      BY <3>2
    <3> QED BY <1>0, <2>2, <3>1, <3>2, <3>3, Zenon DEF ThreadOK
  <2>5. Range(<<>>) = {}
    BY <1>0, RangeIn, Zenon
  <2>6. Range(kvBuffer') \cup (IF r.pc = "tx" THEN Range(r.buffer) ELSE {}) =
            Range(kvBuffer) \cup (IF kvThread[t].pc = "tx" THEN Range(kvThread[t].buffer) ELSE {})
    BY <2>2, <2>3, <2>5, Zenon
  <2>7. kvBuffer' \in Seq(KvUse)
    BY <1>0, <2>3, Zenon
  <2> QED BY <2>3, <2>4, <2>6, <2>7, ThreadStep, Zenon
<1>3. ASSUME NEW t \in KvThreads, NEW k \in KvKeys, KvGet(t, k) PROVE UsesHold'
  <2>1. PICK id, born : id = kvRows[k].id /\ born = kvRows[k].born
    BY Zenon
  <2>2. PICK r : r = [pc |-> "touch", key |-> k, id |-> id, born |-> born]
    BY Zenon
  <2>3. r.pc = "touch" /\ r.key = k /\ r.id = id /\ r.born = born
    BY <2>2, Zenon
  <2>4. /\ kvThread' = [kvThread EXCEPT ![t] = r] /\ kvThread[t].pc = "idle" /\ k \in DOMAIN kvRows
        /\ UNCHANGED <<kvRows, kvBuffer, kvUsed, kvClock, kvRaced>>
    BY <1>3, <2>1, <2>2, Zenon DEF KvGet
  <2>5. id \in Nat /\ born \in Nat /\ born < kvClock
    BY <2>1, <2>4, Zenon DEF UsesHold, KvTypeOK, KvRow, AllPast
  <2>6. ThreadOK(t)'
    <3>1. kvThread'[t] = r
      BY <2>4, Zenon DEF UsesHold, KvTypeOK
    <3> QED BY <2>1, <2>3, <2>4, <2>5, <3>1, Zenon DEF ThreadOK
  <2>7. Range(kvBuffer') \cup (IF r.pc = "tx" THEN Range(r.buffer) ELSE {}) =
            Range(kvBuffer) \cup (IF kvThread[t].pc = "tx" THEN Range(kvThread[t].buffer) ELSE {})
    BY <2>3, <2>4, Zenon
  <2> QED BY <1>0, <2>4, <2>6, <2>7, ThreadStep, Zenon
<1>4. ASSUME NEW t \in KvThreads, RunTransact(t) PROVE UsesHold'
  BY <1>4, RunKeepsUses, Zenon
<1>5. ASSUME NEW t \in KvThreads, TransactFails(t) PROVE UsesHold'
  <2>1. /\ kvThread' = [kvThread EXCEPT ![t] = KvIdle] /\ kvThread[t].pc = "tx"
        /\ kvBuffer' = kvBuffer \o kvThread[t].buffer /\ UNCHANGED <<kvRows, kvUsed, kvClock, kvRaced>>
    BY <1>5, Zenon DEF TransactFails, Restore
  <2>2. kvThread[t].buffer \in Seq(KvUse)
    BY <2>1, Zenon DEF UsesHold, ThreadOK
  <2>3. PICK s : s = kvThread[t].buffer
    BY Zenon
  <2>4. ThreadOK(t)'
    <3>1. kvThread'[t] = KvIdle
      BY <2>1, Zenon DEF UsesHold, KvTypeOK
    <3> QED BY <1>0, <3>1, Zenon DEF ThreadOK
  <2>5. kvBuffer' \in Seq(KvUse)
    BY <1>0, <2>1, <2>2, ConcatProperties, Zenon
  <2>6. Range(kvBuffer') = Range(kvBuffer) \cup Range(s)
    BY <1>0, <2>1, <2>2, <2>3, RangeOfConcat, SMTT(30)
  <2>7. Range(kvBuffer') \cup (IF KvIdle.pc = "tx" THEN Range(KvIdle.buffer) ELSE {}) =
            Range(kvBuffer) \cup (IF kvThread[t].pc = "tx" THEN Range(kvThread[t].buffer) ELSE {})
    BY <1>0, <2>1, <2>3, <2>6, Zenon
  <2> QED BY <2>1, <2>4, <2>5, <2>7, ThreadStep, Zenon
<1>6. ASSUME NEW t \in KvThreads, StoreLen(t) PROVE UsesHold'
  <2>1. PICK r : r = [kvThread[t] EXCEPT !.pc = "next"]
    BY Zenon
  <2>2. /\ kvThread' = [kvThread EXCEPT ![t] = r] /\ kvThread[t].pc = "len"
        /\ UNCHANGED <<kvRows, kvBuffer, kvUsed, kvClock, kvRaced>>
    BY <1>6, <2>1, Zenon DEF StoreLen
  <2>3. DOMAIN kvThread[t] = {"pc", "len", "next"}
    BY <2>2, Zenon DEF UsesHold, ThreadOK
  <2>4. DOMAIN r = {"pc", "len", "next"} /\ r.pc = "next"
    BY <2>1, <2>3, Zenon
  <2>5. ThreadOK(t)'
    <3>1. kvThread'[t] = r
      BY <2>2, Zenon DEF UsesHold, KvTypeOK
    <3> QED BY <2>4, <3>1, Zenon DEF ThreadOK
  <2>6. Range(kvBuffer') \cup (IF r.pc = "tx" THEN Range(r.buffer) ELSE {}) =
            Range(kvBuffer) \cup (IF kvThread[t].pc = "tx" THEN Range(kvThread[t].buffer) ELSE {})
    BY <2>2, <2>4, Zenon
  <2> QED BY <1>0, <2>2, <2>5, <2>6, ThreadStep, Zenon
<1>7. ASSUME NEW t \in KvThreads, StoreExpireAt(t) PROVE UsesHold'
  <2>1. /\ kvThread' = [kvThread EXCEPT ![t] = KvIdle] /\ kvThread[t].pc = "next"
        /\ UNCHANGED <<kvRows, kvBuffer, kvUsed, kvClock, kvRaced>>
    BY <1>7, Zenon DEF StoreExpireAt
  <2>2. ThreadOK(t)'
    <3>1. kvThread'[t] = KvIdle
      BY <2>1, Zenon DEF UsesHold, KvTypeOK
    <3> QED BY <1>0, <3>1, Zenon DEF ThreadOK
  <2>3. Range(kvBuffer') \cup (IF KvIdle.pc = "tx" THEN Range(KvIdle.buffer) ELSE {}) =
            Range(kvBuffer) \cup (IF kvThread[t].pc = "tx" THEN Range(kvThread[t].buffer) ELSE {})
    BY <1>0, <2>1, Zenon
  <2> QED BY <1>0, <2>1, <2>2, <2>3, ThreadStep, Zenon
<1>8. ASSUME NEW t \in KvThreads, UpdateRecency(t) PROVE UsesHold'
  BY <1>8, UpdateKeepsUses, Zenon
<1>9. CASE UNCHANGED kvVars
  <2>1. \A b : b \in Pending <=> b \in Pending'
    BY <1>9, PendingIs, Zenon DEF kvVars
  <2> QED BY <1>9, <2>1, Zenon DEF kvVars, UsesHold, KvTypeOK, ThreadOK, AllPast, NoUseIsForgotten
<1>10. ASSUME NEW t \in KvThreads, StampUpdate(t) PROVE UsesHold'
  <2>1. PICK r : r = [kvThread[t] EXCEPT !.at = kvClock]
    BY Zenon
  <2>2. /\ kvThread' = [kvThread EXCEPT ![t] = r] /\ kvThread[t].pc = "tx" /\ kvThread[t].op.name = "update"
        /\ kvClock' = kvClock + 1 /\ UNCHANGED <<kvRows, kvBuffer, kvUsed, kvRaced>>
    BY <1>10, <2>1, Zenon DEF StampUpdate
  <2>3. /\ DOMAIN kvThread[t] = {"pc", "op", "buffer", "at"} /\ kvThread[t].op \in KvOps
        /\ kvThread[t].buffer \in Seq(KvUse)
    BY <2>2, Zenon DEF UsesHold, ThreadOK
  <2>4. /\ DOMAIN r = {"pc", "op", "buffer", "at"} /\ r.pc = "tx" /\ r.op = kvThread[t].op
        /\ r.buffer = kvThread[t].buffer /\ r.at = kvClock
    BY <2>1, <2>2, <2>3, Zenon
  <2>5. kvClock \in Nat /\ kvClock' \in Nat \ {0} /\ kvClock < kvClock' /\ kvClock <= kvClock'
    <3>1. kvClock \in Nat
      BY Zenon DEF UsesHold, KvTypeOK
    <3> QED BY <2>2, <3>1
  <2>6. ThreadOK(t)'
    <3>1. kvThread'[t] = r
      BY <2>2, Zenon DEF UsesHold, KvTypeOK
    <3> QED BY <2>2, <2>3, <2>4, <2>5, <3>1, Zenon DEF ThreadOK
  <2>7. Range(kvBuffer') \cup (IF r.pc = "tx" THEN Range(r.buffer) ELSE {}) =
            Range(kvBuffer) \cup (IF kvThread[t].pc = "tx" THEN Range(kvThread[t].buffer) ELSE {})
    BY <2>2, <2>4, Zenon
  <2> QED BY <1>0, <2>2, <2>5, <2>6, <2>7, ThreadMoves, Zenon
<1> QED BY <1>1, <1>2, <1>3, <1>4, <1>5, <1>6, <1>7, <1>8, <1>9, <1>10, Zenon DEF KvNext

\* The caches follow the table through every step.
LEMMA CachesKept == UsesHold /\ CachesFollow /\ [KvNext]_kvVars => CachesFollow'
<1> SUFFICES ASSUME UsesHold, CachesFollow, [KvNext]_kvVars PROVE CachesFollow'
  OBVIOUS
<1>0. KvIdle.pc = "idle" /\ DOMAIN kvThread = KvThreads
  BY Zenon DEF KvIdle, UsesHold, KvTypeOK
<1>1. CASE KvRestart
  <2>1. /\ \A t \in KvThreads : kvThread'[t].pc = "idle"
        /\ kvLen' = Cardinality(DOMAIN kvRows) /\ kvExpireAt' = NextExpireAt(kvRows) /\ kvRows' = kvRows
    BY <1>0, <1>1, Zenon DEF KvRestart
  <2> QED BY <2>1, Zenon DEF CachesFollow, Storing
<1>2. ASSUME NEW t \in KvThreads, NEW r, kvThread' = [kvThread EXCEPT ![t] = r],
             r.pc \notin {"len", "next"}, kvThread[t].pc \notin {"len", "next"},
             UNCHANGED <<kvRows, kvLen, kvExpireAt, kvRaced>>
      PROVE  CachesFollow'
  <2>1. kvThread'[t] = r /\ \A u \in KvThreads \ {t} : kvThread'[u] = kvThread[u]
    BY <1>0, <1>2, Zenon
  <2>2. \A u \in KvThreads : Storing(u)' => kvThread'[u] = kvThread[u] /\ Storing(u)
    BY <1>2, <2>1, Zenon DEF Storing
  <2>3. \A u \in KvThreads : Storing(u) => kvThread'[u] = kvThread[u] /\ Storing(u)'
    BY <1>2, <2>1, Zenon DEF Storing
  <2>4. \A u \in KvThreads : kvThread[u].pc = "len" <=> kvThread'[u].pc = "len"
    BY <1>2, <2>1, Zenon
  <2> SUFFICES ASSUME ~ kvRaced
               PROVE  /\ \A u, w \in KvThreads : Storing(u)' /\ Storing(w)' => u = w
                      /\ \A u \in KvThreads : Storing(u)' => kvThread'[u].next = NextExpireAt(kvRows)
                      /\ \A u \in KvThreads : kvThread'[u].pc = "len" => kvThread'[u].len = Cardinality(DOMAIN kvRows)
                      /\ (\A u \in KvThreads : kvThread'[u].pc # "len") => kvLen = Cardinality(DOMAIN kvRows)
                      /\ (\A u \in KvThreads : ~ Storing(u)') => kvExpireAt = NextExpireAt(kvRows)
    BY <1>2, Zenon DEF CachesFollow
  <2>5. \A u \in KvThreads : kvThread'[u].pc = "len" => kvThread'[u].len = Cardinality(DOMAIN kvRows)
    BY <1>2, <2>1, <2>4, ZenonT(60) DEF CachesFollow
  <2> QED BY <2>2, <2>3, <2>4, <2>5, Zenon DEF CachesFollow
<1>3. ASSUME NEW t \in KvThreads, NEW op \in KvOps, BeginTransact(t, op) PROVE CachesFollow'
  <2>1. PICK r : r = [pc |-> "tx", op |-> op, buffer |-> kvBuffer, at |-> 0]
    BY Zenon
  <2>2. r.pc = "tx"
    BY <2>1, Zenon
  <2> QED BY <1>2, <1>3, <2>1, <2>2, Zenon DEF BeginTransact
<1>4. ASSUME NEW t \in KvThreads, NEW k \in KvKeys, KvGet(t, k) PROVE CachesFollow'
  <2>1. PICK r : r = [pc |-> "touch", key |-> k, id |-> kvRows[k].id, born |-> kvRows[k].born]
    BY Zenon
  <2>2. r.pc = "touch"
    BY <2>1, Zenon
  <2> QED BY <1>2, <1>4, <2>1, <2>2, Zenon DEF KvGet
<1>5. ASSUME NEW t \in KvThreads, TransactFails(t) PROVE CachesFollow'
  BY <1>0, <1>2, <1>5, Zenon DEF TransactFails
<1>6. ASSUME NEW t \in KvThreads, UpdateRecency(t) PROVE CachesFollow'
  BY <1>0, <1>2, <1>6, Zenon DEF UpdateRecency
<1>s. ASSUME NEW t \in KvThreads, StampUpdate(t) PROVE CachesFollow'
  <2>1. PICK r : r = [kvThread[t] EXCEPT !.at = kvClock]
    BY Zenon
  <2>2. /\ kvThread' = [kvThread EXCEPT ![t] = r] /\ kvThread[t].pc = "tx"
        /\ UNCHANGED <<kvRows, kvLen, kvExpireAt, kvRaced>>
    BY <1>s, <2>1, Zenon DEF StampUpdate
  <2>3. DOMAIN kvThread[t] = {"pc", "op", "buffer", "at"}
    BY <2>2, Zenon DEF UsesHold, ThreadOK
  <2>4. r.pc = "tx"
    BY <2>1, <2>2, <2>3, Zenon
  <2> QED BY <1>2, <2>2, <2>4, Zenon
<1>7. ASSUME NEW t \in KvThreads, RunTransact(t) PROVE CachesFollow'
  <2>1. PICK rows : kvRows' = rows /\ kvThread' = [kvThread EXCEPT ![t] = Summary(kvRows, rows)]
    BY <1>7, Zenon DEF RunTransact
  <2>2. PICK r : r = Summary(kvRows, rows)
    BY Zenon
  <2>3. r.pc = "len" /\ r.len = Cardinality(DOMAIN rows) /\ r.next = NextExpireAt(rows)
    BY <2>2, Zenon DEF Summary
  <2>4. kvThread'[t] = r /\ \A u \in KvThreads \ {t} : kvThread'[u] = kvThread[u]
    BY <1>0, <2>1, <2>2, Zenon
  <2>5. kvRaced' <=> \E u \in KvThreads : Storing(u)
    BY <1>7, Zenon DEF RunTransact, Storing
  <2>6. ~ kvRaced' => \A u \in KvThreads \ {t} : ~ Storing(u)'
    BY <2>4, <2>5, Zenon DEF Storing
  <2>7. Storing(t)'
    BY <2>3, <2>4, Zenon DEF Storing
  <2>8. ~ kvRaced' => \A u \in KvThreads \ {t} : kvThread'[u].pc # "len"
    BY <2>6, Zenon DEF Storing
  <2> QED BY <2>1, <2>3, <2>4, <2>6, <2>7, <2>8, Zenon DEF CachesFollow
<1>8. ASSUME NEW t \in KvThreads, StoreLen(t) PROVE CachesFollow'
  <2>1. PICK r : r = [kvThread[t] EXCEPT !.pc = "next"]
    BY Zenon
  <2>2. /\ kvThread' = [kvThread EXCEPT ![t] = r] /\ kvThread[t].pc = "len" /\ kvLen' = kvThread[t].len
        /\ UNCHANGED <<kvRows, kvExpireAt, kvRaced>>
    BY <1>8, <2>1, Zenon DEF StoreLen
  <2>3. DOMAIN kvThread[t] = {"pc", "len", "next"}
    BY <2>2, Zenon DEF UsesHold, ThreadOK
  <2>4. r.pc = "next" /\ r.next = kvThread[t].next
    BY <2>1, <2>3, Zenon
  <2>5. kvThread'[t] = r /\ \A u \in KvThreads \ {t} : kvThread'[u] = kvThread[u]
    BY <1>0, <2>2, Zenon
  <2>6. \A u \in KvThreads : Storing(u)' <=> Storing(u)
    BY <2>2, <2>4, <2>5, Zenon DEF Storing
  <2>7. \A u \in KvThreads : Storing(u) => kvThread'[u].next = kvThread[u].next
    BY <2>4, <2>5, Zenon
  <2>8. \A u \in KvThreads : kvThread'[u].pc = "len" => u # t /\ kvThread[u].pc = "len" /\ Storing(u) /\ Storing(t)
    BY <2>2, <2>4, <2>5, Zenon DEF Storing
  <2>9. Storing(t)
    BY <2>2, Zenon DEF Storing
  <2> QED BY <2>2, <2>6, <2>7, <2>8, <2>9, Zenon DEF CachesFollow
<1>9. ASSUME NEW t \in KvThreads, StoreExpireAt(t) PROVE CachesFollow'
  <2>1. /\ kvThread' = [kvThread EXCEPT ![t] = KvIdle] /\ kvThread[t].pc = "next" /\ kvExpireAt' = kvThread[t].next
        /\ UNCHANGED <<kvRows, kvLen, kvRaced>>
    BY <1>9, Zenon DEF StoreExpireAt
  <2>2. kvThread'[t] = KvIdle /\ \A u \in KvThreads \ {t} : kvThread'[u] = kvThread[u]
    BY <1>0, <2>1, Zenon
  <2>3. /\ Storing(t) /\ ~ Storing(t)' /\ \A u \in KvThreads \ {t} : Storing(u)' <=> Storing(u)
    BY <1>0, <2>1, <2>2, Zenon DEF Storing
  <2>4. \A u \in KvThreads : kvThread'[u].pc = "len" <=> kvThread[u].pc = "len"
    BY <1>0, <2>1, <2>2, Zenon
  <2> QED BY <2>1, <2>2, <2>3, <2>4, Zenon DEF CachesFollow
<1>10. CASE UNCHANGED kvVars
  BY <1>10, Zenon DEF kvVars, CachesFollow, Storing
<1> QED BY <1>1, <1>3, <1>4, <1>5, <1>6, <1>s, <1>7, <1>8, <1>9, <1>10, Zenon DEF KvNext

\* What the storage keeps beside its table agrees with it, for any number of threads,
\* keys and failures: no use of an entry is forgotten, and the cached length and next
\* expiration are the table's unless the last commit overtook another.
THEOREM StoredIsCached == KvSpec => []CachedIsStored
<1>1. KvInit => KvInv
  <2> SUFFICES ASSUME KvInit PROVE KvInv
    OBVIOUS
  <2>1. /\ DOMAIN <<>> = {} /\ <<>> \in Seq(KvUse) /\ 1 \in Nat \ {0}
    BY EmptySeq, LenProperties
  <2>2. KvTypeOK
    BY <2>1, Zenon DEF KvInit, KvTypeOK
  <2>3. \A t \in KvThreads : kvThread[t].pc = "idle"
    BY Zenon DEF KvInit, KvIdle
  <2>4. \A t \in KvThreads : ThreadOK(t)
    BY <2>3, Zenon DEF ThreadOK
  <2>5. \A b : b \notin Pending
    <3>1. Range(<<>>) = {}
      BY <2>1, RangeIn, Zenon
    <3> QED BY <2>3, <3>1, Zenon DEF KvInit, Pending
  <2>6. AllPast /\ NoUseIsForgotten
    BY <2>1, <2>5, Zenon DEF KvInit, AllPast, NoUseIsForgotten
  <2>7. CachesFollow
    BY <2>3, Zenon DEF KvInit, CachesFollow, Storing
  <2> QED BY <2>2, <2>4, <2>6, <2>7, Zenon DEF KvInv
<1>2. KvInv /\ [KvNext]_kvVars => KvInv'
  BY UsesKept, CachesKept, Zenon DEF KvInv, UsesHold
<1>3. KvInv => CachedIsStored
  BY Zenon DEF KvInv, CachesFollow, CachedIsStored, CachesAreFresh, Storing
<1> QED BY <1>1, <1>2, <1>3, PTL DEF KvSpec
=============================================================================
