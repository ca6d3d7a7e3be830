----------------------------- MODULE MpmcProofs ------------------------------
(***************************************************************************)
(* Proofs for the mpmc channel of g1/tokio: the permits of its semaphores  *)
(* account for its places, and no one sleeps in vain.  What each operation *)
(* of a semaphore does to its permits and its waiters is shown once, how   *)
(* the tasks are counted once, and then each step adds them up.            *)
(***************************************************************************)
EXTENDS Mpmc, FiniteSetTheorems, TLAPS

-----------------------------------------------------------------------------
(* Queues in which no one waits twice. *)

Distinct(q) == \A i, j \in DOMAIN q : q[i] = q[j] => i = j

LEMMA NoOneIn ==
  Range(<<>>) = {} /\ Distinct(<<>>)
<1>1. DOMAIN <<>> = {}
  BY SMT
<1> QED BY <1>1, Zenon DEF Range, Distinct

LEMMA OneJoins ==
  ASSUME NEW S, NEW q \in Seq(S), NEW w \in S, w \notin Range(q), Distinct(q)
  PROVE  Append(q, w) \in Seq(S) /\ Range(Append(q, w)) = Range(q) \cup {w} /\ Distinct(Append(q, w))
<1> DEFINE a == Append(q, w)
<1>1. DOMAIN q = 1 .. Len(q) /\ Len(q) \in Nat
  BY SMT
<1>2. a \in Seq(S) /\ Len(a) = Len(q) + 1
      /\ (\A i \in 1 .. Len(q) : a[i] = q[i]) /\ a[Len(q) + 1] = w
  BY SMT
<1>3. DOMAIN a = 1 .. Len(q) + 1
  BY <1>2
<1>4. \A i : i \in DOMAIN a <=> i \in DOMAIN q \/ i = Len(q) + 1
  BY <1>1, <1>3
<1>5. Range(a) = Range(q) \cup {w}
  BY <1>1, <1>2, <1>4, Zenon DEF Range
<1>6. \A i \in DOMAIN q : a[i] = q[i] /\ a[i] # w
  BY <1>1, <1>2, Zenon DEF Range
<1>7. Distinct(a)
  BY <1>2, <1>4, <1>6, Zenon DEF Distinct
<1> QED BY <1>2, <1>5, <1>7, Zenon

LEMMA FirstLeaves ==
  ASSUME NEW S, NEW q \in Seq(S), q # <<>>, Distinct(q)
  PROVE  /\ Tail(q) \in Seq(S) /\ Head(q) \in S /\ Head(q) \in Range(q)
         /\ Range(Tail(q)) = Range(q) \ {Head(q)} /\ Distinct(Tail(q))
<1>1. DOMAIN q = 1 .. Len(q) /\ Len(q) \in Nat /\ Len(q) # 0 /\ (\A i \in 1 .. Len(q) : q[i] \in S)
  BY SMT
<1> DEFINE t == Tail(q)
<1>2. t \in Seq(S) /\ Len(t) = Len(q) - 1 /\ (\A i \in 1 .. Len(t) : t[i] = q[i + 1]) /\ Head(q) = q[1]
  BY SMTT(30)
<1>3. DOMAIN t = 1 .. Len(q) - 1
  BY <1>2
<1>4. \A i \in DOMAIN t : i \in Nat /\ i + 1 \in DOMAIN q /\ t[i] = q[i + 1] /\ i + 1 # 1
  BY <1>1, <1>2, <1>3
<1>5. \A j \in DOMAIN q : j # 1 => \E i \in DOMAIN t : t[i] = q[j]
  <2>1. ASSUME NEW j \in DOMAIN q, j # 1 PROVE \E i \in DOMAIN t : t[i] = q[j]
    <3>1. j - 1 \in DOMAIN t /\ (j - 1) + 1 = j
      BY <1>1, <1>3, <2>1
    <3>2. t[j - 1] = q[j]
      BY <1>4, <3>1, Zenon
    <3> QED BY <3>1, <3>2, Zenon
  <2> QED BY <2>1, Zenon
<1>6. 1 \in DOMAIN q
  BY <1>1
<1>7. Range(t) = Range(q) \ {Head(q)}
  <2>1. ASSUME NEW i \in DOMAIN t PROVE t[i] \in Range(q) \ {Head(q)}
    <3>1. q[i + 1] # q[1]
      BY <1>4, <1>6, Zenon DEF Distinct
    <3> QED BY <1>2, <1>4, <3>1, Zenon DEF Range
  <2>2. ASSUME NEW j \in DOMAIN q, q[j] # Head(q) PROVE q[j] \in Range(t)
    BY <1>2, <1>5, <2>2, Zenon DEF Range
  <2> QED BY <2>1, <2>2, Zenon DEF Range
<1>8. Distinct(t)
  <2>1. ASSUME NEW i \in DOMAIN t, NEW j \in DOMAIN t, t[i] = t[j] PROVE i = j
    <3>1. i + 1 = j + 1
      BY <1>4, <2>1, Zenon DEF Distinct
    <3> QED BY <1>4, <3>1
  <2> QED BY <2>1, Zenon DEF Distinct
<1>9. Head(q) \in S /\ Head(q) \in Range(q)
  BY <1>1, <1>2, <1>6, Zenon DEF Range
<1> QED BY <1>2, <1>7, <1>8, <1>9, Zenon

LEMMA OneLeaves ==
  ASSUME NEW S, NEW q \in Seq(S), NEW w, Distinct(q)
  PROVE  Without(q, w) \in Seq(S) /\ Range(Without(q, w)) = Range(q) \ {w} /\ Distinct(Without(q, w))
<1>1. CASE w \notin Range(q)
  BY <1>1, Zenon DEF Without
<1>2. CASE w \in Range(q)
  <2>1. DOMAIN q = 1 .. Len(q) /\ Len(q) \in Nat /\ (\A i \in 1 .. Len(q) : q[i] \in S)
    BY SMT
  <2>2. PICK n \in 1 .. Len(q) : q[n] = w /\ n = CHOOSE i \in DOMAIN q : q[i] = w
    BY <1>2, <2>1, Zenon DEF Range
  <2>0. n \in 1 .. Len(q)
    BY <2>2, Zenon
  <2> DEFINE o == [i \in 1 .. Len(q) - 1 |-> IF i < n THEN q[i] ELSE q[i + 1]]
  <2>3. Without(q, w) = o
    BY <1>2, <2>2, Zenon DEF Without
  <2>4. \A i \in 1 .. Len(q) - 1 : i \in 1 .. Len(q) /\ i + 1 \in 1 .. Len(q)
    BY <2>1
  <2>5. o \in Seq(S)
    <3>1. Len(q) - 1 \in Nat
      BY <2>1, <2>2
    <3>2. \A i \in 1 .. Len(q) - 1 : o[i] \in S
      BY <2>1, <2>4, Zenon
    <3> QED BY <3>1, <3>2
  <2> DEFINE At(i) == IF i < n THEN i ELSE i + 1
  <2>6. \A i \in 1 .. Len(q) - 1 : At(i) \in 1 .. Len(q) /\ At(i) # n /\ o[i] = q[At(i)]
    <3>1. ASSUME NEW i \in 1 .. Len(q) - 1 PROVE At(i) \in 1 .. Len(q) /\ At(i) # n /\ o[i] = q[At(i)]
      <4>1. CASE i < n
        <5>1. At(i) = i /\ i \in 1 .. Len(q) /\ i # n
          BY <2>0, <2>1, <4>1
        <5> QED BY <4>1, <5>1, Zenon
      <4>2. CASE ~ (i < n)
        <5>1. At(i) = i + 1 /\ i + 1 \in 1 .. Len(q) /\ i + 1 # n
          BY <2>0, <2>1, <4>2
        <5> QED BY <4>2, <5>1, Zenon
      <4> QED BY <4>1, <4>2, Zenon
    <3> QED BY <3>1, Zenon
  <2>7. \A i, j \in 1 .. Len(q) - 1 : At(i) = At(j) => i = j
    BY <2>1, <2>2
  <2>8. \A j \in 1 .. Len(q) : j # n => \E i \in 1 .. Len(q) - 1 : At(i) = j
    <3>1. ASSUME NEW j \in 1 .. Len(q), j # n PROVE \E i \in 1 .. Len(q) - 1 : At(i) = j
      <4>1. CASE j < n
        <5>1. j \in 1 .. Len(q) - 1 /\ At(j) = j
          BY <2>1, <4>1
        <5> QED BY <5>1, Zenon
      <4>2. CASE ~ (j < n)
        <5>1. j - 1 \in 1 .. Len(q) - 1 /\ At(j - 1) = j
          BY <2>1, <3>1, <4>2
        <5> QED BY <5>1, Zenon
      <4> QED BY <4>1, <4>2, Zenon
    <3> QED BY <3>1, Zenon
  <2> HIDE DEF At
  <2>9. DOMAIN o = 1 .. Len(q) - 1
    BY Zenon
  <2> HIDE DEF o
  <2>10. Range(o) = Range(q) \ {w}
    <3>1. ASSUME NEW i \in DOMAIN o PROVE o[i] \in Range(q) \ {w}
      <4>1. o[i] = q[At(i)] /\ At(i) \in DOMAIN q /\ At(i) # n /\ n \in DOMAIN q
        BY <2>1, <2>2, <2>6, <2>9, Zenon
      <4>2. q[At(i)] # q[n]
        BY <4>1, Zenon DEF Distinct
      <4> QED BY <2>2, <4>1, <4>2, Zenon DEF Range
    <3>2. ASSUME NEW j \in DOMAIN q, q[j] # w PROVE q[j] \in Range(o)
      <4>1. PICK i \in 1 .. Len(q) - 1 : At(i) = j
        BY <2>1, <2>2, <2>8, <3>2, Zenon
      <4>2. o[i] = q[j]
        BY <2>6, <4>1, Zenon
      <4> QED BY <2>9, <4>1, <4>2, Zenon DEF Range
    <3> QED BY <3>1, <3>2, Zenon DEF Range
  <2>11. Distinct(o)
    <3>1. ASSUME NEW i \in DOMAIN o, NEW j \in DOMAIN o, o[i] = o[j] PROVE i = j
      <4>1. At(i) \in DOMAIN q /\ At(j) \in DOMAIN q /\ q[At(i)] = q[At(j)]
        BY <2>1, <2>6, <2>9, <3>1, Zenon
      <4>2. At(i) = At(j)
        BY <4>1, Zenon DEF Distinct
      <4> QED BY <2>7, <2>9, <4>2, Zenon
    <3> QED BY <3>1, Zenon DEF Distinct
  <2> QED BY <2>3, <2>5, <2>10, <2>11, Zenon
<1> QED BY <1>1, <1>2, Zenon

-----------------------------------------------------------------------------
(* A semaphore and the tasks W that are in its acquire(): each of them is   *)
(* in the queue once, or has been given a permit, or has been told.         *)

Semaphores(S) ==
  [permits : Nat, waiting : Seq(S), given : SUBSET S, told : SUBSET S, closed : BOOLEAN]

SemOK(s, S, W) ==
  /\ s \in Semaphores(S) /\ Distinct(s.waiting)
  /\ W = Range(s.waiting) \cup s.given \cup s.told
  /\ Range(s.waiting) \cap (s.given \cup s.told) = {}
  /\ s.waiting # <<>> => s.permits = 0 /\ ~ s.closed
  /\ s.told # {} => s.closed

\* The permits that are in it: free, or given to a task that has not run since.
Total(s) == s.permits + Cardinality(s.given)

Waiting(S) == {t \in S : mpTask[t] = "waiting"}

MpTypeOK ==
  /\ mpQueue \in Seq(Nat) /\ mpSent \in Nat /\ mpClosing \in BOOLEAN /\ mpPanicked \in BOOLEAN
  /\ mpTask \in [MpTasks -> {"idle", "waiting", "holding", "adding", "late", "gone"}]

\* free is closed first, and used is or will be; a receiver that takes what is left
\* has seen it closed.
ClosedInOrder ==
  /\ mpUsed.closed => mpFree.closed
  /\ mpClosing => mpFree.closed
  /\ mpFree.closed => mpClosing \/ mpUsed.closed
  /\ \A r \in MpReceivers : mpTask[r] = "late" => mpUsed.closed

\* PermitsAddUp by the total of a semaphore.
FreeAddsUp ==
  ~ mpFree.closed =>
    Total(mpFree) + Number(MpSenders, {"holding"}) + Len(mpQueue) + Number(MpReceivers, {"adding"}) = MpSize
UsedAddsUp ==
  ~ mpUsed.closed =>
    /\ Len(mpQueue) = Total(mpUsed) + Number(MpReceivers, {"holding"}) + Number(MpSenders, {"adding"})
    /\ ~ mpPanicked

MpInv ==
  /\ MpTypeOK /\ SemOK(mpFree, MpSenders, Waiting(MpSenders)) /\ SemOK(mpUsed, MpReceivers, Waiting(MpReceivers))
  /\ ClosedInOrder /\ FreeAddsUp /\ UsedAddsUp

LEMMA SizeOf ==
  ASSUME NEW S, IsFiniteSet(S), NEW T \in SUBSET S
  PROVE  IsFiniteSet(T) /\ Cardinality(T) \in Nat
<1>1. IsFiniteSet(T)
  BY FS_Subset, Zenon
<1> QED BY <1>1, FS_CardinalityType, Zenon

LEMMA SizeWith ==
  ASSUME NEW T, IsFiniteSet(T), NEW x, x \notin T
  PROVE  Cardinality(T \cup {x}) = Cardinality(T) + 1
BY FS_AddElement, Zenon

LEMMA SizeWithout ==
  ASSUME NEW T, IsFiniteSet(T), NEW x, x \in T
  PROVE  Cardinality(T \ {x}) = Cardinality(T) - 1
BY FS_RemoveElement, Zenon

\* add_permits gives the permit to the first in the queue, or keeps it.
LEMMA AddPermitIs ==
  ASSUME NEW S, IsFiniteSet(S), NEW W, NEW s, SemOK(s, S, W)
  PROVE  /\ SemOK(AddPermit(s), S, W) /\ Total(AddPermit(s)) = Total(s) + 1
         /\ AddPermit(s).closed = s.closed
<1>1. /\ s \in Semaphores(S) /\ Distinct(s.waiting) /\ W = Range(s.waiting) \cup s.given \cup s.told
      /\ Range(s.waiting) \cap (s.given \cup s.told) = {}
      /\ s.waiting # <<>> => s.permits = 0 /\ ~ s.closed
      /\ s.told # {} => s.closed
  BY Zenon DEF SemOK
<1>2. /\ s.permits \in Nat /\ s.waiting \in Seq(S) /\ s.given \in SUBSET S /\ s.told \in SUBSET S
      /\ s.closed \in BOOLEAN
  BY <1>1, Zenon DEF Semaphores
<1>3. IsFiniteSet(s.given) /\ Cardinality(s.given) \in Nat
  BY <1>2, SizeOf, Zenon
<1>4. CASE s.waiting = <<>>
  <2>1. PICK p : p = s.permits + 1
    BY Zenon
  <2>2. p \in Nat
    BY <1>2, <2>1
  <2>3. PICK r : r = [s EXCEPT !.permits = p]
    BY Zenon
  <2>4. /\ r \in Semaphores(S) /\ r.permits = p /\ r.waiting = s.waiting /\ r.given = s.given
        /\ r.told = s.told /\ r.closed = s.closed
    BY <1>1, <2>2, <2>3, Zenon DEF Semaphores
  <2>5. AddPermit(s) = r
    BY <1>4, <2>1, <2>3, Zenon DEF AddPermit
  <2>6. SemOK(r, S, W)
    BY <1>1, <1>4, <2>4, Zenon DEF SemOK
  <2>7. Total(r) = Total(s) + 1
    BY <1>2, <1>3, <2>1, <2>4 DEF Total
  <2> QED BY <2>4, <2>5, <2>6, <2>7, Zenon
<1>5. CASE s.waiting # <<>>
  <2>1. PICK h, q : h = Head(s.waiting) /\ q = Tail(s.waiting)
    BY Zenon
  <2>2. q \in Seq(S) /\ h \in S /\ h \in Range(s.waiting) /\ Range(q) = Range(s.waiting) \ {h} /\ Distinct(q)
    BY <1>1, <1>2, <1>5, <2>1, FirstLeaves, Zenon
  <2>3. PICK g : g = s.given \cup {h}
    BY Zenon
  <2>4. g \in SUBSET S /\ h \notin s.given
    BY <1>1, <1>2, <2>2, <2>3, Zenon
  <2>5. PICK r : r = [s EXCEPT !.waiting = q, !.given = g]
    BY Zenon
  <2>6. /\ r \in Semaphores(S) /\ r.permits = s.permits /\ r.waiting = q /\ r.given = g
        /\ r.told = s.told /\ r.closed = s.closed
    BY <1>1, <2>2, <2>4, <2>5, Zenon DEF Semaphores
  <2>7. AddPermit(s) = r
    BY <1>5, <2>1, <2>3, <2>5, Zenon DEF AddPermit
  <2>8. W = Range(q) \cup g \cup s.told /\ Range(q) \cap (g \cup s.told) = {}
    BY <1>1, <2>2, <2>3, Zenon
  <2>9. SemOK(r, S, W)
    BY <1>1, <1>5, <2>2, <2>6, <2>8, Zenon DEF SemOK
  <2>10. Cardinality(g) = Cardinality(s.given) + 1
    BY <1>3, <2>3, <2>4, SizeWith, Zenon
  <2>11. Total(r) = Total(s) + 1
    BY <1>2, <1>3, <2>6, <2>10 DEF Total
  <2> QED BY <2>6, <2>7, <2>9, <2>11, Zenon
<1> QED BY <1>4, <1>5, Zenon

\* acquire on a semaphore with a permit, and on one without.
LEMMA TakePermitIs ==
  ASSUME NEW S, IsFiniteSet(S), NEW W, NEW s, SemOK(s, S, W), HasPermit(s)
  PROVE  /\ SemOK(TakePermit(s), S, W) /\ Total(TakePermit(s)) = Total(s) - 1
         /\ TakePermit(s).closed = s.closed
<1>1. /\ s \in Semaphores(S) /\ Distinct(s.waiting) /\ W = Range(s.waiting) \cup s.given \cup s.told
      /\ Range(s.waiting) \cap (s.given \cup s.told) = {}
      /\ s.waiting # <<>> => s.permits = 0 /\ ~ s.closed
      /\ s.told # {} => s.closed
  BY Zenon DEF SemOK
<1>2. s.permits \in Nat /\ s.given \in SUBSET S
  BY <1>1, Zenon DEF Semaphores
<1>3. Cardinality(s.given) \in Nat
  BY <1>2, SizeOf, Zenon
<1>4. PICK p : p = s.permits - 1
  BY Zenon
<1>5. p \in Nat /\ s.permits # 0
  BY <1>2, <1>4 DEF HasPermit
<1>6. PICK r : r = [s EXCEPT !.permits = p]
  BY Zenon
<1>7. /\ r \in Semaphores(S) /\ r.permits = p /\ r.waiting = s.waiting /\ r.given = s.given
      /\ r.told = s.told /\ r.closed = s.closed
  BY <1>1, <1>5, <1>6, Zenon DEF Semaphores
<1>8. TakePermit(s) = r
  BY <1>4, <1>6, Zenon DEF TakePermit
<1>9. SemOK(r, S, W)
  BY <1>1, <1>5, <1>7, Zenon DEF SemOK
<1>10. Total(r) = Total(s) - 1
  BY <1>2, <1>3, <1>4, <1>7 DEF Total
<1> QED BY <1>7, <1>8, <1>9, <1>10, Zenon

LEMMA WaitForIs ==
  ASSUME NEW S, NEW W, NEW s, SemOK(s, S, W), ~ HasPermit(s), ~ s.closed, NEW w \in S, w \notin W
  PROVE  /\ SemOK(WaitFor(s, w), S, W \cup {w}) /\ Total(WaitFor(s, w)) = Total(s)
         /\ WaitFor(s, w).closed = s.closed
<1>1. /\ s \in Semaphores(S) /\ Distinct(s.waiting) /\ W = Range(s.waiting) \cup s.given \cup s.told
      /\ Range(s.waiting) \cap (s.given \cup s.told) = {}
      /\ s.told # {} => s.closed
  BY Zenon DEF SemOK
<1>2. s.permits \in Nat /\ s.waiting \in Seq(S)
  BY <1>1, Zenon DEF Semaphores
<1>3. s.permits = 0
  BY <1>2 DEF HasPermit
<1>4. PICK q : q = Append(s.waiting, w)
  BY Zenon
<1>5. w \notin Range(s.waiting) /\ w \notin s.given \cup s.told
  BY <1>1, Zenon
<1>6. q \in Seq(S) /\ Range(q) = Range(s.waiting) \cup {w} /\ Distinct(q)
  BY <1>1, <1>2, <1>4, <1>5, OneJoins, SMTT(30)
<1>7. PICK r : r = [s EXCEPT !.waiting = q]
  BY Zenon
<1>8. /\ r \in Semaphores(S) /\ r.permits = s.permits /\ r.waiting = q /\ r.given = s.given
      /\ r.told = s.told /\ r.closed = s.closed
  BY <1>1, <1>6, <1>7, Zenon DEF Semaphores
<1>9. WaitFor(s, w) = r
  BY <1>4, <1>7, Zenon DEF WaitFor
<1>10. W \cup {w} = Range(q) \cup s.given \cup s.told /\ Range(q) \cap (s.given \cup s.told) = {}
  BY <1>1, <1>5, <1>6, Zenon
<1>11. SemOK(r, S, W \cup {w})
  BY <1>1, <1>3, <1>6, <1>8, <1>10, Zenon DEF SemOK
<1>12. Total(r) = Total(s)
  BY <1>8, Zenon DEF Total
<1> QED BY <1>8, <1>9, <1>11, <1>12, Zenon

LEMMA CloseIs ==
  ASSUME NEW S, NEW W, NEW s, SemOK(s, S, W)
  PROVE  SemOK(CloseSemaphore(s), S, W) /\ CloseSemaphore(s).closed
<1>1. /\ s \in Semaphores(S) /\ W = Range(s.waiting) \cup s.given \cup s.told
  BY Zenon DEF SemOK
<1>2. s.waiting \in Seq(S) /\ s.told \in SUBSET S /\ <<>> \in Seq(S)
  <2>1. <<>> \in Seq(S)
    BY SMT
  <2> QED BY <1>1, <2>1, Zenon DEF Semaphores
<1>3. Range(s.waiting) \subseteq S
  <2>1. DOMAIN s.waiting = 1 .. Len(s.waiting) /\ \A i \in 1 .. Len(s.waiting) : s.waiting[i] \in S
    BY <1>2, SMT
  <2> QED BY <2>1, Zenon DEF Range
<1>4. PICK t : t = s.told \cup Range(s.waiting)
  BY Zenon
<1>5. PICK r : r = [s EXCEPT !.closed = TRUE, !.waiting = <<>>, !.told = t]
  BY Zenon
<1>6. t \in SUBSET S
  BY <1>2, <1>3, <1>4, Zenon
<1>7. /\ r \in Semaphores(S) /\ r.permits = s.permits /\ r.waiting = <<>> /\ r.given = s.given
      /\ r.told = t /\ r.closed = TRUE
  BY <1>1, <1>2, <1>5, <1>6, Zenon DEF Semaphores
<1>8. CloseSemaphore(s) = r
  BY <1>4, <1>5, Zenon DEF CloseSemaphore
<1>9. W = Range(<<>>) \cup s.given \cup t /\ Range(<<>>) \cap (s.given \cup t) = {}
  BY <1>1, <1>4, NoOneIn, Zenon
<1>10. SemOK(r, S, W)
  BY <1>7, <1>9, NoOneIn, Zenon DEF SemOK
<1> QED BY <1>7, <1>8, <1>10, Zenon

\* A task leaves acquire() with what it was given or told, or gives up: it takes its
\* permit along, or passes it on.
Leaves(s, w, q) == [s EXCEPT !.given = s.given \ {w}, !.told = s.told \ {w}, !.waiting = q]

LeavesQueue(s, S, W, w, q) ==
  /\ SemOK(s, S, W) /\ w \in W /\ q \in Seq(S) /\ Distinct(q)
  /\ Range(q) = Range(s.waiting) \ {w} /\ (s.waiting = <<>> => q = <<>>)

HasLeft(s, S, W, w, q) ==
  /\ SemOK(Leaves(s, w, q), S, W \ {w}) /\ Leaves(s, w, q).closed = s.closed /\ Total(s) \in Nat
  /\ w \in s.given => Total(Leaves(s, w, q)) = Total(s) - 1
  /\ w \notin s.given => Total(Leaves(s, w, q)) = Total(s)

LEMMA LeaveIs ==
  ASSUME NEW S, IsFiniteSet(S), NEW W, NEW s, NEW w, NEW q, LeavesQueue(s, S, W, w, q)
  PROVE  HasLeft(s, S, W, w, q)
<1>1. /\ s \in Semaphores(S) /\ W = Range(s.waiting) \cup s.given \cup s.told
      /\ Range(s.waiting) \cap (s.given \cup s.told) = {}
      /\ s.waiting # <<>> => s.permits = 0 /\ ~ s.closed
      /\ s.told # {} => s.closed
  BY Zenon DEF SemOK, LeavesQueue
<1>0. w \in W /\ q \in Seq(S) /\ Distinct(q) /\ Range(q) = Range(s.waiting) \ {w} /\ (s.waiting = <<>> => q = <<>>)
  BY Zenon DEF LeavesQueue
<1>2. s.permits \in Nat /\ s.given \in SUBSET S /\ s.told \in SUBSET S
  BY <1>1, Zenon DEF Semaphores
<1>3. IsFiniteSet(s.given) /\ Cardinality(s.given) \in Nat
  BY <1>2, SizeOf, Zenon
<1>4. s.given \ {w} \in SUBSET S /\ s.told \ {w} \in SUBSET S
  BY <1>2, Zenon
<1>5. PICK o : o = Leaves(s, w, q)
  BY Zenon
<1>6. /\ o \in Semaphores(S) /\ o.permits = s.permits /\ o.waiting = q /\ o.given = s.given \ {w}
      /\ o.told = s.told \ {w} /\ o.closed = s.closed
  BY <1>0, <1>1, <1>4, <1>5, Zenon DEF Semaphores, Leaves
<1>7. W \ {w} = Range(q) \cup (s.given \ {w}) \cup (s.told \ {w})
      /\ Range(q) \cap ((s.given \ {w}) \cup (s.told \ {w})) = {}
      /\ (s.told \ {w} # {} => s.closed) /\ (q # <<>> => s.permits = 0 /\ ~ s.closed)
  BY <1>0, <1>1, Zenon
<1>8. SemOK(o, S, W \ {w})
  BY <1>0, <1>6, <1>7, Zenon DEF SemOK
<1>9. w \in s.given => Cardinality(s.given \ {w}) = Cardinality(s.given) - 1
  BY <1>3, SizeWithout, Zenon
<1>10. w \notin s.given => s.given \ {w} = s.given
  BY Zenon
<1>11. w \in s.given => Total(o) = Total(s) - 1
  BY <1>2, <1>3, <1>6, <1>9 DEF Total
<1>12. w \notin s.given => Total(o) = Total(s)
  BY <1>6, <1>10, Zenon DEF Total
<1>13. Total(s) \in Nat
  BY <1>2, <1>3 DEF Total
<1> QED BY <1>5, <1>6, <1>8, <1>11, <1>12, <1>13, Zenon DEF HasLeft

LEMMA RanIs ==
  ASSUME NEW S, IsFiniteSet(S), NEW W, NEW s, SemOK(s, S, W), NEW w \in W, Runs(s, w)
  PROVE  /\ SemOK(Ran(s, w), S, W \ {w}) /\ Ran(s, w).closed = s.closed
         /\ ~ s.closed => Total(Ran(s, w)) = Total(s) - 1
<1>1. /\ s \in Semaphores(S) /\ Distinct(s.waiting) /\ Range(s.waiting) \cap (s.given \cup s.told) = {}
      /\ s.told # {} => s.closed
  BY Zenon DEF SemOK
<1>2. s.waiting \in Seq(S) /\ Range(s.waiting) = Range(s.waiting) \ {w}
  BY <1>1, Zenon DEF Semaphores, Runs
<1>3. PICK r : r = Leaves(s, w, s.waiting)
  BY Zenon
<1>4. /\ SemOK(r, S, W \ {w}) /\ r.closed = s.closed
      /\ w \in s.given => Total(r) = Total(s) - 1
  <2>1. LeavesQueue(s, S, W, w, s.waiting)
    BY <1>1, <1>2, Zenon DEF LeavesQueue
  <2>2. HasLeft(s, S, W, w, s.waiting)
    BY <2>1, LeaveIs, Zenon
  <2> QED BY <1>3, <2>2, Zenon DEF HasLeft
<1>5. r = [s EXCEPT !.given = s.given \ {w}, !.told = s.told \ {w}]
  BY <1>1, <1>3, Zenon DEF Semaphores, Leaves
<1>6. CASE s.closed /\ w \in s.given
  <2>1. Ran(s, w) = AddPermit(r)
    BY <1>5, <1>6, Zenon DEF Ran
  <2>2. SemOK(AddPermit(r), S, W \ {w}) /\ AddPermit(r).closed = r.closed
    BY <1>4, AddPermitIs, Zenon
  <2> QED BY <1>4, <1>6, <2>1, <2>2, Zenon
<1>7. CASE ~ (s.closed /\ w \in s.given)
  <2>1. Ran(s, w) = r
    BY <1>5, <1>7, Zenon DEF Ran
  <2>2. ~ s.closed => w \in s.given
    BY <1>1, Zenon DEF Runs
  <2> QED BY <1>4, <2>1, <2>2, Zenon
<1> QED BY <1>6, <1>7, Zenon

LEMMA GiveUpIs ==
  ASSUME NEW S, IsFiniteSet(S), NEW W, NEW s, SemOK(s, S, W), NEW w \in W
  PROVE  /\ SemOK(GiveUp(s, w), S, W \ {w}) /\ GiveUp(s, w).closed = s.closed
         /\ Total(GiveUp(s, w)) = Total(s)
<1>1. s \in Semaphores(S) /\ Distinct(s.waiting)
  BY Zenon DEF SemOK
<1>2. s.waiting \in Seq(S)
  BY <1>1, Zenon DEF Semaphores
<1>3. PICK q : q = Without(s.waiting, w)
  BY Zenon
<1>4. q \in Seq(S) /\ Range(q) = Range(s.waiting) \ {w} /\ Distinct(q)
  BY <1>1, <1>2, <1>3, OneLeaves, SMTT(30)
<1>5. s.waiting = <<>> => q = <<>>
  BY <1>3, NoOneIn, Zenon DEF Without
<1>6. PICK r : r = Leaves(s, w, q)
  BY Zenon
<1>7. /\ SemOK(r, S, W \ {w}) /\ r.closed = s.closed /\ Total(s) \in Nat
      /\ w \in s.given => Total(r) = Total(s) - 1
      /\ w \notin s.given => Total(r) = Total(s)
  <2>1. LeavesQueue(s, S, W, w, q)
    BY <1>4, <1>5, Zenon DEF LeavesQueue
  <2>2. HasLeft(s, S, W, w, q)
    BY <2>1, LeaveIs, Zenon
  <2> QED BY <1>6, <2>2, Zenon DEF HasLeft
<1>8. CASE w \in s.given
  <2>1. GiveUp(s, w) = AddPermit(r)
    BY <1>3, <1>6, <1>8, Zenon DEF GiveUp, Leaves
  <2>2. SemOK(AddPermit(r), S, W \ {w}) /\ Total(AddPermit(r)) = Total(r) + 1 /\ AddPermit(r).closed = r.closed
    BY <1>7, AddPermitIs, Zenon
  <2>3. Total(AddPermit(r)) = Total(s)
    BY <1>7, <1>8, <2>2
  <2> QED BY <1>7, <2>1, <2>2, <2>3, Zenon
<1>9. CASE w \notin s.given
  <2>1. GiveUp(s, w) = r
    BY <1>3, <1>6, <1>9, Zenon DEF GiveUp, Leaves
  <2> QED BY <1>7, <1>9, <2>1, Zenon
<1> QED BY <1>8, <1>9, Zenon

-----------------------------------------------------------------------------
(* How the tasks are counted when one of them moves. *)

Counted(t, pc, S, p) ==
  /\ Number(S, {p}) \in Nat /\ Number(S, {p})' \in Nat
  /\ t \notin S \/ (pc # p /\ mpTask[t] # p) => Number(S, {p})' = Number(S, {p})
  /\ t \in S /\ pc = p /\ mpTask[t] # p => Number(S, {p})' = Number(S, {p}) + 1
  /\ t \in S /\ pc # p /\ mpTask[t] = p => Number(S, {p})' = Number(S, {p}) - 1

LEMMA OneIsCounted ==
  ASSUME MpTypeOK, NEW t \in MpTasks, NEW pc, Goes(t, pc),
         NEW S \in SUBSET MpTasks, IsFiniteSet(S), NEW p
  PROVE  Counted(t, pc, S, p)
<1>1. PICK old : old = {u \in S : mpTask[u] \in {p}}
  BY Zenon
<1>2. PICK new : new = {u \in S : mpTask'[u] \in {p}}
  BY Zenon
<1>3. Number(S, {p}) = Cardinality(old) /\ Number(S, {p})' = Cardinality(new)
  BY <1>1, <1>2, Zenon DEF Number
<1>4. IsFiniteSet(old) /\ Cardinality(old) \in Nat /\ Cardinality(new) \in Nat
  <2>1. old \in SUBSET S /\ new \in SUBSET S
    BY <1>1, <1>2, Zenon
  <2> QED BY <2>1, SizeOf, Zenon
<1>5. \A u \in S : mpTask'[u] = IF u = t THEN pc ELSE mpTask[u]
  BY Zenon DEF MpTypeOK, Goes
<1>6. t \notin S \/ (pc # p /\ mpTask[t] # p) => new = old
  BY <1>1, <1>2, <1>5, Zenon
<1>7. t \in S /\ pc = p /\ mpTask[t] # p => new = old \cup {t} /\ t \notin old
  BY <1>1, <1>2, <1>5, Zenon
<1>8. t \in S /\ pc # p /\ mpTask[t] = p => new = old \ {t} /\ t \in old
  BY <1>1, <1>2, <1>5, Zenon
<1>9. t \in S /\ pc = p /\ mpTask[t] # p => Cardinality(new) = Cardinality(old) + 1
  BY <1>4, <1>7, SizeWith, Zenon
<1>10. t \in S /\ pc # p /\ mpTask[t] = p => Cardinality(new) = Cardinality(old) - 1
  BY <1>4, <1>8, SizeWithout, Zenon
<1> QED BY <1>3, <1>4, <1>6, <1>9, <1>10, Zenon DEF Counted

\* Who waits, when one task moves.
Moved(t, pc, S) ==
  /\ pc = "waiting" /\ t \in S => Waiting(S)' = Waiting(S) \cup {t}
  /\ pc # "waiting" => Waiting(S)' = Waiting(S) \ {t}
  /\ t \notin S \/ (pc # "waiting" /\ mpTask[t] # "waiting") => Waiting(S)' = Waiting(S)

LEMMA WaitingMoves ==
  ASSUME MpTypeOK, NEW t \in MpTasks, NEW pc, Goes(t, pc), NEW S \in SUBSET MpTasks
  PROVE  Moved(t, pc, S)
<1>1. \A u \in S : mpTask'[u] = IF u = t THEN pc ELSE mpTask[u]
  BY Zenon DEF MpTypeOK, Goes
<1>2. \A u : u \in Waiting(S)' <=> u \in S /\ mpTask'[u] = "waiting"
  BY Zenon DEF Waiting
<1>3. \A u : u \in Waiting(S) <=> u \in S /\ mpTask[u] = "waiting"
  BY Zenon DEF Waiting
<1>4. pc = "waiting" /\ t \in S => Waiting(S)' = Waiting(S) \cup {t}
  BY <1>1, <1>2, <1>3, Zenon
<1>5. pc # "waiting" => Waiting(S)' = Waiting(S) \ {t}
  <2>1. ASSUME pc # "waiting", NEW u \in S
        PROVE  mpTask'[u] = "waiting" <=> mpTask[u] = "waiting" /\ u # t
    <3>1. CASE u = t
      BY <1>1, <2>1, <3>1, Zenon
    <3>2. CASE u # t
      BY <1>1, <3>2, Zenon
    <3> QED BY <3>1, <3>2, Zenon
  <2> QED BY <1>2, <1>3, <2>1, Zenon
<1>6. t \notin S \/ (pc # "waiting" /\ mpTask[t] # "waiting") => Waiting(S)' = Waiting(S)
  <2>1. ASSUME t \notin S \/ (pc # "waiting" /\ mpTask[t] # "waiting"), NEW u \in S
        PROVE  mpTask'[u] = "waiting" <=> mpTask[u] = "waiting"
    <3>1. CASE u = t
      BY <1>1, <2>1, <3>1, Zenon
    <3>2. CASE u # t
      BY <1>1, <3>2, Zenon
    <3> QED BY <3>1, <3>2, Zenon
  <2> QED BY <1>2, <1>3, <2>1, Zenon
<1> QED BY <1>4, <1>5, <1>6, Zenon DEF Moved

Tallied(t, pc) ==
  /\ Counted(t, pc, MpSenders, "holding") /\ Counted(t, pc, MpSenders, "adding")
  /\ Counted(t, pc, MpReceivers, "holding") /\ Counted(t, pc, MpReceivers, "adding")
  /\ Moved(t, pc, MpSenders) /\ Moved(t, pc, MpReceivers)
  /\ pc # "late" => \A r \in MpReceivers : mpTask'[r] = "late" => mpTask[r] = "late"

LEMMA AllAreTallied ==
  ASSUME MpTypeOK, NEW t \in MpTasks, NEW pc, Goes(t, pc)
  PROVE  Tallied(t, pc)
<1>1. /\ MpSenders \in SUBSET MpTasks /\ MpReceivers \in SUBSET MpTasks
      /\ IsFiniteSet(MpSenders) /\ IsFiniteSet(MpReceivers)
  BY MpmcAssumption, Zenon DEF MpTasks
<1>2. /\ Counted(t, pc, MpSenders, "holding") /\ Counted(t, pc, MpSenders, "adding")
      /\ Counted(t, pc, MpReceivers, "holding") /\ Counted(t, pc, MpReceivers, "adding")
  BY <1>1, OneIsCounted, Zenon
<1>3. Moved(t, pc, MpSenders) /\ Moved(t, pc, MpReceivers)
  BY <1>1, WaitingMoves, Zenon
<1>4. pc # "late" => \A r \in MpReceivers : mpTask'[r] = "late" => mpTask[r] = "late"
  BY <1>1, Zenon DEF MpTypeOK, Goes
<1> QED BY <1>2, <1>3, <1>4, Zenon DEF Tallied


-----------------------------------------------------------------------------
(* The steps. *)

Sums == /\ Total(mpFree) \in Nat /\ Total(mpUsed) \in Nat /\ Len(mpQueue) \in Nat /\ MpSize \in Nat

LEMMA TotalIs ==
  ASSUME NEW S, IsFiniteSet(S), NEW W, NEW s, SemOK(s, S, W)
  PROVE  Total(s) \in Nat
<1>1. s.permits \in Nat /\ s.given \in SUBSET S
  BY Zenon DEF SemOK, Semaphores
<1>2. Cardinality(s.given) \in Nat
  BY <1>1, SizeOf, Zenon
<1> QED BY <1>1, <1>2 DEF Total

LEMMA SumsAre == MpInv => Sums
<1> SUFFICES ASSUME MpInv PROVE Sums
  BY Zenon
<1>1. Total(mpFree) \in Nat
  BY TotalIs, MpmcAssumption, Zenon DEF MpInv
<1>2. Total(mpUsed) \in Nat
  BY TotalIs, MpmcAssumption, Zenon DEF MpInv
<1>3. Len(mpQueue) \in Nat
  BY SMT DEF MpInv, MpTypeOK
<1> QED BY <1>1, <1>2, <1>3, MpmcAssumption, Zenon DEF Sums

\* A task takes a permit, or has waited for it.
LEMMA SenderTakes ==
  ASSUME MpInv, NEW s \in MpSenders, mpTask[s] = "idle", HasPermit(mpFree),
         Goes(s, "holding"), mpFree' = TakePermit(mpFree),
         UNCHANGED <<mpQueue, mpUsed, mpClosing, mpSent, mpPanicked>>
  PROVE  MpInv'
<1>0. s \in MpTasks /\ MpTypeOK /\ s \notin MpReceivers
  BY MpmcAssumption, Zenon DEF MpTasks, MpInv
<1>1. Tallied(s, "holding")
  BY <1>0, AllAreTallied, Zenon
<1>2. Waiting(MpSenders)' = Waiting(MpSenders) /\ Waiting(MpReceivers)' = Waiting(MpReceivers)
  BY <1>1, Zenon DEF Tallied, Moved
<1>3. /\ SemOK(mpFree', MpSenders, Waiting(MpSenders)) /\ Total(mpFree') = Total(mpFree) - 1
      /\ mpFree'.closed = mpFree.closed
  BY TakePermitIs, MpmcAssumption, Zenon DEF MpInv
<1>4. /\ Number(MpSenders, {"holding"})' = Number(MpSenders, {"holding"}) + 1
      /\ Number(MpSenders, {"adding"})' = Number(MpSenders, {"adding"})
      /\ Number(MpReceivers, {"holding"})' = Number(MpReceivers, {"holding"})
      /\ Number(MpReceivers, {"adding"})' = Number(MpReceivers, {"adding"})
      /\ Number(MpSenders, {"holding"}) \in Nat /\ Number(MpSenders, {"adding"}) \in Nat
      /\ Number(MpReceivers, {"holding"}) \in Nat /\ Number(MpReceivers, {"adding"}) \in Nat
  BY <1>0, <1>1, Zenon DEF Tallied, Counted
<1>5. FreeAddsUp'
  <2>1. ~ mpFree.closed =>
          Total(mpFree) + Number(MpSenders, {"holding"}) + Len(mpQueue) + Number(MpReceivers, {"adding"}) = MpSize
    BY Zenon DEF FreeAddsUp, MpInv
  <2>2. Total(mpFree) \in Nat /\ Len(mpQueue) \in Nat /\ MpSize \in Nat
    BY SumsAre, Zenon DEF Sums
  <2> QED BY <1>3, <1>4, <2>1, <2>2, SMTT(30) DEF FreeAddsUp
<1>6. UsedAddsUp'
  BY <1>4, Zenon DEF UsedAddsUp, MpInv
<1>7. MpTypeOK'
  BY <1>0, Zenon DEF MpTypeOK, Goes
<1>8. ClosedInOrder'
  BY <1>1, <1>3, Zenon DEF ClosedInOrder, MpInv, Tallied
<1> QED BY <1>2, <1>3, <1>5, <1>6, <1>7, <1>8, Zenon DEF MpInv

LEMMA ReceiverTakes ==
  ASSUME MpInv, NEW r \in MpReceivers, mpTask[r] = "idle", HasPermit(mpUsed),
         Goes(r, "holding"), mpUsed' = TakePermit(mpUsed),
         UNCHANGED <<mpQueue, mpFree, mpClosing, mpSent, mpPanicked>>
  PROVE  MpInv'
<1>0. r \in MpTasks /\ MpTypeOK /\ r \notin MpSenders
  BY MpmcAssumption, Zenon DEF MpTasks, MpInv
<1>1. Tallied(r, "holding")
  BY <1>0, AllAreTallied, Zenon
<1>2. Waiting(MpSenders)' = Waiting(MpSenders) /\ Waiting(MpReceivers)' = Waiting(MpReceivers)
  BY <1>1, Zenon DEF Tallied, Moved
<1>3. /\ SemOK(mpUsed', MpReceivers, Waiting(MpReceivers)) /\ Total(mpUsed') = Total(mpUsed) - 1
      /\ mpUsed'.closed = mpUsed.closed
  BY TakePermitIs, MpmcAssumption, Zenon DEF MpInv
<1>4. /\ Number(MpSenders, {"holding"})' = Number(MpSenders, {"holding"})
      /\ Number(MpSenders, {"adding"})' = Number(MpSenders, {"adding"})
      /\ Number(MpReceivers, {"holding"})' = Number(MpReceivers, {"holding"}) + 1
      /\ Number(MpReceivers, {"adding"})' = Number(MpReceivers, {"adding"})
      /\ Number(MpSenders, {"holding"}) \in Nat /\ Number(MpSenders, {"adding"}) \in Nat
      /\ Number(MpReceivers, {"holding"}) \in Nat /\ Number(MpReceivers, {"adding"}) \in Nat
  BY <1>0, <1>1, Zenon DEF Tallied, Counted
<1>5. FreeAddsUp'
  BY <1>4, Zenon DEF FreeAddsUp, MpInv
<1>6. UsedAddsUp'
  <2>2. ~ mpUsed.closed => Len(mpQueue) = Total(mpUsed) + Number(MpReceivers, {"holding"}) + Number(MpSenders, {"adding"})
    BY Zenon DEF UsedAddsUp, MpInv
  <2>3. Total(mpUsed) \in Nat /\ Len(mpQueue) \in Nat
    BY SumsAre, Zenon DEF Sums
  <2>1. ~ mpUsed'.closed => Len(mpQueue') = Total(mpUsed') + Number(MpReceivers, {"holding"})' + Number(MpSenders, {"adding"})'
    BY <1>3, <1>4, <2>2, <2>3, SMTT(30)
  <2> QED BY <1>3, <2>1, Zenon DEF UsedAddsUp, MpInv
<1>7. MpTypeOK'
  BY <1>0, Zenon DEF MpTypeOK, Goes
<1>8. ClosedInOrder'
  BY <1>1, <1>3, Zenon DEF ClosedInOrder, MpInv, Tallied
<1> QED BY <1>2, <1>3, <1>5, <1>6, <1>7, <1>8, Zenon DEF MpInv

LEMMA SenderWaits ==
  ASSUME MpInv, NEW s \in MpSenders, mpTask[s] = "idle", ~ HasPermit(mpFree), ~ mpFree.closed,
         Goes(s, "waiting"), mpFree' = WaitFor(mpFree, s),
         UNCHANGED <<mpQueue, mpUsed, mpClosing, mpSent, mpPanicked>>
  PROVE  MpInv'
<1>0. s \in MpTasks /\ MpTypeOK /\ s \notin MpReceivers
  BY MpmcAssumption, Zenon DEF MpTasks, MpInv
<1>1. Tallied(s, "waiting")
  BY <1>0, AllAreTallied, Zenon
<1>2. Waiting(MpSenders)' = Waiting(MpSenders) \cup {s} /\ Waiting(MpReceivers)' = Waiting(MpReceivers)
  BY <1>0, <1>1, Zenon DEF Tallied, Moved
<1>3. /\ SemOK(mpFree', MpSenders, Waiting(MpSenders) \cup {s}) /\ Total(mpFree') = Total(mpFree)
      /\ mpFree'.closed = mpFree.closed
  <2>1. s \notin Waiting(MpSenders)
    BY Zenon DEF Waiting
  <2> QED BY <2>1, WaitForIs, ZenonT(60) DEF MpInv
<1>4. /\ Number(MpSenders, {"holding"})' = Number(MpSenders, {"holding"})
      /\ Number(MpSenders, {"adding"})' = Number(MpSenders, {"adding"})
      /\ Number(MpReceivers, {"holding"})' = Number(MpReceivers, {"holding"})
      /\ Number(MpReceivers, {"adding"})' = Number(MpReceivers, {"adding"})
      /\ Number(MpSenders, {"holding"}) \in Nat /\ Number(MpSenders, {"adding"}) \in Nat
      /\ Number(MpReceivers, {"holding"}) \in Nat /\ Number(MpReceivers, {"adding"}) \in Nat
  BY <1>0, <1>1, Zenon DEF Tallied, Counted
<1>5. FreeAddsUp'
  BY <1>3, <1>4, Zenon DEF FreeAddsUp, MpInv
<1>6. UsedAddsUp'
  BY <1>4, Zenon DEF UsedAddsUp, MpInv
<1>7. MpTypeOK'
  BY <1>0, Zenon DEF MpTypeOK, Goes
<1>8. ClosedInOrder'
  BY <1>1, <1>3, Zenon DEF ClosedInOrder, MpInv, Tallied
<1> QED BY <1>2, <1>3, <1>5, <1>6, <1>7, <1>8, Zenon DEF MpInv

LEMMA ReceiverWaits ==
  ASSUME MpInv, NEW r \in MpReceivers, mpTask[r] = "idle", ~ HasPermit(mpUsed), ~ mpUsed.closed,
         Goes(r, "waiting"), mpUsed' = WaitFor(mpUsed, r),
         UNCHANGED <<mpQueue, mpFree, mpClosing, mpSent, mpPanicked>>
  PROVE  MpInv'
<1>0. r \in MpTasks /\ MpTypeOK /\ r \notin MpSenders
  BY MpmcAssumption, Zenon DEF MpTasks, MpInv
<1>1. Tallied(r, "waiting")
  BY <1>0, AllAreTallied, Zenon
<1>2. Waiting(MpSenders)' = Waiting(MpSenders) /\ Waiting(MpReceivers)' = Waiting(MpReceivers) \cup {r}
  BY <1>0, <1>1, Zenon DEF Tallied, Moved
<1>3. /\ SemOK(mpUsed', MpReceivers, Waiting(MpReceivers) \cup {r}) /\ Total(mpUsed') = Total(mpUsed)
      /\ mpUsed'.closed = mpUsed.closed
  <2>1. r \notin Waiting(MpReceivers)
    BY Zenon DEF Waiting
  <2> QED BY <2>1, WaitForIs, ZenonT(60) DEF MpInv
<1>4. /\ Number(MpSenders, {"holding"})' = Number(MpSenders, {"holding"})
      /\ Number(MpSenders, {"adding"})' = Number(MpSenders, {"adding"})
      /\ Number(MpReceivers, {"holding"})' = Number(MpReceivers, {"holding"})
      /\ Number(MpReceivers, {"adding"})' = Number(MpReceivers, {"adding"})
      /\ Number(MpSenders, {"holding"}) \in Nat /\ Number(MpSenders, {"adding"}) \in Nat
      /\ Number(MpReceivers, {"holding"}) \in Nat /\ Number(MpReceivers, {"adding"}) \in Nat
  BY <1>0, <1>1, Zenon DEF Tallied, Counted
<1>5. FreeAddsUp'
  BY <1>4, Zenon DEF FreeAddsUp, MpInv
<1>6. UsedAddsUp'
  BY <1>3, <1>4, Zenon DEF UsedAddsUp, MpInv
<1>7. MpTypeOK'
  BY <1>0, Zenon DEF MpTypeOK, Goes
<1>8. ClosedInOrder'
  BY <1>1, <1>3, Zenon DEF ClosedInOrder, MpInv, Tallied
<1> QED BY <1>2, <1>3, <1>5, <1>6, <1>7, <1>8, Zenon DEF MpInv

\* One that waited runs again, with a permit or because the channel is closed.
LEMMA SenderResumes ==
  ASSUME MpInv, NEW s \in MpSenders, SendResumes(s)
  PROVE  MpInv'
<1>0. s \in MpTasks /\ MpTypeOK /\ s \notin MpReceivers /\ mpTask[s] = "waiting" /\ Runs(mpFree, s)
  BY MpmcAssumption, Zenon DEF MpTasks, MpInv, SendResumes
<1>9. PICK pc : pc = (IF mpFree.closed THEN "idle" ELSE "holding")
  BY Zenon
<1>10. Goes(s, pc) /\ mpFree' = Ran(mpFree, s) /\ UNCHANGED <<mpQueue, mpUsed, mpClosing, mpSent, mpPanicked>>
  BY <1>9, Zenon DEF SendResumes
<1>11. pc \in {"idle", "holding"} /\ (~ mpFree.closed => pc = "holding")
  BY <1>9, Zenon
<1>1. Tallied(s, pc)
  BY <1>0, <1>10, AllAreTallied, Zenon
<1>2. Waiting(MpSenders)' = Waiting(MpSenders) \ {s} /\ Waiting(MpReceivers)' = Waiting(MpReceivers)
  BY <1>0, <1>1, <1>11, Zenon DEF Tallied, Moved
<1>3. /\ SemOK(mpFree', MpSenders, Waiting(MpSenders) \ {s}) /\ mpFree'.closed = mpFree.closed
      /\ ~ mpFree.closed => Total(mpFree') = Total(mpFree) - 1
  <2>1. s \in Waiting(MpSenders)
    BY <1>0, Zenon DEF Waiting
  <2>2. SemOK(mpFree, MpSenders, Waiting(MpSenders)) /\ IsFiniteSet(MpSenders)
    BY MpmcAssumption, Zenon DEF MpInv
  <2>3. /\ SemOK(Ran(mpFree, s), MpSenders, Waiting(MpSenders) \ {s}) /\ Ran(mpFree, s).closed = mpFree.closed
        /\ ~ mpFree.closed => Total(Ran(mpFree, s)) = Total(mpFree) - 1
    BY <1>0, <2>1, <2>2, RanIs, SMTT(30)
  <2> QED BY <1>10, <2>3, Zenon
<1>4. /\ ~ mpFree.closed => Number(MpSenders, {"holding"})' = Number(MpSenders, {"holding"}) + 1
      /\ Number(MpSenders, {"adding"})' = Number(MpSenders, {"adding"})
      /\ Number(MpReceivers, {"holding"})' = Number(MpReceivers, {"holding"})
      /\ Number(MpReceivers, {"adding"})' = Number(MpReceivers, {"adding"})
      /\ Number(MpSenders, {"holding"}) \in Nat /\ Number(MpReceivers, {"adding"}) \in Nat
  BY <1>0, <1>1, <1>11, Zenon DEF Tallied, Counted
<1>5. FreeAddsUp'
  <2>1. ~ mpFree.closed =>
          Total(mpFree) + Number(MpSenders, {"holding"}) + Len(mpQueue) + Number(MpReceivers, {"adding"}) = MpSize
    BY Zenon DEF FreeAddsUp, MpInv
  <2>2. Total(mpFree) \in Nat /\ Len(mpQueue) \in Nat /\ MpSize \in Nat
    BY SumsAre, Zenon DEF Sums
  <2> QED BY <1>3, <1>4, <1>10, <2>1, <2>2, SMTT(30) DEF FreeAddsUp
<1>6. UsedAddsUp'
  BY <1>4, <1>10, Zenon DEF UsedAddsUp, MpInv
<1>7. MpTypeOK'
  BY <1>0, <1>10, <1>11, Zenon DEF MpTypeOK, Goes
<1>8. ClosedInOrder'
  BY <1>1, <1>3, <1>10, <1>11, Zenon DEF ClosedInOrder, MpInv, Tallied
<1> QED BY <1>2, <1>3, <1>5, <1>6, <1>7, <1>8, <1>10, Zenon DEF MpInv

LEMMA ReceiverResumes ==
  ASSUME MpInv, NEW r \in MpReceivers, ReceiveResumes(r)
  PROVE  MpInv'
<1>0. r \in MpTasks /\ MpTypeOK /\ r \notin MpSenders /\ mpTask[r] = "waiting" /\ Runs(mpUsed, r)
  BY MpmcAssumption, Zenon DEF MpTasks, MpInv, ReceiveResumes
<1>9. PICK pc : pc = (IF mpUsed.closed THEN "late" ELSE "holding")
  BY Zenon
<1>10. Goes(r, pc) /\ mpUsed' = Ran(mpUsed, r) /\ UNCHANGED <<mpQueue, mpFree, mpClosing, mpSent, mpPanicked>>
  BY <1>9, Zenon DEF ReceiveResumes
<1>11. pc \in {"late", "holding"} /\ (~ mpUsed.closed => pc = "holding")
  BY <1>9, Zenon
<1>1. Tallied(r, pc)
  BY <1>0, <1>10, AllAreTallied, Zenon
<1>2. Waiting(MpSenders)' = Waiting(MpSenders) /\ Waiting(MpReceivers)' = Waiting(MpReceivers) \ {r}
  BY <1>0, <1>1, <1>11, Zenon DEF Tallied, Moved
<1>3. /\ SemOK(mpUsed', MpReceivers, Waiting(MpReceivers) \ {r}) /\ mpUsed'.closed = mpUsed.closed
      /\ ~ mpUsed.closed => Total(mpUsed') = Total(mpUsed) - 1
  <2>1. r \in Waiting(MpReceivers)
    BY <1>0, Zenon DEF Waiting
  <2>2. SemOK(mpUsed, MpReceivers, Waiting(MpReceivers)) /\ IsFiniteSet(MpReceivers)
    BY MpmcAssumption, Zenon DEF MpInv
  <2>3. /\ SemOK(Ran(mpUsed, r), MpReceivers, Waiting(MpReceivers) \ {r}) /\ Ran(mpUsed, r).closed = mpUsed.closed
        /\ ~ mpUsed.closed => Total(Ran(mpUsed, r)) = Total(mpUsed) - 1
    BY <1>0, <2>1, <2>2, RanIs, SMTT(30)
  <2> QED BY <1>10, <2>3, Zenon
<1>4. /\ ~ mpUsed.closed => Number(MpReceivers, {"holding"})' = Number(MpReceivers, {"holding"}) + 1
      /\ Number(MpSenders, {"holding"})' = Number(MpSenders, {"holding"})
      /\ Number(MpSenders, {"adding"})' = Number(MpSenders, {"adding"})
      /\ Number(MpReceivers, {"adding"})' = Number(MpReceivers, {"adding"})
      /\ Number(MpReceivers, {"holding"}) \in Nat /\ Number(MpSenders, {"adding"}) \in Nat
  BY <1>0, <1>1, <1>11, Zenon DEF Tallied, Counted
<1>5. FreeAddsUp'
  BY <1>4, <1>10, Zenon DEF FreeAddsUp, MpInv
<1>6. UsedAddsUp'
  <2>2. ~ mpUsed.closed => Len(mpQueue) = Total(mpUsed) + Number(MpReceivers, {"holding"}) + Number(MpSenders, {"adding"})
    BY Zenon DEF UsedAddsUp, MpInv
  <2>3. Total(mpUsed) \in Nat /\ Len(mpQueue) \in Nat
    BY SumsAre, Zenon DEF Sums
  <2>1. ~ mpUsed'.closed => Len(mpQueue') = Total(mpUsed') + Number(MpReceivers, {"holding"})' + Number(MpSenders, {"adding"})'
    BY <1>3, <1>4, <1>10, <2>2, <2>3, SMTT(30)
  <2> QED BY <1>3, <1>10, <2>1, Zenon DEF UsedAddsUp, MpInv
<1>7. MpTypeOK'
  BY <1>0, <1>10, <1>11, Zenon DEF MpTypeOK, Goes
<1>8. ClosedInOrder'
  BY <1>1, <1>3, <1>9, <1>10, Zenon DEF ClosedInOrder, MpInv, Tallied
<1> QED BY <1>2, <1>3, <1>5, <1>6, <1>7, <1>8, <1>10, Zenon DEF MpInv

\* One that waits is cancelled: what it had been given is passed on.
LEMMA SenderGivesUp ==
  ASSUME MpInv, NEW s \in MpSenders, GivesUp(s)
  PROVE  MpInv'
<1>0. s \in MpTasks /\ MpTypeOK /\ s \notin MpReceivers /\ mpTask[s] = "waiting"
  BY MpmcAssumption, Zenon DEF MpTasks, MpInv, GivesUp
<1>10. Goes(s, "idle") /\ mpFree' = GiveUp(mpFree, s) /\ UNCHANGED <<mpQueue, mpUsed, mpClosing, mpSent, mpPanicked>>
  BY <1>0, Zenon DEF GivesUp
<1>1. Tallied(s, "idle")
  BY <1>0, <1>10, AllAreTallied, Zenon
<1>2. Waiting(MpSenders)' = Waiting(MpSenders) \ {s} /\ Waiting(MpReceivers)' = Waiting(MpReceivers)
  BY <1>0, <1>1, Zenon DEF Tallied, Moved
<1>3. /\ SemOK(mpFree', MpSenders, Waiting(MpSenders) \ {s}) /\ mpFree'.closed = mpFree.closed
      /\ Total(mpFree') = Total(mpFree)
  <2>1. s \in Waiting(MpSenders)
    BY <1>0, Zenon DEF Waiting
  <2>2. SemOK(mpFree, MpSenders, Waiting(MpSenders)) /\ IsFiniteSet(MpSenders)
    BY MpmcAssumption, Zenon DEF MpInv
  <2>3. /\ SemOK(GiveUp(mpFree, s), MpSenders, Waiting(MpSenders) \ {s}) /\ GiveUp(mpFree, s).closed = mpFree.closed
        /\ Total(GiveUp(mpFree, s)) = Total(mpFree)
    BY <1>0, <2>1, <2>2, GiveUpIs, SMTT(30)
  <2> QED BY <1>10, <2>3, Zenon
<1>4. /\ Number(MpSenders, {"holding"})' = Number(MpSenders, {"holding"})
      /\ Number(MpSenders, {"adding"})' = Number(MpSenders, {"adding"})
      /\ Number(MpReceivers, {"holding"})' = Number(MpReceivers, {"holding"})
      /\ Number(MpReceivers, {"adding"})' = Number(MpReceivers, {"adding"})
      /\ Number(MpSenders, {"holding"}) \in Nat /\ Number(MpSenders, {"adding"}) \in Nat
      /\ Number(MpReceivers, {"holding"}) \in Nat /\ Number(MpReceivers, {"adding"}) \in Nat
  BY <1>0, <1>1, Zenon DEF Tallied, Counted
<1>5. FreeAddsUp'
  BY <1>3, <1>4, <1>10, Zenon DEF FreeAddsUp, MpInv
<1>6. UsedAddsUp'
  BY <1>4, <1>10, Zenon DEF UsedAddsUp, MpInv
<1>7. MpTypeOK'
  BY <1>0, <1>10, Zenon DEF MpTypeOK, Goes
<1>8. ClosedInOrder'
  BY <1>1, <1>3, <1>10, Zenon DEF ClosedInOrder, MpInv, Tallied
<1> QED BY <1>2, <1>3, <1>5, <1>6, <1>7, <1>8, <1>10, Zenon DEF MpInv

LEMMA ReceiverGivesUp ==
  ASSUME MpInv, NEW r \in MpReceivers, GivesUp(r)
  PROVE  MpInv'
<1>0. r \in MpTasks /\ MpTypeOK /\ r \notin MpSenders /\ mpTask[r] = "waiting"
  BY MpmcAssumption, Zenon DEF MpTasks, MpInv, GivesUp
<1>10. Goes(r, "idle") /\ mpUsed' = GiveUp(mpUsed, r) /\ UNCHANGED <<mpQueue, mpFree, mpClosing, mpSent, mpPanicked>>
  BY <1>0, Zenon DEF GivesUp
<1>1. Tallied(r, "idle")
  BY <1>0, <1>10, AllAreTallied, Zenon
<1>2. Waiting(MpSenders)' = Waiting(MpSenders) /\ Waiting(MpReceivers)' = Waiting(MpReceivers) \ {r}
  BY <1>0, <1>1, Zenon DEF Tallied, Moved
<1>3. /\ SemOK(mpUsed', MpReceivers, Waiting(MpReceivers) \ {r}) /\ mpUsed'.closed = mpUsed.closed
      /\ Total(mpUsed') = Total(mpUsed)
  <2>1. r \in Waiting(MpReceivers)
    BY <1>0, Zenon DEF Waiting
  <2>2. SemOK(mpUsed, MpReceivers, Waiting(MpReceivers)) /\ IsFiniteSet(MpReceivers)
    BY MpmcAssumption, Zenon DEF MpInv
  <2>3. /\ SemOK(GiveUp(mpUsed, r), MpReceivers, Waiting(MpReceivers) \ {r}) /\ GiveUp(mpUsed, r).closed = mpUsed.closed
        /\ Total(GiveUp(mpUsed, r)) = Total(mpUsed)
    BY <1>0, <2>1, <2>2, GiveUpIs, SMTT(30)
  <2> QED BY <1>10, <2>3, Zenon
<1>4. /\ Number(MpSenders, {"holding"})' = Number(MpSenders, {"holding"})
      /\ Number(MpSenders, {"adding"})' = Number(MpSenders, {"adding"})
      /\ Number(MpReceivers, {"holding"})' = Number(MpReceivers, {"holding"})
      /\ Number(MpReceivers, {"adding"})' = Number(MpReceivers, {"adding"})
      /\ Number(MpSenders, {"holding"}) \in Nat /\ Number(MpSenders, {"adding"}) \in Nat
      /\ Number(MpReceivers, {"holding"}) \in Nat /\ Number(MpReceivers, {"adding"}) \in Nat
  BY <1>0, <1>1, Zenon DEF Tallied, Counted
<1>5. FreeAddsUp'
  BY <1>4, <1>10, Zenon DEF FreeAddsUp, MpInv
<1>6. UsedAddsUp'
  BY <1>3, <1>4, <1>10, Zenon DEF UsedAddsUp, MpInv
<1>7. MpTypeOK'
  BY <1>0, <1>10, Zenon DEF MpTypeOK, Goes
<1>8. ClosedInOrder'
  BY <1>1, <1>3, <1>10, Zenon DEF ClosedInOrder, MpInv, Tallied
<1> QED BY <1>2, <1>3, <1>5, <1>6, <1>7, <1>8, <1>10, Zenon DEF MpInv

\* A permit for a message that is in the deque, or for a place that is free again.
LEMMA UsedIsAdded ==
  ASSUME MpInv, NEW s \in MpSenders, AddUsed(s)
  PROVE  MpInv'
<1>0. s \in MpTasks /\ MpTypeOK /\ s \notin MpReceivers /\ mpTask[s] = "adding"
  BY MpmcAssumption, Zenon DEF MpTasks, MpInv, AddUsed
<1>10. Goes(s, "idle") /\ mpUsed' = AddPermit(mpUsed) /\ UNCHANGED <<mpQueue, mpFree, mpClosing, mpSent, mpPanicked>>
  BY Zenon DEF AddUsed
<1>1. Tallied(s, "idle")
  BY <1>0, <1>10, AllAreTallied, Zenon
<1>2. Waiting(MpSenders)' = Waiting(MpSenders) /\ Waiting(MpReceivers)' = Waiting(MpReceivers)
  BY <1>0, <1>1, Zenon DEF Tallied, Moved
<1>3. /\ SemOK(mpUsed', MpReceivers, Waiting(MpReceivers)) /\ mpUsed'.closed = mpUsed.closed
      /\ Total(mpUsed') = Total(mpUsed) + 1
  BY <1>10, AddPermitIs, MpmcAssumption, Zenon DEF MpInv
<1>4. /\ Number(MpSenders, {"holding"})' = Number(MpSenders, {"holding"})
      /\ Number(MpSenders, {"adding"})' = Number(MpSenders, {"adding"}) - 1
      /\ Number(MpReceivers, {"holding"})' = Number(MpReceivers, {"holding"})
      /\ Number(MpReceivers, {"adding"})' = Number(MpReceivers, {"adding"})
      /\ Number(MpSenders, {"holding"}) \in Nat /\ Number(MpSenders, {"adding"}) \in Nat
      /\ Number(MpReceivers, {"holding"}) \in Nat /\ Number(MpReceivers, {"adding"}) \in Nat
  BY <1>0, <1>1, Zenon DEF Tallied, Counted
<1>5. FreeAddsUp'
  BY <1>4, <1>10, Zenon DEF FreeAddsUp, MpInv
<1>6. UsedAddsUp'
  <2>2. ~ mpUsed.closed => Len(mpQueue) = Total(mpUsed) + Number(MpReceivers, {"holding"}) + Number(MpSenders, {"adding"})
    BY Zenon DEF UsedAddsUp, MpInv
  <2>3. Total(mpUsed) \in Nat /\ Len(mpQueue) \in Nat
    BY SumsAre, Zenon DEF Sums
  <2>1. ~ mpUsed'.closed => Len(mpQueue') = Total(mpUsed') + Number(MpReceivers, {"holding"})' + Number(MpSenders, {"adding"})'
    BY <1>3, <1>4, <1>10, <2>2, <2>3, SMTT(30)
  <2> QED BY <1>3, <1>10, <2>1, Zenon DEF UsedAddsUp, MpInv
<1>7. MpTypeOK'
  BY <1>0, <1>10, Zenon DEF MpTypeOK, Goes
<1>8. ClosedInOrder'
  BY <1>1, <1>3, <1>10, Zenon DEF ClosedInOrder, MpInv, Tallied
<1> QED BY <1>2, <1>3, <1>5, <1>6, <1>7, <1>8, <1>10, Zenon DEF MpInv

LEMMA FreeIsAdded ==
  ASSUME MpInv, NEW r \in MpReceivers, AddFree(r)
  PROVE  MpInv'
<1>0. r \in MpTasks /\ MpTypeOK /\ r \notin MpSenders /\ mpTask[r] = "adding"
  BY MpmcAssumption, Zenon DEF MpTasks, MpInv, AddFree
<1>10. Goes(r, "idle") /\ mpFree' = AddPermit(mpFree) /\ UNCHANGED <<mpQueue, mpUsed, mpClosing, mpSent, mpPanicked>>
  BY Zenon DEF AddFree
<1>1. Tallied(r, "idle")
  BY <1>0, <1>10, AllAreTallied, Zenon
<1>2. Waiting(MpSenders)' = Waiting(MpSenders) /\ Waiting(MpReceivers)' = Waiting(MpReceivers)
  BY <1>0, <1>1, Zenon DEF Tallied, Moved
<1>3. /\ SemOK(mpFree', MpSenders, Waiting(MpSenders)) /\ mpFree'.closed = mpFree.closed
      /\ Total(mpFree') = Total(mpFree) + 1
  BY <1>10, AddPermitIs, MpmcAssumption, Zenon DEF MpInv
<1>4. /\ Number(MpSenders, {"holding"})' = Number(MpSenders, {"holding"})
      /\ Number(MpSenders, {"adding"})' = Number(MpSenders, {"adding"})
      /\ Number(MpReceivers, {"holding"})' = Number(MpReceivers, {"holding"})
      /\ Number(MpReceivers, {"adding"})' = Number(MpReceivers, {"adding"}) - 1
      /\ Number(MpSenders, {"holding"}) \in Nat /\ Number(MpSenders, {"adding"}) \in Nat
      /\ Number(MpReceivers, {"holding"}) \in Nat /\ Number(MpReceivers, {"adding"}) \in Nat
  BY <1>0, <1>1, Zenon DEF Tallied, Counted
<1>5. FreeAddsUp'
  <2>1. ~ mpFree.closed =>
          Total(mpFree) + Number(MpSenders, {"holding"}) + Len(mpQueue) + Number(MpReceivers, {"adding"}) = MpSize
    BY Zenon DEF FreeAddsUp, MpInv
  <2>2. Total(mpFree) \in Nat /\ Len(mpQueue) \in Nat /\ MpSize \in Nat
    BY SumsAre, Zenon DEF Sums
  <2> QED BY <1>3, <1>4, <1>10, <2>1, <2>2, SMTT(30) DEF FreeAddsUp
<1>6. UsedAddsUp'
  BY <1>4, <1>10, Zenon DEF UsedAddsUp, MpInv
<1>7. MpTypeOK'
  BY <1>0, <1>10, Zenon DEF MpTypeOK, Goes
<1>8. ClosedInOrder'
  BY <1>1, <1>3, <1>10, Zenon DEF ClosedInOrder, MpInv, Tallied
<1> QED BY <1>2, <1>3, <1>5, <1>6, <1>7, <1>8, <1>10, Zenon DEF MpInv

\* The deque, between the two permits.
LEMMA MessageIsPushed ==
  ASSUME MpInv, NEW s \in MpSenders, PushMessage(s)
  PROVE  MpInv'
<1>0. s \in MpTasks /\ MpTypeOK /\ s \notin MpReceivers /\ mpTask[s] = "holding"
  BY MpmcAssumption, Zenon DEF MpTasks, MpInv, PushMessage
<1>10. Goes(s, "adding") /\ UNCHANGED <<mpFree, mpUsed, mpClosing, mpPanicked>>
  BY Zenon DEF PushMessage
<1>1. Tallied(s, "adding")
  BY <1>0, <1>10, AllAreTallied, Zenon
<1>2. Waiting(MpSenders)' = Waiting(MpSenders) /\ Waiting(MpReceivers)' = Waiting(MpReceivers)
  BY <1>0, <1>1, Zenon DEF Tallied, Moved
<1>3. mpQueue' \in Seq(Nat) /\ mpSent' \in Nat /\ Len(mpQueue') = Len(mpQueue) + 1
  BY <1>0 DEF PushMessage, MpTypeOK
<1>4. /\ Number(MpSenders, {"holding"})' = Number(MpSenders, {"holding"}) - 1
      /\ Number(MpSenders, {"adding"})' = Number(MpSenders, {"adding"}) + 1
      /\ Number(MpReceivers, {"holding"})' = Number(MpReceivers, {"holding"})
      /\ Number(MpReceivers, {"adding"})' = Number(MpReceivers, {"adding"})
      /\ Number(MpSenders, {"holding"}) \in Nat /\ Number(MpSenders, {"adding"}) \in Nat
      /\ Number(MpReceivers, {"holding"}) \in Nat /\ Number(MpReceivers, {"adding"}) \in Nat
  BY <1>0, <1>1, Zenon DEF Tallied, Counted
<1>9. Len(mpQueue') = Len(mpQueue) + 1
  BY <1>3, Zenon
<1>5. FreeAddsUp'
  <2>1. ~ mpFree.closed =>
          Total(mpFree) + Number(MpSenders, {"holding"}) + Len(mpQueue) + Number(MpReceivers, {"adding"}) = MpSize
    BY Zenon DEF FreeAddsUp, MpInv
  <2>2. Total(mpFree) \in Nat /\ Len(mpQueue) \in Nat /\ MpSize \in Nat
    BY SumsAre, Zenon DEF Sums
  <2>3. mpFree'.closed = mpFree.closed /\ Total(mpFree') = Total(mpFree)
    BY <1>10, Zenon
  <2> QED BY <1>4, <1>9, <2>1, <2>2, <2>3, SMTT(30) DEF FreeAddsUp
<1>6. UsedAddsUp'
  <2>2. ~ mpUsed.closed => Len(mpQueue) = Total(mpUsed) + Number(MpReceivers, {"holding"}) + Number(MpSenders, {"adding"})
    BY Zenon DEF UsedAddsUp, MpInv
  <2>3. Total(mpUsed) \in Nat /\ Len(mpQueue) \in Nat
    BY SumsAre, Zenon DEF Sums
  <2>4. mpUsed'.closed = mpUsed.closed /\ Total(mpUsed') = Total(mpUsed)
    BY <1>10, Zenon
  <2>1. ~ mpUsed'.closed => Len(mpQueue') = Total(mpUsed') + Number(MpReceivers, {"holding"})' + Number(MpSenders, {"adding"})'
    BY <1>4, <1>9, <2>2, <2>3, <2>4, SMTT(30)
  <2> QED BY <1>10, <2>1, Zenon DEF UsedAddsUp, MpInv
<1>7. MpTypeOK'
  BY <1>0, <1>3, <1>10, Zenon DEF MpTypeOK, Goes
<1>8. ClosedInOrder'
  BY <1>1, <1>10, Zenon DEF ClosedInOrder, MpInv, Tallied
<1> QED BY <1>2, <1>5, <1>6, <1>7, <1>8, <1>10, Zenon DEF MpInv

LEMMA FirstIsGone ==
  ASSUME NEW q \in Seq(Nat), q # <<>>
  PROVE  Tail(q) \in Seq(Nat) /\ Len(Tail(q)) = Len(q) - 1
BY SMTT(30)

LEMMA MessageIsPopped ==
  ASSUME MpInv, NEW r \in MpReceivers, PopMessage(r), mpQueue # <<>>
  PROVE  MpInv'
<1>0. r \in MpTasks /\ MpTypeOK /\ r \notin MpSenders /\ mpTask[r] = "holding"
  BY MpmcAssumption, Zenon DEF MpTasks, MpInv, PopMessage
<1>10. Goes(r, "adding") /\ mpQueue' = Tail(mpQueue) /\ UNCHANGED <<mpFree, mpUsed, mpClosing, mpSent, mpPanicked>>
  BY Zenon DEF PopMessage
<1>1. Tallied(r, "adding")
  BY <1>0, <1>10, AllAreTallied, Zenon
<1>2. Waiting(MpSenders)' = Waiting(MpSenders) /\ Waiting(MpReceivers)' = Waiting(MpReceivers)
  BY <1>0, <1>1, Zenon DEF Tallied, Moved
<1>3. mpQueue' \in Seq(Nat) /\ Len(mpQueue') = Len(mpQueue) - 1
  <2>1. mpQueue \in Seq(Nat)
    BY <1>0, Zenon DEF MpTypeOK
  <2> QED BY <1>10, <2>1, FirstIsGone, Zenon
<1>4. /\ Number(MpSenders, {"holding"})' = Number(MpSenders, {"holding"})
      /\ Number(MpSenders, {"adding"})' = Number(MpSenders, {"adding"})
      /\ Number(MpReceivers, {"holding"})' = Number(MpReceivers, {"holding"}) - 1
      /\ Number(MpReceivers, {"adding"})' = Number(MpReceivers, {"adding"}) + 1
      /\ Number(MpSenders, {"holding"}) \in Nat /\ Number(MpSenders, {"adding"}) \in Nat
      /\ Number(MpReceivers, {"holding"}) \in Nat /\ Number(MpReceivers, {"adding"}) \in Nat
  BY <1>0, <1>1, Zenon DEF Tallied, Counted
<1>9. Len(mpQueue') = Len(mpQueue) - 1
  BY <1>3, Zenon
<1>5. FreeAddsUp'
  <2>1. ~ mpFree.closed =>
          Total(mpFree) + Number(MpSenders, {"holding"}) + Len(mpQueue) + Number(MpReceivers, {"adding"}) = MpSize
    BY Zenon DEF FreeAddsUp, MpInv
  <2>2. Total(mpFree) \in Nat /\ Len(mpQueue) \in Nat /\ MpSize \in Nat
    BY SumsAre, Zenon DEF Sums
  <2>3. mpFree'.closed = mpFree.closed /\ Total(mpFree') = Total(mpFree)
    BY <1>10, Zenon
  <2> QED BY <1>4, <1>9, <2>1, <2>2, <2>3, SMTT(30) DEF FreeAddsUp
<1>6. UsedAddsUp'
  <2>2. ~ mpUsed.closed => Len(mpQueue) = Total(mpUsed) + Number(MpReceivers, {"holding"}) + Number(MpSenders, {"adding"})
    BY Zenon DEF UsedAddsUp, MpInv
  <2>3. Total(mpUsed) \in Nat /\ Len(mpQueue) \in Nat
    BY SumsAre, Zenon DEF Sums
  <2>4. mpUsed'.closed = mpUsed.closed /\ Total(mpUsed') = Total(mpUsed)
    BY <1>10, Zenon
  <2>1. ~ mpUsed'.closed => Len(mpQueue') = Total(mpUsed') + Number(MpReceivers, {"holding"})' + Number(MpSenders, {"adding"})'
    BY <1>4, <1>9, <2>2, <2>3, <2>4, SMTT(30)
  <2> QED BY <1>10, <2>1, Zenon DEF UsedAddsUp, MpInv
<1>7. MpTypeOK'
  BY <1>0, <1>3, <1>10, Zenon DEF MpTypeOK, Goes
<1>8. ClosedInOrder'
  BY <1>1, <1>10, Zenon DEF ClosedInOrder, MpInv, Tallied
<1> QED BY <1>2, <1>5, <1>6, <1>7, <1>8, <1>10, Zenon DEF MpInv

\* Only when the channel is closed can a receiver that holds a permit find nothing:
\* those that came late have taken it.
LEMMA NothingIsPopped ==
  ASSUME MpInv, NEW r \in MpReceivers, PopMessage(r), mpQueue = <<>>
  PROVE  MpInv'
<1>0. r \in MpTasks /\ MpTypeOK /\ r \notin MpSenders /\ mpTask[r] = "holding"
  BY MpmcAssumption, Zenon DEF MpTasks, MpInv, PopMessage
<1>10. Goes(r, "gone") /\ mpPanicked' = TRUE /\ UNCHANGED <<mpQueue, mpFree, mpUsed, mpClosing, mpSent>>
  BY Zenon DEF PopMessage
<1>1. Tallied(r, "gone")
  BY <1>0, <1>10, AllAreTallied, Zenon
<1>2. Waiting(MpSenders)' = Waiting(MpSenders) /\ Waiting(MpReceivers)' = Waiting(MpReceivers)
  BY <1>0, <1>1, Zenon DEF Tallied, Moved
<1>4. /\ Number(MpReceivers, {"holding"})' = Number(MpReceivers, {"holding"}) - 1
      /\ Number(MpReceivers, {"holding"})' \in Nat /\ Number(MpReceivers, {"holding"}) \in Nat
      /\ Number(MpSenders, {"adding"}) \in Nat
  BY <1>0, <1>1, Zenon DEF Tallied, Counted
<1>3. mpUsed.closed
  <2>1. Len(mpQueue) = 0
    BY SMT
  <2>2. ~ mpUsed.closed => Len(mpQueue) = Total(mpUsed) + Number(MpReceivers, {"holding"}) + Number(MpSenders, {"adding"})
    BY Zenon DEF UsedAddsUp, MpInv
  <2> QED BY <1>4, <2>1, <2>2, SumsAre DEF Sums
<1>5. mpFree.closed
  BY <1>3, Zenon DEF ClosedInOrder, MpInv
<1>6. FreeAddsUp' /\ UsedAddsUp'
  BY <1>3, <1>5, <1>10, Zenon DEF FreeAddsUp, UsedAddsUp
<1>7. MpTypeOK'
  BY <1>0, <1>10, Zenon DEF MpTypeOK, Goes
<1>8. ClosedInOrder'
  BY <1>1, <1>10, Zenon DEF ClosedInOrder, MpInv, Tallied
<1> QED BY <1>2, <1>6, <1>7, <1>8, <1>10, Zenon DEF MpInv

LEMMA LateIsPopped ==
  ASSUME MpInv, NEW r \in MpReceivers, PopLate(r)
  PROVE  MpInv'
<1>0. r \in MpTasks /\ MpTypeOK /\ r \notin MpSenders /\ mpTask[r] = "late"
  BY MpmcAssumption, Zenon DEF MpTasks, MpInv, PopLate
<1>10. Goes(r, "idle") /\ UNCHANGED <<mpFree, mpUsed, mpClosing, mpSent, mpPanicked>>
  BY Zenon DEF PopLate
<1>1. Tallied(r, "idle")
  BY <1>0, <1>10, AllAreTallied, Zenon
<1>2. Waiting(MpSenders)' = Waiting(MpSenders) /\ Waiting(MpReceivers)' = Waiting(MpReceivers)
  BY <1>0, <1>1, Zenon DEF Tallied, Moved
<1>3. mpUsed.closed /\ mpFree.closed
  BY <1>0, Zenon DEF ClosedInOrder, MpInv
<1>4. mpQueue' \in Seq(Nat)
  <2>1. mpQueue \in Seq(Nat)
    BY <1>0, Zenon DEF MpTypeOK
  <2> QED BY <2>1, FirstIsGone, Zenon DEF PopLate
<1>6. FreeAddsUp' /\ UsedAddsUp'
  BY <1>3, <1>10, Zenon DEF FreeAddsUp, UsedAddsUp
<1>7. MpTypeOK'
  BY <1>0, <1>4, <1>10, Zenon DEF MpTypeOK, Goes
<1>8. ClosedInOrder'
  BY <1>1, <1>10, Zenon DEF ClosedInOrder, MpInv, Tallied
<1> QED BY <1>2, <1>6, <1>7, <1>8, <1>10, Zenon DEF MpInv

\* A call that finds the channel closed: send returns, recv takes what is left.
LEMMA BeginsLate ==
  ASSUME MpInv, NEW t \in MpTasks, mpTask[t] = "idle", NEW pc \in {"idle", "late", "gone"}, Goes(t, pc),
         pc = "late" => mpUsed.closed,
         UNCHANGED <<mpQueue, mpFree, mpUsed, mpClosing, mpSent, mpPanicked>>
  PROVE  MpInv'
<1>0. MpTypeOK
  BY Zenon DEF MpInv
<1>1. Tallied(t, pc)
  BY <1>0, AllAreTallied, Zenon
<1>2. Waiting(MpSenders)' = Waiting(MpSenders) /\ Waiting(MpReceivers)' = Waiting(MpReceivers)
  BY <1>1, Zenon DEF Tallied, Moved
<1>4. /\ Number(MpSenders, {"holding"})' = Number(MpSenders, {"holding"})
      /\ Number(MpSenders, {"adding"})' = Number(MpSenders, {"adding"})
      /\ Number(MpReceivers, {"holding"})' = Number(MpReceivers, {"holding"})
      /\ Number(MpReceivers, {"adding"})' = Number(MpReceivers, {"adding"})
      /\ Number(MpSenders, {"holding"}) \in Nat /\ Number(MpSenders, {"adding"}) \in Nat
      /\ Number(MpReceivers, {"holding"}) \in Nat /\ Number(MpReceivers, {"adding"}) \in Nat
  BY <1>0, <1>1, Zenon DEF Tallied, Counted
<1>6. FreeAddsUp' /\ UsedAddsUp'
  BY <1>4, Zenon DEF FreeAddsUp, UsedAddsUp, MpInv
<1>7. MpTypeOK'
  BY <1>0, Zenon DEF MpTypeOK, Goes
<1>8. ClosedInOrder'
  BY <1>1, Zenon DEF ClosedInOrder, MpInv, Tallied
<1> QED BY <1>2, <1>6, <1>7, <1>8, Zenon DEF MpInv

\* free is closed, by close() or because the last task of a side goes.
LEMMA FreeCloses ==
  ASSUME MpInv, NEW t \in MpTasks, mpTask[t] = "idle", NEW pc \in {"idle", "gone"}, Goes(t, pc),
         mpFree' = CloseSemaphore(mpFree), mpClosing' = TRUE,
         UNCHANGED <<mpQueue, mpUsed, mpSent, mpPanicked>>
  PROVE  MpInv'
<1>0. MpTypeOK
  BY Zenon DEF MpInv
<1>1. Tallied(t, pc)
  BY <1>0, AllAreTallied, Zenon
<1>2. Waiting(MpSenders)' = Waiting(MpSenders) /\ Waiting(MpReceivers)' = Waiting(MpReceivers)
  BY <1>1, Zenon DEF Tallied, Moved
<1>3. SemOK(mpFree', MpSenders, Waiting(MpSenders)) /\ mpFree'.closed
  BY CloseIs, Zenon DEF MpInv
<1>4. /\ Number(MpSenders, {"holding"})' = Number(MpSenders, {"holding"})
      /\ Number(MpSenders, {"adding"})' = Number(MpSenders, {"adding"})
      /\ Number(MpReceivers, {"holding"})' = Number(MpReceivers, {"holding"})
      /\ Number(MpReceivers, {"adding"})' = Number(MpReceivers, {"adding"})
      /\ Number(MpSenders, {"holding"}) \in Nat /\ Number(MpSenders, {"adding"}) \in Nat
      /\ Number(MpReceivers, {"holding"}) \in Nat /\ Number(MpReceivers, {"adding"}) \in Nat
  BY <1>0, <1>1, Zenon DEF Tallied, Counted
<1>6. FreeAddsUp' /\ UsedAddsUp'
  BY <1>3, <1>4, Zenon DEF FreeAddsUp, UsedAddsUp, MpInv
<1>7. MpTypeOK'
  BY <1>0, Zenon DEF MpTypeOK, Goes
<1>8. ClosedInOrder'
  BY <1>1, <1>3, Zenon DEF ClosedInOrder, MpInv, Tallied
<1> QED BY <1>2, <1>3, <1>6, <1>7, <1>8, Zenon DEF MpInv

LEMMA UsedCloses ==
  ASSUME MpInv, CloseUsed
  PROVE  MpInv'
<1>1. /\ mpClosing /\ mpClosing' = FALSE /\ mpUsed' = CloseSemaphore(mpUsed)
      /\ UNCHANGED <<mpQueue, mpFree, mpTask, mpSent, mpPanicked>>
  BY Zenon DEF CloseUsed
<1>2. Waiting(MpSenders)' = Waiting(MpSenders) /\ Waiting(MpReceivers)' = Waiting(MpReceivers)
  BY <1>1, Zenon DEF Waiting
<1>3. SemOK(mpUsed', MpReceivers, Waiting(MpReceivers)) /\ mpUsed'.closed
  BY <1>1, CloseIs, Zenon DEF MpInv
<1>4. mpFree.closed
  BY <1>1, Zenon DEF ClosedInOrder, MpInv
<1>6. FreeAddsUp' /\ UsedAddsUp'
  BY <1>1, <1>3, <1>4, Zenon DEF FreeAddsUp, UsedAddsUp
<1>7. MpTypeOK'
  BY <1>1, Zenon DEF MpTypeOK, MpInv
<1>8. ClosedInOrder'
  BY <1>1, <1>3, <1>4, Zenon DEF ClosedInOrder
<1> QED BY <1>1, <1>2, <1>3, <1>6, <1>7, <1>8, Zenon DEF MpInv

-----------------------------------------------------------------------------
LEMMA NewIs ==
  ASSUME NEW S, NEW n \in Nat
  PROVE  /\ SemOK(NewSemaphore(n), S, {}) /\ Total(NewSemaphore(n)) = n
         /\ NewSemaphore(n).closed = FALSE
<1>1. PICK r : r = NewSemaphore(n)
  BY Zenon
<1>2. r \in Semaphores(S) /\ r.permits = n /\ r.waiting = <<>> /\ r.given = {} /\ r.told = {} /\ r.closed = FALSE
  <2>1. <<>> \in Seq(S)
    BY SMT
  <2> QED BY <1>1, <2>1, Zenon DEF NewSemaphore, Semaphores
<1>3. SemOK(r, S, {})
  BY <1>2, NoOneIn, Zenon DEF SemOK
<1>4. Total(r) = n
  <2>1. Cardinality({}) = 0
    BY FS_EmptySet, Zenon
  <2> QED BY <1>2, <2>1 DEF Total
<1> QED BY <1>1, <1>2, <1>3, <1>4, Zenon

LEMMA MpmcBegins == MpmcInit => MpInv
<1> SUFFICES ASSUME MpmcInit PROVE MpInv
  BY Zenon
<1>1. /\ mpQueue = <<>> /\ mpFree = NewSemaphore(MpSize) /\ mpUsed = NewSemaphore(0)
      /\ mpTask = [t \in MpTasks |-> "idle"] /\ mpClosing = FALSE /\ mpSent = 0 /\ mpPanicked = FALSE
  BY Zenon DEF MpmcInit
<1>2. \A t \in MpTasks : mpTask[t] = "idle"
  BY <1>1, Zenon
<1>3. MpSenders \subseteq MpTasks /\ MpReceivers \subseteq MpTasks
  BY Zenon DEF MpTasks
<1>4. Waiting(MpSenders) = {} /\ Waiting(MpReceivers) = {}
  BY <1>2, <1>3, Zenon DEF Waiting
<1>5. /\ Number(MpSenders, {"holding"}) = 0 /\ Number(MpSenders, {"adding"}) = 0
      /\ Number(MpReceivers, {"holding"}) = 0 /\ Number(MpReceivers, {"adding"}) = 0
  <2>1. Cardinality({}) = 0
    BY FS_EmptySet, Zenon
  <2>2. /\ {t \in MpSenders : mpTask[t] \in {"holding"}} = {} /\ {t \in MpSenders : mpTask[t] \in {"adding"}} = {}
        /\ {t \in MpReceivers : mpTask[t] \in {"holding"}} = {} /\ {t \in MpReceivers : mpTask[t] \in {"adding"}} = {}
    BY <1>2, <1>3, Zenon
  <2> QED BY <2>1, <2>2, Zenon DEF Number
<1>6. 0 \in Nat /\ MpSize \in Nat /\ <<>> \in Seq(Nat) /\ Len(mpQueue) = 0
  BY <1>1, MpmcAssumption
<1>7. /\ SemOK(mpFree, MpSenders, {}) /\ Total(mpFree) = MpSize /\ mpFree.closed = FALSE
      /\ SemOK(mpUsed, MpReceivers, {}) /\ Total(mpUsed) = 0 /\ mpUsed.closed = FALSE
  BY <1>1, <1>6, NewIs, Zenon
<1>8. MpTypeOK
  BY <1>1, <1>6, Zenon DEF MpTypeOK
<1>9. ClosedInOrder
  BY <1>1, <1>2, <1>3, <1>7, Zenon DEF ClosedInOrder
<1>10. FreeAddsUp
  BY <1>5, <1>6, <1>7 DEF FreeAddsUp
<1>11. UsedAddsUp
  <2>1. Len(mpQueue) = Total(mpUsed) + Number(MpReceivers, {"holding"}) + Number(MpSenders, {"adding"})
    BY <1>5, <1>6, <1>7
  <2> QED BY <1>1, <2>1, Zenon DEF UsedAddsUp
<1> QED BY <1>4, <1>7, <1>8, <1>9, <1>10, <1>11, Zenon DEF MpInv

LEMMA MpmcContinues == MpInv /\ [MpmcNext]_mpmcVars => MpInv'
<1> SUFFICES ASSUME MpInv, [MpmcNext]_mpmcVars PROVE MpInv'
  BY Zenon
<1>0. MpSenders \subseteq MpTasks /\ MpReceivers \subseteq MpTasks /\ mpTask \in [MpTasks -> {"idle", "waiting", "holding", "adding", "late", "gone"}]
  BY Zenon DEF MpTasks, MpInv, MpTypeOK
<1>1. CASE CloseFree
  <2>1. PICK t \in MpTasks : mpTask[t] = "idle"
    BY <1>1, Zenon DEF CloseFree
  <2>2. /\ mpFree' = CloseSemaphore(mpFree) /\ mpClosing' = TRUE /\ mpTask' = mpTask
        /\ UNCHANGED <<mpQueue, mpUsed, mpSent, mpPanicked>>
    BY <1>1, Zenon DEF CloseFree
  <2>3. Goes(t, "idle")
    BY <1>0, <2>1, <2>2, Zenon DEF Goes
  <2> QED BY <2>1, <2>2, <2>3, FreeCloses, Zenon
<1>2. CASE CloseUsed
  BY <1>2, UsedCloses, Zenon
<1>3. ASSUME NEW s \in MpSenders, SendBegins(s) \/ TrySendBegins(s) PROVE MpInv'
  <2>1. s \in MpTasks /\ mpTask[s] = "idle" /\ UNCHANGED <<mpQueue, mpUsed, mpClosing, mpSent, mpPanicked>>
    BY <1>0, <1>3, Zenon DEF SendBegins, TrySendBegins
  <2>2. CASE mpFree.closed /\ Goes(s, "idle") /\ UNCHANGED mpFree
    BY <2>1, <2>2, BeginsLate, Zenon
  <2>3. CASE HasPermit(mpFree) /\ Goes(s, "holding") /\ mpFree' = TakePermit(mpFree)
    BY <2>1, <2>3, SenderTakes, Zenon
  <2>4. CASE ~mpFree.closed /\ ~HasPermit(mpFree) /\ Goes(s, "waiting") /\ mpFree' = WaitFor(mpFree, s)
    BY <2>1, <2>4, SenderWaits, Zenon
  <2> QED BY <1>3, <2>2, <2>3, <2>4, Zenon DEF SendBegins, TrySendBegins
<1>4. ASSUME NEW r \in MpReceivers, ReceiveBegins(r) PROVE MpInv'
  <2>1. r \in MpTasks /\ mpTask[r] = "idle" /\ UNCHANGED <<mpQueue, mpFree, mpClosing, mpSent, mpPanicked>>
    BY <1>0, <1>4, Zenon DEF ReceiveBegins
  <2>2. CASE mpUsed.closed /\ Goes(r, "late") /\ UNCHANGED mpUsed
    BY <2>1, <2>2, BeginsLate, Zenon
  <2>3. CASE HasPermit(mpUsed) /\ Goes(r, "holding") /\ mpUsed' = TakePermit(mpUsed)
    BY <2>1, <2>3, ReceiverTakes, Zenon
  <2>4. CASE ~mpUsed.closed /\ ~HasPermit(mpUsed) /\ Goes(r, "waiting") /\ mpUsed' = WaitFor(mpUsed, r)
    BY <2>1, <2>4, ReceiverWaits, Zenon
  <2> QED BY <1>4, <2>2, <2>3, <2>4, Zenon DEF ReceiveBegins
<1>5. ASSUME NEW s \in MpSenders, SendResumes(s) \/ PushMessage(s) \/ AddUsed(s) PROVE MpInv'
  BY <1>5, SenderResumes, MessageIsPushed, UsedIsAdded, Zenon
<1>6. ASSUME NEW r \in MpReceivers, ReceiveResumes(r) \/ PopMessage(r) \/ PopLate(r) \/ AddFree(r) PROVE MpInv'
  BY <1>6, ReceiverResumes, MessageIsPopped, NothingIsPopped, LateIsPopped, FreeIsAdded, Zenon
<1>7. ASSUME NEW t \in MpTasks, GivesUp(t) PROVE MpInv'
  BY <1>7, SenderGivesUp, ReceiverGivesUp, Zenon DEF MpTasks
<1>8. ASSUME NEW t \in MpTasks, DropEnd(t) PROVE MpInv'
  <2>1. mpTask[t] = "idle" /\ Goes(t, "gone") /\ UNCHANGED <<mpQueue, mpUsed, mpSent, mpPanicked>>
    BY <1>8, Zenon DEF DropEnd
  <2>2. CASE mpFree' = CloseSemaphore(mpFree) /\ mpClosing' = TRUE
    BY <2>1, <2>2, FreeCloses, Zenon
  <2>3. CASE mpFree' = mpFree /\ mpClosing' = mpClosing
    BY <2>1, <2>3, BeginsLate, Zenon
  <2>4. mpClosing \in BOOLEAN
    BY Zenon DEF MpInv, MpTypeOK
  <2> QED BY <1>8, <2>2, <2>3, <2>4, Zenon DEF DropEnd
<1>9. CASE UNCHANGED mpmcVars
  <2>1. UNCHANGED <<mpQueue, mpFree, mpUsed, mpTask, mpClosing, mpSent, mpPanicked>>
    BY <1>9, Zenon DEF mpmcVars
  <2> QED BY <2>1, Zenon DEF MpInv, MpTypeOK, SemOK, Waiting, ClosedInOrder, FreeAddsUp, UsedAddsUp, Number, Total
<1> QED BY <1>1, <1>2, <1>3, <1>4, <1>5, <1>6, <1>7, <1>8, <1>9, Zenon DEF MpmcNext

LEMMA MpmcHolds == MpInv => MpmcIsSound
<1> SUFFICES ASSUME MpInv PROVE MpmcIsSound
  BY Zenon
<1>1. PermitsAddUp
  BY Zenon DEF MpInv, FreeAddsUp, UsedAddsUp, Total, PermitsAddUp
<1>2. ASSUME NEW s \in MpSenders, mpTask[s] = "waiting", ~ Runs(mpFree, s)
      PROVE  mpFree.permits = 0 /\ ~ mpFree.closed
  <2>1. s \in Range(mpFree.waiting)
    BY <1>2, Zenon DEF MpInv, SemOK, Waiting, Runs
  <2>2. mpFree.waiting # <<>>
    BY <2>1, NoOneIn, Zenon
  <2> QED BY <2>2, Zenon DEF MpInv, SemOK
<1>3. ASSUME NEW r \in MpReceivers, mpTask[r] = "waiting", ~ Runs(mpUsed, r)
      PROVE  mpUsed.permits = 0 /\ ~ mpUsed.closed /\ (mpFree.closed => mpClosing)
  <2>1. r \in Range(mpUsed.waiting)
    BY <1>3, Zenon DEF MpInv, SemOK, Waiting, Runs
  <2>2. mpUsed.waiting # <<>>
    BY <2>1, NoOneIn, Zenon
  <2> QED BY <2>2, Zenon DEF MpInv, SemOK, ClosedInOrder
<1> QED BY <1>1, <1>2, <1>3, Zenon DEF MpmcIsSound, NoOneSleepsInVain

\* The places of the mpmc channel are accounted for, and no one sleeps in vain
\* (MpmcIsSound), for any number of senders and receivers and any size: the permits
\* of the two semaphores and those in the hands of the tasks add up, whoever is
\* cancelled in send or recv, until the channel is closed.
THEOREM PlacesAreAccounted == MpmcSpec => []MpmcIsSound
<1> QED BY MpmcBegins, MpmcContinues, MpmcHolds, PTL DEF MpmcSpec
=============================================================================
