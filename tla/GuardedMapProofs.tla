-------------------------- MODULE GuardedMapProofs --------------------------
(***************************************************************************)
(* The guards of a GuardedMap exclude each other and speak for the cells   *)
(* of their keys, whatever its users do: GuardedMapInv holds of a map with *)
(* no guards out, and every operation keeps it.                            *)
(***************************************************************************)
EXTENDS GuardedMap, TLAPS

USE GuardedMapConstants

\* A map of committed cells with no guards out, as it is when a storage is opened.
Unguarded ==
  /\ cell \in [Hashes -> {Absent} \cup [key : Keys, tag : {"Present"}, meta : Metadata]]
  /\ CellsHashed
  /\ guard = [t \in Tasks |-> "none"]
  /\ at = [t \in Tasks |-> NoKey]
  /\ pending = [t \in Tasks |-> Fresh]

LEMMA UnguardedInv == Unguarded => GuardedMapInv
<1> SUFFICES ASSUME Unguarded PROVE GuardedMapInv
  BY Zenon
<1>1. GuardedMapTypeOK
  BY Zenon DEF Unguarded, GuardedMapTypeOK, GuardKinds
<1>2. GuardsFit /\ HoldersExclude
  BY Zenon DEF Unguarded, GuardsFit, HoldersExclude
<1>3. NewIsHeld
  BY DEF Unguarded, NewIsHeld, Absent
<1> QED BY <1>1, <1>2, <1>3, Zenon DEF Unguarded, GuardedMapInv

\* What the guard of a task says of its cell.
LEMMA HeldCell ==
  ASSUME GuardedMapInv, NEW t \in Tasks, guard[t] # "none"
  PROVE  /\ at[t] \in Keys /\ HashOf[at[t]] \in Hashes
         /\ CellOf(t) = cell[HashOf[at[t]]] /\ CellOf(t).key = at[t]
         /\ CellOf(t) # Absent /\ CellOf(t) \in [key : Keys, tag : {"New", "Present"}, meta : Metadata]
<1>1. at[t] \in Keys /\ CellOf(t).key = at[t]
  BY Zenon DEF GuardedMapInv, GuardedMapTypeOK, GuardsFit
<1>2. HashOf[at[t]] \in Hashes
  BY <1>1, Zenon
<1>3. CellOf(t) # Absent
  BY <1>1 DEF Absent
<1> QED BY <1>1, <1>2, <1>3, Zenon DEF GuardedMapInv, GuardedMapTypeOK, CellOf

\* A cell with a key is under that key's hash.
LEMMA KeyedCell ==
  ASSUME GuardedMapInv, NEW k \in Keys, cell[HashOf[k]].tag = "Present"
  PROVE  /\ cell[HashOf[k]] # Absent
         /\ cell[HashOf[k]] \in [key : Keys, tag : {"New", "Present"}, meta : Metadata]
<1>1. HashOf[k] \in Hashes
  BY Zenon
<1> QED BY <1>1 DEF GuardedMapInv, GuardedMapTypeOK, Absent

-----------------------------------------------------------------------------
\* A guard is handed out for a committed cell that allows it.
LEMMA TakeGuard ==
  ASSUME GuardedMapInv, NEW t \in Tasks, NEW k \in Keys, guard[t] = "none",
         cell[HashOf[k]].key = k,
         NEW g \in {"read", "write", "remove"}, Hold(t, g, k), cell' = cell,
         IF g = "read" THEN Readable(HashOf[k]) ELSE Writable(HashOf[k])
  PROVE  GuardedMapInv'
<1> DEFINE h == HashOf[k]
<1>0. h \in Hashes /\ cell[h].tag = "Present"
  BY Zenon DEF Readable, Writable
<1>1. GuardedMapTypeOK'
  BY Zenon DEF GuardedMapInv, GuardedMapTypeOK, Hold, GuardKinds
<1>2. CellsHashed'
  BY Zenon DEF GuardedMapInv, CellsHashed
<1>3. \A u \in Tasks : /\ guard'[u] = IF u = t THEN g ELSE guard[u]
                       /\ at'[u] = IF u = t THEN k ELSE at[u]
  BY Zenon DEF GuardedMapInv, GuardedMapTypeOK, Hold
<1>4. GuardsFit'
  BY <1>0, <1>3 DEF GuardedMapInv, GuardsFit, CellOf
<1>5. HoldersExclude'
  <2>1. ASSUME NEW u \in Tasks, u # t, guard[u] # "none", HashOf[at[u]] = h
        PROVE  g = "read" /\ guard[u] = "read"
    BY <2>1, Zenon DEF Readable, Writable, Holders
  <2> QED BY <1>3, <2>1 DEF GuardedMapInv, HoldersExclude
<1>6. NewIsHeld'
  <2>1. ASSUME NEW f \in Hashes, cell[f].tag = "New"
        PROVE  \E u \in Tasks : guard'[u] \in {"write", "charged", "discharged"} /\ HashOf[at'[u]] = f
    <3>1. PICK u \in Tasks : guard[u] \in {"write", "charged", "discharged"} /\ HashOf[at[u]] = f
      BY <2>1, Zenon DEF GuardedMapInv, NewIsHeld
    <3> QED BY <1>3, <3>1, Zenon
  <2> QED BY <2>1, Zenon DEF NewIsHeld
<1> QED BY <1>1, <1>2, <1>4, <1>5, <1>6, Zenon DEF GuardedMapInv

\* A task that holds a guard lets go of it, or keeps it in another state, and its
\* cell alone changes: to nothing, or to a committed one.
LEMMA HoldChanges ==
  ASSUME GuardedMapInv, NEW t \in Tasks, guard[t] # "none", NEW g \in GuardKinds \ {"read", "remove"},
         NEW c \in {Absent} \cup [key : {at[t]}, tag : {"New", "Present"}, meta : Metadata],
         guard' = [guard EXCEPT ![t] = g],
         at' = [at EXCEPT ![t] = IF g = "none" THEN NoKey ELSE at[t]],
         pending' \in [Tasks -> Metadata],
         SetCell(HashOf[at[t]], c),
         c = CellOf(t) \/ guard[t] # "read",
         g # "none" => guard[t] # "read" /\ c = CellOf(t),
         g = "none" => c.tag # "New"
  PROVE  GuardedMapInv'
<1> DEFINE h == HashOf[at[t]]
<1>0. /\ at[t] \in Keys /\ h \in Hashes /\ CellOf(t) = cell[h] /\ cell[h] # Absent
      /\ cell[h].key = at[t]
  BY HeldCell, Zenon
<1>1. \A u \in Tasks : /\ guard'[u] = IF u = t THEN g ELSE guard[u]
                       /\ at'[u] = IF u = t THEN (IF g = "none" THEN NoKey ELSE at[t]) ELSE at[u]
  BY Zenon DEF GuardedMapInv, GuardedMapTypeOK
<1>2. \A f \in Hashes : cell'[f] = IF f = h THEN c ELSE cell[f]
  BY <1>0, Zenon DEF SetCell, GuardedMapInv, GuardedMapTypeOK
<1>3. GuardedMapTypeOK'
  <2>1. c \in {Absent} \cup [key : Keys, tag : {"New", "Present"}, meta : Metadata]
    BY <1>0, Zenon
  <2>2. cell' \in [Hashes -> {Absent} \cup [key : Keys, tag : {"New", "Present"}, meta : Metadata]]
    BY <1>0, <2>1, Zenon DEF SetCell, GuardedMapInv, GuardedMapTypeOK
  <2>3. guard' \in [Tasks -> GuardKinds] /\ at' \in [Tasks -> Keys \cup {NoKey}]
    BY <1>0, Zenon DEF GuardedMapInv, GuardedMapTypeOK
  <2> QED BY <2>2, <2>3, Zenon DEF GuardedMapTypeOK, Absent
<1>4. CellsHashed'
  <2>1. c # Absent => c.key = at[t]
    BY Zenon
  <2> QED BY <1>2, <2>1 DEF GuardedMapInv, CellsHashed, Absent
<1>5. ASSUME NEW u \in Tasks, u # t, guard[u] # "none", HashOf[at[u]] = h
      PROVE  guard[t] = "read" /\ guard[u] = "read"
  BY <1>5, Zenon DEF GuardedMapInv, HoldersExclude
<1>6. GuardsFit'
  <2>1. ASSUME NEW u \in Tasks, u # t, guard[u] # "none" PROVE cell'[HashOf[at[u]]] = cell[HashOf[at[u]]]
    BY <1>0, <1>2, <1>5, <2>1, HeldCell, Zenon
  <2>2. ASSUME NEW u \in Tasks, u # t
        PROVE  /\ guard'[u] = "none" <=> at'[u] = NoKey
               /\ guard'[u] # "none" => CellOf(u)'.key = at'[u]
               /\ guard'[u] \in {"read", "remove"} => CellOf(u)'.tag = "Present"
    BY <1>1, <2>1, <2>2 DEF GuardedMapInv, GuardsFit, CellOf
  <2>3. /\ guard'[t] = "none" <=> at'[t] = NoKey
        /\ guard'[t] # "none" => CellOf(t)'.key = at'[t]
        /\ guard'[t] \notin {"read", "remove"}
    BY <1>0, <1>1, <1>2 DEF CellOf
  <2> QED BY <2>2, <2>3, Zenon DEF GuardsFit
<1>7. HoldersExclude'
  BY <1>1, <1>5 DEF GuardedMapInv, HoldersExclude
<1>8. NewIsHeld'
  <2>1. ASSUME NEW f \in Hashes, cell'[f].tag = "New"
        PROVE  \E u \in Tasks : guard'[u] \in {"write", "charged", "discharged"} /\ HashOf[at'[u]] = f
    <3>1. CASE f = h
      <4>1. g # "none" /\ g \in {"write", "charged", "discharged"}
        BY <1>2, <2>1, <3>1, Zenon DEF GuardKinds
      <4> QED BY <1>1, <3>1, <4>1, Zenon
    <3>2. CASE f # h
      <4>1. PICK u \in Tasks : guard[u] \in {"write", "charged", "discharged"} /\ HashOf[at[u]] = f
        BY <1>2, <2>1, <3>2, Zenon DEF GuardedMapInv, NewIsHeld
      <4> QED BY <1>1, <3>2, <4>1, Zenon
    <3> QED BY <3>1, <3>2, Zenon
  <2> QED BY <2>1, Zenon DEF NewIsHeld
<1> QED BY <1>3, <1>4, <1>6, <1>7, <1>8, Zenon DEF GuardedMapInv

\* A new cell comes with the guard of its writer.
LEMMA InsertCell ==
  ASSUME GuardedMapInv, NEW t \in Tasks, NEW k \in Keys, InsertNew(t, k)
  PROVE  GuardedMapInv'
<1> DEFINE h == HashOf[k]
<1>0. h \in Hashes /\ cell[h] = Absent /\ guard[t] = "none"
  BY Zenon DEF InsertNew
<1>1. \A u \in Tasks : /\ guard'[u] = IF u = t THEN "write" ELSE guard[u]
                       /\ at'[u] = IF u = t THEN k ELSE at[u]
  BY Zenon DEF InsertNew, Hold, GuardedMapInv, GuardedMapTypeOK
<1>2. \A f \in Hashes : cell'[f] = IF f = h THEN Blob(k, "New", Fresh) ELSE cell[f]
  BY <1>0, Zenon DEF InsertNew, SetCell, GuardedMapInv, GuardedMapTypeOK
<1>3. GuardedMapTypeOK'
  <2>1. Blob(k, "New", Fresh) \in [key : Keys, tag : {"New", "Present"}, meta : Metadata]
    BY Zenon DEF Blob
  <2>2. cell' \in [Hashes -> {Absent} \cup [key : Keys, tag : {"New", "Present"}, meta : Metadata]]
    BY <1>0, <2>1, Zenon DEF InsertNew, SetCell, GuardedMapInv, GuardedMapTypeOK
  <2> QED BY <2>2, Zenon DEF InsertNew, Hold, GuardedMapInv, GuardedMapTypeOK, GuardKinds, Absent
<1>4. CellsHashed'
  BY <1>2 DEF GuardedMapInv, CellsHashed, Absent, Blob
<1>5. \A u \in Tasks : guard[u] # "none" => HashOf[at[u]] # h /\ HashOf[at[u]] \in Hashes
  BY <1>0, HeldCell, Zenon
<1>6. GuardsFit'
  BY <1>0, <1>1, <1>2, <1>5 DEF GuardedMapInv, GuardsFit, CellOf, Blob
<1>7. HoldersExclude'
  BY <1>1, <1>5 DEF GuardedMapInv, HoldersExclude
<1>8. NewIsHeld'
  <2>1. ASSUME NEW f \in Hashes, cell'[f].tag = "New"
        PROVE  \E u \in Tasks : guard'[u] \in {"write", "charged", "discharged"} /\ HashOf[at'[u]] = f
    <3>1. CASE f = h
      BY <1>1, <3>1, Zenon
    <3>2. CASE f # h
      <4>1. PICK u \in Tasks : guard[u] \in {"write", "charged", "discharged"} /\ HashOf[at[u]] = f
        BY <1>2, <2>1, <3>2, Zenon DEF GuardedMapInv, NewIsHeld
      <4> QED BY <1>0, <1>1, <4>1, Zenon
    <3> QED BY <3>1, <3>2, Zenon
  <2> QED BY <2>1, Zenon DEF NewIsHeld
<1> QED BY <1>3, <1>4, <1>6, <1>7, <1>8, Zenon DEF GuardedMapInv

\* A free cell is rewritten or emptied in one step, as by a user that locks it,
\* commits and unlocks it without an await.
LEMMA FreeCellChanges ==
  ASSUME GuardedMapInv, NEW k \in Keys, Holders(HashOf[k]) = {},
         NEW c \in {Absent} \cup [key : {k}, tag : {"Present"}, meta : Metadata],
         SetCell(HashOf[k], c), UNCHANGED <<guard, at, pending>>
  PROVE  GuardedMapInv'
<1> DEFINE h == HashOf[k]
<1>0. h \in Hashes
  BY Zenon
<1>1. \A f \in Hashes : cell'[f] = IF f = h THEN c ELSE cell[f]
  BY <1>0, Zenon DEF SetCell, GuardedMapInv, GuardedMapTypeOK
<1>2. \A u \in Tasks : guard[u] # "none" => HashOf[at[u]] # h /\ HashOf[at[u]] \in Hashes
  BY HeldCell, Zenon DEF Holders
<1>3. GuardedMapTypeOK'
  <2>1. cell' \in [Hashes -> {Absent} \cup [key : Keys, tag : {"New", "Present"}, meta : Metadata]]
    BY <1>0, Zenon DEF SetCell, GuardedMapInv, GuardedMapTypeOK
  <2> QED BY <2>1, Zenon DEF GuardedMapInv, GuardedMapTypeOK, Absent
<1>4. CellsHashed'
  BY <1>1 DEF GuardedMapInv, CellsHashed, Absent
<1>5. GuardsFit'
  BY <1>1, <1>2 DEF GuardedMapInv, GuardsFit, CellOf
<1>6. HoldersExclude'
  BY Zenon DEF GuardedMapInv, HoldersExclude
<1>7. NewIsHeld'
  BY <1>1 DEF GuardedMapInv, NewIsHeld, Absent
<1> QED BY <1>3, <1>4, <1>5, <1>6, <1>7, Zenon DEF GuardedMapInv

\* Some readers and writers let go at once, each writer's uncommitted cell with it.
LEMMA DropSome ==
  ASSUME GuardedMapInv, NEW rs, rs \subseteq Tasks,
         \A r \in rs : guard[r] \in {"none", "read", "write"},
         cell' = [h \in Hashes |->
                    IF \E r \in rs : guard[r] = "write" /\ HashOf[at[r]] = h /\ cell[h].tag = "New"
                      THEN Absent ELSE cell[h]],
         guard' = [t \in Tasks |-> IF t \in rs THEN "none" ELSE guard[t]],
         at' = [t \in Tasks |-> IF t \in rs THEN NoKey ELSE at[t]],
         pending' = pending
  PROVE  GuardedMapInv'
<1>1. GuardedMapTypeOK'
  BY Zenon DEF GuardedMapInv, GuardedMapTypeOK, GuardKinds, Absent
<1>2. CellsHashed'
  BY Zenon DEF GuardedMapInv, CellsHashed, Absent
<1>3. ASSUME NEW u \in Tasks \ rs, guard[u] # "none" PROVE cell'[HashOf[at[u]]] = cell[HashOf[at[u]]]
  <2>1. HashOf[at[u]] \in Hashes
    BY <1>3, HeldCell, Zenon
  <2>2. ~\E r \in rs : guard[r] = "write" /\ HashOf[at[r]] = HashOf[at[u]]
    BY <1>3, Zenon DEF GuardedMapInv, HoldersExclude
  <2> QED BY <2>1, <2>2, Zenon
<1>4. GuardsFit'
  <2>1. ASSUME NEW u \in Tasks
        PROVE  /\ guard'[u] = "none" <=> at'[u] = NoKey
               /\ guard'[u] # "none" => CellOf(u)'.key = at'[u]
               /\ guard'[u] \in {"read", "remove"} => CellOf(u)'.tag = "Present"
    <3>1. CASE u \in rs
      BY <3>1, Zenon
    <3>2. CASE u \notin rs
      BY <1>3, <3>2 DEF GuardedMapInv, GuardsFit, CellOf
    <3> QED BY <3>1, <3>2, Zenon
  <2> QED BY <2>1, Zenon DEF GuardsFit
<1>5. HoldersExclude'
  BY Zenon DEF GuardedMapInv, HoldersExclude
<1>6. NewIsHeld'
  <2>1. ASSUME NEW f \in Hashes, cell'[f].tag = "New"
        PROVE  \E u \in Tasks : guard'[u] \in {"write", "charged", "discharged"} /\ HashOf[at'[u]] = f
    <3>1. cell[f].tag = "New" /\ ~\E r \in rs : guard[r] = "write" /\ HashOf[at[r]] = f
      BY <2>1, Zenon DEF Absent
    <3>2. PICK u \in Tasks : guard[u] \in {"write", "charged", "discharged"} /\ HashOf[at[u]] = f
      BY <3>1, Zenon DEF GuardedMapInv, NewIsHeld
    <3>3. u \notin rs
      BY <3>1, <3>2, Zenon
    <3> QED BY <3>2, <3>3, Zenon
  <2> QED BY <2>1, Zenon DEF NewIsHeld
<1> QED BY <1>1, <1>2, <1>4, <1>5, <1>6, Zenon DEF GuardedMapInv

-----------------------------------------------------------------------------
\* Every operation keeps the invariant.
LEMMA MapStep == GuardedMapInv /\ [GuardedMapNext]_mapVars => GuardedMapInv'
<1> SUFFICES ASSUME GuardedMapInv, [GuardedMapNext]_mapVars PROVE GuardedMapInv'
  BY Zenon
<1>0. guard \in [Tasks -> GuardKinds] /\ at \in [Tasks -> Keys \cup {NoKey}] /\ pending \in [Tasks -> Metadata]
  BY Zenon DEF GuardedMapInv, GuardedMapTypeOK
<1>1. CASE UNCHANGED mapVars
  BY <1>1 DEF mapVars, GuardedMapInv, GuardedMapTypeOK, CellsHashed, GuardsFit, HoldersExclude,
       NewIsHeld, CellOf, Absent
<1>2. ASSUME NEW t \in Tasks, NEW k \in Keys, LockRead(t, k) PROVE GuardedMapInv'
  BY <1>2, TakeGuard, Zenon DEF LockRead
<1>3. ASSUME NEW t \in Tasks, NEW k \in Keys, LockWrite(t, k) PROVE GuardedMapInv'
  BY <1>3, TakeGuard, Zenon DEF LockWrite
<1>4. ASSUME NEW t \in Tasks, NEW k \in Keys, LockRemove(t, k) PROVE GuardedMapInv'
  BY <1>4, TakeGuard, Zenon DEF LockRemove
<1>5. ASSUME NEW t \in Tasks, NEW k \in Keys, InsertNew(t, k) PROVE GuardedMapInv'
  BY <1>5, InsertCell, Zenon
<1>6. ASSUME NEW t \in Tasks, guard[t] # "none"
      PROVE  /\ CellOf(t) \in {Absent} \cup [key : {at[t]}, tag : {"New", "Present"}, meta : Metadata]
             /\ cell' = cell => SetCell(HashOf[at[t]], CellOf(t))
             /\ at' = at => at' = [at EXCEPT ![t] = at[t]]
  <2>1. /\ CellOf(t) = cell[HashOf[at[t]]] /\ HashOf[at[t]] \in Hashes /\ CellOf(t).key = at[t]
        /\ CellOf(t) \in [key : Keys, tag : {"New", "Present"}, meta : Metadata]
    BY <1>6, HeldCell, Zenon
  <2>2. CellOf(t) \in [key : {at[t]}, tag : {"New", "Present"}, meta : Metadata]
    BY <2>1, Zenon
  <2>3. cell' = cell => SetCell(HashOf[at[t]], CellOf(t))
    BY <2>1, Zenon DEF SetCell, GuardedMapInv, GuardedMapTypeOK
  <2>4. at' = at => at' = [at EXCEPT ![t] = at[t]]
    BY <1>0, Zenon
  <2> QED BY <2>2, <2>3, <2>4, Zenon
<1>7. ASSUME NEW t \in Tasks, LetGo(t)
      PROVE  /\ guard' = [guard EXCEPT ![t] = "none"] /\ at' = [at EXCEPT ![t] = NoKey]
             /\ pending' \in [Tasks -> Metadata]
  BY <1>0, <1>7, Zenon DEF LetGo, Hold
<1>8. ASSUME NEW t \in Tasks, NEW m \in Metadata, ChargeSize(t, m) PROVE GuardedMapInv'
  <2>1. guard[t] = "write" /\ cell' = cell /\ at' = at /\ pending' \in [Tasks -> Metadata]
    BY <1>0, <1>8, Zenon DEF ChargeSize
  <2>2. "charged" \in GuardKinds \ {"read", "remove"} /\ guard' = [guard EXCEPT ![t] = "charged"]
    BY <1>8, Zenon DEF ChargeSize, GuardKinds
  <2> QED BY <1>6, <2>1, <2>2, HoldChanges, Zenon
<1>9. ASSUME NEW t \in Tasks, DischargeSize(t) PROVE GuardedMapInv'
  <2>1. /\ guard[t] \in {"write", "remove"} /\ cell' = cell /\ at' = at
        /\ pending' \in [Tasks -> Metadata]
    BY <1>0, <1>9, Zenon DEF DischargeSize
  <2>2. "discharged" \in GuardKinds \ {"read", "remove"} /\ guard' = [guard EXCEPT ![t] = "discharged"]
    BY <1>9, Zenon DEF DischargeSize, GuardKinds
  <2> QED BY <1>6, <2>1, <2>2, HoldChanges, Zenon
<1>10. "none" \in GuardKinds \ {"read", "remove"} /\ Absent.tag # "New"
  BY Zenon DEF GuardKinds, Absent
<1>11. ASSUME NEW t \in Tasks, CommitCell(t) PROVE GuardedMapInv'
  <2>1. guard[t] = "charged" /\ LetGo(t) /\ SetCell(HashOf[at[t]], Blob(at[t], "Present", pending[t]))
    BY <1>11, Zenon DEF CommitCell
  <2>2. Blob(at[t], "Present", pending[t]) \in [key : {at[t]}, tag : {"New", "Present"}, meta : Metadata]
    BY <1>0, Zenon DEF Blob
  <2>3. Blob(at[t], "Present", pending[t]).tag # "New"
    BY Zenon DEF Blob
  <2> QED BY <1>7, <1>10, <2>1, <2>2, <2>3, HoldChanges, Zenon
<1>12. ASSUME NEW t \in Tasks, RemoveCell(t) PROVE GuardedMapInv'
  <2>1. guard[t] = "discharged" /\ LetGo(t) /\ SetCell(HashOf[at[t]], Absent)
    BY <1>12, Zenon DEF RemoveCell
  <2> QED BY <1>7, <1>10, <2>1, HoldChanges, Zenon
<1>13. ASSUME NEW t \in Tasks, DropGuard(t) PROVE GuardedMapInv'
  <2>1. guard[t] \in {"read", "write", "remove"} /\ LetGo(t)
    BY <1>13, Zenon DEF DropGuard
  <2>2. CASE guard[t] = "write" /\ CellOf(t).tag = "New"
    <3>1. SetCell(HashOf[at[t]], Absent)
      BY <1>13, <2>2, Zenon DEF DropGuard
    <3> QED BY <1>7, <1>10, <2>1, <2>2, <3>1, HoldChanges, Zenon
  <2>3. CASE ~(guard[t] = "write" /\ CellOf(t).tag = "New")
    <3>1. cell' = cell
      BY <1>13, <2>3, Zenon DEF DropGuard
    <3>2. CellOf(t).tag # "New"
      BY <2>1, <2>3, Zenon DEF GuardedMapInv, GuardsFit
    <3> QED BY <1>6, <1>7, <1>10, <2>1, <3>1, <3>2, HoldChanges, Zenon
  <2> QED BY <2>2, <2>3, Zenon
<1> QED BY <1>1, <1>2, <1>3, <1>4, <1>5, <1>8, <1>9, <1>11, <1>12, <1>13, Zenon DEF GuardedMapNext

\* The guards of the abstract map exclude each other and speak for the cells of their
\* keys: what BlobStorage and CacheServer build on, and BlobMap implements.
THEOREM GuardedMapInvariant == GuardedMapSpec => []GuardedMapInv
<1>1. GuardedMapInit => GuardedMapInv
  BY UnguardedInv, Zenon DEF GuardedMapInit, Unguarded, CellsHashed
<1> QED BY <1>1, MapStep, PTL DEF GuardedMapSpec
=============================================================================
