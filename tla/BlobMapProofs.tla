--------------------------- MODULE BlobMapProofs ----------------------------
(***************************************************************************)
(* The safety of BlobMap for any number of keys, hashes, tasks and Arcs.   *)
(* MapInv is inductive, with one case per action; the guarantees of the    *)
(* map follow from it.                                                     *)
(*                                                                         *)
(* Most steps only move one task and leave the table and the states alone: *)
(* lemma TaskStep treats them together. The four that do change them have  *)
(* a lemma each: inserting an entry, committing it, setting its sentinel,  *)
(* and taking that out of the table.                                       *)
(***************************************************************************)
EXTENDS BlobMap, TLAPS

USE HashAssumption, MetadataAssumption, TriesAssumption, NullAssumption

\* What task t may become without touching the table or the states.
Allowed(t, p, a, k, n) ==
  /\ p \in Locations \ {"panic", "unmap"} /\ pc[t] # "unmap"
  /\ a \in Arcs \cup {NoArc} /\ k \in Keys \cup {NoKey} /\ n \in 0 .. NumTries
  /\ p \in OwnsArc <=> a \in Arcs
  /\ p \in OwnsArc => k \in Keys
  /\ p \in {"write_wait", "yielding"} => n \in 1 .. NumTries
  /\ p \in Guarded => tag[a] # "Removing"
  /\ p \in {"reading", "removing"} => tag[a] = "Present"
  /\ (a \in Arcs /\ tag[a] # "Removing") => map[HashOf[k]] = [key |-> k, arc |-> a]
  /\ p \in Exclusive => \A u \in Tasks \ {t} : ~(arc[u] = a /\ pc[u] \in Exclusive \cup {"reading"})
  /\ p = "reading" => \A u \in Tasks \ {t} : ~(arc[u] = a /\ pc[u] \in Exclusive)
  /\ p = "scan" => \A u \in Tasks \ {t} : pc[u] # "scan"
  /\ (pc[t] \in {"writing", "charged", "discharged"} /\ tag[arc[t]] = "New") =>
       p \in {"writing", "charged", "discharged"} /\ a = arc[t]

Moved(t, p, a, k, n) ==
  /\ pc' = [pc EXCEPT ![t] = p]
  /\ arc' = [arc EXCEPT ![t] = a]
  /\ key' = [key EXCEPT ![t] = k]
  /\ tries' = [tries EXCEPT ![t] = n]

\* A step that moves one task to an allowed place, and changes neither the table
\* nor the states, keeps the invariant.
LEMMA TaskStep ==
  ASSUME MapInv, NEW t \in Tasks, NEW p, NEW a, NEW k, NEW n,
         Allowed(t, p, a, k, n), Moved(t, p, a, k, n),
         map' = map, tag' = tag, meta' = meta,
         new' \in [Tasks -> Metadata], older' \subseteq Hashes \X Hashes,
         left' \subseteq Mapped, left' = {} \/ p = "scan" \/ (left' = left /\ pc[t] # "scan")
  PROVE  MapInv'
<1> USE DEF Waiting, Exclusive, Guarded, Failed, Locations, OwnsArc
<1>1. TypeOK'
  <2>1. left' \subseteq Hashes
    BY Zenon DEF Mapped
  <2> QED BY <2>1, Zenon DEF MapInv, TypeOK, Allowed, Moved
<1>2. TableWellFormed'
  BY Zenon DEF MapInv, TableWellFormed, Mapped, Vacant
<1>3. TasksWellFormed'
  BY DEF MapInv, TypeOK, TasksWellFormed, Allowed, Moved
<1>4. LiveIsMapped'
  BY DEF MapInv, TypeOK, LiveIsMapped, Allowed, Moved, Mapped, Vacant
<1>5. NewIsLocked'
  BY DEF MapInv, TypeOK, NewIsLocked, Allowed, Moved
<1>6. LocksExclude'
  BY DEF MapInv, TypeOK, LocksExclude, Allowed, Moved
<1>7. SentinelOwned'
  <2>1. \A u \in Tasks : /\ pc'[u] = "unmap" <=> pc[u] = "unmap"
                         /\ pc[u] = "unmap" => key'[u] = key[u]
    BY Zenon DEF MapInv, TypeOK, Allowed, Moved
  <2> QED BY <2>1 DEF MapInv, SentinelOwned, Mapped, Vacant
<1>8. NeverPanics'
  BY Zenon DEF MapInv, TypeOK, NeverPanics, Allowed, Moved
<1>9. ScanInTable'
  BY Zenon DEF MapInv, TypeOK, ScanInTable, Moved, Mapped, Vacant
<1> QED BY <1>1, <1>2, <1>3, <1>4, <1>5, <1>6, <1>7, <1>8, <1>9, Zenon DEF MapInv

\* The mutex and the entry just inserted: its Arc was nobody's, its lock is t's.
LEMMA InsertStep ==
  ASSUME MapInv, NEW t \in Tasks, NEW k \in Keys, HashOf[k] \notin Mapped, Insert(t, k),
         pc[t] \in {"idle", "yielding"}
  PROVE  MapInv'
<1> USE DEF Waiting, Exclusive, Guarded, Failed, Locations, OwnsArc
<1> DEFINE h == HashOf[k]
<1>1. PICK a \in Arcs :
        /\ Unreferenced(a)
        /\ map' = [map EXCEPT ![h] = [key |-> k, arc |-> a]]
        /\ tag' = [tag EXCEPT ![a] = "New"]
        /\ meta' = [meta EXCEPT ![a] = Fresh]
        /\ Move(t, "writing", a, k, 0)
  BY Zenon DEF Insert
<1>2. h \in Hashes /\ map[h] = Vacant
  BY Zenon DEF Mapped
<1>3. Mapped' = Mapped \cup {h}
  BY <1>1, <1>2 DEF MapInv, TypeOK, Mapped, Vacant
<1>4. \A u \in Tasks : arc[u] # a
  BY <1>1, Zenon DEF Unreferenced
<1>5. \A g \in Hashes : map[g].arc # a
  BY <1>1, Zenon DEF Unreferenced
<1>6. tag[a] = "Removing"
  BY <1>5, Zenon DEF MapInv, LiveIsMapped, TypeOK, Mapped
<1>7. TypeOK'
  <2>1. older' \subseteq Hashes \X Hashes
    BY <1>2 DEF Insert, MoveToBack, OrderWithout, MapInv, TypeOK, Mapped
  <2> QED BY <2>1, <1>1, <1>2 DEF MapInv, TypeOK, Insert, Move
<1>8. TableWellFormed'
  BY <1>1, <1>2, <1>3, <1>5 DEF MapInv, TypeOK, TableWellFormed, Mapped
<1>9. TasksWellFormed'
  BY <1>1, <1>4 DEF MapInv, TypeOK, TasksWellFormed, Move
<1>10. LiveIsMapped'
  <2>1. ASSUME NEW u \in Tasks, arc'[u] \in Arcs, tag'[arc'[u]] # "Removing"
        PROVE  map'[HashOf[key'[u]]] = [key |-> key'[u], arc |-> arc'[u]]
    <3>1. CASE u = t
      BY <3>1, <1>1, <1>2, Zenon DEF MapInv, TypeOK, Move
    <3>2. CASE u # t
      <4>1. arc'[u] = arc[u] /\ key'[u] = key[u] /\ arc[u] # a
        BY <3>2, <1>1, <1>4, Zenon DEF MapInv, TypeOK, Move
      <4>2. map[HashOf[key[u]]] = [key |-> key[u], arc |-> arc[u]]
        BY <4>1, <2>1, <1>1, Zenon DEF MapInv, TypeOK, LiveIsMapped
      <4>3. key[u] \in Keys
        BY <4>1, <2>1, Zenon DEF MapInv, TypeOK, TasksWellFormed
      <4>4. HashOf[key[u]] # h
        BY <4>2, <4>1, <2>1, <1>2 DEF Vacant
      <4> QED BY <4>1, <4>2, <4>3, <4>4, <1>1, Zenon DEF MapInv, TypeOK
    <3> QED BY <3>1, <3>2, Zenon
  <2>2. ASSUME NEW b \in Arcs, tag'[b] # "Removing"
        PROVE  \E g \in Mapped' : map'[g].arc = b
    <3>1. CASE b = a
      BY <3>1, <1>1, <1>2, <1>3, Zenon DEF MapInv, TypeOK
    <3>2. CASE b # a
      <4>1. tag[b] # "Removing"
        BY <3>2, <2>2, <1>1, Zenon DEF MapInv, TypeOK
      <4>2. PICK g \in Mapped : map[g].arc = b
        BY <4>1, Zenon DEF MapInv, LiveIsMapped
      <4>3. g # h /\ g \in Hashes
        BY <1>2, Zenon DEF Mapped
      <4> QED BY <4>2, <4>3, <1>1, <1>3, Zenon DEF MapInv, TypeOK
    <3> QED BY <3>1, <3>2, Zenon
  <2> QED BY <2>1, <2>2, Zenon DEF LiveIsMapped
<1>11. NewIsLocked'
  BY <1>1, <1>4 DEF MapInv, TypeOK, NewIsLocked, Move
<1>12. LocksExclude'
  BY <1>1, <1>4 DEF MapInv, TypeOK, LocksExclude, Move
<1>13. SentinelOwned'
  <2>1. \A u \in Tasks : /\ pc'[u] = "unmap" <=> pc[u] = "unmap"
                         /\ pc[u] = "unmap" => key'[u] = key[u]
    BY <1>1, Zenon DEF MapInv, TypeOK, Move
  <2>2. ASSUME NEW u \in Tasks, pc[u] = "unmap"
        PROVE  HashOf[key[u]] # h /\ HashOf[key[u]] \in Hashes
    BY <2>2, <1>2 DEF MapInv, SentinelOwned, TasksWellFormed, Vacant
  <2>3. ASSUME NEW g \in Hashes, g # h
        PROVE  map'[g] = map[g] /\ (g \in Mapped => tag'[map'[g].arc] = tag[map[g].arc])
    BY <2>3, <1>1, <1>5 DEF MapInv, TypeOK, TableWellFormed
  <2>4. tag'[map'[h].arc] = "New"
    BY <1>1, <1>2, Zenon DEF MapInv, TypeOK
  <2>5. ASSUME NEW u \in Tasks, pc[u] = "unmap"
        PROVE  HashOf[key[u]] \in Mapped
    BY <2>5, <2>2 DEF MapInv, SentinelOwned, TasksWellFormed, Mapped, Vacant
  <2> QED BY <1>3, <2>1, <2>2, <2>3, <2>4, <2>5 DEF MapInv, SentinelOwned, Mapped
<1>14. NeverPanics'
  BY <1>1, Zenon DEF MapInv, TypeOK, NeverPanics, Move
<1>15. ScanInTable'
  <2>1. left' = left
    BY Zenon DEF Insert
  <2> QED BY <1>1, <1>3, <2>1, Zenon DEF MapInv, TypeOK, ScanInTable, Move
<1> QED BY <1>7, <1>8, <1>9, <1>10, <1>11, <1>12, <1>13, <1>14, <1>15, Zenon DEF MapInv

\* The holder of the write lock makes the entry Present and releases the lock.
LEMMA CommitStep ==
  ASSUME MapInv, NEW t \in Tasks, Commit(t)
  PROVE  MapInv'
<1> USE DEF Waiting, Exclusive, Guarded, Failed, Locations, OwnsArc
<1> DEFINE a == arc[t]
<1>1. /\ pc[t] = "charged" /\ a \in Arcs /\ tag[a] # "Removing"
      /\ map' = map /\ older' = older /\ left' = left
      /\ tag' = [tag EXCEPT ![a] = "Present"]
      /\ meta' = [meta EXCEPT ![a] = new[t]]
      /\ Move(t, "idle", NoArc, NoKey, 0)
  BY Zenon DEF Commit, Finish, tableVars, MapInv, TasksWellFormed
<1>2. ASSUME NEW b \in Arcs
      PROVE  tag'[b] # "Removing" <=> tag[b] # "Removing"
  BY <1>1, Zenon DEF MapInv, TypeOK
<1>3. TypeOK'
  BY <1>1 DEF MapInv, TypeOK, Move
<1>4. TableWellFormed'
  BY <1>1, Zenon DEF MapInv, TableWellFormed, Mapped, Vacant
<1>5. TasksWellFormed'
  BY <1>1, <1>2 DEF MapInv, TypeOK, TasksWellFormed, Move
<1>6. LiveIsMapped'
  BY <1>1, <1>2 DEF MapInv, TypeOK, LiveIsMapped, Move, Mapped, Vacant
<1>7. NewIsLocked'
  BY <1>1 DEF MapInv, TypeOK, NewIsLocked, Move
<1>8. LocksExclude'
  BY <1>1 DEF MapInv, TypeOK, LocksExclude, Move
<1>9. SentinelOwned'
  <2>1. \A u \in Tasks : /\ pc'[u] = "unmap" <=> pc[u] = "unmap"
                         /\ pc[u] = "unmap" => key'[u] = key[u]
    BY <1>1, Zenon DEF MapInv, TypeOK, Move
  <2>2. ASSUME NEW u \in Tasks, pc[u] = "unmap"
        PROVE  HashOf[key[u]] \in Mapped
    BY <2>2 DEF MapInv, SentinelOwned, TasksWellFormed, Mapped, Vacant
  <2>3. \A h \in Mapped : map[h].arc \in Arcs
    BY Zenon DEF MapInv, TableWellFormed
  <2>4. Mapped' = Mapped
    BY <1>1, Zenon DEF Mapped, Vacant
  <2>5. \A b \in Arcs : tag'[b] = "Removing" <=> tag[b] = "Removing"
    BY <1>2, Zenon
  <2> QED BY <1>1, <2>1, <2>2, <2>3, <2>4, <2>5 DEF MapInv, SentinelOwned
<1>10. NeverPanics'
  BY <1>1, Zenon DEF MapInv, TypeOK, NeverPanics, Move
<1>11. ScanInTable'
  BY <1>1, Zenon DEF MapInv, TypeOK, ScanInTable, Move, Mapped, Vacant
<1> QED BY <1>3, <1>4, <1>5, <1>6, <1>7, <1>8, <1>9, <1>10, <1>11, Zenon DEF MapInv

-----------------------------------------------------------------------------
\* The two halves of map_remove!: setting the sentinel under the entry's lock, and
\* taking it out of the table under the mutex.

\* The holder of the write lock sets the sentinel, which is in the table and is
\* from now on this task's to take out.
LEMMA SentinelStep ==
  ASSUME MapInv, NEW t \in Tasks, pc[t] \in {"writing", "discharged"}, SetRemoving(t)
  PROVE  MapInv'
<1> USE DEF Waiting, Exclusive, Guarded, Failed, Locations, OwnsArc
<1> DEFINE a == arc[t]
<1> DEFINE h == HashOf[key[t]]
<1>1. /\ a \in Arcs /\ tag[a] # "Removing" /\ key[t] \in Keys
      /\ map' = map /\ older' = older /\ left' = left
      /\ tag' = [tag EXCEPT ![a] = "Removing"]
      /\ meta' = [meta EXCEPT ![a] = Fresh]
      /\ Move(t, "unmap", NoArc, key[t], 0)
  BY Zenon DEF SetRemoving, tableVars, MapInv, TasksWellFormed
<1>2. map[h] = [key |-> key[t], arc |-> a] /\ h \in Mapped
  <2>1. map[h] = [key |-> key[t], arc |-> a] /\ h \in Hashes
    BY <1>1, Zenon DEF MapInv, LiveIsMapped
  <2>2. map[h].key # Vacant.key
    BY <2>1, <1>1 DEF Vacant
  <2> QED BY <2>1, <2>2, Zenon DEF Mapped
<1>3. Mapped' = Mapped
  BY <1>1, Zenon DEF Mapped, Vacant
<1>4. \A u \in Tasks \ {t} : arc[u] = a => pc[u] \notin Exclusive \cup {"reading"}
  BY <1>1, Zenon DEF MapInv, LocksExclude
<1>5. TypeOK'
  BY <1>1 DEF MapInv, TypeOK, Move
<1>6. TableWellFormed'
  BY <1>1, <1>3, Zenon DEF MapInv, TableWellFormed
<1>7. TasksWellFormed'
  BY <1>1, <1>4 DEF MapInv, TypeOK, TasksWellFormed, Move
<1>8. LiveIsMapped'
  BY <1>1, <1>3 DEF MapInv, TypeOK, LiveIsMapped, Move
<1>9. NewIsLocked'
  BY <1>1 DEF MapInv, TypeOK, NewIsLocked, Move
<1>10. LocksExclude'
  BY <1>1 DEF MapInv, TypeOK, LocksExclude, Move
<1>11. SentinelOwned'
  <2>1. \A u \in Tasks : /\ pc'[u] = "unmap" <=> pc[u] = "unmap" \/ u = t
                         /\ key'[u] = key[u]
    BY <1>1, Zenon DEF MapInv, TypeOK, Move
  <2>2. ASSUME NEW u \in Tasks, pc[u] = "unmap"
        PROVE  HashOf[key[u]] \in Mapped /\ HashOf[key[u]] # h
    BY <2>2, <1>1, <1>2 DEF MapInv, SentinelOwned, TasksWellFormed, Mapped, Vacant
  <2>3. \A g \in Mapped : map[g].arc \in Arcs /\ (map[g].arc = a => g = h)
    BY <1>2 DEF MapInv, TableWellFormed
  <2>4. \A b \in Arcs : tag'[b] = "Removing" <=> tag[b] = "Removing" \/ b = a
    BY <1>1, Zenon DEF MapInv, TypeOK
  <2> QED BY <1>1, <1>2, <1>3, <2>1, <2>2, <2>3, <2>4 DEF MapInv, SentinelOwned
<1>12. NeverPanics'
  BY <1>1, Zenon DEF MapInv, TypeOK, NeverPanics, Move
<1>13. ScanInTable'
  BY <1>1, <1>3, Zenon DEF MapInv, TypeOK, ScanInTable, Move
<1> QED BY <1>5, <1>6, <1>7, <1>8, <1>9, <1>10, <1>11, <1>12, <1>13, Zenon DEF MapInv

\* The assertion of map_remove! holds, and what it takes out is the sentinel.
LEMMA UnmapStep ==
  ASSUME MapInv, NEW t \in Tasks, Unmap(t)
  PROVE  MapInv'
<1> USE DEF Waiting, Exclusive, Guarded, Failed, Locations, OwnsArc
<1> DEFINE h == HashOf[key[t]]
<1>1. /\ pc[t] = "unmap" /\ key[t] \in Keys /\ h \in Hashes
      /\ map[h].key = key[t] /\ tag[map[h].arc] = "Removing"
  BY Zenon DEF Unmap, MapInv, SentinelOwned, TasksWellFormed
<1>2. h \in Mapped
  BY <1>1 DEF Mapped, Vacant
<1>3. /\ map' = [map EXCEPT ![h] = Vacant]
      /\ left' = left /\ tag' = tag /\ meta' = meta
      /\ Move(t, "idle", NoArc, NoKey, 0)
  BY <1>2, Zenon DEF Unmap, Finish, stateVars
<1>4. Mapped' = Mapped \ {h}
  BY <1>1, <1>3, Zenon DEF MapInv, TypeOK, Mapped, Vacant
<1>5. TypeOK'
  <2>1. older' \subseteq Hashes \X Hashes
    BY Zenon DEF Unmap, OrderWithout, MapInv, TypeOK
  <2>2. map' \in [Hashes -> [key : Keys \cup {NoKey}, arc : Arcs \cup {NoArc}]]
    BY <1>3, Zenon DEF MapInv, TypeOK, Vacant
  <2> QED BY <1>3, <2>1, <2>2 DEF MapInv, TypeOK, Move
<1>6. TableWellFormed'
  BY <1>3, <1>4 DEF MapInv, TypeOK, TableWellFormed, Mapped
<1>7. TasksWellFormed'
  BY <1>1, <1>3 DEF MapInv, TypeOK, TasksWellFormed, Move
<1>8. LiveIsMapped'
  <2>1. ASSUME NEW u \in Tasks, arc'[u] \in Arcs, tag'[arc'[u]] # "Removing"
        PROVE  map'[HashOf[key'[u]]] = [key |-> key'[u], arc |-> arc'[u]]
    <3>1. u # t /\ arc'[u] = arc[u] /\ key'[u] = key[u]
      BY <2>1, <1>3, Zenon DEF MapInv, TypeOK, Move
    <3>2. map[HashOf[key[u]]] = [key |-> key[u], arc |-> arc[u]] /\ key[u] \in Keys
      BY <2>1, <3>1, <1>3, Zenon DEF MapInv, LiveIsMapped, TasksWellFormed
    <3>3. HashOf[key[u]] # h
      BY <2>1, <3>1, <3>2, <1>1, <1>3
    <3> QED BY <3>1, <3>2, <3>3, <1>3, Zenon DEF MapInv, TypeOK
  <2>2. ASSUME NEW b \in Arcs, tag'[b] # "Removing"
        PROVE  \E g \in Mapped' : map'[g].arc = b
    <3>1. PICK g \in Mapped : map[g].arc = b
      BY <2>2, <1>3, Zenon DEF MapInv, LiveIsMapped
    <3>2. g # h /\ g \in Hashes
      BY <3>1, <2>2, <1>1, <1>3, Zenon DEF Mapped
    <3> QED BY <3>1, <3>2, <1>3, <1>4 DEF MapInv, TypeOK
  <2> QED BY <2>1, <2>2, Zenon DEF LiveIsMapped
<1>9. NewIsLocked'
  BY <1>1, <1>3, Zenon DEF MapInv, TypeOK, NewIsLocked, Move
<1>10. LocksExclude'
  BY <1>3 DEF MapInv, TypeOK, LocksExclude, Move
<1>11. SentinelOwned'
  <2>1. \A u \in Tasks : /\ pc'[u] = "unmap" <=> pc[u] = "unmap" /\ u # t
                         /\ u # t => key'[u] = key[u]
    BY <1>1, <1>3, Zenon DEF MapInv, TypeOK, Move
  <2>2. \A u \in Tasks \ {t} : pc[u] = "unmap" =>
          HashOf[key[u]] # h /\ HashOf[key[u]] \in Hashes
    BY <1>1 DEF MapInv, SentinelOwned, TasksWellFormed
  <2>3. \A g \in Hashes \ {h} : map'[g] = map[g]
    BY <1>3, Zenon DEF MapInv, TypeOK
  <2> QED BY <1>3, <1>4, <2>1, <2>2, <2>3 DEF MapInv, SentinelOwned, Mapped
<1>12. NeverPanics'
  BY <1>3, Zenon DEF MapInv, TypeOK, NeverPanics, Move
<1>13. ScanInTable'
  BY <1>3, Zenon DEF Unmap, MapFree, MapInv, ScanInTable
<1> QED BY <1>5, <1>6, <1>7, <1>8, <1>9, <1>10, <1>11, <1>12, <1>13, Zenon DEF MapInv

-----------------------------------------------------------------------------
(* The actions *)

\* A step that moves no task and changes neither the table's entries nor the
\* states keeps the invariant.
LEMMA StillStep ==
  ASSUME MapInv, UNCHANGED <<map, tag, meta, taskVars>>,
         older' \subseteq Hashes \X Hashes, left' \subseteq left
  PROVE  MapInv'
<1> USE DEF taskVars
<1>1. TypeOK'
  BY Zenon DEF MapInv, TypeOK
<1>2. Mapped' = Mapped
  BY Zenon DEF Mapped, Vacant
<1>3. TableWellFormed' /\ ScanInTable'
  BY <1>2 DEF MapInv, TableWellFormed, ScanInTable
<1>4. TasksWellFormed' /\ NewIsLocked' /\ LocksExclude' /\ NeverPanics'
  BY Zenon DEF MapInv, TasksWellFormed, NewIsLocked, LocksExclude, NeverPanics
<1>5. LiveIsMapped'
  BY <1>2, Zenon DEF MapInv, LiveIsMapped
<1>6. SentinelOwned'
  BY <1>2 DEF MapInv, SentinelOwned
<1> QED BY <1>1, <1>3, <1>4, <1>5, <1>6, Zenon DEF MapInv

\* The table a BlobMapBuilder builds satisfies the invariant.
LEMMA InitInv == Init => MapInv
<1> SUFFICES ASSUME Init PROVE MapInv
  BY Zenon
<1> USE DEF Init, Waiting, Exclusive, Guarded, Failed, Locations, OwnsArc
<1>1. \A h \in Mapped : map[h].key \in Keys /\ HashOf[map[h].key] = h /\ map[h].arc \in Arcs
  BY Zenon DEF Mapped
<1>2. \A h \in Hashes : map[h].arc \in Arcs => h \in Mapped
  BY DEF Mapped, Vacant
<1>3. TypeOK
  BY DEF TypeOK, TotalOrders, Mapped
<1>4. TableWellFormed
  BY <1>1, Zenon DEF TableWellFormed
<1>5. TasksWellFormed
  BY Zenon DEF TasksWellFormed
<1>6. LiveIsMapped
  BY <1>2, Zenon DEF LiveIsMapped
<1>7. NewIsLocked
  BY Zenon DEF NewIsLocked
<1>8. LocksExclude
  BY Zenon DEF LocksExclude
<1>9. SentinelOwned
  BY <1>1, Zenon DEF SentinelOwned, Mapped
<1>10. NeverPanics
  BY Zenon DEF NeverPanics
<1>11. ScanInTable
  BY Zenon DEF ScanInTable
<1> QED BY <1>3, <1>4, <1>5, <1>6, <1>7, <1>8, <1>9, <1>10, <1>11, Zenon DEF MapInv

\* A task that ends its operation, holding nothing New, keeps the invariant.
LEMMA FinishStep ==
  ASSUME MapInv, NEW t \in Tasks, NEW p \in {"idle", "stuck"},
         Move(t, p, NoArc, NoKey, 0), pc[t] # "unmap",
         ~(pc[t] \in {"writing", "charged", "discharged"} /\ tag[arc[t]] = "New"),
         map' = map, tag' = tag, meta' = meta,
         older' \subseteq Hashes \X Hashes,
         left' = {} \/ (left' = left /\ pc[t] # "scan")
  PROVE  MapInv'
<1>1. Allowed(t, p, NoArc, NoKey, 0)
  BY DEF Allowed, Waiting, Exclusive, Guarded, Failed, Locations, OwnsArc
<1>2. Moved(t, p, NoArc, NoKey, 0) /\ new' \in [Tasks -> Metadata]
  BY Zenon DEF Moved, Move, MapInv, TypeOK
<1>3. left' \subseteq Mapped
  BY Zenon DEF MapInv, ScanInTable
<1> QED BY <1>1, <1>2, <1>3, TaskStep, Zenon

\* A task that found an entry under its key goes on to wait for its lock.
LEMMA LookupStep ==
  ASSUME MapInv, NEW t \in Tasks, NEW k \in Keys, NEW p \in Waiting, NEW n \in 0 .. NumTries,
         p = "write_wait" => n >= 1,
         pc[t] \in {"idle", "yielding"}, map[HashOf[k]].key = k,
         Move(t, p, map[HashOf[k]].arc, k, n),
         map' = map, tag' = tag, meta' = meta,
         older' \subseteq Hashes \X Hashes, left' = left
  PROVE  MapInv'
<1> DEFINE h == HashOf[k]
<1>1. h \in Mapped /\ map[h].arc \in Arcs
  BY DEF MapInv, TableWellFormed, Mapped, Vacant
<1>2. map[h] = [key |-> k, arc |-> map[h].arc]
  BY <1>1, Zenon DEF MapInv, TypeOK
<1>3. Allowed(t, p, map[h].arc, k, n)
  BY <1>1, <1>2 DEF Allowed, Waiting, Exclusive, Guarded, Failed, Locations, OwnsArc
<1>4. Moved(t, p, map[h].arc, k, n) /\ new' \in [Tasks -> Metadata]
  BY Zenon DEF Moved, Move, MapInv, TypeOK
<1>5. left' \subseteq Mapped
  BY Zenon DEF MapInv, ScanInTable
<1> QED BY <1>3, <1>4, <1>5, TaskStep, Zenon

\* A waiting task that is granted the write lock and finds the entry Present or
\* the sentinel takes the lock; the grant never meets a New entry.
LEMMA GrantFinds ==
  ASSUME MapInv, NEW t \in Tasks, pc[t] \in Waiting, CanRead(arc[t])
  PROVE  arc[t] \in Arcs /\ key[t] \in Keys /\ tag[arc[t]] \in {"Present", "Removing"}
<1>1. arc[t] \in Arcs /\ key[t] \in Keys
  BY Zenon DEF MapInv, TasksWellFormed, OwnsArc
<1>2. tag[arc[t]] # "New"
  BY <1>1 DEF MapInv, NewIsLocked, CanRead, Exclusive
<1> QED BY <1>1, <1>2, Zenon DEF MapInv, TypeOK

\* The grant itself: the lock of a Present entry becomes the task's guard.
LEMMA GrantStep ==
  ASSUME MapInv, NEW t \in Tasks, pc[t] \in Waiting, CanRead(arc[t]),
         NEW p \in {"reading", "writing", "removing"},
         p # "reading" => CanWrite(arc[t]),
         tag[arc[t]] = "Present", Move(t, p, arc[t], key[t], 0),
         map' = map, tag' = tag, meta' = meta, older' = older, left' = left
  PROVE  MapInv'
<1>1. arc[t] \in Arcs /\ key[t] \in Keys
  BY GrantFinds, Zenon
<1>2. map[HashOf[key[t]]] = [key |-> key[t], arc |-> arc[t]]
  BY <1>1, Zenon DEF MapInv, LiveIsMapped
<1>3. Allowed(t, p, arc[t], key[t], 0)
  BY <1>1, <1>2 DEF Allowed, CanRead, CanWrite, Waiting, Exclusive, Guarded, Failed,
                    Locations, OwnsArc
<1>4. Moved(t, p, arc[t], key[t], 0) /\ new' \in [Tasks -> Metadata]
  BY Zenon DEF Moved, Move, MapInv, TypeOK
<1>5. left' \subseteq Mapped
  BY Zenon DEF MapInv, ScanInTable
<1> QED BY <1>3, <1>4, <1>5, TaskStep, Zenon DEF MapInv, TypeOK, Waiting

\* ensure_present, in each of its uses.
LEMMA EnsureStep ==
  ASSUME MapInv, NEW t \in Tasks, pc[t] \in Waiting, CanRead(arc[t]),
         NEW p \in {"reading", "writing", "removing"},
         p # "reading" => CanWrite(arc[t]), EnsurePresent(t, p),
         UNCHANGED <<tableVars, stateVars>>
  PROVE  MapInv'
<1>1. tag[arc[t]] \in {"Present", "Removing"}
  BY GrantFinds, Zenon
<1>2. map' = map /\ tag' = tag /\ meta' = meta /\ older' = older /\ left' = left
  BY Zenon DEF tableVars, stateVars
<1>3. older \subseteq Hashes \X Hashes /\ left \subseteq Hashes
  BY Zenon DEF MapInv, TypeOK
<1>4. CASE tag[arc[t]] = "Present"
  <2>1. Move(t, p, arc[t], key[t], 0)
    BY <1>4, Zenon DEF EnsurePresent, Stay
  <2> QED BY <1>2, <1>4, <2>1, GrantStep, Zenon
<1>5. CASE tag[arc[t]] = "Removing"
  <2>1. Move(t, "idle", NoArc, NoKey, 0)
    BY <1>5, Zenon DEF EnsurePresent, Finish
  <2> QED BY <1>2, <1>3, <1>5, <2>1, FinishStep, Zenon DEF Waiting
<1> QED BY <1>1, <1>4, <1>5, Zenon

\* write_lock, in each of its uses.
LEMMA WriteLockStep ==
  ASSUME MapInv, NEW t \in Tasks, NEW k \in Keys, NEW p \in {"write_wait", "try_wait"},
         NEW n \in 0 .. NumTries, p = "write_wait" => n >= 1,
         pc[t] \in {"idle", "yielding"}, WriteLock(t, k, p, n)
  PROVE  MapInv'
<1> DEFINE h == HashOf[k]
<1>1. CASE h \notin Mapped
  BY <1>1, InsertStep, Zenon DEF WriteLock
<1>2. CASE h \in Mapped
  <2>1. /\ map' = map /\ tag' = tag /\ meta' = meta /\ left' = left
        /\ older' \subseteq Hashes \X Hashes /\ left \subseteq Hashes
    BY <1>2 DEF WriteLock, MoveToBack, OrderWithout, stateVars, Mapped, MapInv, TypeOK
  <2>2. CASE map[h].key = k
    <3>1. Move(t, p, map[h].arc, k, n)
      BY <1>2, <2>2, Zenon DEF WriteLock
    <3> QED BY <2>1, <2>2, <3>1, LookupStep DEF Waiting
  <2>3. CASE map[h].key # k
    <3>1. Move(t, "idle", NoArc, NoKey, 0)
      BY <1>2, <2>3, Zenon DEF WriteLock, Finish
    <3> QED BY <2>1, <3>1, FinishStep, Zenon
  <2> QED BY <2>2, <2>3, Zenon
<1> QED BY <1>1, <1>2, Zenon

\* What the owner of a write or remove guard knows of its entry.
LEMMA OwnerKeeps ==
  ASSUME MapInv, NEW t \in Tasks, pc[t] \in {"writing", "removing"}
  PROVE  /\ arc[t] \in Arcs /\ key[t] \in Keys /\ tag[arc[t]] # "Removing"
         /\ map[HashOf[key[t]]] = [key |-> key[t], arc |-> arc[t]]
         /\ \A u \in Tasks \ {t} : ~(arc[u] = arc[t] /\ pc[u] \in Exclusive \cup {"reading"})
<1>1. arc[t] \in Arcs /\ key[t] \in Keys /\ tag[arc[t]] # "Removing"
  BY Zenon DEF MapInv, TasksWellFormed, OwnsArc, Exclusive, Guarded
<1>2. map[HashOf[key[t]]] = [key |-> key[t], arc |-> arc[t]]
  BY <1>1, Zenon DEF MapInv, LiveIsMapped
<1>3. pc[t] \in Exclusive
  BY Zenon DEF Exclusive
<1>4. \A u \in Tasks \ {t} : ~(arc[u] = arc[t] /\ pc[u] \in Exclusive \cup {"reading"})
  BY <1>1, <1>3, Zenon DEF MapInv, LocksExclude
<1> QED BY <1>1, <1>2, <1>4, Zenon

\* Every step of the map keeps the invariant: one case per action.
LEMMA NextInv == MapInv /\ [Next]_vars => MapInv'
<1> SUFFICES ASSUME MapInv, [Next]_vars PROVE MapInv'
  BY Zenon
<1>0. older \subseteq Hashes \X Hashes /\ left \subseteq Mapped /\ new \in [Tasks -> Metadata]
  BY Zenon DEF MapInv, TypeOK, ScanInTable
<1>1. CASE UNCHANGED vars
  BY <1>0, <1>1, StillStep, Zenon DEF vars, tableVars, stateVars
<1>2. ASSUME NEW t \in Tasks, NEW k \in Keys, Call(t, k) PROVE MapInv'
  <2>1. CASE Read(t, k)
    <3>1. /\ map' = map /\ tag' = tag /\ meta' = meta /\ left' = left
          /\ older' \subseteq Hashes \X Hashes
      BY <2>1, <1>0 DEF Read, MoveToBack, OrderWithout, Mapped, stateVars
    <3>2. CASE map[HashOf[k]].key = k
      BY <1>0, <2>1, <3>1, <3>2, LookupStep DEF Read, Waiting
    <3>3. CASE map[HashOf[k]].key # k
      <4>1. UNCHANGED taskVars
        BY <2>1, <3>3, Zenon DEF Read
      <4> QED BY <3>1, <4>1, StillStep, Zenon
    <3> QED BY <3>2, <3>3, Zenon
  <2>2. CASE Peek(t, k)
    BY <1>0, <2>2, LookupStep DEF Peek, Waiting, tableVars, stateVars
  <2>3. CASE Write(t, k)
    BY <2>3, WriteLockStep DEF Write
  <2>4. CASE WriteNew(t, k)
    BY <2>4, InsertStep, Zenon DEF WriteNew
  <2>5. CASE TryWrite(t, k)
    BY <2>5, WriteLockStep DEF TryWrite
  <2>6. CASE Remove(t, k)
    BY <1>0, <2>6, LookupStep DEF Remove, Waiting, tableVars, stateVars
  <2> QED BY <1>2, <2>1, <2>2, <2>3, <2>4, <2>5, <2>6, Zenon DEF Call
<1>3. ASSUME NEW t \in Tasks, BeginScan(t) PROVE MapInv'
  <2>1. Allowed(t, "scan", NoArc, NoKey, 0)
    BY <1>3 DEF BeginScan, MapFree, Allowed, Waiting, Exclusive, Guarded, Failed,
                Locations, OwnsArc
  <2>2. Moved(t, "scan", NoArc, NoKey, 0) /\ new' \in [Tasks -> Metadata]
    BY <1>0, <1>3, Zenon DEF BeginScan, Move, Moved
  <2> QED BY <1>0, <1>3, <2>1, <2>2, TaskStep, Zenon DEF BeginScan, stateVars, Mapped
<1>4. ASSUME NEW t \in Tasks, Locked(t) PROVE MapInv'
  <2>1. CASE ReadLocked(t)
    BY <2>1, EnsureStep, Zenon DEF ReadLocked, Waiting
  <2>2. CASE WriteLocked(t)
    <3>1. CanRead(arc[t])
      BY <2>2, Zenon DEF WriteLocked, CanRead, CanWrite
    <3>2. /\ pc[t] \in Waiting /\ pc[t] = "write_wait" /\ CanWrite(arc[t])
          /\ map' = map /\ tag' = tag /\ meta' = meta /\ older' = older /\ left' = left
      BY <2>2, Zenon DEF WriteLocked, Waiting, tableVars, stateVars
    <3>3. arc[t] \in Arcs /\ key[t] \in Keys /\ tag[arc[t]] \in {"Present", "Removing"}
      BY <3>1, <3>2, GrantFinds, Zenon
    <3>4. CASE tag[arc[t]] = "Present"
      BY <2>2, <3>1, <3>2, <3>4, GrantStep, Zenon DEF WriteLocked, Stay
    <3>5. CASE tag[arc[t]] = "Removing"
      <4>1. Move(t, "yielding", arc[t], key[t], tries[t])
        BY <2>2, <3>5, Zenon DEF WriteLocked
      <4>2. tries[t] \in 1 .. NumTries
        BY <3>2, Zenon DEF MapInv, TasksWellFormed
      <4>3. Allowed(t, "yielding", arc[t], key[t], tries[t])
        BY <3>2, <3>3, <3>5, <4>2 DEF CanWrite, Allowed, Waiting, Exclusive, Guarded,
             Failed, Locations, OwnsArc
      <4>4. Moved(t, "yielding", arc[t], key[t], tries[t]) /\ new' \in [Tasks -> Metadata]
        BY <1>0, <4>1, Zenon DEF Move, Moved
      <4> QED BY <1>0, <3>2, <4>3, <4>4, TaskStep, Zenon
    <3> QED BY <3>3, <3>4, <3>5, Zenon
  <2>3. CASE RemoveLocked(t)
    BY <2>3, EnsureStep, Zenon DEF RemoveLocked, Waiting, CanRead, CanWrite
  <2> QED BY <1>4, <2>1, <2>2, <2>3, Zenon DEF Locked
<1>5. ASSUME NEW t \in Tasks, Internal(t) PROVE MapInv'
  <2>1. CASE TryWriteLocked(t)
    <3>1. CASE CanWrite(arc[t])
      BY <2>1, <3>1, EnsureStep, Zenon DEF TryWriteLocked, Waiting, CanRead, CanWrite
    <3>2. CASE ~CanWrite(arc[t])
      BY <1>0, <2>1, <3>2, FinishStep, Zenon DEF TryWriteLocked, Finish, tableVars, stateVars
    <3> QED BY <3>1, <3>2, Zenon
  <2>2. CASE Retry(t)
    <3>1. key[t] \in Keys /\ tries[t] + 1 \in 0 .. NumTries /\ tries[t] + 1 >= 1
      BY <2>2 DEF Retry, MapInv, TypeOK, TasksWellFormed, OwnsArc, Exclusive
    <3> QED BY <2>2, <3>1, WriteLockStep, Zenon DEF Retry
  <2>3. CASE GiveUp(t)
    BY <1>0, <2>3, FinishStep, Zenon DEF GiveUp, Fail, tableVars, stateVars
  <2>4. CASE Commit(t)
    BY <2>4, CommitStep, Zenon
  <2>5. CASE Scan(t)
    <3>1. /\ pc[t] = "scan" /\ map' = map /\ tag' = tag /\ meta' = meta /\ older' = older
          /\ left' \subseteq left
      BY <2>5, Zenon DEF Scan, stateVars
    <3>2. ASSUME left' = {}, Finish(t) PROVE MapInv'
      BY <1>0, <3>1, <3>2, FinishStep, Zenon DEF Finish
    <3>3. CASE UNCHANGED taskVars
      BY <1>0, <3>1, <3>3, StillStep, Zenon
    <3>4. ASSUME NEW h \in left, left' = {}, CanWrite(map[h].arc), tag[map[h].arc] # "Removing",
                 IF tag[map[h].arc] = "Present"
                   THEN Move(t, "removing", map[h].arc, map[h].key, 0)
                   ELSE Fail(t, "panic")
          PROVE  MapInv'
      <4> DEFINE a == map[h].arc
      <4>1. h \in Mapped
        BY <3>1, Zenon DEF MapInv, ScanInTable
      <4>2. a \in Arcs /\ map[h].key \in Keys /\ HashOf[map[h].key] = h
        BY <4>1, Zenon DEF MapInv, TableWellFormed
      <4>3. tag[a] = "Present"
        BY <3>4, <4>2 DEF MapInv, TypeOK, NewIsLocked, CanWrite, Exclusive
      <4>4. map[HashOf[map[h].key]] = [key |-> map[h].key, arc |-> a]
        BY <4>1, <4>2, Zenon DEF MapInv, TypeOK, Mapped
      <4>5. \A u \in Tasks \ {t} : ~(arc[u] = a /\ pc[u] \in Exclusive \cup {"reading"})
        BY <3>4, Zenon DEF CanWrite
      <4>6. 0 \in 0 .. NumTries
        BY TriesAssumption
      <4>7. Allowed(t, "removing", a, map[h].key, 0)
        BY <3>1, <4>2, <4>3, <4>4, <4>5, <4>6, Zenon DEF Allowed, Waiting, Guarded, Failed, Locations,
             OwnsArc, Exclusive
      <4>8. Moved(t, "removing", a, map[h].key, 0) /\ new' \in [Tasks -> Metadata]
        BY <1>0, <3>4, <4>3, Zenon DEF Move, Moved
      <4> QED BY <1>0, <3>1, <3>4, <4>7, <4>8, TaskStep, Zenon
    <3> QED BY <2>5, <3>2, <3>3, <3>4, Zenon DEF Scan
  <2>6. CASE CommitRemove(t)
    BY <2>6, SentinelStep, Zenon DEF CommitRemove
  <2>7. CASE Unmap(t)
    BY <2>7, UnmapStep, Zenon
  <2>8. CASE Unwind(t)
    BY <1>0, <2>8, FinishStep, Zenon DEF Unwind, Finish, Failed, tableVars, stateVars
  <2> QED BY <1>5, <2>1, <2>2, <2>3, <2>4, <2>5, <2>6, <2>7, <2>8, Zenon DEF Internal
<1>6. ASSUME NEW t \in Tasks, Release(t) PROVE MapInv'
  <2>1. CASE DropRead(t)
    BY <1>0, <2>1, FinishStep, Zenon DEF DropRead, Finish, tableVars, stateVars
  <2>2. CASE DropWrite(t)
    <3>1. CASE tag[arc[t]] = "New"
      BY <2>2, <3>1, SentinelStep, Zenon DEF DropWrite
    <3>2. CASE tag[arc[t]] # "New"
      BY <1>0, <2>2, <3>2, FinishStep, Zenon DEF DropWrite, Finish, tableVars, stateVars
    <3> QED BY <3>1, <3>2, Zenon
  <2>3. CASE DropRemove(t)
    BY <1>0, <2>3, FinishStep, Zenon DEF DropRemove, Finish, tableVars, stateVars
  <2>4. CASE Discharge(t)
    <3>0. pc[t] \in {"writing", "removing"} /\ 0 \in 0 .. NumTries
      BY <2>4, TriesAssumption DEF Discharge
    <3>1. /\ arc[t] \in Arcs /\ key[t] \in Keys /\ tag[arc[t]] # "Removing"
           /\ map[HashOf[key[t]]] = [key |-> key[t], arc |-> arc[t]]
           /\ \A u \in Tasks \ {t} : ~(arc[u] = arc[t] /\ pc[u] \in Exclusive \cup {"reading"})
      BY <3>0, OwnerKeeps, Zenon
    <3>2. Allowed(t, "discharged", arc[t], key[t], 0)
      BY <3>0, <3>1, Zenon DEF Allowed, Exclusive, Guarded, Locations, OwnsArc
    <3>3. Moved(t, "discharged", arc[t], key[t], 0) /\ new' \in [Tasks -> Metadata]
      BY <1>0, <2>4, Zenon DEF Discharge, Stay, Move, Moved
    <3> QED BY <1>0, <2>4, <3>2, <3>3, TaskStep, Zenon DEF Discharge, tableVars, stateVars
  <2>5. ASSUME NEW m \in Metadata, Charge(t, m) PROVE MapInv'
    <3>0. pc[t] \in {"writing", "removing"} /\ tries[t] \in 0 .. NumTries
      BY <2>5, Zenon DEF Charge, MapInv, TypeOK
    <3>1. /\ arc[t] \in Arcs /\ key[t] \in Keys /\ tag[arc[t]] # "Removing"
           /\ map[HashOf[key[t]]] = [key |-> key[t], arc |-> arc[t]]
           /\ \A u \in Tasks \ {t} : ~(arc[u] = arc[t] /\ pc[u] \in Exclusive \cup {"reading"})
      BY <3>0, OwnerKeeps, Zenon
    <3>2. Allowed(t, "charged", arc[t], key[t], tries[t])
      BY <3>0, <3>1, Zenon DEF Allowed, Exclusive, Guarded, Locations, OwnsArc
    <3>3. Moved(t, "charged", arc[t], key[t], tries[t]) /\ new' \in [Tasks -> Metadata]
      BY <1>0, <2>5, Zenon DEF Charge, Moved, MapInv, TypeOK
    <3> QED BY <1>0, <2>5, <3>2, <3>3, TaskStep, Zenon DEF Charge, tableVars, stateVars
  <2> QED BY <1>6, <2>1, <2>2, <2>3, <2>4, <2>5, Zenon DEF Release
<1>7. ASSUME NEW t \in Tasks, Cancel(t) PROVE MapInv'
  BY <1>0, <1>7, FinishStep, Zenon DEF Cancel, Finish, tableVars, stateVars
<1> QED BY <1>1, <1>2, <1>3, <1>4, <1>5, <1>6, <1>7, Zenon DEF Next

\* The invariant gives what users of the map rely on.
LEMMA InvSafe == MapInv => GuardsAreLive /\ GuardsExclude
<1> SUFFICES ASSUME MapInv PROVE GuardsAreLive /\ GuardsExclude
  BY Zenon
<1> USE DEF Waiting, Exclusive, Guarded, OwnsArc
<1>1. GuardsAreLive
  BY Zenon DEF GuardsAreLive, MapInv, TasksWellFormed, LiveIsMapped
<1>2. GuardsExclude
  <2>1. ASSUME NEW t \in Tasks, NEW u \in Tasks, t # u, pc[t] \in Guarded, pc[u] \in Guarded,
               HashOf[key[t]] = HashOf[key[u]]
        PROVE  pc[t] = "reading" /\ pc[u] = "reading"
    <3>1. arc[t] \in Arcs
      BY <2>1, Zenon DEF MapInv, TasksWellFormed
    <3>2. /\ map[HashOf[key[t]]] = [key |-> key[t], arc |-> arc[t]]
          /\ map[HashOf[key[u]]] = [key |-> key[u], arc |-> arc[u]]
      BY <1>1, <2>1, Zenon DEF GuardsAreLive
    <3>3. arc[t] = arc[u]
      BY <2>1, <3>2
    <3> QED BY <2>1, <3>1, <3>3, Zenon DEF MapInv, LocksExclude
  <2> QED BY <2>1, Zenon DEF GuardsExclude
<1> QED BY <1>1, <1>2, Zenon

\* MapInv holds of every reachable state of the map.
THEOREM MapInvariant == Spec => []MapInv
<1> QED BY InitInv, NextInv, PTL DEF Spec

\* No assertion, unreachable! or ensure_present panic of map.rs is ever reached.
THEOREM NoPanic == Spec => []NeverPanics
<1>1. MapInv => NeverPanics
  BY Zenon DEF MapInv
<1> QED BY <1>1, MapInvariant, PTL

\* Every guard speaks for the entry in the table.
THEOREM LiveGuards == Spec => []GuardsAreLive
<1> QED BY InvSafe, MapInvariant, PTL

\* Writers and removers of a hash are alone, readers share.
THEOREM Exclusion == Spec => []GuardsExclude
<1> QED BY InvSafe, MapInvariant, PTL

\* A sentinel in the table has exactly one task about to take it out.
THEOREM Sentinels == Spec => []SentinelOwned
<1>1. MapInv => SentinelOwned
  BY Zenon DEF MapInv
<1> QED BY <1>1, MapInvariant, PTL

-----------------------------------------------------------------------------
(***************************************************************************)
(* BlobMap implements GuardedMap.  A sentinel still in the table counts as *)
(* absent, so the step that sets it is the abstract removal and the later  *)
(* removal from the table is invisible; a task that only waits for a lock  *)
(* holds no guard.  The proof is for all values of the constants: the      *)
(* table that a BlobMapBuilder builds is an abstract map with no guards    *)
(* out, and each step of map.rs is one step of the abstract map or none.   *)
(***************************************************************************)

AbsentCell == [key |-> NoKey, tag |-> "Absent", meta |-> Fresh]

cellBar ==
  [h \in Hashes |->
    IF h \notin Mapped \/ tag[map[h].arc] = "Removing"
      THEN AbsentCell
      ELSE [key |-> map[h].key, tag |-> tag[map[h].arc], meta |-> meta[map[h].arc]]]

GuardOf(p) ==
  CASE p = "reading"    -> "read"
    [] p = "writing"    -> "write"
    [] p = "charged"    -> "charged"
    [] p = "removing"   -> "remove"
    [] p = "discharged" -> "discharged"
    [] OTHER            -> "none"

guardBar == [t \in Tasks |-> GuardOf(pc[t])]

atBar == [t \in Tasks |-> IF pc[t] \in Guarded THEN key[t] ELSE NoKey]

Abstract == INSTANCE GuardedMap WITH cell <- cellBar, guard <- guardBar, at <- atBar, pending <- new

\* Every behaviour of the map is one of the abstract guarded map: lookups before
\* locks, sentinels, retries and the eviction scan cannot be told from outside.
ImplementsGuardedMap == Abstract!GuardedMapSpec

-----------------------------------------------------------------------------
\* Only a task in the middle of WriteGuard::commit holds metadata to commit.
NewFresh == \A t \in Tasks : pc[t] # "charged" => new[t] = Fresh

\* Every step keeps NewFresh.
LEMMA NewFreshStep == MapInv /\ NewFresh /\ [Next]_vars => NewFresh'
<1> SUFFICES ASSUME MapInv, NewFresh, [Next]_vars PROVE NewFresh'
  BY Zenon
<1>0. new \in [Tasks -> Metadata] /\ pc \in [Tasks -> Locations]
  BY Zenon DEF MapInv, TypeOK
<1>1. ASSUME NEW t \in Tasks, NEW p, NEW a, NEW k, NEW n, Move(t, p, a, k, n) PROVE NewFresh'
  BY <1>0, <1>1, Zenon DEF Move, NewFresh
<1>2. CASE UNCHANGED taskVars
  BY <1>2, Zenon DEF taskVars, NewFresh
<1>3. ASSUME NEW t \in Tasks, NEW m \in Metadata, Charge(t, m) PROVE NewFresh'
  BY <1>0, <1>3, Zenon DEF Charge, NewFresh
<1>4. ASSUME NEW t \in Tasks, NEW k, NEW p, NEW n, WriteLock(t, k, p, n) PROVE NewFresh'
  BY <1>1, <1>4, Zenon DEF WriteLock, Insert, Finish
<1>5. ASSUME NEW t \in Tasks, NEW k \in Keys, Call(t, k) PROVE NewFresh'
  BY <1>1, <1>2, <1>4, <1>5, Zenon DEF Call, Read, Peek, Write, WriteNew, Insert, TryWrite, Remove
<1>6. ASSUME NEW t \in Tasks, Locked(t) PROVE NewFresh'
  BY <1>1, <1>6, Zenon DEF Locked, ReadLocked, WriteLocked, RemoveLocked, EnsurePresent, Stay, Finish, Fail
<1>7. ASSUME NEW t \in Tasks, Internal(t) PROVE NewFresh'
  <2>1. CASE TryWriteLocked(t)
    BY <1>1, <2>1, Zenon DEF TryWriteLocked, EnsurePresent, Stay, Finish, Fail
  <2>2. CASE Retry(t)
    BY <1>4, <2>2, Zenon DEF Retry
  <2>3. CASE Scan(t)
    BY <1>1, <1>2, <2>3, Zenon DEF Scan, Finish, Fail
  <2>4. CASE GiveUp(t) \/ Commit(t) \/ CommitRemove(t) \/ Unmap(t) \/ Unwind(t)
    BY <1>1, <2>4, Zenon DEF GiveUp, Commit, CommitRemove, SetRemoving, Unmap, Unwind, Finish, Fail
  <2> QED BY <1>7, <2>1, <2>2, <2>3, <2>4, Zenon DEF Internal
<1>8. ASSUME NEW t \in Tasks, Release(t) PROVE NewFresh'
  BY <1>1, <1>3, <1>8, Zenon DEF Release, DropRead, DropWrite, DropRemove, Discharge, SetRemoving,
       Stay, Finish
<1>9. ASSUME NEW t \in Tasks, BeginScan(t) \/ Cancel(t) PROVE NewFresh'
  BY <1>1, <1>9, Zenon DEF BeginScan, Cancel, Finish
<1> QED BY <1>2, <1>5, <1>6, <1>7, <1>8, <1>9, Zenon DEF Next, vars

-----------------------------------------------------------------------------
\* How the parts of the abstract state follow the concrete ones.

\* A function that differs from another at one argument only.
LEMMA Updated ==
  ASSUME NEW S, NEW f, NEW g, NEW s \in S, NEW v, f = [x \in S |-> f[x]], g = [x \in S |-> g[x]],
         g[s] = v, \A x \in S : x # s => g[x] = f[x]
  PROVE  g = [f EXCEPT ![s] = v]
BY Zenon

\* Moving a task to location p moves its guard to that of p.
LEMMA GuardMoves ==
  ASSUME MapInv, NEW t \in Tasks, NEW p, NEW k,
         pc' = [pc EXCEPT ![t] = p], key' = [key EXCEPT ![t] = k]
  PROVE  /\ guardBar' = [guardBar EXCEPT ![t] = GuardOf(p)]
         /\ atBar' = [atBar EXCEPT ![t] = IF p \in Guarded THEN k ELSE NoKey]
<1>1. pc \in [Tasks -> Locations] /\ key \in [Tasks -> Keys \cup {NoKey}]
  BY Zenon DEF MapInv, TypeOK
<1>2. \A u \in Tasks : /\ pc'[u] = IF u = t THEN p ELSE pc[u]
                       /\ key'[u] = IF u = t THEN k ELSE key[u]
  BY <1>1, Zenon
<1>3. guardBar' = [guardBar EXCEPT ![t] = GuardOf(p)]
  BY <1>2, ZenonT(40) DEF guardBar, GuardOf
<1>4. atBar' = [atBar EXCEPT ![t] = IF p \in Guarded THEN k ELSE NoKey]
  BY <1>2, Zenon DEF atBar
<1> QED BY <1>3, <1>4, Zenon

\* A task that moves to where it has no guard lets go of the one it had.
LEMMA GuardEnds ==
  ASSUME MapInv, NEW t \in Tasks, NEW p, p \notin Guarded, NEW a, NEW k, NEW n, Move(t, p, a, k, n)
  PROVE  Abstract!LetGo(t)
<1>1. pc' = [pc EXCEPT ![t] = p] /\ key' = [key EXCEPT ![t] = k] /\ new' = [new EXCEPT ![t] = Fresh]
  BY Zenon DEF Move
<1>2. GuardOf(p) = "none"
  BY Zenon DEF GuardOf, Guarded
<1>3. guardBar' = [guardBar EXCEPT ![t] = "none"] /\ atBar' = [atBar EXCEPT ![t] = NoKey]
  BY <1>1, <1>2, GuardMoves, Zenon
<1> QED BY <1>1, <1>3, Zenon DEF Abstract!LetGo, Abstract!Hold

\* A step that leaves the table and the states alone leaves the cells alone.
LEMMA CellsStay ==
  ASSUME map' = map, tag' = tag, meta' = meta
  PROVE  cellBar' = cellBar
BY Zenon DEF cellBar, Mapped, Vacant

\* A task that holds no guard before or after a step that changes only its place
\* takes no step of the abstract map.
LEMMA QuietStep ==
  ASSUME MapInv, NewFresh, NEW t \in Tasks, NEW p, NEW a, NEW k, NEW n, Move(t, p, a, k, n),
         pc[t] \notin Guarded, p \notin Guarded, cellBar' = cellBar, size' = size
  PROVE  UNCHANGED Abstract!mapVars
<1>1. pc \in [Tasks -> Locations] /\ new \in [Tasks -> Metadata]
  BY Zenon DEF MapInv, TypeOK
<1>2. new' = new
  BY <1>1, Zenon DEF Move, NewFresh, Guarded
<1>3. GuardOf(p) = "none" /\ guardBar[t] = "none" /\ atBar[t] = NoKey
  BY Zenon DEF GuardOf, guardBar, atBar, Guarded
<1>4. guardBar' = guardBar /\ atBar' = atBar
  <2>1. /\ guardBar' = [guardBar EXCEPT ![t] = GuardOf(p)]
        /\ atBar' = [atBar EXCEPT ![t] = NoKey]
    BY GuardMoves, Zenon DEF Move
  <2> QED BY <1>3, <2>1, Zenon DEF guardBar, atBar
<1> QED BY <1>2, <1>4, Zenon DEF Abstract!mapVars

\* The guard of a task is for the cell of its entry.
LEMMA GuardedCell ==
  ASSUME MapInv, NEW t \in Tasks, pc[t] \in Guarded
  PROVE  /\ key[t] \in Keys /\ arc[t] \in Arcs /\ HashOf[key[t]] \in Mapped
         /\ map[HashOf[key[t]]] = [key |-> key[t], arc |-> arc[t]]
         /\ tag[arc[t]] # "Removing"
         /\ atBar[t] = key[t]
         /\ cellBar[HashOf[key[t]]] = [key |-> key[t], tag |-> tag[arc[t]], meta |-> meta[arc[t]]]
         /\ cellBar[HashOf[key[t]]].tag = tag[arc[t]]
         /\ cellBar[HashOf[key[t]]].meta = meta[arc[t]]
<1>1. key[t] \in Keys /\ arc[t] \in Arcs /\ tag[arc[t]] # "Removing"
  BY Zenon DEF MapInv, TasksWellFormed, Guarded, Exclusive, OwnsArc
<1>2. map[HashOf[key[t]]] = [key |-> key[t], arc |-> arc[t]]
  BY <1>1, Zenon DEF MapInv, LiveIsMapped
<1>3. HashOf[key[t]] \in Mapped
  BY <1>1, <1>2 DEF Mapped, Vacant
<1>4. cellBar[HashOf[key[t]]] = [key |-> key[t], tag |-> tag[arc[t]], meta |-> meta[arc[t]]]
  BY <1>1, <1>2, <1>3 DEF cellBar
<1>5. atBar[t] = key[t]
  BY Zenon DEF atBar
<1> QED BY <1>1, <1>2, <1>3, <1>4, <1>5

\* A task has a guard in the abstract map just where it has one in the code.
LEMMA GuardKind ==
  ASSUME NEW t \in Tasks
  PROVE  /\ guardBar[t] # "none" <=> pc[t] \in Guarded
         /\ guardBar[t] = "read" <=> pc[t] = "reading"
         /\ guardBar[t] = "write" <=> pc[t] = "writing"
         /\ guardBar[t] = "charged" <=> pc[t] = "charged"
         /\ guardBar[t] = "remove" <=> pc[t] = "removing"
         /\ guardBar[t] = "discharged" <=> pc[t] = "discharged"
BY Zenon DEF guardBar, GuardOf, Guarded

\* Who holds a guard on the hash of a Present entry holds its Arc.
LEMMA HoldersHaveArc ==
  ASSUME MapInv, NEW h \in Mapped, NEW u \in Abstract!Holders(h)
  PROVE  u \in Tasks /\ pc[u] \in Guarded /\ arc[u] = map[h].arc
<1>1. u \in Tasks /\ pc[u] \in Guarded /\ HashOf[atBar[u]] = h
  BY GuardKind, Zenon DEF Abstract!Holders
<1>2. map[HashOf[key[u]]] = [key |-> key[u], arc |-> arc[u]] /\ atBar[u] = key[u]
  BY <1>1, GuardedCell, Zenon
<1> QED BY <1>1, <1>2

\* The lock of a Present entry, granted to a reader: so the cell is readable; granted
\* exclusively: so it is writable.
LEMMA GrantedCell ==
  ASSUME MapInv, NEW h \in Mapped, tag[map[h].arc] = "Present"
  PROVE  /\ CanRead(map[h].arc) => Abstract!Readable(h)
         /\ CanWrite(map[h].arc) => Abstract!Writable(h)
         /\ cellBar[h].key = map[h].key
<1>1. cellBar[h] = [key |-> map[h].key, tag |-> "Present", meta |-> meta[map[h].arc]]
  BY Zenon DEF cellBar, Mapped
<1>2. ASSUME CanRead(map[h].arc), NEW u \in Abstract!Holders(h) PROVE guardBar[u] = "read"
  <2>1. u \in Tasks /\ pc[u] \in Guarded /\ arc[u] = map[h].arc
    BY HoldersHaveArc, Zenon
  <2>2. pc[u] = "reading"
    BY <1>2, <2>1, Zenon DEF CanRead, Guarded, Exclusive
  <2> QED BY <2>1, <2>2, GuardKind, Zenon
<1>3. ASSUME CanWrite(map[h].arc) PROVE Abstract!Holders(h) = {}
  <2>1. ASSUME NEW u \in Abstract!Holders(h) PROVE FALSE
    <3>1. u \in Tasks /\ pc[u] \in Guarded /\ arc[u] = map[h].arc
      BY HoldersHaveArc, Zenon
    <3> QED BY <1>3, <3>1, Zenon DEF CanWrite, Guarded, Exclusive
  <2> QED BY <2>1, Zenon
<1> QED BY <1>1, <1>2, <1>3 DEF Abstract!Readable, Abstract!Writable

-----------------------------------------------------------------------------
\* The steps of the abstract map, by the change that the code makes.

Refined == [Abstract!GuardedMapNext]_(Abstract!mapVars)

\* ReadGuard, WriteGuard and RemoveGuard: the lock of a Present entry is taken.
LEMMA GrantAbstract ==
  ASSUME MapInv, NEW t \in Tasks, NEW h \in Mapped, tag[map[h].arc] = "Present",
         pc[t] \notin Guarded, NEW p \in {"reading", "writing", "removing"}, NEW n,
         Move(t, p, map[h].arc, map[h].key, n),
         CanRead(map[h].arc), p # "reading" => CanWrite(map[h].arc),
         cellBar' = cellBar, size' = size
  PROVE  Refined
<1> DEFINE k == map[h].key
<1>1. k \in Keys /\ HashOf[k] = h
  BY Zenon DEF MapInv, TableWellFormed
<1>2. /\ guardBar' = [guardBar EXCEPT ![t] = GuardOf(p)]
      /\ atBar' = [atBar EXCEPT ![t] = k]
      /\ new' = [new EXCEPT ![t] = Fresh]
  BY GuardMoves, Zenon DEF Move, Guarded
<1>3. Abstract!Hold(t, GuardOf(p), k)
  BY <1>2, Zenon DEF Abstract!Hold
<1>4. guardBar[t] = "none" /\ cellBar[h].key = k
  BY GuardKind, GrantedCell, Zenon
<1>5. CASE p = "reading"
  <2>1. Abstract!LockRead(t, k)
    BY <1>1, <1>3, <1>4, <1>5, GrantedCell, Zenon DEF Abstract!LockRead, GuardOf
  <2> QED BY <1>1, <2>1, Zenon DEF Refined, Abstract!GuardedMapNext
<1>6. CASE p = "writing"
  <2>1. Abstract!LockWrite(t, k)
    BY <1>1, <1>3, <1>4, <1>6, GrantedCell, Zenon DEF Abstract!LockWrite, GuardOf
  <2> QED BY <1>1, <2>1, Zenon DEF Refined, Abstract!GuardedMapNext
<1>7. CASE p = "removing"
  <2>1. Abstract!LockRemove(t, k)
    BY <1>1, <1>3, <1>4, <1>7, GrantedCell, Zenon DEF Abstract!LockRemove, GuardOf
  <2> QED BY <1>1, <2>1, Zenon DEF Refined, Abstract!GuardedMapNext
<1> QED BY <1>5, <1>6, <1>7, Zenon

\* ensure_present: a guard for a Present entry, nothing for the sentinel.
LEMMA EnsureAbstract ==
  ASSUME MapInv, NewFresh, NEW t \in Tasks, pc[t] \in Waiting, CanRead(arc[t]),
         NEW p \in {"reading", "writing", "removing"},
         p # "reading" => CanWrite(arc[t]), EnsurePresent(t, p),
         UNCHANGED <<tableVars, stateVars, size>>
  PROVE  Refined
<1>1. arc[t] \in Arcs /\ key[t] \in Keys /\ tag[arc[t]] \in {"Present", "Removing"}
  BY GrantFinds, Zenon
<1>2. cellBar' = cellBar /\ size' = size
  BY CellsStay, Zenon DEF tableVars, stateVars
<1>3. pc[t] \notin Guarded
  BY Zenon DEF Waiting, Guarded
<1>4. CASE tag[arc[t]] = "Present"
  <2> DEFINE h == HashOf[key[t]]
  <2>1. map[h] = [key |-> key[t], arc |-> arc[t]]
    BY <1>1, <1>4, Zenon DEF MapInv, LiveIsMapped
  <2>2. h \in Mapped
    BY <1>1, <2>1 DEF Mapped, Vacant
  <2>3. Move(t, p, map[h].arc, map[h].key, 0)
    BY <1>4, <2>1 DEF EnsurePresent, Stay
  <2> HIDE DEF h
  <2> QED BY <1>2, <1>3, <1>4, <2>1, <2>2, <2>3, GrantAbstract
<1>5. CASE tag[arc[t]] = "Removing"
  <2>1. Move(t, "idle", NoArc, NoKey, 0) /\ "idle" \notin Guarded
    BY <1>5, Zenon DEF EnsurePresent, Finish, Guarded
  <2> QED BY <1>2, <1>3, <2>1, QuietStep, Zenon DEF Refined
<1> QED BY <1>1, <1>4, <1>5, Zenon

\* Entry::new under the mutex is the abstract insertion.
LEMMA InsertAbstract ==
  ASSUME MapInv, NEW t \in Tasks, NEW k \in Keys, HashOf[k] \notin Mapped, Insert(t, k),
         pc[t] \notin Guarded
  PROVE  Refined
<1> DEFINE h == HashOf[k]
<1>0. h \in Hashes /\ map[h] = Vacant
  BY Zenon DEF Mapped
<1>1. PICK a \in Arcs :
        /\ Unreferenced(a)
        /\ map' = [map EXCEPT ![h] = [key |-> k, arc |-> a]]
        /\ tag' = [tag EXCEPT ![a] = "New"]
        /\ meta' = [meta EXCEPT ![a] = Fresh]
        /\ Move(t, "writing", a, k, 0)
        /\ size' = size
  BY Zenon DEF Insert
<1>2. /\ guardBar' = [guardBar EXCEPT ![t] = "write"]
      /\ atBar' = [atBar EXCEPT ![t] = k]
      /\ new' = [new EXCEPT ![t] = Fresh]
  BY <1>1, GuardMoves, Zenon DEF Move, Guarded, GuardOf
<1>3. guardBar[t] = "none" /\ cellBar[h] = Abstract!Absent
  BY <1>0, GuardKind, Zenon DEF cellBar, Abstract!Absent, AbsentCell
<1>4. cellBar' = [cellBar EXCEPT ![h] = Abstract!Blob(k, "New", Fresh)]
  <2>1. map'[h] = [key |-> k, arc |-> a] /\ tag'[a] = "New" /\ meta'[a] = Fresh
    BY <1>0, <1>1, Zenon DEF MapInv, TypeOK
  <2>2. h \in Mapped'
    BY <1>0, <2>1 DEF Mapped, Vacant
  <2>3. cellBar'[h] = Abstract!Blob(k, "New", Fresh)
    BY <1>0, <2>1, <2>2 DEF cellBar, Abstract!Blob
  <2>4. ASSUME NEW g \in Hashes, g # h PROVE cellBar'[g] = cellBar[g]
    <3>1. map'[g] = map[g] /\ (g \in Mapped' <=> g \in Mapped)
      BY <1>1, <2>4, Zenon DEF MapInv, TypeOK, Mapped, Vacant
    <3>2. CASE g \in Mapped
      <4>1. map[g].arc \in Arcs /\ map[g].arc # a
        BY <1>1, <3>2, Zenon DEF MapInv, TableWellFormed, Unreferenced
      <4>2. tag'[map[g].arc] = tag[map[g].arc] /\ meta'[map[g].arc] = meta[map[g].arc]
        BY <1>1, <4>1, Zenon DEF MapInv, TypeOK
      <4> QED BY <3>1, <3>2, <4>2, Zenon DEF cellBar
    <3>3. CASE g \notin Mapped
      BY <3>1, <3>3, Zenon DEF cellBar, AbsentCell
    <3> QED BY <3>2, <3>3, Zenon
  <2>5. cellBar = [g \in Hashes |-> cellBar[g]] /\ cellBar' = [g \in Hashes |-> cellBar'[g]]
    BY Zenon DEF cellBar
  <2> HIDE DEF h
  <2> QED BY <1>0, <2>3, <2>4, <2>5, Updated, Zenon
<1>5. Abstract!InsertNew(t, k)
  BY <1>1, <1>2, <1>3, <1>4, Zenon DEF Abstract!InsertNew, Abstract!SetCell, Abstract!Hold
<1> QED BY <1>5, Zenon DEF Refined, Abstract!GuardedMapNext

\* write_lock: an insertion, or a lookup that no one sees.
LEMMA WriteLockAbstract ==
  ASSUME MapInv, NewFresh, NEW t \in Tasks, NEW k \in Keys, NEW p \in {"write_wait", "try_wait"},
         NEW n, pc[t] \notin Guarded, WriteLock(t, k, p, n)
  PROVE  Refined
<1>1. CASE HashOf[k] \notin Mapped
  BY <1>1, InsertAbstract, Zenon DEF WriteLock
<1>2. CASE HashOf[k] \in Mapped
  <2>1. cellBar' = cellBar /\ size' = size
    BY <1>2, CellsStay, Zenon DEF WriteLock, stateVars
  <2>2. p \notin Guarded /\ "idle" \notin Guarded
    BY Zenon DEF Guarded
  <2>3. \/ Move(t, p, map[HashOf[k]].arc, k, n)
        \/ Move(t, "idle", NoArc, NoKey, 0)
    BY <1>2, Zenon DEF WriteLock, Finish
  <2> QED BY <2>1, <2>2, <2>3, QuietStep, Zenon DEF Refined
<1> QED BY <1>1, <1>2, Zenon

\* The counter moves as a commit begins, by what the cell held.
LEMMA ChargeAbstract ==
  ASSUME MapInv, NEW t \in Tasks, NEW m \in Metadata, Charge(t, m)
  PROVE  Refined
<1>1. pc[t] = "writing" /\ pc[t] \in Guarded /\ guardBar[t] = "write"
  BY GuardKind, Zenon DEF Charge, Guarded
<1>2. atBar[t] = key[t] /\ cellBar[HashOf[key[t]]].meta = meta[arc[t]]
  BY <1>1, GuardedCell, Zenon
<1>3. cellBar' = cellBar
  BY CellsStay, Zenon DEF Charge, tableVars, stateVars
<1>4. /\ pc' = [pc EXCEPT ![t] = "charged"] /\ key' = [key EXCEPT ![t] = key[t]]
      /\ new' = [new EXCEPT ![t] = m] /\ size' = size + SizeOf[m] - SizeOf[meta[arc[t]]]
  BY Zenon DEF Charge, MapInv, TypeOK
<1>5. guardBar' = [guardBar EXCEPT ![t] = "charged"] /\ atBar' = [atBar EXCEPT ![t] = key[t]]
  BY <1>4, GuardMoves, Zenon DEF GuardOf, Guarded
<1>6. atBar' = atBar
  BY <1>2, <1>5, Zenon DEF atBar
<1>7. Abstract!ChargeSize(t, m)
  BY <1>1, <1>2, <1>3, <1>4, <1>5, <1>6, Zenon DEF Abstract!ChargeSize, Abstract!CellOf
<1> QED BY <1>7, Zenon DEF Refined, Abstract!GuardedMapNext

\* A change of the state behind the Arc of a guard is one of that guard's cell only.
LEMMA CellChanges ==
  ASSUME MapInv, NEW t \in Tasks, pc[t] \in Guarded, NEW s \in {"Present", "Removing"},
         NEW m \in Metadata, map' = map,
         tag' = [tag EXCEPT ![arc[t]] = s], meta' = [meta EXCEPT ![arc[t]] = m]
  PROVE  cellBar' = [cellBar EXCEPT ![HashOf[key[t]]] =
           IF s = "Present" THEN Abstract!Blob(key[t], "Present", m) ELSE Abstract!Absent]
<1> DEFINE h == HashOf[key[t]]
<1>1. /\ h \in Mapped /\ h \in Hashes /\ arc[t] \in Arcs
      /\ map[h] = [key |-> key[t], arc |-> arc[t]]
  BY GuardedCell, Zenon DEF Mapped
<1>2. Mapped' = Mapped
  BY Zenon DEF Mapped, Vacant
<1>3. tag'[arc[t]] = s /\ meta'[arc[t]] = m
  BY <1>1, Zenon DEF MapInv, TypeOK
<1>4. cellBar'[h] = IF s = "Present" THEN Abstract!Blob(key[t], "Present", m) ELSE Abstract!Absent
  BY <1>1, <1>2, <1>3 DEF cellBar, AbsentCell, Abstract!Blob, Abstract!Absent
<1>5. ASSUME NEW g \in Hashes, g # h PROVE cellBar'[g] = cellBar[g]
  <2>1. CASE g \in Mapped
    <3>1. map[g].arc \in Arcs /\ map[g].arc # arc[t]
      BY <1>1, <1>5, <2>1 DEF MapInv, TableWellFormed
    <3>2. tag'[map[g].arc] = tag[map[g].arc] /\ meta'[map[g].arc] = meta[map[g].arc]
      BY <3>1, Zenon DEF MapInv, TypeOK
    <3> QED BY <1>2, <2>1, <3>2, Zenon DEF cellBar, AbsentCell
  <2>2. CASE g \notin Mapped
    BY <1>2, <2>2, Zenon DEF cellBar, AbsentCell
  <2> QED BY <2>1, <2>2, Zenon
<1>6. cellBar = [g \in Hashes |-> cellBar[g]] /\ cellBar' = [g \in Hashes |-> cellBar'[g]]
  BY Zenon DEF cellBar
<1> QED BY <1>1, <1>4, <1>5, <1>6, Updated, Zenon

\* The state is written as a commit ends, with the metadata it was charged for.
LEMMA CommitAbstract ==
  ASSUME MapInv, NEW t \in Tasks, Commit(t)
  PROVE  Refined
<1>1. pc[t] = "charged" /\ pc[t] \in Guarded /\ guardBar[t] = "charged" /\ new[t] \in Metadata
  BY GuardKind, Zenon DEF Commit, Guarded, MapInv, TypeOK
<1>2. atBar[t] = key[t]
  BY <1>1, GuardedCell, Zenon
<1>3. cellBar' = [cellBar EXCEPT ![HashOf[key[t]]] = Abstract!Blob(key[t], "Present", new[t])]
  BY <1>1, CellChanges, Zenon DEF Commit, tableVars
<1>4. Abstract!LetGo(t)
  <2>1. "idle" \notin Guarded /\ Move(t, "idle", NoArc, NoKey, 0)
    BY Zenon DEF Commit, Finish, Guarded
  <2> QED BY <2>1, GuardEnds, Zenon
<1>5. size' = size
  BY Zenon DEF Commit
<1>6. Abstract!CommitCell(t)
  BY <1>1, <1>2, <1>3, <1>4, <1>5, Zenon DEF Abstract!CommitCell, Abstract!SetCell
<1> QED BY <1>6, Zenon DEF Refined, Abstract!GuardedMapNext

\* The sentinel is set: for a discharged guard that is the abstract removal, for a
\* New entry the drop of its guard.
LEMMA SentinelAbstract ==
  ASSUME MapInv, NEW t \in Tasks, SetRemoving(t),
         pc[t] = "discharged" \/ (pc[t] = "writing" /\ tag[arc[t]] = "New")
  PROVE  Refined
<1>1. pc[t] \in Guarded
  BY Zenon DEF Guarded
<1>2. atBar[t] = key[t] /\ cellBar[HashOf[key[t]]].tag = tag[arc[t]]
  BY <1>1, GuardedCell, Zenon
<1>3. cellBar' = [cellBar EXCEPT ![HashOf[key[t]]] = Abstract!Absent]
  BY <1>1, CellChanges, Zenon DEF SetRemoving, tableVars
<1>5. size' = size
  BY Zenon DEF SetRemoving
<1>6. Abstract!LetGo(t)
  <2>1. "unmap" \notin Guarded /\ Move(t, "unmap", NoArc, key[t], 0)
    BY Zenon DEF SetRemoving, Guarded
  <2> QED BY <2>1, GuardEnds, Zenon
<1>7. CASE pc[t] = "discharged"
  <2>1. Abstract!RemoveCell(t)
    BY <1>2, <1>3, <1>5, <1>6, <1>7, GuardKind, Zenon DEF Abstract!RemoveCell, Abstract!SetCell
  <2> QED BY <2>1, Zenon DEF Refined, Abstract!GuardedMapNext
<1>8. CASE pc[t] = "writing" /\ tag[arc[t]] = "New"
  <2>1. Abstract!DropGuard(t)
    BY <1>2, <1>3, <1>5, <1>6, <1>8, GuardKind, Zenon DEF Abstract!DropGuard, Abstract!SetCell, Abstract!CellOf
  <2> QED BY <2>1, Zenon DEF Refined, Abstract!GuardedMapNext
<1> QED BY <1>7, <1>8, Zenon

\* A guard that is dropped leaves a committed cell as it was.
LEMMA DropAbstract ==
  ASSUME MapInv, NEW t \in Tasks, pc[t] \in {"reading", "writing", "removing"},
         tag[arc[t]] # "New", Finish(t), UNCHANGED <<tableVars, stateVars, size>>
  PROVE  Refined
<1>1. pc[t] \in Guarded /\ guardBar[t] \in {"read", "write", "remove"}
  BY GuardKind, Zenon DEF Guarded
<1>2. atBar[t] = key[t] /\ cellBar[HashOf[key[t]]].tag # "New"
  BY <1>1, GuardedCell, Zenon
<1>3. cellBar' = cellBar
  BY CellsStay, Zenon DEF tableVars, stateVars
<1>4. Abstract!LetGo(t)
  <2>1. "idle" \notin Guarded /\ Move(t, "idle", NoArc, NoKey, 0)
    BY Zenon DEF Finish, Guarded
  <2> QED BY <2>1, GuardEnds, Zenon
<1>5. size' = size
  BY Zenon
<1>6. Abstract!DropGuard(t)
  BY <1>1, <1>2, <1>3, <1>4, <1>5, Zenon DEF Abstract!DropGuard, Abstract!CellOf
<1> QED BY <1>6, Zenon DEF Refined, Abstract!GuardedMapNext

\* The counter moves as a removal begins.
LEMMA DischargeAbstract ==
  ASSUME MapInv, NewFresh, NEW t \in Tasks, Discharge(t)
  PROVE  Refined
<1>1. /\ pc[t] \in {"writing", "removing"} /\ pc[t] \in Guarded
      /\ guardBar[t] \in {"write", "remove"}
  BY GuardKind, Zenon DEF Discharge, Guarded
<1>2. atBar[t] = key[t] /\ cellBar[HashOf[key[t]]].meta = meta[arc[t]]
  BY <1>1, GuardedCell, Zenon
<1>3. cellBar' = cellBar
  BY CellsStay, Zenon DEF Discharge, tableVars, stateVars
<1>4. /\ guardBar' = [guardBar EXCEPT ![t] = "discharged"] /\ atBar' = [atBar EXCEPT ![t] = key[t]]
  BY GuardMoves, Zenon DEF Discharge, Stay, Move, GuardOf, Guarded
<1>5. new' = new
  BY <1>1, Zenon DEF Discharge, Stay, Move, NewFresh, MapInv, TypeOK
<1>6. atBar' = atBar
  BY <1>2, <1>4, Zenon DEF atBar
<1>7. Abstract!DischargeSize(t)
  BY <1>1, <1>2, <1>3, <1>4, <1>5, <1>6, Zenon DEF Abstract!DischargeSize, Abstract!CellOf, Discharge
<1> QED BY <1>7, Zenon DEF Refined, Abstract!GuardedMapNext

\* Taking the sentinel out of the table is not seen: its cell is absent already.
LEMMA UnmapAbstract ==
  ASSUME MapInv, NewFresh, NEW t \in Tasks, Unmap(t)
  PROVE  Refined
<1> DEFINE h == HashOf[key[t]]
<1>1. /\ pc[t] = "unmap" /\ key[t] \in Keys /\ h \in Hashes
      /\ map[h].key = key[t] /\ tag[map[h].arc] = "Removing"
  BY Zenon DEF Unmap, MapInv, TasksWellFormed, SentinelOwned
<1>2. h \in Mapped
  BY <1>1 DEF Mapped, Vacant
<1>3. cellBar' = cellBar
  <2>1. map' = [map EXCEPT ![h] = Vacant] /\ tag' = tag /\ meta' = meta
    BY Zenon DEF Unmap, stateVars
  <2>2. cellBar[h] = AbsentCell
    BY <1>1, Zenon DEF cellBar
  <2>3. cellBar'[h] = AbsentCell
    BY <1>1, <2>1, Zenon DEF cellBar, Mapped, MapInv, TypeOK, Vacant, AbsentCell
  <2>4. ASSUME NEW g \in Hashes, g # h PROVE cellBar'[g] = cellBar[g]
    <3>1. map'[g] = map[g]
      BY <2>1, <2>4, Zenon DEF MapInv, TypeOK
    <3>2. g \in Mapped' <=> g \in Mapped
      BY <3>1, Zenon DEF Mapped, Vacant
    <3> QED BY <2>1, <3>1, <3>2, Zenon DEF cellBar, AbsentCell
  <2>5. cellBar = [g \in Hashes |-> cellBar[g]] /\ cellBar' = [g \in Hashes |-> cellBar'[g]]
    BY Zenon DEF cellBar
  <2>6. \A g \in Hashes : cellBar'[g] = cellBar[g]
    BY <2>2, <2>3, <2>4, Zenon
  <2> QED BY <2>5, <2>6, Zenon
<1>4. Move(t, "idle", NoArc, NoKey, 0) /\ size' = size
  BY <1>2, Zenon DEF Unmap, Finish
<1>5. pc[t] \notin Guarded /\ "idle" \notin Guarded
  BY <1>1, Zenon DEF Guarded
<1> QED BY <1>3, <1>4, <1>5, QuietStep, Zenon DEF Refined

-----------------------------------------------------------------------------
\* Every step of map.rs is a step of the guarded map or none: one case per action.
LEMMA StepRefines == MapInv /\ NewFresh /\ [Next]_vars => Refined
<1> SUFFICES ASSUME MapInv, NewFresh, [Next]_vars PROVE Refined
  BY Zenon
<1>0. \A p \in Waiting \cup Failed \cup {"idle", "scan", "yielding", "unmap"} : p \notin Guarded
  BY Zenon DEF Waiting, Failed, Guarded
<1>1. CASE UNCHANGED vars
  <2>1. cellBar' = cellBar
    BY <1>1, CellsStay, Zenon DEF vars, tableVars, stateVars
  <2>2. guardBar' = guardBar /\ atBar' = atBar /\ new' = new /\ size' = size
    BY <1>1, Zenon DEF vars, taskVars, guardBar, atBar
  <2> QED BY <2>1, <2>2, Zenon DEF Refined, Abstract!mapVars
<1>2. ASSUME NEW t \in Tasks, NEW p, NEW a, NEW k, NEW n, Move(t, p, a, k, n),
             pc[t] \notin Guarded, p \notin Guarded,
             map' = map, tag' = tag, meta' = meta, size' = size
      PROVE  Refined
  <2>1. cellBar' = cellBar
    BY <1>2, CellsStay, Zenon
  <2> QED BY <1>2, <2>1, QuietStep, Zenon DEF Refined
<1>3. ASSUME NEW t \in Tasks, NEW k \in Keys, Call(t, k) PROVE Refined
  <2>1. CASE Read(t, k)
    <3>1. map' = map /\ tag' = tag /\ meta' = meta /\ size' = size /\ pc[t] \notin Guarded
      BY <1>0, <2>1, Zenon DEF Read, stateVars
    <3>2. CASE map[HashOf[k]].key = k
      BY <1>0, <1>2, <2>1, <3>1, <3>2, Zenon DEF Read, Waiting
    <3>3. CASE map[HashOf[k]].key # k
      <4>1. cellBar' = cellBar
        BY <3>1, CellsStay, Zenon
      <4>2. guardBar' = guardBar /\ atBar' = atBar /\ new' = new
        BY <2>1, <3>3, Zenon DEF Read, taskVars, guardBar, atBar
      <4> QED BY <3>1, <4>1, <4>2, Zenon DEF Refined, Abstract!mapVars
    <3> QED BY <3>2, <3>3, Zenon
  <2>2. CASE Peek(t, k)
    BY <1>0, <1>2, <2>2, Zenon DEF Peek, Waiting, tableVars, stateVars
  <2>3. CASE Write(t, k)
    BY <1>0, <2>3, WriteLockAbstract, Zenon DEF Write
  <2>4. CASE WriteNew(t, k)
    BY <1>0, <2>4, InsertAbstract, Zenon DEF WriteNew
  <2>5. CASE TryWrite(t, k)
    BY <1>0, <2>5, WriteLockAbstract, Zenon DEF TryWrite
  <2>6. CASE Remove(t, k)
    BY <1>0, <1>2, <2>6, Zenon DEF Remove, Waiting, tableVars, stateVars
  <2> QED BY <1>3, <2>1, <2>2, <2>3, <2>4, <2>5, <2>6, Zenon DEF Call
<1>4. ASSUME NEW t \in Tasks, BeginScan(t) PROVE Refined
  BY <1>0, <1>2, <1>4, Zenon DEF BeginScan, stateVars
<1>5. ASSUME NEW t \in Tasks, Locked(t) PROVE Refined
  <2>1. CASE ReadLocked(t)
    BY <2>1, EnsureAbstract, Zenon DEF ReadLocked, Waiting
  <2>2. CASE WriteLocked(t)
    <3>1. /\ CanRead(arc[t]) /\ CanWrite(arc[t]) /\ pc[t] \in Waiting
          /\ UNCHANGED <<tableVars, stateVars, size>>
      BY <2>2, Zenon DEF WriteLocked, CanRead, CanWrite, Waiting
    <3>2. tag[arc[t]] \in {"Present", "Removing"}
      BY <3>1, GrantFinds, Zenon
    <3>3. CASE tag[arc[t]] = "Present"
      <4>1. EnsurePresent(t, "writing")
        BY <2>2, <3>3, Zenon DEF WriteLocked, EnsurePresent
      <4> QED BY <3>1, <4>1, EnsureAbstract, Zenon
    <3>4. CASE tag[arc[t]] = "Removing"
      <4>1. Move(t, "yielding", arc[t], key[t], tries[t])
        BY <2>2, <3>4, Zenon DEF WriteLocked
      <4> QED BY <1>0, <1>2, <3>1, <4>1, Zenon DEF tableVars, stateVars
    <3> QED BY <3>2, <3>3, <3>4, Zenon
  <2>3. CASE RemoveLocked(t)
    BY <2>3, EnsureAbstract, Zenon DEF RemoveLocked, Waiting, CanRead, CanWrite
  <2> QED BY <1>5, <2>1, <2>2, <2>3, Zenon DEF Locked
<1>6. ASSUME NEW t \in Tasks, Internal(t) PROVE Refined
  <2>1. CASE TryWriteLocked(t)
    <3>1. CASE CanWrite(arc[t])
      BY <2>1, <3>1, EnsureAbstract, Zenon DEF TryWriteLocked, Waiting, CanRead, CanWrite
    <3>2. CASE ~CanWrite(arc[t])
      BY <1>0, <1>2, <2>1, <3>2, Zenon DEF TryWriteLocked, Finish, Waiting, tableVars, stateVars
    <3> QED BY <3>1, <3>2, Zenon
  <2>2. CASE Retry(t)
    <3>1. key[t] \in Keys /\ pc[t] \notin Guarded
      BY <1>0, <2>2, Zenon DEF Retry, MapInv, TasksWellFormed, OwnsArc, Exclusive
    <3> QED BY <2>2, <3>1, WriteLockAbstract, Zenon DEF Retry
  <2>3. CASE GiveUp(t)
    BY <1>0, <1>2, <2>3, Zenon DEF GiveUp, Fail, Failed, tableVars, stateVars
  <2>4. CASE Commit(t)
    BY <2>4, CommitAbstract, Zenon
  <2>5. CASE Scan(t)
    <3>1. /\ pc[t] \notin Guarded /\ map' = map /\ tag' = tag /\ meta' = meta /\ size' = size
      BY <1>0, <2>5, Zenon DEF Scan, stateVars
    <3>2. CASE Finish(t)
      BY <1>0, <1>2, <3>1, <3>2, Zenon DEF Finish
    <3>3. CASE UNCHANGED taskVars
      <4>1. cellBar' = cellBar
        BY <3>1, CellsStay, Zenon
      <4>2. guardBar' = guardBar /\ atBar' = atBar /\ new' = new
        BY <3>3, Zenon DEF taskVars, guardBar, atBar
      <4> QED BY <3>1, <4>1, <4>2, Zenon DEF Refined, Abstract!mapVars
    <3>4. ASSUME NEW h \in left, CanWrite(map[h].arc), tag[map[h].arc] # "Removing",
                 IF tag[map[h].arc] = "Present"
                   THEN Move(t, "removing", map[h].arc, map[h].key, 0)
                   ELSE Fail(t, "panic")
          PROVE  Refined
      <4>1. h \in Mapped /\ map[h].arc \in Arcs
        BY Zenon DEF MapInv, ScanInTable, TableWellFormed
      <4>2. tag[map[h].arc] = "Present"
        BY <3>4, <4>1 DEF MapInv, TypeOK, NewIsLocked, CanWrite, Exclusive
      <4>3. CanRead(map[h].arc) /\ cellBar' = cellBar
        BY <3>1, <3>4, CellsStay, Zenon DEF CanRead, CanWrite
      <4> QED BY <3>1, <3>4, <4>1, <4>2, <4>3, GrantAbstract, Zenon
    <3> QED BY <2>5, <3>2, <3>3, <3>4, Zenon DEF Scan
  <2>6. CASE CommitRemove(t)
    BY <2>6, SentinelAbstract, Zenon DEF CommitRemove
  <2>7. CASE Unmap(t)
    BY <2>7, UnmapAbstract, Zenon
  <2>8. CASE Unwind(t)
    BY <1>0, <1>2, <2>8, Zenon DEF Unwind, Finish, tableVars, stateVars
  <2> QED BY <1>6, <2>1, <2>2, <2>3, <2>4, <2>5, <2>6, <2>7, <2>8, Zenon DEF Internal
<1>7. ASSUME NEW t \in Tasks, Release(t) PROVE Refined
  <2>1. CASE DropRead(t)
    <3>1. tag[arc[t]] # "New"
      BY <2>1, Zenon DEF DropRead, MapInv, TasksWellFormed
    <3> QED BY <2>1, <3>1, DropAbstract, Zenon DEF DropRead
  <2>2. CASE DropWrite(t)
    <3>1. CASE tag[arc[t]] = "New"
      BY <2>2, <3>1, SentinelAbstract, Zenon DEF DropWrite
    <3>2. CASE tag[arc[t]] # "New"
      BY <2>2, <3>2, DropAbstract, Zenon DEF DropWrite
    <3> QED BY <3>1, <3>2, Zenon
  <2>3. CASE DropRemove(t)
    <3>1. tag[arc[t]] # "New"
      BY <2>3, Zenon DEF DropRemove, MapInv, TasksWellFormed
    <3> QED BY <2>3, <3>1, DropAbstract, Zenon DEF DropRemove
  <2>4. CASE Discharge(t)
    BY <2>4, DischargeAbstract, Zenon
  <2>5. ASSUME NEW m \in Metadata, Charge(t, m) PROVE Refined
    BY <2>5, ChargeAbstract, Zenon
  <2> QED BY <1>7, <2>1, <2>2, <2>3, <2>4, <2>5, Zenon DEF Release
<1>8. ASSUME NEW t \in Tasks, Cancel(t) PROVE Refined
  BY <1>0, <1>2, <1>8, Zenon DEF Cancel, Finish, Waiting, tableVars, stateVars
<1> QED BY <1>1, <1>3, <1>4, <1>5, <1>6, <1>7, <1>8, Zenon DEF Next

\* The table that a BlobMapBuilder builds is an abstract map whose guards are all free.
LEMMA InitRefines == Init => Abstract!GuardedMapInit /\ NewFresh
<1> SUFFICES ASSUME Init PROVE Abstract!GuardedMapInit /\ NewFresh
  BY Zenon
<1>1. guardBar = [t \in Tasks |-> "none"] /\ atBar = [t \in Tasks |-> NoKey]
  BY Zenon DEF Init, guardBar, GuardOf, atBar, Guarded
<1>2. ASSUME NEW h \in Hashes
      PROVE  /\ cellBar[h] \in {Abstract!Absent} \cup [key : Keys, tag : {"Present"}, meta : Metadata]
             /\ cellBar[h] # Abstract!Absent => HashOf[cellBar[h].key] = h
  <2>1. CASE h \notin Mapped
    BY <2>1, Zenon DEF cellBar, AbsentCell, Abstract!Absent
  <2>2. CASE h \in Mapped
    <3>1. map[h].key \in Keys /\ HashOf[map[h].key] = h /\ map[h].arc \in Arcs
      BY <2>2, Zenon DEF Init, Mapped
    <3>2. tag[map[h].arc] = "Present" /\ meta[map[h].arc] \in Metadata
      BY <3>1, Zenon DEF Init
    <3>3. cellBar[h] = [key |-> map[h].key, tag |-> "Present", meta |-> meta[map[h].arc]]
      BY <2>2, <3>2, Zenon DEF cellBar
    <3> QED BY <3>1, <3>2, <3>3
  <2> QED BY <2>1, <2>2, Zenon
<1>3. cellBar \in [Hashes -> {Abstract!Absent} \cup [key : Keys, tag : {"Present"}, meta : Metadata]]
  BY <1>2, Zenon DEF cellBar
<1>4. new = [t \in Tasks |-> Fresh] /\ size \in Int
  BY DEF Init
<1>5. NewFresh
  BY <1>4, Zenon DEF NewFresh
<1> QED BY <1>1, <1>2, <1>3, <1>4, <1>5, Zenon DEF Abstract!GuardedMapInit

\* BlobMap implements GuardedMap: to its callers, map.rs with its Arcs, sentinels,
\* retries and two-step commits and removals is one cell per hash behind guards that
\* exclude each other, and a counter that moves before the cell does.
THEOREM Refinement == Spec => ImplementsGuardedMap
<1>1. Spec => [](MapInv /\ NewFresh)
  <2>1. Init => NewFresh
    BY InitRefines, Zenon
  <2> QED BY <2>1, NewFreshStep, MapInvariant, PTL DEF Spec
<1>2. Init => Abstract!GuardedMapInit
  BY InitRefines, Zenon
<1>3. MapInv /\ NewFresh /\ [Next]_vars => [Abstract!GuardedMapNext]_(Abstract!mapVars)
  BY StepRefines, Zenon DEF Refined
<1> QED BY <1>1, <1>2, <1>3, PTL DEF Spec, ImplementsGuardedMap, Abstract!GuardedMapSpec

-----------------------------------------------------------------------------
ReaderUndisturbed ==
  \A t \in Tasks : (pc[t] = "reading" /\ pc'[t] = "reading") =>
    tag'[arc[t]] = tag[arc[t]] /\ meta'[arc[t]] = meta[arc[t]]

\* A state is written only through an Arc that no reader holds.
LEMMA StepUndisturbed == MapInv /\ [Next]_vars => ReaderUndisturbed
<1> SUFFICES ASSUME MapInv, [Next]_vars, NEW t \in Tasks, pc[t] = "reading", pc'[t] = "reading"
             PROVE  tag'[arc[t]] = tag[arc[t]] /\ meta'[arc[t]] = meta[arc[t]]
  BY Zenon DEF ReaderUndisturbed
<1>0. arc[t] \in Arcs /\ tag \in [Arcs -> {"New", "Present", "Removing"}] /\ meta \in [Arcs -> Metadata]
  BY Zenon DEF MapInv, TypeOK, TasksWellFormed, OwnsArc
<1> DEFINE Goal == tag'[arc[t]] = tag[arc[t]] /\ meta'[arc[t]] = meta[arc[t]]
<1>1. CASE UNCHANGED stateVars
  BY <1>1, Zenon DEF stateVars
<1>2. ASSUME NEW u \in Tasks, NEW k, Insert(u, k) PROVE Goal
  BY <1>0, <1>2, Zenon DEF Insert, Unreferenced
<1>3. ASSUME NEW u \in Tasks, pc[u] \in Exclusive, NEW s, NEW m,
             tag' = [tag EXCEPT ![arc[u]] = s], meta' = [meta EXCEPT ![arc[u]] = m]
      PROVE  Goal
  <2>1. arc[u] # arc[t]
    BY <1>0, <1>3, Zenon DEF MapInv, LocksExclude, Exclusive
  <2> QED BY <1>0, <1>3, <2>1, Zenon
<1>4. ASSUME NEW u \in Tasks, NEW k, NEW p, NEW n, WriteLock(u, k, p, n) PROVE Goal
  BY <1>1, <1>2, <1>4, Zenon DEF WriteLock
<1>5. ASSUME NEW u \in Tasks, NEW k \in Keys, Call(u, k) PROVE Goal
  BY <1>1, <1>2, <1>4, <1>5, Zenon DEF Call, Read, Peek, Write, WriteNew, TryWrite, Remove
<1>6. ASSUME NEW u \in Tasks, BeginScan(u) \/ Locked(u) \/ Cancel(u) PROVE Goal
  BY <1>1, <1>6, Zenon DEF BeginScan, Locked, ReadLocked, WriteLocked, RemoveLocked, Cancel
<1>7. ASSUME NEW u \in Tasks, Internal(u) PROVE Goal
  <2>1. CASE Commit(u)
    BY <1>3, <2>1, Zenon DEF Commit, Exclusive
  <2>2. CASE CommitRemove(u)
    BY <1>3, <2>2, Zenon DEF CommitRemove, SetRemoving, Exclusive
  <2>3. CASE Retry(u)
    BY <1>4, <2>3, Zenon DEF Retry
  <2>4. CASE TryWriteLocked(u) \/ GiveUp(u) \/ Scan(u) \/ Unmap(u) \/ Unwind(u)
    BY <1>1, <2>4, Zenon DEF TryWriteLocked, GiveUp, Scan, Unmap, Unwind
  <2> QED BY <1>7, <2>1, <2>2, <2>3, <2>4, Zenon DEF Internal
<1>8. ASSUME NEW u \in Tasks, Release(u) PROVE Goal
  BY <1>1, <1>3, <1>8, Zenon DEF Release, DropRead, DropWrite, DropRemove, Discharge, Charge,
       SetRemoving, Exclusive
<1> QED BY <1>1, <1>5, <1>6, <1>7, <1>8, Zenon DEF Next, vars

\* What a reader sees through its guard does not change while it keeps it.
THEOREM StableReads == Spec => ReaderStable
<1> QED BY MapInvariant, StepUndisturbed, PTL DEF Spec, ReaderStable, ReaderUndisturbed
=============================================================================
