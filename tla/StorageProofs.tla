--------------------------- MODULE StorageProofs ----------------------------
(***************************************************************************)
(* The safety of BlobStorage for any keys, tasks and bounds: StorageInv is *)
(* inductive, with one case per action, through crashes too.               *)
(*                                                                         *)
(* A step of a task concerns at most one hash, the one its guard is for.   *)
(* Lemma Frame shows that nothing else needs to be looked at: tasks with   *)
(* other exclusive guards have other files, and readers claim nothing      *)
(* about the file that the owner of an exclusive guard could break.        *)
(*                                                                         *)
(* Then come the steps taken with a guard in hand, on the file under an    *)
(* exclusive guard or giving the guard up; the calls that ask for a guard, *)
(* a crash with Storage::open, and the clock; and the theorems.            *)
(***************************************************************************)
EXTENDS BlobStorage, GuardedMapProofs

USE GuardedMapConstants, StorageConstants, MetadataIsRecord

\* What the proof carries from step to step: StorageInv without what follows from it.
NoStray == \A h \in Hashes : cell[h] = Absent => file[h] = NoFile
Carried == GuardedMapInv /\ TypeOK /\ TasksFit /\ FilesMatch /\ NoStray /\ NeededIsTracked

\* A task with an exclusive guard: what its place can be.
LEMMA Places ==
  ASSUME Carried, NEW t \in Tasks
  PROVE  /\ guard[t] \in GuardAt(op[t].step) /\ op[t] \in Ops /\ op[t].step \in Steps
         /\ guard[t] = "none" <=>
              op[t].step \in {"idle", "seeking", "replacing", "expiring", "expire_wait", "evicting"}
         /\ guard[t] = "read" <=> op[t].step = "reading"
<1>1. guard[t] \in GuardAt(op[t].step) /\ op[t] \in Ops
  BY Zenon DEF Carried, TasksFit, TypeOK
<1>2. op[t].step \in Steps
  BY <1>1, Zenon DEF Ops
<1> QED BY <1>1, <1>2, Zenon DEF GuardAt, Steps

LEMMA CarriedSuffices == Carried => StorageInv
<1> SUFFICES ASSUME Carried PROVE NoOrphans
  BY Zenon DEF Carried, StorageInv
<1>1. ASSUME NEW h \in Hashes, cell[h].tag = "New" PROVE file[h] = NoFile \/ \E t \in Holders(h) : op[t].opened
  <2>1. PICK t \in Tasks : guard[t] \in {"write", "charged", "discharged"} /\ HashOf[at[t]] = h
    BY <1>1, Zenon DEF Carried, GuardedMapInv, NewIsHeld
  <2>2. t \in Holders(h) /\ At(t) = h /\ CellOf(t).tag = "New"
    BY <1>1, <2>1, Zenon DEF Holders, At, CellOf
  <2>3. op[t].step \in {"writing", "sized", "tagged", "queued", "erasing"}
    BY <2>1, Places, Zenon DEF GuardAt, Steps
  <2>4. op[t].opened \in BOOLEAN /\ FileFits(t)
    BY Places, Zenon DEF Carried, TasksFit, Ops
  <2> QED BY <2>2, <2>3, <2>4, Zenon DEF FileFits
<1> QED BY <1>1, Zenon DEF Carried, NoStray, NoOrphans

-----------------------------------------------------------------------------
\* A step of one task on one hash.
LEMMA Frame ==
  ASSUME Carried, GuardedMapInv', TypeOK', now' = now, NEW t \in Tasks, NEW h \in Hashes,
         \A u \in Tasks \ {t} :
           op'[u] = op[u] /\ guard'[u] = guard[u] /\ at'[u] = at[u] /\ pending'[u] = pending[u],
         \A f \in Hashes \ {h} : cell'[f] = cell[f] /\ file'[f] = file[f],
         guard[t] # "none" => At(t) = h,
         (cell'[h] = cell[h] /\ file'[h] = file[h]) \/ guard[t] \notin {"none", "read"} \/ cell[h] = Absent,
         (guard[t] \in GuardAt(op[t].step) /\ FileFits(t) /\ JobFits(t))',
         (cell[h].tag = "Present" /\ Unlocked(h) => Matches(h))',
         (cell[h] = Absent => file[h] = NoFile)',
         NeededIsTracked'
  PROVE  Carried'
<1>1. ASSUME NEW u \in Tasks, u # t, guard[u] \notin {"none", "read"}
      PROVE  At(u) \in Hashes /\ cell'[At(u)] = cell[At(u)] /\ file'[At(u)] = file[At(u)]
  <2>1. At(u) \in Hashes /\ cell[At(u)] # Absent
    BY <1>1, HeldCell, Zenon DEF Carried, At
  <2>2. CASE At(u) # h
    BY <2>1, <2>2, Zenon
  <2>3. CASE At(u) = h
    <3>1. guard[t] \in {"none", "read"}
      BY <1>1, <2>3 DEF Carried, GuardedMapInv, HoldersExclude, At
    <3> QED BY <2>1, <2>3, <3>1, Zenon
  <2> QED BY <2>2, <2>3, Zenon
<1>2. ASSUME NEW u \in Tasks, u # t
      PROVE  (guard[u] \in GuardAt(op[u].step) /\ FileFits(u) /\ JobFits(u))'
  <2>0. /\ op'[u] = op[u] /\ guard'[u] = guard[u] /\ at'[u] = at[u] /\ pending'[u] = pending[u]
        /\ guard[u] \in GuardAt(op[u].step) /\ FileFits(u) /\ JobFits(u)
    BY <1>2, Zenon DEF Carried, TasksFit
  <2>1. GuardAt(op[u].step)' = GuardAt(op[u].step)
    BY <2>0, Zenon DEF GuardAt
  <2>2. CASE guard[u] \in {"none", "read"}
    <3>1. /\ op[u].step \in {"idle", "seeking", "replacing", "expiring", "expire_wait", "evicting", "reading"}
          /\ guard[u] # "charged"
      BY <2>2, Places, Zenon
    <3>2. FileFits(u)'
      BY <2>0, <3>1, Zenon DEF FileFits
    <3>3. JobFits(u)'
      BY <2>0, <3>1, Zenon DEF JobFits
    <3> QED BY <2>0, <2>1, <3>2, <3>3, Zenon
  <2>3. CASE guard[u] \notin {"none", "read"}
    <3>1. At(u)' = At(u) /\ cell'[At(u)] = cell[At(u)] /\ file'[At(u)] = file[At(u)]
      BY <1>1, <1>2, <2>0, <2>3, Zenon DEF At
    <3>2. CellOf(u)' = CellOf(u)
      BY <2>0, <3>1, ZenonT(60) DEF CellOf, At
    <3>3. FileFits(u)'
      BY <2>0, <3>1, <3>2 DEF FileFits, Matches, NoFile
    <3>4. JobFits(u)'
      BY <2>0, <3>2, Zenon DEF JobFits, IsExpired
    <3> QED BY <2>0, <2>1, <3>3, <3>4, Zenon
  <2> QED BY <2>2, <2>3, Zenon
<1>3. TasksFit'
  BY <1>2, Zenon DEF TasksFit
<1>4. ASSUME NEW f \in Hashes, f # h, (cell[f].tag = "Present" /\ Unlocked(f))' PROVE Matches(f)'
  <2>1. cell'[f] = cell[f] /\ file'[f] = file[f]
    BY <1>4, Zenon
  <2>2. Unlocked(f)
    <3>1. ASSUME NEW v \in Holders(f) PROVE guard[v] = "read"
      <4>1. v \in Tasks /\ v # t /\ v \in Holders(f)'
        BY <1>4, <3>1, Zenon DEF Holders, At
      <4> QED BY <1>4, <4>1, Zenon DEF Unlocked
    <3> QED BY <3>1, Zenon DEF Unlocked
  <2>3. Matches(f)
    BY <1>4, <2>1, <2>2, Zenon DEF Carried, FilesMatch
  <2> QED BY <2>1, <2>3, Zenon DEF Matches, NoFile
<1>5. FilesMatch'
  BY <1>4, Zenon DEF FilesMatch
<1>6. NoStray'
  BY ZenonT(60) DEF Carried, NoStray, Absent, NoFile
<1> QED BY <1>3, <1>5, <1>6, Zenon DEF Carried

\* A step of one task that changes no guard, cell or file.
LEMMA FrameQuiet ==
  ASSUME Carried, GuardedMapInv', TypeOK', now' = now, NEW t \in Tasks,
         UNCHANGED <<mapVars, file>>, \A u \in Tasks \ {t} : op'[u] = op[u],
         (guard[t] \in GuardAt(op[t].step) /\ FileFits(t) /\ JobFits(t))', NeededIsTracked'
  PROVE  Carried'
<1>1. ASSUME NEW u \in Tasks, u # t
      PROVE  (guard[u] \in GuardAt(op[u].step) /\ FileFits(u) /\ JobFits(u))'
  <2>1. /\ op'[u] = op[u] /\ UNCHANGED <<cell, guard, at, pending, file>>
        /\ guard[u] \in GuardAt(op[u].step) /\ FileFits(u) /\ JobFits(u)
    BY <1>1, Zenon DEF Carried, TasksFit, mapVars
  <2>2. FileFits(u)'
    BY <2>1, ZenonT(60) DEF FileFits, At, CellOf, Matches, NoFile
  <2>3. JobFits(u)'
    BY <2>1, Zenon DEF JobFits, IsExpired, CellOf
  <2> QED BY <2>1, <2>2, <2>3, Zenon DEF GuardAt
<1>2. TasksFit'
  BY <1>1, Zenon DEF TasksFit
<1>3. FilesMatch' /\ NoStray'
  BY ZenonT(60) DEF Carried, FilesMatch, NoStray, mapVars, Unlocked, Holders, Matches, NoFile, Absent
<1> QED BY <1>2, <1>3, Zenon DEF Carried

-----------------------------------------------------------------------------
\* The place of one task changes.
LEMMA OpStep ==
  ASSUME TypeOK, NEW t \in Tasks, NEW o \in Ops, op' = [op EXCEPT ![t] = o]
  PROVE  op' \in [Tasks -> Ops] /\ op'[t] = o /\ \A u \in Tasks \ {t} : op'[u] = op[u]
BY Zenon DEF TypeOK

\* A step that drops no item of the queue or of its task.
LEMMA ItemsKept ==
  ASSUME NEW t \in Tasks, \A u \in Tasks \ {t} : op'[u] = op[u],
         \A i \in Items : queue[i] > 0 => queue'[i] > 0,
         op[t].due = Never \/ (op'[t].due = op[t].due /\ op'[t].want = op[t].want)
  PROVE  \A e \in Times, k \in Keys : Tracked(e, k) => Tracked(e, k)'
<1> SUFFICES ASSUME NEW e \in Times, NEW k \in Keys, Tracked(e, k) PROVE Tracked(e, k)'
  BY Zenon
<1>1. CASE queue[<<e, k>>] > 0
  BY <1>1, Zenon DEF Tracked, Items
<1>2. ASSUME NEW u \in Tasks, op[u].due = e, op[u].want = k PROVE Tracked(e, k)'
  <2>1. op'[u].due = e /\ op'[u].want = k
    BY <1>2, Zenon
  <2> QED BY <2>1, Zenon DEF Tracked
<1> QED BY <1>1, <1>2, Zenon DEF Tracked

\* Nothing needed is forgotten by a step that needs nothing new and drops no item.
LEMMA TrackKept ==
  ASSUME Carried, NEW t \in Tasks, \A u \in Tasks \ {t} : op'[u] = op[u],
         \A i \in Items : queue[i] > 0 => queue'[i] > 0,
         op[t].due = Never \/ (op'[t].due = op[t].due /\ op'[t].want = op[t].want),
         \A e \in Times, k \in Keys : Needed(e, k)' => Needed(e, k)
  PROVE  NeededIsTracked'
BY ItemsKept, Zenon DEF Carried, NeededIsTracked

\* A step that commits nothing needs nothing new.
LEMMA NeedKept ==
  ASSUME NEW t \in Tasks, \A u \in Tasks \ {t} : op'[u] = op[u] /\ at'[u] = at[u],
         op'[t].step # "queued" \/
           (op[t].step = "queued" /\ at'[t] = at[t] /\ op'[t].draft = op[t].draft),
         \A h \in Hashes : cell'[h] = cell[h] \/ cell'[h].tag # "Present"
  PROVE  \A e \in Times, k \in Keys : Needed(e, k)' => Needed(e, k)
BY DEF Needed

LEMMA IdleOp ==
  /\ Idle \in Ops /\ Idle.step = "idle" /\ Idle.due = Never /\ Idle.job = "none"
  /\ Idle.asof = 0 /\ ~Idle.opened
BY DEF Idle, Ops, Steps

\* A step that keeps the guards, the cells and the files where they are.
LEMMA MapStays ==
  ASSUME Carried, UNCHANGED mapVars
  PROVE  GuardedMapInv'
BY MapStep, Zenon DEF Carried

LEMMA GotoOp ==
  ASSUME Carried, NEW t \in Tasks, NEW s \in Steps, Goto(t, s)
  PROVE  /\ op' \in [Tasks -> Ops] /\ \A u \in Tasks \ {t} : op'[u] = op[u]
         /\ op'[t] = [op[t] EXCEPT !.step = s]
         /\ op'[t].step = s /\ op'[t].job = op[t].job /\ op'[t].draft = op[t].draft
         /\ op'[t].opened = op[t].opened /\ op'[t].want = op[t].want
         /\ op'[t].victim = op[t].victim /\ op'[t].due = op[t].due /\ op'[t].asof = op[t].asof
<1>1. op[t] \in Ops /\ TypeOK
  BY Zenon DEF Carried, TypeOK
<1>2. [op[t] EXCEPT !.step = s] \in Ops
  BY <1>1, Zenon DEF Ops
<1>3. op' = [op EXCEPT ![t] = [op[t] EXCEPT !.step = s]]
  BY Zenon DEF Goto
<1>4. op' \in [Tasks -> Ops] /\ op'[t] = [op[t] EXCEPT !.step = s] /\ \A u \in Tasks \ {t} : op'[u] = op[u]
  BY <1>1, <1>2, <1>3, OpStep, Zenon
<1> QED BY <1>1, <1>4, Zenon DEF Ops

LEMMA DoneOp ==
  ASSUME Carried, NEW t \in Tasks, Done(t)
  PROVE  op' \in [Tasks -> Ops] /\ op'[t] = Idle /\ \A u \in Tasks \ {t} : op'[u] = op[u]
BY IdleOp, OpStep, Zenon DEF Done, Carried

\* A task that ends, and one that is between two items of expire or evict, claims nothing.
LEMMA RestFits ==
  ASSUME Carried, now' = now, NEW t \in Tasks, op'[t] \in Ops,
         \/ op'[t].step = "idle" /\ op'[t].job = "none"
         \/ op'[t].step = "expiring" /\ op'[t].job = "expire"
         \/ op'[t].step = "evicting" /\ op'[t].job = "evict",
         op'[t].due = Never, op'[t].asof <= now, guard'[t] = "none"
  PROVE  (guard[t] \in GuardAt(op[t].step) /\ FileFits(t) /\ JobFits(t))'
<1>1. (guard[t] \in GuardAt(op[t].step))'
  BY Zenon DEF GuardAt
<1>2. FileFits(t)'
  BY Zenon DEF FileFits
<1>3. JobFits(t)'
  BY Zenon DEF JobFits
<1> QED BY <1>1, <1>2, <1>3, Zenon

\* Idle is such a place.
LEMMA DoneFits ==
  ASSUME Carried, now' = now, NEW t \in Tasks, Done(t), guard'[t] = "none"
  PROVE  (guard[t] \in GuardAt(op[t].step) /\ FileFits(t) /\ JobFits(t))'
<1>1. op'[t] = Idle
  BY DoneOp, Zenon
<1>2. Idle.asof <= now
  BY IdleOp DEF Carried, TypeOK
<1> QED BY <1>1, <1>2, IdleOp, RestFits, Zenon

-----------------------------------------------------------------------------
\* The steps that take a guard.

LEMMA LockFacts ==
  ASSUME Carried, NEW t \in Tasks, NEW k \in Keys, NEW g \in {"read", "write", "remove"},
         guard[t] = "none", cell[HashOf[k]].key = k, Hold(t, g, k), cell' = cell,
         IF g = "read" THEN Readable(HashOf[k]) ELSE Writable(HashOf[k])
  PROVE  /\ GuardedMapInv' /\ HashOf[k] \in Hashes
         /\ at'[t] = k /\ guard'[t] = g /\ At(t)' = HashOf[k] /\ CellOf(t)' = cell[HashOf[k]]
         /\ cell[HashOf[k]].tag = "Present" /\ Matches(HashOf[k])
         /\ \A u \in Tasks \ {t} : guard'[u] = guard[u] /\ at'[u] = at[u] /\ pending'[u] = pending[u]
<1>1. GuardedMapInv' /\ HashOf[k] \in Hashes
  BY TakeGuard DEF Carried
<1>2. at'[t] = k /\ guard'[t] = g
  BY Zenon DEF Hold, Carried, GuardedMapInv, GuardedMapTypeOK
<1>3. cell[HashOf[k]].tag = "Present" /\ Unlocked(HashOf[k])
  BY Zenon DEF Readable, Writable, Unlocked
<1>4. Matches(HashOf[k])
  BY <1>1, <1>3, Zenon DEF Carried, FilesMatch
<1>5. At(t)' = HashOf[k] /\ CellOf(t)' = cell[HashOf[k]]
  BY <1>2, Zenon DEF At, CellOf
<1>6. \A u \in Tasks \ {t} : guard'[u] = guard[u] /\ at'[u] = at[u] /\ pending'[u] = pending[u]
  BY Zenon DEF Hold, Carried, GuardedMapInv, GuardedMapTypeOK
<1> QED BY <1>1, <1>2, <1>3, <1>4, <1>5, <1>6, Zenon

\* The lock of a blob is granted to a reader, to a writer that has not opened the
\* file, or to a remover.
LEMMA GrantStep ==
  ASSUME Carried, NEW t \in Tasks, NEW k \in Keys, NEW g \in {"read", "write", "remove"},
         guard[t] = "none", cell[HashOf[k]].key = k, Hold(t, g, k), cell' = cell,
         IF g = "read" THEN Readable(HashOf[k]) ELSE Writable(HashOf[k]),
         UNCHANGED diskVars, op' \in [Tasks -> Ops], \A u \in Tasks \ {t} : op'[u] = op[u],
         \/ g = "read" /\ op'[t].step = "reading"
         \/ g = "write" /\ op'[t].step = "writing" /\ ~op'[t].opened
         \/ g = "remove" /\ op'[t].step = "removing",
         op[t].due = Never \/ (op'[t].due = op[t].due /\ op'[t].want = op[t].want),
         JobFits(t)'
  PROVE  Carried'
<1> DEFINE h == HashOf[k]
<1>1. /\ GuardedMapInv' /\ h \in Hashes
      /\ at'[t] = k /\ guard'[t] = g /\ At(t)' = h /\ CellOf(t)' = cell[h]
      /\ cell[h].tag = "Present" /\ Matches(h)
      /\ \A u \in Tasks \ {t} : guard'[u] = guard[u] /\ at'[u] = at[u] /\ pending'[u] = pending[u]
  BY LockFacts
<1>2. TypeOK' /\ file' = file /\ queue' = queue /\ now' = now
  BY Zenon DEF diskVars, Carried, TypeOK
<1>3. Matches(h)'
  BY <1>1, <1>2, Zenon DEF Matches, NoFile
<1>4. (guard[t] \in GuardAt(op[t].step))'
  BY <1>1, Zenon DEF GuardAt
<1>5. FileFits(t)'
  BY <1>1, <1>2, <1>3, ZenonT(60) DEF FileFits, Matches, NoFile
<1>6. NeededIsTracked'
  <2>1. \A e \in Times, l \in Keys : Needed(e, l)' => Needed(e, l)
    BY <1>1, NeedKept
  <2> QED BY <1>2, <2>1, TrackKept, Zenon
<1>7. (cell[h] # Absent)'
  BY <1>1 DEF Absent
<1> HIDE DEF h
<1> QED BY <1>1, <1>2, <1>3, <1>4, <1>5, <1>6, <1>7, Frame, ZenonT(60)

LEMMA ReadStep ==
  ASSUME Carried, NEW t \in Tasks, NEW k \in Keys, Read(t, k) PROVE Carried'
<1>1. op[t] = Idle /\ LockRead(t, k) /\ Goto(t, "reading") /\ UNCHANGED diskVars /\ "reading" \in Steps
  BY Zenon DEF Read, Steps
<1>2. /\ op' \in [Tasks -> Ops] /\ (\A u \in Tasks \ {t} : op'[u] = op[u]) /\ op'[t].step = "reading"
      /\ op'[t].due = Never /\ op'[t].job = "none" /\ op'[t].asof = 0
  BY <1>1, GotoOp, IdleOp, ZenonT(60)
<1>3. JobFits(t)'
  BY <1>2 DEF JobFits, diskVars, Carried, TypeOK, Read
<1> QED BY <1>1, <1>2, <1>3, GrantStep, IdleOp, Zenon DEF LockRead

LEMMA WriterRecord ==
  ASSUME NEW b \in BOOLEAN, NEW m \in Metadata, NEW o,
         o = [Idle EXCEPT !.step = "writing", !.truncate = b, !.draft = m]
  PROVE  o \in Ops /\ o.step = "writing" /\ ~o.opened /\ o.due = Never /\ o.job = "none" /\ o.asof = 0
<1>1. Idle \in Ops /\ "writing" \in Steps
  BY IdleOp, Zenon DEF Steps
<1>2. o \in Ops
  BY <1>1, Zenon DEF Ops
<1>3. /\ o.step = "writing" /\ o.opened = Idle.opened /\ o.due = Idle.due /\ o.job = Idle.job
      /\ o.asof = Idle.asof
  BY <1>1, Zenon DEF Ops
<1> QED BY <1>2, <1>3, IdleOp, Zenon

\* new_write_guard.
LEMMA WriterOp ==
  ASSUME Carried, NEW t \in Tasks, NEW k \in Keys, NEW b \in BOOLEAN, BeWriter(t, k, b),
         cell'[HashOf[k]].meta \in Metadata, now' = now
  PROVE  /\ op' \in [Tasks -> Ops] /\ (\A u \in Tasks \ {t} : op'[u] = op[u])
         /\ op'[t].step = "writing" /\ ~op'[t].opened /\ op'[t].due = Never
         /\ JobFits(t)'
<1> DEFINE o == [Idle EXCEPT !.step = "writing", !.truncate = b, !.draft = cell'[HashOf[k]].meta]
<1>1. /\ o \in Ops /\ o.step = "writing" /\ ~o.opened /\ o.due = Never /\ o.job = "none" /\ o.asof = 0
  BY WriterRecord, ZenonT(60)
<1>2. op' = [op EXCEPT ![t] = o]
  BY Zenon DEF BeWriter
<1> HIDE DEF o
<1>3. op' \in [Tasks -> Ops] /\ op'[t] = o /\ \A u \in Tasks \ {t} : op'[u] = op[u]
  BY <1>1, <1>2, OpStep, Zenon DEF Carried
<1>4. JobFits(t)'
  BY <1>1, <1>3 DEF JobFits, Carried, TypeOK
<1> QED BY <1>1, <1>3, <1>4, Zenon

LEMMA LockWriteStep ==
  ASSUME Carried, NEW t \in Tasks, NEW k \in Keys, NEW b \in BOOLEAN, LockWrite(t, k),
         BeWriter(t, k, b), op[t].due = Never, UNCHANGED diskVars
  PROVE  Carried'
<1>1. cell' = cell /\ now' = now
  BY Zenon DEF LockWrite, diskVars
<1>2. cell'[HashOf[k]].meta \in Metadata
  BY <1>1, KeyedCell, Zenon DEF LockWrite, Writable, Carried
<1> QED BY <1>1, <1>2, WriterOp, GrantStep DEF LockWrite

LEMMA InsertStep ==
  ASSUME Carried, NEW t \in Tasks, NEW k \in Keys, NEW b \in BOOLEAN, InsertNew(t, k),
         BeWriter(t, k, b), op[t].due = Never, UNCHANGED diskVars
  PROVE  Carried'
<1> DEFINE h == HashOf[k]
<1>1. /\ h \in Hashes /\ cell[h] = Absent /\ guard[t] = "none" /\ file' = file /\ queue' = queue /\ now' = now
      /\ cell' = [cell EXCEPT ![h] = Blob(k, "New", Fresh)] /\ Hold(t, "write", k)
  BY Zenon DEF InsertNew, SetCell, diskVars
<1>2. /\ cell'[h] = Blob(k, "New", Fresh) /\ (\A f \in Hashes \ {h} : cell'[f] = cell[f])
      /\ cell'[h].tag = "New" /\ cell'[h].meta \in Metadata /\ cell'[h] # Absent
  BY <1>1, Zenon DEF Carried, GuardedMapInv, GuardedMapTypeOK, Blob, Absent
<1>3. GuardedMapInv'
  BY InsertCell, Zenon DEF Carried
<1>4. /\ guard'[t] = "write" /\ at'[t] = k
      /\ \A u \in Tasks \ {t} : guard'[u] = guard[u] /\ at'[u] = at[u] /\ pending'[u] = pending[u]
  BY <1>1, Zenon DEF Hold, Carried, GuardedMapInv, GuardedMapTypeOK
<1>5. At(t)' = h /\ CellOf(t)'.tag = "New"
  BY <1>2, <1>4, Zenon DEF At, CellOf
<1>6. /\ op' \in [Tasks -> Ops] /\ (\A u \in Tasks \ {t} : op'[u] = op[u])
      /\ op'[t].step = "writing" /\ ~op'[t].opened /\ op'[t].due = Never
      /\ JobFits(t)'
  BY <1>1, <1>2, WriterOp
<1>7. TypeOK'
  BY <1>1, <1>6, Zenon DEF Carried, TypeOK
<1>8. (guard[t] \in GuardAt(op[t].step))'
  BY <1>4, <1>6, Zenon DEF GuardAt
<1>9. file[h] = NoFile
  BY <1>1, Zenon DEF Carried, NoStray
<1>10. FileFits(t)'
  BY <1>1, <1>4, <1>5, <1>6, <1>9, Zenon DEF FileFits, NoFile
<1>11. NeededIsTracked'
  <2>1. \A e \in Times, l \in Keys : Needed(e, l)' => Needed(e, l)
    BY <1>2, <1>4, <1>6, NeedKept
  <2> QED BY <1>1, <1>6, <2>1, TrackKept, Zenon
<1> HIDE DEF h
<1> QED BY <1>1, <1>2, <1>3, <1>4, <1>6, <1>7, <1>8, <1>10, <1>11, Frame

\* An exclusive lock for Storage::remove, for the blob in the way of a write, for an
\* expired blob or for one to evict.
LEMMA LockRemoveStep ==
  ASSUME Carried, NEW t \in Tasks, NEW k \in Keys, LockRemove(t, k), Goto(t, "removing"),
         UNCHANGED diskVars,
         op[t].due # Never <=> op[t].job = "expire",
         op[t].job = "expire" => op[t].want = k /\ IsExpired(cell[HashOf[k]].meta, op[t].asof)
  PROVE  Carried'
<1>0. "removing" \in Steps
  BY Zenon DEF Steps
<1>1. /\ op' \in [Tasks -> Ops] /\ (\A u \in Tasks \ {t} : op'[u] = op[u]) /\ op'[t].step = "removing"
      /\ op'[t].due = op[t].due /\ op'[t].job = op[t].job /\ op'[t].asof = op[t].asof
      /\ op'[t].want = op[t].want
  BY <1>0, GotoOp, Zenon
<1>2. at'[t] = k /\ CellOf(t)' = cell[HashOf[k]]
  BY LockFacts, Zenon DEF LockRemove
<1>3. JobFits(t) /\ now' = now
  BY Zenon DEF Carried, TasksFit, diskVars
<1>4. JobFits(t)'
  BY <1>1, <1>2, <1>3, Zenon DEF JobFits, IsExpired
<1> QED BY <1>1, <1>4, GrantStep, Zenon DEF LockRemove

-----------------------------------------------------------------------------
\* The steps of a task without a guard.

Loose == {"idle", "seeking", "replacing", "expiring", "expire_wait", "evicting"}

LEMMA LooseStep ==
  ASSUME Carried, NEW t \in Tasks, op[t].step \in Loose, UNCHANGED <<mapVars, file, now>>,
         queue' \in [Items -> 0 .. MaxCopies],
         NEW o \in Ops, op' = [op EXCEPT ![t] = o], o.step \in Loose, JobFits(t)',
         \A e \in Times, k \in Keys : Needed(e, k) /\ Tracked(e, k) => Tracked(e, k)'
  PROVE  Carried'
<1>1. op' \in [Tasks -> Ops] /\ op'[t] = o /\ \A u \in Tasks \ {t} : op'[u] = op[u]
  BY OpStep, Zenon DEF Carried
<1>2. GuardedMapInv' /\ TypeOK' /\ now' = now
  BY <1>1, MapStays, Zenon DEF Carried, TypeOK
<1>3. guard[t] = "none" /\ guard' = guard /\ at' = at /\ cell' = cell
  BY Places, Zenon DEF Loose, mapVars
<1>4. (guard[t] \in GuardAt(op[t].step))'
  BY <1>1, <1>3, Zenon DEF GuardAt, Loose
<1>5. FileFits(t)'
  BY <1>1, <1>3, Zenon DEF FileFits, Loose
<1>6. \A e \in Times, k \in Keys : Needed(e, k)' => Needed(e, k)
  <2>1. op'[t].step # "queued"
    BY <1>1, Zenon DEF Loose
  <2> QED BY <1>1, <1>3, <2>1, NeedKept, Zenon
<1>7. NeededIsTracked'
  BY <1>6, Zenon DEF Carried, NeededIsTracked
<1> QED BY <1>1, <1>2, <1>4, <1>5, <1>7, FrameQuiet, Zenon

\* Such a step that leaves the expire queue and the task's item alone.
LEMMA LooseStays ==
  ASSUME Carried, NEW t \in Tasks, op[t].step \in Loose, UNCHANGED <<mapVars, diskVars>>,
         op[t].due = Never, NEW o \in Ops, op' = [op EXCEPT ![t] = o], o.step \in Loose, JobFits(t)'
  PROVE  Carried'
<1>1. op'[t] = o /\ \A u \in Tasks \ {t} : op'[u] = op[u]
  BY OpStep, Zenon DEF Carried
<1>2. queue' = queue /\ file' = file /\ now' = now /\ queue' \in [Items -> 0 .. MaxCopies]
  BY Zenon DEF diskVars, Carried, TypeOK
<1>3. \A e \in Times, k \in Keys : Tracked(e, k) => Tracked(e, k)'
  BY <1>1, <1>2, ItemsKept, Zenon
<1> QED BY <1>2, <1>3, LooseStep, Zenon

\* A call returns or is dropped.
LEMMA EndStep ==
  ASSUME Carried, NEW t \in Tasks, op[t].step \in Loose, UNCHANGED <<mapVars, diskVars>>,
         op[t].due = Never, Done(t)
  PROVE  Carried'
<1>1. op' = [op EXCEPT ![t] = Idle] /\ Idle.step \in Loose
  BY IdleOp, Zenon DEF Done, Loose
<1>2. guard'[t] = "none" /\ now' = now
  BY Places, Zenon DEF mapVars, diskVars, Loose
<1>3. JobFits(t)'
  BY <1>2, DoneFits, Zenon
<1> QED BY <1>1, <1>3, IdleOp, LooseStays, Zenon

\* A call begins its loop.
LEMMA BeginLoop ==
  ASSUME Carried, NEW t \in Tasks, op[t] = Idle, UNCHANGED <<mapVars, diskVars>>,
         NEW o \in Ops, op' = [op EXCEPT ![t] = o], o.due = Never, o.asof <= now,
         \/ o.step = "seeking" /\ o.job = "write" /\ o.want \in Keys
         \/ o.step = "expiring" /\ o.job = "expire"
         \/ o.step = "evicting" /\ o.job = "evict"
  PROVE  Carried'
<1>1. op'[t] = o /\ now' = now
  BY OpStep, Zenon DEF Carried, diskVars
<1>2. JobFits(t)'
  BY <1>1, Zenon DEF JobFits
<1>3. op[t].step \in Loose /\ op[t].due = Never /\ o.step \in Loose
  BY IdleOp, Zenon DEF Loose
<1> QED BY <1>2, <1>3, LooseStays, Zenon

\* Storage::write, expire and evict begin.
LEMMA WriteStep ==
  ASSUME Carried, NEW t \in Tasks, NEW k \in Keys, NEW b \in BOOLEAN, Write(t, k, b) PROVE Carried'
<1> DEFINE o == [Idle EXCEPT !.step = "seeking", !.job = "write", !.want = k, !.truncate = b, !.tries = 1]
<1>1. op' = [op EXCEPT ![t] = o] /\ op[t] = Idle /\ UNCHANGED <<mapVars, diskVars>>
  BY Zenon DEF Write
<1>2. "seeking" \in Steps /\ 1 \in 0 .. NumReplaces /\ Idle \in Ops
  BY IdleOp DEF Steps
<1>3. o \in Ops
  BY <1>2, Zenon DEF Ops
<1>4. o.step = "seeking" /\ o.job = "write" /\ o.want = k /\ o.due = Idle.due /\ o.asof = Idle.asof
  BY <1>2, Zenon DEF Ops
<1> HIDE DEF o
<1>5. o.due = Never /\ o.asof <= now
  BY <1>4, IdleOp DEF Carried, TypeOK
<1> QED BY <1>1, <1>3, <1>4, <1>5, BeginLoop, Zenon

LEMMA BeginStep ==
  ASSUME Carried, NEW t \in Tasks, BeginExpire(t) \/ BeginEvict(t) PROVE Carried'
<1>0. Idle \in Ops /\ {"expiring", "evicting"} \subseteq Steps /\ now \in 0 .. MaxTime
  BY IdleOp, Zenon DEF Steps, Carried, TypeOK
<1>1. CASE BeginExpire(t)
  <2> DEFINE o == [Idle EXCEPT !.step = "expiring", !.job = "expire", !.asof = now]
  <2>1. op' = [op EXCEPT ![t] = o] /\ op[t] = Idle /\ UNCHANGED <<mapVars, diskVars>>
    BY <1>1, Zenon DEF BeginExpire
  <2>2. o \in Ops
    BY <1>0, Zenon DEF Ops
  <2>3. o.step = "expiring" /\ o.job = "expire" /\ o.due = Idle.due /\ o.asof = now
    BY <1>0, Zenon DEF Ops
  <2> HIDE DEF o
  <2>4. o.due = Never /\ o.asof <= now
    BY <1>0, <2>3, IdleOp
  <2> QED BY <2>1, <2>2, <2>3, <2>4, BeginLoop, Zenon
<1>2. CASE BeginEvict(t)
  <2> DEFINE o == [Idle EXCEPT !.step = "evicting", !.job = "evict"]
  <2>1. op' = [op EXCEPT ![t] = o] /\ op[t] = Idle /\ UNCHANGED <<mapVars, diskVars>>
    BY <1>2, Zenon DEF BeginEvict
  <2>2. o \in Ops
    BY <1>0, Zenon DEF Ops
  <2>3. o.step = "evicting" /\ o.job = "evict" /\ o.due = Idle.due /\ o.asof = Idle.asof
    BY <1>0, Zenon DEF Ops
  <2> HIDE DEF o
  <2>4. o.due = Never /\ o.asof <= now
    BY <1>0, <2>3, IdleOp
  <2> QED BY <2>1, <2>2, <2>3, <2>4, BeginLoop, Zenon
<1> QED BY <1>1, <1>2, Zenon

\* The next round of the loop of Storage::write.
LEMMA AgainOp ==
  ASSUME Carried, NEW t \in Tasks, op[t].job = "write", Again(t), now' = now
  PROVE  \E o \in Ops : /\ op' = [op EXCEPT ![t] = o] /\ o.step \in Loose
                        /\ o.due = Never /\ JobFits(t)'
<1>0. op[t] \in Ops /\ TypeOK /\ JobFits(t) /\ now \in 0 .. MaxTime
  BY Zenon DEF Carried, TypeOK, TasksFit
<1>1. op[t].want \in Keys /\ op[t].due = Never /\ op[t].asof <= now
  BY <1>0, Zenon DEF JobFits
<1>2. CASE op[t].tries = NumReplaces
  <2>1. op' = [op EXCEPT ![t] = Idle]
    BY <1>2, Zenon DEF Again
  <2>2. op'[t] = Idle
    BY <1>0, <2>1, IdleOp, OpStep, ZenonT(60)
  <2>3. JobFits(t)'
    BY <1>0, <2>2, IdleOp DEF JobFits
  <2> QED BY <2>1, <2>3, IdleOp, Zenon DEF Loose
<1>3. CASE op[t].tries # NumReplaces
  <2> DEFINE o == [op[t] EXCEPT !.step = "seeking", !.victim = NoKey, !.tries = op[t].tries + 1]
  <2>1. op' = [op EXCEPT ![t] = o]
    BY <1>3, Zenon DEF Again
  <2>2. "seeking" \in Steps /\ op[t].tries + 1 \in 0 .. NumReplaces
    BY <1>0, <1>3 DEF Steps, Ops
  <2>3. o \in Ops
    BY <1>0, <2>2, Zenon DEF Ops
  <2>4. /\ o.step = "seeking" /\ o.job = "write" /\ o.want = op[t].want /\ o.due = Never
        /\ o.asof = op[t].asof
    BY <1>0, <1>1, Zenon DEF Ops
  <2> HIDE DEF o
  <2>5. op'[t] = o
    BY <1>0, <2>1, <2>3, OpStep, Zenon
  <2>6. JobFits(t)'
    BY <1>1, <2>4, <2>5, Zenon DEF JobFits
  <2> QED BY <2>1, <2>3, <2>4, <2>6, Zenon DEF Loose
<1> QED BY <1>2, <1>3, Zenon

LEMMA CollideStep ==
  ASSUME Carried, NEW t \in Tasks, Collide(t) \/ ReplaceMiss(t) PROVE Carried'
<1>0. /\ op[t] \in Ops /\ TypeOK /\ JobFits(t) /\ now' = now /\ op[t].step \in Loose
      /\ UNCHANGED <<mapVars, diskVars>>
  BY Zenon DEF Carried, TypeOK, TasksFit, Collide, ReplaceMiss, diskVars, Loose
<1>1. op[t].want \in Keys /\ op[t].due = Never /\ op[t].asof <= now /\ op[t].job = "write"
  BY <1>0, Zenon DEF JobFits, Collide, ReplaceMiss
<1>2. CASE ReplaceMiss(t)
  <2>1. PICK o \in Ops : /\ op' = [op EXCEPT ![t] = o] /\ o.step \in Loose
                         /\ o.due = Never /\ JobFits(t)'
    BY <1>0, <1>1, <1>2, AgainOp, Zenon DEF ReplaceMiss
  <2> QED BY <1>0, <1>1, <2>1, LooseStays, Zenon
<1>3. CASE Collide(t)
  <2> DEFINE v == cell[HashOf[op[t].want]].key
  <2> DEFINE o == [op[t] EXCEPT !.step = "replacing", !.victim = v]
  <2>1. op' = [op EXCEPT ![t] = o]
    BY <1>3, Zenon DEF Collide
  <2>2. v \in Keys
    BY <1>1, <1>3, Zenon DEF Collide, Carried, GuardedMapInv, GuardedMapTypeOK
  <2>3. "replacing" \in Steps
    BY Zenon DEF Steps
  <2> HIDE DEF v
  <2>4. o \in Ops
    BY <1>0, <2>2, <2>3, Zenon DEF Ops
  <2>5. /\ o.step = "replacing" /\ o.job = "write" /\ o.want = op[t].want /\ o.due = Never
        /\ o.asof = op[t].asof /\ o.victim = v
    BY <1>0, <1>1, Zenon DEF Ops
  <2> HIDE DEF o
  <2>6. op'[t] = o
    BY <1>0, <2>1, <2>4, OpStep, Zenon
  <2>7. JobFits(t)'
    BY <1>0, <1>1, <2>2, <2>5, <2>6, Zenon DEF JobFits
  <2> QED BY <1>0, <1>1, <2>1, <2>4, <2>5, <2>7, LooseStays, Zenon DEF Loose
<1> QED BY <1>2, <1>3, Zenon

LEMMA CancelStep ==
  ASSUME Carried, NEW t \in Tasks, CancelWrite(t) \/ EvictStop(t) PROVE Carried'
<1>1. op[t].step \in {"seeking", "replacing", "evicting"} /\ Done(t) /\ UNCHANGED <<mapVars, diskVars>>
  BY Zenon DEF CancelWrite, EvictStop
<1>2. op[t].due = Never
  BY <1>1, Zenon DEF Carried, TasksFit, JobFits
<1> QED BY <1>1, <1>2, EndStep, Zenon DEF Loose

-----------------------------------------------------------------------------
\* The loop of Storage::expire.

LEMMA PopItem ==
  ASSUME Carried, NEW t \in Tasks, op[t].step = "expiring", UNCHANGED <<mapVars, file, now>>,
         NEW i \in Due(op[t].asof), queue' = [queue EXCEPT ![i] = @ - 1],
         op' = [op EXCEPT ![t].step = "expire_wait", ![t].due = i[1], ![t].want = i[2]]
  PROVE  Carried'
<1> DEFINE o == [op[t] EXCEPT !.step = "expire_wait", !.due = i[1], !.want = i[2]]
<1>0. /\ i \in Items /\ queue[i] > 0 /\ i[1] \in Times /\ i[2] \in Keys /\ i = <<i[1], i[2]>>
      /\ i[1] <= op[t].asof
  BY DEF Due, Items
<1>1. op[t] \in Ops /\ TypeOK /\ JobFits(t) /\ "expire_wait" \in Steps /\ now' = now
  BY Zenon DEF Carried, TypeOK, TasksFit, Steps
<1>2. op' = [op EXCEPT ![t] = o]
  BY Zenon
<1>3. o \in Ops
  BY <1>0, <1>1, Zenon DEF Ops
<1>4. /\ o.step = "expire_wait" /\ o.job = op[t].job /\ o.want = i[2] /\ o.due = i[1]
      /\ o.asof = op[t].asof
  BY <1>1, Zenon DEF Ops
<1> HIDE DEF o
<1>5. op'[t] = o /\ \A u \in Tasks \ {t} : op'[u] = op[u]
  BY <1>1, <1>2, <1>3, OpStep, Zenon
<1>6. JobFits(t)'
  BY <1>0, <1>1, <1>4, <1>5, ZenonT(60) DEF JobFits
<1>7. queue' \in [Items -> 0 .. MaxCopies] /\ \A j \in Items \ {i} : queue'[j] = queue[j]
  BY <1>0, <1>1 DEF TypeOK
<1>8. ASSUME NEW e \in Times, NEW k \in Keys, Tracked(e, k) PROVE Tracked(e, k)'
  <2>1. CASE <<e, k>> = i
    <3>1. op'[t].due = e /\ op'[t].want = k
      BY <1>0, <1>4, <1>5, <2>1, Zenon
    <3> QED BY <3>1, Zenon DEF Tracked
  <2>2. CASE <<e, k>> # i /\ queue[<<e, k>>] > 0
    BY <1>7, <2>2, Zenon DEF Tracked, Items
  <2>3. ASSUME NEW u \in Tasks, op[u].due = e, op[u].want = k PROVE Tracked(e, k)'
    <3>1. u # t
      BY <1>1, <2>3, Zenon DEF JobFits
    <3> QED BY <1>5, <2>3, <3>1, Zenon DEF Tracked
  <2> QED BY <1>8, <2>1, <2>2, <2>3, Zenon DEF Tracked
<1> QED BY <1>2, <1>3, <1>4, <1>6, <1>7, <1>8, LooseStep, ZenonT(60) DEF Loose

LEMMA PopStep ==
  ASSUME Carried, NEW t \in Tasks, PopExpire(t) PROVE Carried'
<1>1. op[t].step = "expiring" /\ UNCHANGED <<mapVars, file, now>> /\ JobFits(t)
  BY Zenon DEF PopExpire, Carried, TasksFit
<1>2. CASE Done(t) /\ UNCHANGED queue
  <2>1. op[t].due = Never /\ op[t].step \in Loose /\ UNCHANGED <<mapVars, diskVars>>
    BY <1>1, <1>2, Zenon DEF JobFits, Loose, diskVars
  <2> QED BY <1>2, <2>1, EndStep, Zenon
<1>3. CASE \E i \in Due(op[t].asof) :
             /\ queue' = [queue EXCEPT ![i] = @ - 1]
             /\ op' = [op EXCEPT ![t].step = "expire_wait", ![t].due = i[1], ![t].want = i[2]]
  BY <1>1, <1>3, PopItem, Zenon
<1> QED BY <1>2, <1>3, Zenon DEF PopExpire

\* The blob of a dropped item needs it no longer.
LEMMA MissedIsNotNeeded ==
  ASSUME Carried, NEW t \in Tasks, ExpireMiss(t) PROVE ~Needed(op[t].due, op[t].want)
<1> DEFINE k == op[t].want
           h == HashOf[op[t].want]
<1>1. JobFits(t) /\ op[t].due # Never /\ op[t].due <= op[t].asof /\ k \in Keys /\ h \in Hashes
  BY Zenon DEF ExpireMiss, Carried, TasksFit, JobFits
<1>2. ASSUME NEW f \in Hashes, cell[f].tag = "Present", cell[f].key = k, cell[f].meta.expire = op[t].due
      PROVE  FALSE
  <2>1. f = h
    BY <1>2 DEF Carried, GuardedMapInv, CellsHashed, Absent
  <2>2. IsExpired(cell[h].meta, op[t].asof)
    BY <1>1, <1>2, <2>1, Zenon DEF IsExpired
  <2> QED BY <1>2, <2>1, <2>2, ZenonT(60) DEF ExpireMiss
<1>3. ASSUME NEW u \in Tasks, op[u].step = "queued", at[u] = k PROVE FALSE
  <2>1. guard[u] # "none"
    BY <1>3, Places, ZenonT(60)
  <2>2. u \in Holders(h) /\ cell[h].key = k
    BY <1>3, <2>1, HeldCell DEF Holders, Carried
  <2> QED BY <2>2, Zenon DEF ExpireMiss, Writable
<1> QED BY <1>2, <1>3, Zenon DEF Needed

LEMMA MissStep ==
  ASSUME Carried, NEW t \in Tasks, ExpireMiss(t) PROVE Carried'
<1> DEFINE o == [op[t] EXCEPT !.step = "expiring", !.want = NoKey, !.due = Never]
<1>1. /\ op[t] \in Ops /\ TypeOK /\ JobFits(t) /\ "expiring" \in Steps /\ now' = now /\ queue' = queue
      /\ op[t].step = "expire_wait" /\ UNCHANGED <<mapVars, file, now>>
  BY Zenon DEF Carried, TypeOK, TasksFit, Steps, ExpireMiss, diskVars
<1>2. op' = [op EXCEPT ![t] = o]
  BY Zenon DEF ExpireMiss
<1>3. o \in Ops
  BY <1>1, Zenon DEF Ops
<1>4. o.step = "expiring" /\ o.job = op[t].job /\ o.due = Never /\ o.asof = op[t].asof
  BY <1>1, Zenon DEF Ops
<1> HIDE DEF o
<1>5. op'[t] = o /\ \A u \in Tasks \ {t} : op'[u] = op[u]
  BY <1>1, <1>2, <1>3, OpStep, Zenon
<1>6. JobFits(t)'
  BY <1>1, <1>4, <1>5, Zenon DEF JobFits
<1>7. ASSUME NEW e \in Times, NEW k \in Keys, Needed(e, k), Tracked(e, k) PROVE Tracked(e, k)'
  <2>1. ~(op[t].due = e /\ op[t].want = k)
    BY <1>7, MissedIsNotNeeded, Zenon
  <2> QED BY <1>1, <1>5, <1>7, <2>1, Zenon DEF Tracked
<1>8. queue' \in [Items -> 0 .. MaxCopies]
  BY <1>1, Zenon DEF TypeOK
<1> QED BY <1>1, <1>2, <1>3, <1>4, <1>6, <1>7, <1>8, LooseStep, Zenon DEF Loose

\* What an ExpireGuard that is dropped does.
LEMMA PutBack ==
  ASSUME Carried, NEW t \in Tasks, op[t].due # Never, Push(<<op[t].due, op[t].want>>),
         \A u \in Tasks \ {t} : op'[u] = op[u]
  PROVE  /\ queue' \in [Items -> 0 .. MaxCopies]
         /\ \A e \in Times, k \in Keys : Tracked(e, k) => Tracked(e, k)'
<1> DEFINE i == <<op[t].due, op[t].want>>
<1>1. op[t].due \in Times /\ op[t].want \in Keys
  BY Zenon DEF Carried, TypeOK, Ops, TasksFit, JobFits
<1>2. i \in Items /\ queue \in [Items -> 0 .. MaxCopies]
  BY <1>1, Zenon DEF Items, Carried, TypeOK
<1>3. /\ queue[i] < MaxCopies /\ queue' = [queue EXCEPT ![i] = @ + 1]
  BY Zenon DEF Push, CanPush
<1> HIDE DEF i
<1>4. queue' \in [Items -> 0 .. MaxCopies] /\ queue'[i] > 0 /\ \A j \in Items : queue[j] > 0 => queue'[j] > 0
  BY <1>2, <1>3
<1>5. ASSUME NEW e \in Times, NEW k \in Keys, Tracked(e, k) PROVE Tracked(e, k)'
  <2>1. CASE queue[<<e, k>>] > 0
    BY <1>4, <2>1, Zenon DEF Tracked, Items
  <2>2. CASE op[t].due = e /\ op[t].want = k
    BY <1>4, <2>2, Zenon DEF Tracked, i
  <2>3. ASSUME NEW u \in Tasks \ {t}, op[u].due = e, op[u].want = k PROVE Tracked(e, k)'
    BY <2>3, Zenon DEF Tracked
  <2> QED BY <1>5, <2>1, <2>2, <2>3, Zenon DEF Tracked
<1> QED BY <1>4, <1>5, Zenon

LEMMA CancelExpireStep ==
  ASSUME Carried, NEW t \in Tasks, CancelExpire(t) PROVE Carried'
<1>1. /\ op[t].step = "expire_wait" /\ Push(<<op[t].due, op[t].want>>) /\ Done(t)
      /\ UNCHANGED <<mapVars, file, now>> /\ JobFits(t) /\ now' = now
  BY Zenon DEF CancelExpire, Carried, TasksFit
<1>2. op' = [op EXCEPT ![t] = Idle] /\ Idle \in Ops /\ Idle.step \in Loose /\ op[t].step \in Loose
  BY <1>1, IdleOp, Zenon DEF Done, Loose
<1>3. op'[t] = Idle /\ \A u \in Tasks \ {t} : op'[u] = op[u]
  BY <1>1, DoneOp, Zenon
<1>4. op[t].due # Never
  BY <1>1, Zenon DEF JobFits
<1>5. guard'[t] = "none"
  BY <1>1, Places, Zenon DEF mapVars
<1>6. JobFits(t)'
  BY <1>1, <1>5, DoneFits, Zenon
<1> QED BY <1>1, <1>2, <1>3, <1>4, <1>6, PutBack, LooseStep, Zenon

-----------------------------------------------------------------------------
\* The steps of a task with an exclusive guard, which keeps it.

LEMMA HeldStep ==
  ASSUME Carried, NEW t \in Tasks, guard[t] \notin {"none", "read"}, UNCHANGED <<mapVars, now>>,
         file' \in [Hashes -> {NoFile} \cup Files], \A f \in Hashes \ {At(t)} : file'[f] = file[f],
         queue' \in [Items -> 0 .. MaxCopies],
         op' \in [Tasks -> Ops], \A u \in Tasks \ {t} : op'[u] = op[u],
         guard[t] \in GuardAt(op'[t].step), FileFits(t)', JobFits(t)', NeededIsTracked'
  PROVE  Carried'
<1>1. PICK h \in Hashes : h = At(t) /\ cell[h] # Absent
  BY HeldCell, Zenon DEF Carried, At
<1>2. /\ GuardedMapInv' /\ now' = now /\ cell' = cell /\ guard' = guard /\ at' = at
      /\ pending' = pending
  BY MapStays, Zenon DEF mapVars
<1>3. TypeOK'
  BY <1>2, Zenon DEF Carried, TypeOK
<1>4. (guard[t] \in GuardAt(op[t].step))'
  BY <1>2, Zenon DEF GuardAt
<1>5. ~Unlocked(h)'
  BY <1>1, <1>2, Zenon DEF Unlocked, Holders, At
<1>6. cell'[h] # Absent'
  BY <1>1, <1>2, Zenon DEF Absent
<1> QED BY <1>1, <1>2, <1>3, <1>4, <1>5, <1>6, Frame, Zenon

\* Such a step that leaves queue and item alone, and does not enter the last stretch
\* of a commit.
LEMMA HeldStays ==
  ASSUME Carried, NEW t \in Tasks, guard[t] \notin {"none", "read"}, UNCHANGED <<mapVars, queue, now>>,
         file' \in [Hashes -> {NoFile} \cup Files], \A f \in Hashes \ {At(t)} : file'[f] = file[f],
         NEW o \in Ops, op' = [op EXCEPT ![t] = o], o.step # "queued", guard[t] \in GuardAt(o.step),
         o.job = op[t].job, o.want = op[t].want, o.due = op[t].due, o.asof = op[t].asof,
         o.step # "erasing" => {o.step, op[t].step} \subseteq {"writing", "sized", "tagged"},
         o.step = "erasing" => op[t].step \in {"writing", "sized", "removing"},
         FileFits(t)'
  PROVE  Carried'
<1>1. op' \in [Tasks -> Ops] /\ op'[t] = o /\ \A u \in Tasks \ {t} : op'[u] = op[u]
  BY OpStep, Zenon DEF Carried
<1>2. cell' = cell /\ at' = at /\ now' = now /\ queue' = queue /\ queue' \in [Items -> 0 .. MaxCopies]
  BY Zenon DEF mapVars, Carried, TypeOK
<1>3. JobFits(t)
  BY Zenon DEF Carried, TasksFit
<1>4. JobFits(t)'
  BY <1>1, <1>2, <1>3, Zenon DEF JobFits
<1>5. NeededIsTracked'
  <2>1. \A e \in Times, l \in Keys : Needed(e, l)' => Needed(e, l)
    BY <1>1, <1>2, NeedKept, Zenon
  <2> QED BY <1>1, <1>2, <2>1, TrackKept, Zenon
<1>6. guard[t] \in GuardAt(op'[t].step)
  BY <1>1, Zenon
<1> QED BY <1>1, <1>2, <1>4, <1>5, <1>6, HeldStep, Zenon

\* Where a writer is.
LEMMA WriterFacts ==
  ASSUME Carried, NEW t \in Tasks, op[t].step \in {"writing", "sized", "tagged"}
  PROVE  /\ guard[t] = "write" /\ op[t].due = Never /\ op[t] \in Ops /\ FileFits(t)
         /\ op[t].draft \in Metadata /\ op[t].draft.expire \in Times \cup {Never}
         /\ At(t) \in Hashes /\ at[t] \in Keys /\ file \in [Hashes -> {NoFile} \cup Files]
<1>1. guard[t] = "write" /\ op[t] \in Ops
  BY Places, Zenon DEF GuardAt
<1>2. op[t].due = Never /\ FileFits(t) /\ file \in [Hashes -> {NoFile} \cup Files]
  BY Zenon DEF Carried, TasksFit, JobFits, TypeOK
<1>3. At(t) \in Hashes /\ at[t] \in Keys
  BY <1>1, HeldCell, Zenon DEF Carried, At
<1>4. op[t].draft \in Metadata
  BY <1>1, Zenon DEF Ops
<1> QED BY <1>1, <1>2, <1>3, <1>4, Zenon

LEMMA SetExpireAtStep ==
  ASSUME Carried, NEW t \in Tasks, NEW e \in Times \cup {Never}, SetExpireAt(t, e) PROVE Carried'
<1> DEFINE d == [op[t].draft EXCEPT !.expire = e]
           o == [op[t] EXCEPT !.draft = d]
<1>1. op[t].step = "writing" /\ UNCHANGED <<mapVars, diskVars>> /\ op' = [op EXCEPT ![t] = o]
  BY Zenon DEF SetExpireAt
<1>2. /\ guard[t] = "write" /\ op[t].due = Never /\ op[t] \in Ops /\ FileFits(t)
      /\ op[t].draft \in Metadata /\ file \in [Hashes -> {NoFile} \cup Files]
  BY <1>1, WriterFacts, Zenon
<1>3. d \in Metadata
  BY <1>2, Zenon
<1> HIDE DEF d
<1>4. o \in Ops
  BY <1>2, <1>3, Zenon DEF Ops
<1>5. /\ o.step = "writing" /\ o.job = op[t].job /\ o.want = op[t].want /\ o.due = op[t].due
      /\ o.asof = op[t].asof /\ o.opened = op[t].opened
  BY <1>1, <1>2, Zenon DEF Ops
<1> HIDE DEF o
<1>6. op'[t] = o
  BY <1>1, <1>4, OpStep, Zenon DEF Carried
<1>7. /\ file' = file /\ queue' = queue /\ now' = now /\ cell' = cell /\ at' = at /\ guard' = guard
  BY <1>1, Zenon DEF mapVars, diskVars
<1>8. FileFits(t)'
  BY <1>1, <1>2, <1>5, <1>6, <1>7, Zenon DEF FileFits, At, CellOf, Matches, NoFile
<1>9. guard[t] \in GuardAt(o.step)
  BY <1>2, <1>5, Zenon DEF GuardAt
<1> QED BY <1>1, <1>2, <1>4, <1>5, <1>7, <1>8, <1>9, HeldStays, Zenon

\* ensure_file leaves a file, and touches no other.
LEMMA EnsureFileLeaves ==
  ASSUME Carried, NEW t \in Tasks, NEW b \in BOOLEAN, EnsureFile(t, b), guard[t] = "write"
  PROVE  /\ file' \in [Hashes -> {NoFile} \cup Files]
         /\ \A f \in Hashes \ {At(t)} : file'[f] = file[f]
         /\ file'[At(t)] \in Files /\ file'[At(t)] # NoFile
<1> DEFINE h == At(t)
<1>1. h \in Hashes /\ file \in [Hashes -> {NoFile} \cup Files]
  BY HeldCell, Zenon DEF Carried, At, TypeOK
<1>2. CASE CellOf(t).tag = "New"
  <2> DEFINE n == [len |-> 0, attr |-> NoAttr, torn |-> TRUE]
  <2>1. n \in Files /\ n # NoFile
    BY Zenon DEF Files, NoFile
  <2>2. file' = [file EXCEPT ![h] = n]
    BY <1>2, Zenon DEF EnsureFile
  <2> HIDE DEF n, h
  <2> QED BY <1>1, <2>1, <2>2, Zenon DEF h
<1>3. CASE CellOf(t).tag # "New" /\ ~b
  <2>1. file' = file /\ file[h] # NoFile
    BY <1>3, Zenon DEF EnsureFile
  <2> QED BY <1>1, <2>1, Zenon
<1>4. CASE CellOf(t).tag # "New" /\ b
  <2> DEFINE n == [file[h] EXCEPT !.len = 0, !.torn = TRUE]
  <2>1. file' = [file EXCEPT ![h] = n] /\ file[h] # NoFile
    BY <1>4, Zenon DEF EnsureFile
  <2>2. file[h] \in Files
    BY <1>1, <2>1, Zenon
  <2>3. n \in Files /\ n.torn
    BY <2>2, Zenon DEF Files
  <2>4. n # NoFile
    BY <2>3, Zenon DEF NoFile
  <2> HIDE DEF n, h
  <2> QED BY <1>1, <2>1, <2>3, <2>4, Zenon DEF h
<1> QED BY <1>2, <1>3, <1>4, Zenon

LEMMA OpenStep ==
  ASSUME Carried, NEW t \in Tasks, Open(t) PROVE Carried'
<1> DEFINE o == [op[t] EXCEPT !.opened = TRUE]
<1>1. /\ op[t].step = "writing" /\ UNCHANGED <<mapVars, queue, now>> /\ op' = [op EXCEPT ![t] = o]
      /\ EnsureFile(t, op[t].truncate)
  BY Zenon DEF Open
<1>2. guard[t] = "write" /\ op[t].due = Never /\ op[t] \in Ops /\ op[t].truncate \in BOOLEAN
  BY <1>1, WriterFacts, Zenon DEF Ops
<1>3. o \in Ops
  BY <1>2, Zenon DEF Ops
<1>4. /\ o.step = "writing" /\ o.job = op[t].job /\ o.want = op[t].want /\ o.due = op[t].due
      /\ o.asof = op[t].asof /\ o.opened = TRUE
  BY <1>1, <1>2, Zenon DEF Ops
<1> HIDE DEF o
<1>5. op'[t] = o
  BY <1>1, <1>3, OpStep, Zenon DEF Carried
<1>6. at' = at /\ guard' = guard
  BY <1>1, Zenon DEF mapVars
<1>7. /\ file' \in [Hashes -> {NoFile} \cup Files] /\ (\A f \in Hashes \ {At(t)} : file'[f] = file[f])
      /\ file'[At(t)] # NoFile
  BY <1>1, <1>2, EnsureFileLeaves, Zenon
<1>8. FileFits(t)'
  BY <1>2, <1>4, <1>5, <1>6, <1>7, Zenon DEF FileFits, At, NoFile
<1>9. guard[t] \in GuardAt(o.step)
  BY <1>2, <1>4, Zenon DEF GuardAt
<1> QED BY <1>1, <1>2, <1>3, <1>4, <1>7, <1>8, <1>9, HeldStays, ZenonT(40)

LEMMA AppendStep ==
  ASSUME Carried, NEW t \in Tasks, Append(t) PROVE Carried'
<1> DEFINE h == At(t)
<1>1. op[t].step = "writing" /\ op[t].opened /\ UNCHANGED <<mapVars, queue, now, op>>
  BY Zenon DEF Append
<1>2. /\ guard[t] = "write" /\ op[t] \in Ops /\ FileFits(t)
      /\ h \in Hashes /\ file \in [Hashes -> {NoFile} \cup Files]
  BY <1>1, WriterFacts, Zenon
<1>3. file[h] \in Files
  BY <1>1, <1>2, Zenon DEF FileFits
<1>4. PICK n \in 1 .. MaxLen : file' = [file EXCEPT ![h].len = n, ![h].torn = TRUE]
  BY Zenon DEF Append
<1> DEFINE g == [file[h] EXCEPT !.len = n, !.torn = TRUE]
<1>n. n \in 0 .. MaxLen
  OBVIOUS
<1>5. g \in Files /\ g.torn
  BY <1>3, <1>n, Zenon DEF Files
<1>6. g # NoFile
  BY <1>5, Zenon DEF NoFile
<1>7. file' = [file EXCEPT ![h] = g]
  BY <1>4, Zenon
<1> HIDE DEF g, h
<1>8. /\ file' \in [Hashes -> {NoFile} \cup Files] /\ (\A f \in Hashes \ {h} : file'[f] = file[f])
      /\ file'[h] # NoFile
  BY <1>2, <1>5, <1>6, <1>7, Zenon
<1>9. /\ op' = [op EXCEPT ![t] = op[t]] /\ op'[t] = op[t] /\ at' = at /\ guard' = guard
      /\ guard[t] \in GuardAt(op[t].step)
  BY <1>1, <1>2, Zenon DEF mapVars, Carried, TypeOK, GuardAt
<1>10. FileFits(t)'
  BY <1>1, <1>2, <1>8, <1>9, Zenon DEF FileFits, At, NoFile, h
<1> QED BY <1>1, <1>2, <1>8, <1>9, <1>10, HeldStays, Zenon DEF h

LEMMA CommitLengthStep ==
  ASSUME Carried, NEW t \in Tasks, CommitLength(t) PROVE Carried'
<1> DEFINE h == At(t)
           d == [op[t].draft EXCEPT !.size = file'[h].len]
           o == [op[t] EXCEPT !.step = "sized", !.opened = TRUE, !.draft = d]
<1>1. /\ op[t].step = "writing" /\ UNCHANGED <<mapVars, queue, now>> /\ op' = [op EXCEPT ![t] = o]
      /\ IF op[t].opened THEN UNCHANGED file ELSE EnsureFile(t, FALSE)
  BY Zenon DEF CommitLength
<1>2. /\ guard[t] = "write" /\ op[t] \in Ops /\ FileFits(t) /\ op[t].draft \in Metadata
      /\ h \in Hashes /\ file \in [Hashes -> {NoFile} \cup Files] /\ "sized" \in Steps
  BY <1>1, WriterFacts, Zenon DEF Steps
<1>3. /\ file' \in [Hashes -> {NoFile} \cup Files] /\ (\A f \in Hashes \ {h} : file'[f] = file[f])
      /\ file'[h] # NoFile
  <2>1. CASE op[t].opened
    BY <1>1, <1>2, <2>1, Zenon DEF FileFits, NoFile
  <2>2. CASE ~op[t].opened
    BY <1>1, <1>2, <2>2, EnsureFileLeaves, Zenon
  <2> QED BY <2>1, <2>2, Zenon
<1>4. file'[h] \in Files
  BY <1>2, <1>3, Zenon
<1> HIDE DEF h
<1>5. file'[h].len \in 0 .. MaxLen
  BY <1>4, Zenon DEF Files
<1>6. d \in Metadata /\ d.size = file'[h].len
  BY <1>2, <1>5, Zenon
<1> HIDE DEF d
<1>7. o \in Ops
  BY <1>2, <1>6, Zenon DEF Ops
<1>8. /\ o.step = "sized" /\ o.job = op[t].job /\ o.want = op[t].want /\ o.due = op[t].due
      /\ o.asof = op[t].asof /\ o.opened = TRUE /\ o.draft = d
  BY <1>1, <1>2, Zenon DEF Ops
<1> HIDE DEF o
<1>9. op'[t] = o
  BY <1>1, <1>7, OpStep, Zenon DEF Carried
<1>10. at' = at /\ guard' = guard
  BY <1>1, Zenon DEF mapVars
<1>11. FileFits(t)'
  BY <1>2, <1>3, <1>6, <1>8, <1>9, <1>10, ZenonT(60) DEF FileFits, At, NoFile, h
<1>12. guard[t] \in GuardAt(o.step)
  BY <1>2, <1>8, Zenon DEF GuardAt
<1> QED BY <1>1, <1>2, <1>3, <1>7, <1>8, <1>11, <1>12, HeldStays, Zenon DEF h

LEMMA CommitAttrStep ==
  ASSUME Carried, NEW t \in Tasks, CommitAttr(t) PROVE Carried'
<1> DEFINE h == At(t)
           a == [key |-> at[t], expire |-> op[t].draft.expire]
           n == [file[h] EXCEPT !.attr = a, !.torn = FALSE]
           o == [op[t] EXCEPT !.step = "tagged"]
<1>1. /\ op[t].step = "sized" /\ UNCHANGED <<mapVars, queue, now>> /\ op' = [op EXCEPT ![t] = o]
      /\ file' = [file EXCEPT ![h] = n]
  BY Zenon DEF CommitAttr, Goto
<1>2. /\ guard[t] = "write" /\ op[t] \in Ops /\ FileFits(t) /\ op[t].draft.expire \in Times \cup {Never}
      /\ h \in Hashes /\ at[t] \in Keys /\ file \in [Hashes -> {NoFile} \cup Files] /\ "tagged" \in Steps
  BY <1>1, WriterFacts, Zenon DEF Steps
<1>3. op[t].opened /\ file[h] # NoFile /\ op[t].draft.size = file[h].len /\ file[h] \in Files
  BY <1>1, <1>2, Zenon DEF FileFits
<1>4. a \in [key : Keys, expire : Times \cup {Never}]
  BY <1>2, Zenon
<1>5. a # NoKey
  BY <1>4, Zenon
<1> HIDE DEF a, h
<1>6. n \in Files /\ n.attr = a /\ n.len = file[h].len
  BY <1>3, <1>4, Zenon DEF Files
<1>7. n # NoFile
  BY <1>5, <1>6, Zenon DEF NoFile
<1> HIDE DEF n
<1>8. /\ file' \in [Hashes -> {NoFile} \cup Files] /\ (\A f \in Hashes \ {h} : file'[f] = file[f])
      /\ file'[h] = n
  BY <1>1, <1>2, <1>6, Zenon
<1>9. o \in Ops
  BY <1>2 DEF Ops
<1>10. /\ o.step = "tagged" /\ o.job = op[t].job /\ o.want = op[t].want /\ o.due = op[t].due
       /\ o.asof = op[t].asof /\ o.opened = op[t].opened /\ o.draft = op[t].draft
  BY <1>1, <1>2, Zenon DEF Ops
<1> HIDE DEF o
<1>11. op'[t] = o
  BY <1>1, <1>9, OpStep, Zenon DEF Carried
<1>12. at' = at /\ guard' = guard
  BY <1>1, Zenon DEF mapVars
<1>13. FileFits(t)'
  BY <1>2, <1>3, <1>6, <1>7, <1>8, <1>10, <1>11, <1>12, ZenonT(60) DEF FileFits, At, NoFile, h, a
<1>14. guard[t] \in GuardAt(o.step)
  BY <1>2, <1>10, ZenonT(60) DEF GuardAt
<1> QED BY <1>1, <1>2, <1>8, <1>9, <1>10, <1>13, <1>14, HeldStays, Zenon DEF h

\* The item is in the queue before the commit makes it count.
LEMMA CommitExpireStep ==
  ASSUME Carried, NEW t \in Tasks, CommitExpire(t) PROVE Carried'
<1> DEFINE d == op[t].draft.expire
           i == <<op[t].draft.expire, at[t]>>
<1>1. /\ op[t].step = "tagged" /\ UNCHANGED <<mapVars, file, now>> /\ Goto(t, "queued")
      /\ IF d # Never THEN Push(i) ELSE UNCHANGED queue
  BY Zenon DEF CommitExpire
<1>2. /\ guard[t] = "write" /\ op[t] \in Ops /\ FileFits(t) /\ d \in Times \cup {Never}
      /\ at[t] \in Keys /\ file \in [Hashes -> {NoFile} \cup Files] /\ op[t].due = Never
  BY <1>1, WriterFacts, Zenon
<1>3. JobFits(t) /\ "queued" \in Steps /\ queue \in [Items -> 0 .. MaxCopies]
  BY Zenon DEF Carried, TasksFit, TypeOK, Steps
<1>4. /\ op' \in [Tasks -> Ops] /\ (\A u \in Tasks \ {t} : op'[u] = op[u])
      /\ op'[t].step = "queued" /\ op'[t].job = op[t].job /\ op'[t].draft = op[t].draft
      /\ op'[t].opened = op[t].opened /\ op'[t].want = op[t].want
      /\ op'[t].victim = op[t].victim /\ op'[t].due = op[t].due /\ op'[t].asof = op[t].asof
  BY <1>1, <1>3, GotoOp, ZenonT(60)
<1>5. cell' = cell /\ at' = at /\ guard' = guard /\ file' = file /\ now' = now
  BY <1>1, Zenon DEF mapVars
<1>6. JobFits(t)'
  BY <1>1, <1>3, <1>4, <1>5, ZenonT(60) DEF JobFits
<1>7. FileFits(t)'
  BY <1>1, <1>2, <1>4, <1>5, ZenonT(60) DEF FileFits, At, NoFile
<1>8. /\ queue' \in [Items -> 0 .. MaxCopies] /\ \A j \in Items : queue[j] > 0 => queue'[j] > 0
      /\ d # Never => queue'[i] > 0
  <2>1. CASE d = Never
    BY <1>1, <1>3, <2>1, ZenonT(60)
  <2>2. CASE d # Never
    <3>1. i \in Items
      BY <1>2, <2>2, Zenon DEF Items
    <3>2. queue[i] < MaxCopies /\ queue' = [queue EXCEPT ![i] = @ + 1]
      BY <1>1, <2>2, Zenon DEF Push, CanPush
    <3> HIDE DEF i
    <3> QED BY <1>3, <3>1, <3>2
  <2> QED BY <2>1, <2>2, Zenon
<1>9. ASSUME NEW e \in Times, NEW k \in Keys, Needed(e, k)' PROVE Tracked(e, k)'
  <2>1. CASE at[t] = k /\ d = e
    BY <1>8, <2>1, Zenon DEF Tracked
  <2>2. CASE ~(at[t] = k /\ d = e)
    <3>1. Needed(e, k)
      BY <1>4, <1>5, <1>9, <2>2, ZenonT(60) DEF Needed
    <3>2. Tracked(e, k)
      BY <3>1, Zenon DEF Carried, NeededIsTracked
    <3> QED BY <1>2, <1>4, <1>8, <3>2, ItemsKept, Zenon
  <2> QED BY <2>1, <2>2, Zenon
<1>10. NeededIsTracked'
  BY <1>9, Zenon DEF NeededIsTracked
<1>11. guard[t] \in GuardAt(op'[t].step)
  BY <1>2, <1>4, Zenon DEF GuardAt
<1> QED BY <1>1, <1>2, <1>4, <1>5, <1>6, <1>7, <1>8, <1>10, <1>11, HeldStep

\* The unlink of do_remove and of a writer that is dropped.
LEMMA UnlinkStep ==
  ASSUME Carried, NEW t \in Tasks, op[t].step \in {"writing", "sized", "removing"},
         file' = [file EXCEPT ![At(t)] = NoFile], Goto(t, "erasing"), UNCHANGED <<mapVars, queue, now>>
  PROVE  Carried'
<1> DEFINE o == [op[t] EXCEPT !.step = "erasing"]
<1>1. op' = [op EXCEPT ![t] = o] /\ op[t] \in Ops /\ "erasing" \in Steps
  BY Places, Zenon DEF Goto, Steps
<1>2. o \in Ops
  BY <1>1, Zenon DEF Ops
<1>3. /\ o.step = "erasing" /\ o.job = op[t].job /\ o.want = op[t].want /\ o.due = op[t].due
      /\ o.asof = op[t].asof
  BY <1>1, Zenon DEF Ops
<1> HIDE DEF o
<1>4. op'[t] = o
  BY <1>1, <1>2, OpStep, Zenon DEF Carried
<1>5. guard[t] \in {"write", "remove"} /\ at' = at /\ guard' = guard
  BY Places, Zenon DEF GuardAt, mapVars
<1>6. At(t) \in Hashes /\ file \in [Hashes -> {NoFile} \cup Files]
  BY <1>5, HeldCell, Zenon DEF Carried, At, TypeOK
<1>7. /\ file' \in [Hashes -> {NoFile} \cup Files] /\ (\A f \in Hashes \ {At(t)} : file'[f] = file[f])
      /\ file'[At(t)] = NoFile
  BY <1>6, Zenon
<1>8. FileFits(t)'
  BY <1>3, <1>4, <1>5, <1>7, ZenonT(60) DEF FileFits, At, NoFile
<1>9. guard[t] \in GuardAt(o.step)
  BY <1>3, <1>5, ZenonT(60) DEF GuardAt
<1> QED BY <1>1, <1>2, <1>3, <1>5, <1>7, <1>8, <1>9, HeldStays, ZenonT(60)

\* The size counter is updated between the file and the map.
LEMMA SizeStep ==
  ASSUME Carried, NEW t \in Tasks, CommitSize(t) \/ EraseSize(t) PROVE Carried'
<1>1. /\ UNCHANGED <<diskVars, op>> /\ file' = file /\ queue' = queue /\ now' = now /\ op' = op
      /\ op[t].draft \in Metadata /\ at' = at /\ cell' = cell /\ TypeOK /\ JobFits(t) /\ FileFits(t)
  BY Places, Zenon DEF CommitSize, EraseSize, ChargeSize, DischargeSize, diskVars, Carried, TasksFit, Ops
<1>2. GuardedMapInv'
  BY <1>1, MapStep, Zenon DEF CommitSize, EraseSize, GuardedMapNext, Carried
<1>3. /\ guard \in [Tasks -> GuardKinds] /\ pending \in [Tasks -> Metadata]
      /\ guard[t] \in {"write", "remove"}
  BY Zenon DEF CommitSize, EraseSize, ChargeSize, DischargeSize, Carried, GuardedMapInv, GuardedMapTypeOK
<1>4. /\ \A u \in Tasks \ {t} : guard'[u] = guard[u] /\ pending'[u] = pending[u]
      /\ \/ op[t].step = "queued" /\ guard'[t] = "charged" /\ pending'[t] = op[t].draft
         \/ op[t].step = "erasing" /\ guard'[t] = "discharged"
  BY <1>3, Zenon DEF CommitSize, EraseSize, ChargeSize, DischargeSize
<1>5. PICK h \in Hashes : h = At(t) /\ cell[h] # Absent
  BY <1>3, HeldCell, Zenon DEF Carried, At
<1>6. TypeOK' /\ At(t)' = At(t)
  BY <1>1, Zenon DEF TypeOK, At
<1>7. (guard[t] \in GuardAt(op[t].step))'
  BY <1>1, <1>4, Zenon DEF GuardAt
<1>8. FileFits(t)'
  BY <1>1, <1>4, <1>6, Zenon DEF FileFits, NoFile
<1>9. JobFits(t)'
  BY <1>1, <1>4, ZenonT(60) DEF JobFits, IsExpired
<1>10. NeededIsTracked'
  BY <1>1 DEF Carried, NeededIsTracked, Needed, Tracked
<1>11. ~Unlocked(h)'
  BY <1>1, <1>4, <1>5, Zenon DEF Unlocked, Holders, At
<1>12. cell'[h] # Absent'
  BY <1>1, <1>5, ZenonT(60) DEF Absent
<1> QED BY <1>1, <1>2, <1>4, <1>5, <1>6, <1>7, <1>8, <1>9, <1>10, <1>11, <1>12, Frame, ZenonT(60)

-----------------------------------------------------------------------------
\* The steps that give up a guard.

LEMMA ReleaseStep ==
  ASSUME Carried, NEW t \in Tasks, guard[t] # "none", LetGo(t), GuardedMapInv',
         UNCHANGED <<file, now>>, queue' \in [Items -> 0 .. MaxCopies],
         op' \in [Tasks -> Ops], \A u \in Tasks \ {t} : op'[u] = op[u],
         op'[t].step \in Loose, JobFits(t)',
         \A f \in Hashes \ {At(t)} : cell'[f] = cell[f],
         \/ cell'[At(t)] = cell[At(t)] /\ (guard[t] = "read" \/ Matches(At(t)))
         \/ guard[t] # "read" /\ cell'[At(t)] = Absent /\ file[At(t)] = NoFile
         \/ /\ guard[t] # "read" /\ file[At(t)] # NoFile
            /\ file[At(t)].len = cell'[At(t)].meta.size
            /\ file[At(t)].attr = [key |-> cell'[At(t)].key, expire |-> cell'[At(t)].meta.expire]
            /\ cell'[At(t)].tag = "Present",
         NeededIsTracked'
  PROVE  Carried'
<1>1. PICK h \in Hashes : h = At(t) /\ cell[h] # Absent
  BY HeldCell, ZenonT(60) DEF Carried, At
<1>2. file' = file /\ now' = now /\ TypeOK'
  BY Zenon DEF Carried, TypeOK
<1>3. /\ guard'[t] = "none"
      /\ \A u \in Tasks \ {t} : guard'[u] = guard[u] /\ at'[u] = at[u] /\ pending'[u] = pending[u]
  BY DEF LetGo, Hold, Carried, GuardedMapInv, GuardedMapTypeOK
<1>4. (guard[t] \in GuardAt(op[t].step))'
  BY <1>3, Zenon DEF GuardAt, Loose
<1>5. FileFits(t)'
  BY <1>3, Zenon DEF FileFits, Loose
<1>6. ASSUME (cell[h].tag = "Present" /\ Unlocked(h))' PROVE Matches(h)'
  <2>1. CASE cell'[h] = cell[h] /\ guard[t] = "read"
    <3>1. ASSUME NEW v \in Holders(h) PROVE guard[v] = "read"
      <4>1. CASE v = t
        BY <2>1, <4>1, Zenon
      <4>2. CASE v # t
        <5>1. v \in Tasks /\ v \in Holders(h)' /\ guard'[v] = guard[v]
          BY <1>3, <4>2, Zenon DEF Holders
        <5> QED BY <1>6, <5>1, Zenon DEF Unlocked
      <4> QED BY <4>1, <4>2, Zenon
    <3>2. Unlocked(h)
      BY <3>1, Zenon DEF Unlocked
    <3>3. Matches(h)
      BY <1>6, <2>1, <3>2, Zenon DEF Carried, FilesMatch
    <3> QED BY <1>2, <2>1, <3>3, Zenon DEF Matches, NoFile
  <2>2. CASE cell'[h] = cell[h] /\ Matches(h)
    BY <1>2, <2>2, ZenonT(60) DEF Matches, NoFile
  <2>3. CASE cell'[h] = Absent
    BY <1>6, <2>3 DEF Absent
  <2>4. CASE /\ file[h] # NoFile /\ file[h].len = cell'[h].meta.size
             /\ file[h].attr = [key |-> cell'[h].key, expire |-> cell'[h].meta.expire]
    BY <1>2, <2>4, ZenonT(60) DEF Matches, NoFile
  <2> QED BY <1>1, <2>1, <2>2, <2>3, <2>4, Zenon
<1>7. (cell[h] = Absent => file[h] = NoFile)'
  BY <1>1, <1>2 DEF Absent, NoFile
<1>8. (cell'[h] = cell[h] /\ file'[h] = file[h]) \/ guard[t] \notin {"none", "read"} \/ cell[h] = Absent
  BY <1>1, <1>2, Zenon
<1> QED BY <1>1, <1>2, <1>3, <1>4, <1>5, <1>6, <1>7, <1>8, Frame, ZenonT(60)

\* Nothing new is needed when a guard is given up without a commit.
LEMMA ReleaseNeeds ==
  ASSUME Carried, NEW t \in Tasks, LetGo(t), \A u \in Tasks \ {t} : op'[u] = op[u],
         op'[t].step \in Loose, \A h \in Hashes : cell'[h] = cell[h] \/ cell'[h].tag # "Present"
  PROVE  \A e \in Times, k \in Keys : Needed(e, k)' => Needed(e, k)
<1>1. \A u \in Tasks \ {t} : at'[u] = at[u]
  BY Zenon DEF LetGo, Hold, Carried, GuardedMapInv, GuardedMapTypeOK
<1>2. op'[t].step # "queued"
  BY Zenon DEF Loose
<1> QED BY <1>1, <1>2, NeedKept, Zenon

\* The guards that are dropped: a reader's, that of a writer which has not opened the
\* file, that of a remover whose unlink failed.
LEMMA DropStep ==
  ASSUME Carried, NEW t \in Tasks, DropGuard(t), Done(t), UNCHANGED <<file, now>>,
         queue' \in [Items -> 0 .. MaxCopies],
         \A e \in Times, k \in Keys : Tracked(e, k) => Tracked(e, k)',
         \/ op[t].step = "reading"
         \/ op[t].step = "writing" /\ ~op[t].opened
         \/ op[t].step = "removing"
  PROVE  Carried'
<1>1. GuardedMapInv' /\ guard[t] # "none" /\ LetGo(t) /\ now' = now /\ FileFits(t)
  BY MapStep, Zenon DEF DropGuard, GuardedMapNext, Carried, TasksFit
<1>2. op' \in [Tasks -> Ops] /\ op'[t] = Idle /\ (\A u \in Tasks \ {t} : op'[u] = op[u]) /\ op'[t].step \in Loose
  BY DoneOp, IdleOp, Zenon DEF Loose
<1>3. guard'[t] = "none"
  BY <1>1, Zenon DEF LetGo, Hold, Carried, GuardedMapInv, GuardedMapTypeOK
<1>4. JobFits(t)'
  BY <1>1, <1>3, DoneFits, Zenon
<1>5. guard[t] = "read" <=> op[t].step = "reading"
  BY Places, Zenon
<1>6. guard[t] = "remove" <=> op[t].step = "removing"
  BY Places, Zenon DEF GuardAt
<1>7. At(t) \in Hashes /\ CellOf(t) = cell[At(t)] /\ cell \in [Hashes -> {Absent} \cup [key : Keys, tag : {"New", "Present"}, meta : Metadata]]
  BY <1>1, HeldCell, Zenon DEF Carried, At, GuardedMapInv, GuardedMapTypeOK
<1>8. CASE guard[t] = "write" /\ CellOf(t).tag = "New"
  <2>1. cell' = [cell EXCEPT ![At(t)] = Absent] /\ file[At(t)] = NoFile
    BY <1>1, <1>5, <1>6, <1>8, Zenon DEF DropGuard, SetCell, At, FileFits
  <2>2. cell'[At(t)] = Absent /\ \A f \in Hashes \ {At(t)} : cell'[f] = cell[f]
    BY <1>7, <2>1, Zenon
  <2>3. \A h \in Hashes : cell'[h] = cell[h] \/ cell'[h].tag # "Present"
    BY <2>2 DEF Absent
  <2>4. NeededIsTracked'
    BY <1>1, <1>2, <2>3, ReleaseNeeds, Zenon DEF Carried, NeededIsTracked
  <2> QED BY <1>1, <1>2, <1>4, <1>8, <2>1, <2>2, <2>4, ReleaseStep, ZenonT(60)
<1>9. CASE ~(guard[t] = "write" /\ CellOf(t).tag = "New")
  <2>1. cell' = cell
    BY <1>9, Zenon DEF DropGuard
  <2>2. guard[t] = "read" \/ Matches(At(t))
    BY <1>1, <1>5, <1>6, <1>9, Zenon DEF DropGuard, FileFits
  <2>3. NeededIsTracked'
    BY <1>1, <1>2, <2>1, ReleaseNeeds, Zenon DEF Carried, NeededIsTracked
  <2> QED BY <1>1, <1>2, <1>4, <2>1, <2>2, <2>3, ReleaseStep, Zenon
<1> QED BY <1>8, <1>9, Zenon

LEMMA DropReaderStep ==
  ASSUME Carried, NEW t \in Tasks, DropReader(t) PROVE Carried'
<1>1. op[t].step = "reading" /\ DropGuard(t) /\ Done(t) /\ file' = file /\ now' = now /\ queue' = queue
  BY Zenon DEF DropReader, diskVars
<1>2. op[t].due = Never /\ queue' \in [Items -> 0 .. MaxCopies]
  BY <1>1, Zenon DEF Carried, TasksFit, JobFits, TypeOK
<1>3. \A e \in Times, k \in Keys : Tracked(e, k) => Tracked(e, k)'
  BY <1>1, <1>2, DoneOp, ItemsKept, Zenon
<1> QED BY <1>1, <1>2, <1>3, DropStep, Zenon

LEMMA DropWriterStep ==
  ASSUME Carried, NEW t \in Tasks, DropWriter(t) PROVE Carried'
<1>1. op[t].step \in {"writing", "sized"} /\ FileFits(t)
  BY Zenon DEF DropWriter, Carried, TasksFit
<1>2. CASE op[t].opened
  BY <1>1, <1>2, UnlinkStep, Zenon DEF DropWriter
<1>3. CASE ~op[t].opened
  <2>1. op[t].step = "writing" /\ DropGuard(t) /\ Done(t) /\ file' = file /\ now' = now /\ queue' = queue
    BY <1>1, <1>3, Zenon DEF DropWriter, diskVars, FileFits
  <2>2. op[t].due = Never /\ queue' \in [Items -> 0 .. MaxCopies]
    BY <2>1, Zenon DEF Carried, TasksFit, JobFits, TypeOK
  <2>3. \A e \in Times, k \in Keys : Tracked(e, k) => Tracked(e, k)'
    BY <2>1, <2>2, DoneOp, ItemsKept, Zenon
  <2> QED BY <1>3, <2>1, <2>2, <2>3, DropStep, ZenonT(60)
<1> QED BY <1>2, <1>3, Zenon

LEMMA RemoveErrorStep ==
  ASSUME Carried, NEW t \in Tasks, RemoveError(t) PROVE Carried'
<1>1. /\ op[t].step = "removing" /\ DropGuard(t) /\ Done(t) /\ file' = file /\ now' = now
      /\ IF op[t].job = "expire" THEN Push(<<op[t].due, op[t].want>>) ELSE UNCHANGED queue
      /\ \A u \in Tasks \ {t} : op'[u] = op[u]
  BY DoneOp, Zenon DEF RemoveError
<1>2. JobFits(t) /\ queue \in [Items -> 0 .. MaxCopies]
  BY Zenon DEF Carried, TasksFit, TypeOK
<1>3. /\ queue' \in [Items -> 0 .. MaxCopies]
      /\ \A e \in Times, k \in Keys : Tracked(e, k) => Tracked(e, k)'
  <2>1. CASE op[t].job = "expire"
    <3>1. op[t].due # Never
      BY <1>1, <1>2, <2>1, Zenon DEF JobFits
    <3> QED BY <1>1, <2>1, <3>1, PutBack, Zenon
  <2>2. CASE op[t].job # "expire"
    <3>1. op[t].due = Never /\ queue' = queue
      BY <1>1, <1>2, <2>2, ZenonT(60) DEF JobFits
    <3> QED BY <1>1, <1>2, <3>1, ItemsKept, Zenon
  <2> QED BY <2>1, <2>2, Zenon
<1> QED BY <1>1, <1>3, DropStep, Zenon

\* The map takes over what is on the disk.
LEMMA CommitMapStep ==
  ASSUME Carried, NEW t \in Tasks, CommitMap(t) PROVE Carried'
<1>1. /\ op[t].step = "queued" /\ CommitCell(t) /\ guard[t] = "charged" /\ LetGo(t) /\ Done(t)
      /\ file' = file /\ queue' = queue /\ now' = now
      /\ cell' = [cell EXCEPT ![At(t)] = Blob(at[t], "Present", pending[t])]
  BY Zenon DEF CommitMap, CommitCell, diskVars, SetCell, At
<1>2. GuardedMapInv'
  BY <1>1, MapStep, Zenon DEF GuardedMapNext, Carried
<1>3. op' \in [Tasks -> Ops] /\ op'[t] = Idle /\ (\A u \in Tasks \ {t} : op'[u] = op[u]) /\ op'[t].step \in Loose
  BY <1>1, DoneOp, IdleOp, Zenon DEF Loose
<1>4. guard'[t] = "none" /\ \A u \in Tasks \ {t} : at'[u] = at[u]
  BY <1>1, Zenon DEF LetGo, Hold, Carried, GuardedMapInv, GuardedMapTypeOK
<1>5. JobFits(t)'
  BY <1>1, <1>4, DoneFits, Zenon
<1>6. At(t) \in Hashes /\ at[t] \in Keys /\ cell \in [Hashes -> {Absent} \cup [key : Keys, tag : {"New", "Present"}, meta : Metadata]]
  BY <1>1, HeldCell, Zenon DEF Carried, At, GuardedMapInv, GuardedMapTypeOK
<1>7. /\ cell'[At(t)].tag = "Present" /\ cell'[At(t)].key = at[t] /\ cell'[At(t)].meta = pending[t]
      /\ \A f \in Hashes \ {At(t)} : cell'[f] = cell[f]
  BY <1>1, <1>6, Zenon DEF Blob
<1>8. /\ FileFits(t) /\ JobFits(t) /\ queue' \in [Items -> 0 .. MaxCopies]
  BY <1>1, Zenon DEF Carried, TasksFit, TypeOK
<1>9. /\ pending[t] = op[t].draft /\ file[At(t)] # NoFile /\ op[t].draft.size = file[At(t)].len
      /\ file[At(t)].attr = [key |-> at[t], expire |-> op[t].draft.expire] /\ op[t].due = Never
  BY <1>1, <1>8, ZenonT(60) DEF FileFits, JobFits
<1>10. ASSUME NEW e \in Times, NEW k \in Keys, Needed(e, k)' PROVE Needed(e, k)
  <2>1. CASE \E h \in Hashes : cell'[h].tag = "Present" /\ cell'[h].key = k /\ cell'[h].meta.expire = e
    <3>1. PICK h \in Hashes : cell'[h].tag = "Present" /\ cell'[h].key = k /\ cell'[h].meta.expire = e
      BY <2>1, ZenonT(60)
    <3>2. CASE h = At(t)
      BY <1>1, <1>7, <1>9, <3>1, <3>2 DEF Needed
    <3>3. CASE h # At(t)
      BY <1>7, <3>1, <3>3, Zenon DEF Needed
    <3> QED BY <3>2, <3>3, Zenon
  <2>2. CASE \E u \in Tasks : op'[u].step = "queued" /\ at'[u] = k /\ op'[u].draft.expire = e
    BY <1>3, <1>4, <2>2, Zenon DEF Needed, Loose
  <2> QED BY <1>10, <2>1, <2>2, Zenon DEF Needed
<1>11. NeededIsTracked'
  BY <1>1, <1>3, <1>9, <1>10, TrackKept, Zenon
<1> QED BY <1>1, <1>2, <1>3, <1>5, <1>7, <1>8, <1>9, <1>11, ReleaseStep

\* The end of a removal: what the task was expiring is needed no longer.
LEMMA ErasedIsNotNeeded ==
  ASSUME Carried, NEW t \in Tasks, guard[t] = "discharged", LetGo(t), cell'[At(t)] = Absent, GuardedMapInv',
         \A u \in Tasks \ {t} : op'[u] = op[u], op'[t].step \in Loose,
         NEW e \in Times, NEW k \in Keys, k = at[t]
  PROVE  ~Needed(e, k)'
<1>0. At(t) = HashOf[k]
  BY ZenonT(60) DEF At
<1>1. ASSUME NEW h \in Hashes, cell'[h].tag = "Present", cell'[h].key = k PROVE FALSE
  <2>1. HashOf[cell'[h].key] = h
    BY <1>1 DEF GuardedMapInv, CellsHashed, Absent
  <2> QED BY <1>0, <1>1, <2>1 DEF Absent
<1>2. ASSUME NEW u \in Tasks, op'[u].step = "queued", at'[u] = k PROVE FALSE
  <2>1. u # t
    BY <1>2, Zenon DEF Loose
  <2>2. op[u].step = "queued" /\ at[u] = at[t]
    BY <1>2, <2>1, Zenon DEF LetGo, Hold, Carried, GuardedMapInv, GuardedMapTypeOK
  <2>3. guard[u] \in {"write", "charged"}
    BY <2>2, Places, Zenon DEF GuardAt
  <2> QED BY <2>1, <2>2, <2>3, Zenon DEF Carried, GuardedMapInv, HoldersExclude
<1> QED BY <1>1, <1>2, Zenon DEF Needed

LEMMA EraseCellOp ==
  ASSUME Carried, NEW t \in Tasks, EraseCell(t), guard'[t] = "none", now' = now
  PROVE  /\ op' \in [Tasks -> Ops] /\ (\A u \in Tasks \ {t} : op'[u] = op[u])
         /\ op'[t].step \in Loose /\ JobFits(t)'
<1>0. op[t] \in Ops /\ TypeOK /\ JobFits(t) /\ {"expiring", "evicting"} \subseteq Steps
  BY Zenon DEF Carried, TypeOK, TasksFit, Steps
<1>1. CASE op[t].job = "write"
  <2>1. PICK o \in Ops : op' = [op EXCEPT ![t] = o] /\ o.step \in Loose /\ JobFits(t)'
    BY <1>1, AgainOp, Zenon DEF EraseCell
  <2> QED BY <1>0, <2>1, OpStep, Zenon
<1>2. CASE op[t].job = "expire"
  <2> DEFINE o == [op[t] EXCEPT !.step = "expiring", !.want = NoKey, !.due = Never]
  <2>1. op' = [op EXCEPT ![t] = o]
    BY <1>2, Zenon DEF EraseCell
  <2>2. o \in Ops
    BY <1>0, Zenon DEF Ops
  <2>3. o.step = "expiring" /\ o.job = "expire" /\ o.due = Never /\ o.asof = op[t].asof
    BY <1>0, <1>2, Zenon DEF Ops
  <2> HIDE DEF o
  <2>4. op' \in [Tasks -> Ops] /\ op'[t] = o /\ \A u \in Tasks \ {t} : op'[u] = op[u]
    BY <1>0, <2>1, <2>2, OpStep, Zenon
  <2>5. JobFits(t)'
    BY <1>0, <2>3, <2>4, Zenon DEF JobFits
  <2> QED BY <2>3, <2>4, <2>5, Zenon DEF Loose
<1>3. CASE op[t].job = "evict"
  <2>1. Goto(t, "evicting")
    BY <1>3, Zenon DEF EraseCell
  <2>2. /\ op' \in [Tasks -> Ops] /\ \A u \in Tasks \ {t} : op'[u] = op[u]
        /\ op'[t].step = "evicting" /\ op'[t].job = "evict" /\ op'[t].due = op[t].due
        /\ op'[t].asof = op[t].asof
    BY <1>0, <1>3, <2>1, GotoOp, Zenon
  <2>3. JobFits(t)'
    BY <1>0, <1>3, <2>2, Zenon DEF JobFits
  <2> QED BY <2>2, <2>3, Zenon DEF Loose
<1>4. CASE op[t].job \notin {"write", "expire", "evict"}
  <2>1. Done(t)
    BY <1>4, Zenon DEF EraseCell
  <2> QED BY <2>1, DoneOp, DoneFits, IdleOp, Zenon DEF Loose
<1> QED BY <1>1, <1>2, <1>3, <1>4, Zenon

LEMMA EraseCellStep ==
  ASSUME Carried, NEW t \in Tasks, EraseCell(t) PROVE Carried'
<1>1. /\ op[t].step = "erasing" /\ RemoveCell(t) /\ guard[t] = "discharged" /\ LetGo(t)
      /\ file' = file /\ queue' = queue /\ now' = now
      /\ cell' = [cell EXCEPT ![At(t)] = Absent]
  BY Zenon DEF EraseCell, RemoveCell, diskVars, SetCell, At
<1>2. GuardedMapInv'
  BY <1>1, MapStep, Zenon DEF GuardedMapNext, Carried
<1>3. guard'[t] = "none"
  BY <1>1, Zenon DEF LetGo, Hold, Carried, GuardedMapInv, GuardedMapTypeOK
<1>4. /\ op' \in [Tasks -> Ops] /\ (\A u \in Tasks \ {t} : op'[u] = op[u])
      /\ op'[t].step \in Loose /\ JobFits(t)'
  BY <1>1, <1>3, EraseCellOp, Zenon
<1>5. At(t) \in Hashes /\ cell \in [Hashes -> {Absent} \cup [key : Keys, tag : {"New", "Present"}, meta : Metadata]]
  BY <1>1, HeldCell, Zenon DEF Carried, At, GuardedMapInv, GuardedMapTypeOK
<1>6. cell'[At(t)] = Absent /\ \A f \in Hashes \ {At(t)} : cell'[f] = cell[f]
  BY <1>1, <1>5, Zenon
<1>7. FileFits(t) /\ JobFits(t) /\ queue' \in [Items -> 0 .. MaxCopies]
  BY <1>1, Zenon DEF Carried, TasksFit, TypeOK
<1>8. file[At(t)] = NoFile
  BY <1>1, <1>7, Zenon DEF FileFits
<1>9. \A h \in Hashes : cell'[h] = cell[h] \/ cell'[h].tag # "Present"
  BY <1>6 DEF Absent
<1>10. ASSUME NEW e \in Times, NEW k \in Keys, Needed(e, k)' PROVE Tracked(e, k)'
  <2>1. Needed(e, k)
    BY <1>1, <1>4, <1>9, <1>10, ReleaseNeeds, Zenon
  <2>2. Tracked(e, k)
    BY <2>1, Zenon DEF Carried, NeededIsTracked
  <2>3. k # at[t]
    BY <1>1, <1>2, <1>4, <1>6, <1>10, ErasedIsNotNeeded, ZenonT(60)
  <2>4. ~(op[t].due = e /\ op[t].want = k)
    BY <1>1, <1>7, <2>3, Zenon DEF JobFits
  <2> QED BY <1>1, <1>4, <2>2, <2>4, Zenon DEF Tracked
<1>11. NeededIsTracked'
  BY <1>10, Zenon DEF NeededIsTracked
<1> QED BY <1>1, <1>2, <1>4, <1>6, <1>7, <1>8, <1>11, ReleaseStep, ZenonT(60)

-----------------------------------------------------------------------------
\* Where the guards are asked for.

LEMMA WriterStarts ==
  ASSUME Carried, NEW t \in Tasks, NEW k \in Keys, NEW b \in BOOLEAN,
         (op[t] = Idle) \/ (op[t].step = "seeking" /\ k = op[t].want),
         LockWrite(t, k) \/ InsertNew(t, k), BeWriter(t, k, b), UNCHANGED diskVars
  PROVE  Carried'
<1>1. op[t].due = Never
  BY IdleOp, ZenonT(60) DEF Carried, TasksFit, JobFits
<1> QED BY <1>1, LockWriteStep, InsertStep, Zenon

LEMMA SeekStep ==
  ASSUME Carried, NEW t \in Tasks, Seek(t) PROVE Carried'
<1>1. op[t].step = "seeking" /\ op[t].want \in Keys /\ op[t].truncate \in BOOLEAN
  BY Places, Zenon DEF Seek, Carried, TasksFit, JobFits, Ops
<1> QED BY <1>1, WriterStarts DEF Seek

LEMMA RemoveStep ==
  ASSUME Carried, NEW t \in Tasks,
         (\E k \in Keys : Remove(t, k)) \/ Replace(t) \/ EvictNext(t)
  PROVE  Carried'
<1>1. /\ Goto(t, "removing") /\ UNCHANGED diskVars /\ JobFits(t)
      /\ op[t] = Idle \/ op[t].step \in {"replacing", "evicting"}
  BY Zenon DEF Remove, Replace, EvictNext, Carried, TasksFit
<1>2. op[t].due = Never /\ op[t].job # "expire"
  BY <1>1, IdleOp, Zenon DEF JobFits
<1>3. PICK k \in Keys : LockRemove(t, k)
  BY <1>1, Zenon DEF Remove, Replace, EvictNext, JobFits
<1> QED BY <1>1, <1>2, <1>3, LockRemoveStep, Zenon

LEMMA ExpireLockStep ==
  ASSUME Carried, NEW t \in Tasks, ExpireLock(t) PROVE Carried'
<1>1. op[t].step = "expire_wait" /\ JobFits(t)
  BY Zenon DEF ExpireLock, Carried, TasksFit
<1>2. op[t].due # Never /\ op[t].job = "expire" /\ op[t].want \in Keys
  BY <1>1, Zenon DEF JobFits
<1> QED BY <1>2, LockRemoveStep, Zenon DEF ExpireLock

-----------------------------------------------------------------------------
\* A crash and Storage::open; the clock.

\* Tasks that do nothing.
AllIdle == now \in 0 .. MaxTime /\ \A t \in Tasks : op[t] = Idle /\ guard[t] = "none"

LEMMA IdleFits == AllIdle => TasksFit
<1> SUFFICES ASSUME AllIdle, NEW t \in Tasks
             PROVE  guard[t] \in GuardAt(op[t].step) /\ FileFits(t) /\ JobFits(t)
  BY Zenon DEF TasksFit
<1>1. /\ op[t].step = "idle" /\ op[t].due = Never /\ op[t].job = "none" /\ op[t].asof = 0
      /\ guard[t] = "none" /\ 0 <= now
  BY IdleOp DEF AllIdle
<1>2. guard[t] \in GuardAt(op[t].step)
  BY <1>1, Zenon DEF GuardAt
<1>3. FileFits(t)
  BY <1>1, Zenon DEF FileFits
<1>4. JobFits(t)
  BY <1>1, ZenonT(60) DEF JobFits
<1> QED BY <1>2, <1>3, <1>4, Zenon

LEMMA OpenedCell ==
  ASSUME TypeOK, NEW h \in Hashes
  PROVE  /\ ~Valid(h) => Opened(h) = Absent
         /\ Valid(h) =>
              /\ file[h] \in Files /\ file[h].attr \in [key : Keys, expire : Times \cup {Never}]
              /\ Opened(h) \in [key : Keys, tag : {"Present"}, meta : Metadata]
              /\ Opened(h).key = file[h].attr.key /\ Opened(h).meta.size = file[h].len
              /\ Opened(h).meta.expire = file[h].attr.expire /\ HashOf[Opened(h).key] = h
              /\ Opened(h) # Absent
<1>1. ASSUME Valid(h)
      PROVE  file[h] \in Files /\ file[h].attr \in [key : Keys, expire : Times \cup {Never}]
  BY <1>1, Zenon DEF Valid, TypeOK, Files
<1>2. ASSUME Valid(h)
      PROVE  /\ Opened(h) = [key |-> file[h].attr.key, tag |-> "Present",
                             meta |-> [size |-> file[h].len, expire |-> file[h].attr.expire]]
             /\ HashOf[file[h].attr.key] = h /\ file[h].len \in 0 .. MaxLen
  BY <1>1, <1>2, Zenon DEF Opened, Blob, Valid, Files
<1>3. ASSUME Valid(h) PROVE Opened(h) # Absent
  BY <1>2, <1>3 DEF Absent
<1> QED BY <1>1, <1>2, <1>3 DEF Opened

LEMMA ReopenStep ==
  ASSUME Carried, Reopen PROVE Carried'
<1>0. TypeOK /\ now' = now
  BY Zenon DEF Carried, Reopen
<1>1. \A h \in Hashes : cell'[h] = Opened(h) /\ file'[h] = IF Valid(h) THEN file[h] ELSE NoFile
  BY Zenon DEF Reopen
<1>2. \A t \in Tasks : guard'[t] = "none" /\ op'[t] = Idle
  BY Zenon DEF Reopen
<1>3. Unguarded'
  <2>1. cell' \in [Hashes -> {Absent} \cup [key : Keys, tag : {"Present"}, meta : Metadata]]
    BY <1>0, OpenedCell, Zenon DEF Reopen
  <2>2. \A h \in Hashes : cell'[h] # Absent => HashOf[cell'[h].key] = h
    BY <1>0, <1>1, OpenedCell, Zenon
  <2> QED BY <2>1, <2>2, Zenon DEF Unguarded, Reopen, CellsHashed, Absent
<1>4. GuardedMapInv'
  BY <1>3, UnguardedInv, PTL
<1>5. TypeOK'
  <2>1. file' \in [Hashes -> {NoFile} \cup Files]
    BY <1>0, OpenedCell, Zenon DEF Reopen
  <2>2. queue' \in [Items -> 0 .. 1]
    BY DEF Reopen
  <2>3. 1 \in 0 .. MaxCopies
    BY DEF Reopen
  <2>4. op' \in [Tasks -> Ops]
    BY IdleOp, Zenon DEF Reopen
  <2> QED BY <1>0, <2>1, <2>2, <2>3, <2>4 DEF TypeOK
<1>6. TasksFit'
  <2>1. AllIdle'
    BY <1>2, <1>5, Zenon DEF AllIdle, TypeOK, Idle
  <2> QED BY <2>1, IdleFits, PTL
<1>7. FilesMatch' /\ NoStray'
  <2>1. ASSUME NEW h \in Hashes, cell'[h].tag = "Present" PROVE Matches(h)'
    <3>1. Valid(h) /\ cell'[h] = Opened(h) /\ file'[h] = file[h]
      BY <1>0, <1>1, <2>1, OpenedCell DEF Absent
    <3>2. file[h] # NoFile /\ file[h].attr = [key |-> file[h].attr.key, expire |-> file[h].attr.expire]
      BY <1>0, <3>1, OpenedCell, Zenon DEF Valid
    <3> QED BY <1>0, <3>1, <3>2, OpenedCell, ZenonT(60) DEF Matches, NoFile
  <2>2. ASSUME NEW h \in Hashes, cell'[h] = Absent' PROVE file'[h] = NoFile'
    BY <1>0, <1>1, <2>2, OpenedCell, Zenon DEF Absent, NoFile
  <2> QED BY <2>1, <2>2, Zenon DEF FilesMatch, NoStray
<1>8. ASSUME NEW e \in Times, NEW k \in Keys, Needed(e, k)' PROVE Tracked(e, k)'
  <2>1. PICK h \in Hashes : cell'[h].tag = "Present" /\ cell'[h].key = k /\ cell'[h].meta.expire = e
    BY <1>2, <1>8, IdleOp, ZenonT(60) DEF Needed
  <2>2. Valid(h) /\ file[h].attr = [key |-> k, expire |-> e]
    BY <1>0, <1>1, <2>1, OpenedCell DEF Absent
  <2>3. queue'[<<e, k>>] = 1
    BY <2>2, Zenon DEF Reopen, Items
  <2> QED BY <2>3 DEF Tracked
<1>9. NeededIsTracked'
  BY <1>8, Zenon DEF NeededIsTracked
<1> QED BY <1>4, <1>5, <1>6, <1>7, <1>9, Zenon DEF Carried

\* Time passes, and nothing else.
LEMMA TickStep ==
  ASSUME Carried, now' \in 0 .. MaxTime, now <= now', UNCHANGED <<mapVars, file, queue, op>>
  PROVE  Carried'
<1>1. now \in 0 .. MaxTime /\ op \in [Tasks -> Ops]
  BY Zenon DEF Carried, TypeOK
<1>2. GuardedMapInv' /\ UNCHANGED <<cell, guard, at, pending>>
  BY <1>1, MapStays, Zenon DEF mapVars
<1>3. ASSUME NEW t \in Tasks
      PROVE  (guard[t] \in GuardAt(op[t].step) /\ FileFits(t) /\ JobFits(t))'
  <2>0. guard[t] \in GuardAt(op[t].step) /\ FileFits(t) /\ JobFits(t) /\ op[t].asof \in 0 .. MaxTime
    BY <1>1, Zenon DEF Carried, TasksFit, Ops
  <2>1. (guard[t] \in GuardAt(op[t].step))'
    BY <1>1, <1>2, <2>0, Zenon DEF GuardAt
  <2>2. FileFits(t)'
    BY <1>1, <1>2, <2>0, ZenonT(60) DEF FileFits, At, CellOf, Matches, NoFile
  <2>3. op[t].asof <= now'
    BY <1>1, <2>0 DEF JobFits
  <2>4. JobFits(t)'
    BY <1>1, <1>2, <2>0, <2>3, Zenon DEF JobFits, IsExpired, CellOf
  <2> QED BY <2>1, <2>2, <2>4, Zenon
<1>4. TasksFit' /\ TypeOK'
  BY <1>1, <1>3, Zenon DEF TasksFit, Carried, TypeOK
<1>5. FilesMatch' /\ NoStray'
  BY <1>1, <1>2, ZenonT(60) DEF Carried, FilesMatch, NoStray, Unlocked, Holders, Matches, NoFile, Absent
<1>6. NeededIsTracked'
  BY <1>1, <1>2 DEF Carried, NeededIsTracked, Needed, Tracked
<1> QED BY <1>2, <1>4, <1>5, <1>6, Zenon DEF Carried

-----------------------------------------------------------------------------
\* An empty directory.
LEMMA InitCarried == Init => Carried
<1> SUFFICES ASSUME Init PROVE Carried
  BY Zenon
<1>1. GuardedMapInv
  <2>1. Unguarded
    BY Zenon DEF Init, Unguarded, CellsHashed
  <2> QED BY <2>1, UnguardedInv, Zenon
<1>2. TypeOK
  BY IdleOp DEF Init, TypeOK
<1>3. AllIdle
  BY DEF Init, AllIdle
<1>4. FilesMatch /\ NoStray
  BY Zenon DEF Init, FilesMatch, NoStray, Absent
<1>5. NeededIsTracked
  BY IdleOp, Zenon DEF Init, NeededIsTracked, Needed, Absent
<1> QED BY <1>1, <1>2, <1>3, <1>4, <1>5, IdleFits, Zenon DEF Carried

LEMMA StartKeeps ==
  ASSUME Carried, NEW t \in Tasks, Start(t) PROVE Carried'
<1>1. ASSUME NEW k \in Keys, WriteNew(t, k) PROVE Carried'
  BY <1>1, WriterStarts, Zenon DEF WriteNew
<1>2. ASSUME NEW k \in Keys, NEW b \in BOOLEAN, TryWrite(t, k, b) PROVE Carried'
  BY <1>2, WriterStarts DEF TryWrite
<1> QED BY <1>1, <1>2, ReadStep, RemoveStep, WriteStep, BeginStep DEF Start

LEMMA WriterKeeps ==
  ASSUME Carried, NEW t \in Tasks, Writer(t) PROVE Carried'
BY SeekStep, CollideStep, RemoveStep, CancelStep, SetExpireAtStep, OpenStep, AppendStep, DropWriterStep,
   CommitLengthStep, CommitAttrStep, CommitExpireStep, SizeStep, CommitMapStep, ZenonT(60) DEF Writer

LEMMA RemoverKeeps ==
  ASSUME Carried, NEW t \in Tasks, Remover(t) PROVE Carried'
<1>1. CASE RemoveFile(t)
  BY <1>1, UnlinkStep, Zenon DEF RemoveFile
<1> QED BY <1>1, RemoveErrorStep, SizeStep, EraseCellStep, PopStep, ExpireLockStep, MissStep,
           CancelExpireStep, RemoveStep, CancelStep DEF Remover

LEMMA StepCarries == Carried /\ [Next]_vars => Carried'
<1> SUFFICES ASSUME Carried, [Next]_vars PROVE Carried'
  BY Zenon
<1>1. CASE UNCHANGED vars
  <2>1. UNCHANGED <<mapVars, file, queue, op>> /\ now' \in 0 .. MaxTime /\ now <= now'
    BY <1>1 DEF vars, Carried, TypeOK
  <2> QED BY <2>1, TickStep, Zenon
<1>2. ASSUME NEW t \in Tasks, Start(t) \/ DropReader(t) \/ Writer(t) \/ Remover(t) PROVE Carried'
  BY <1>2, StartKeeps, DropReaderStep, WriterKeeps, RemoverKeeps, ZenonT(60)
<1>3. CASE Tick
  <2>1. UNCHANGED <<mapVars, file, queue, op>> /\ now' \in 0 .. MaxTime /\ now <= now'
    BY <1>3 DEF Tick, Carried, TypeOK
  <2> QED BY <2>1, TickStep, Zenon
<1> QED BY <1>1, <1>2, <1>3, ReopenStep, Zenon DEF Next

LEMMA AlwaysCarried == Spec => []Carried
BY InitCarried, StepCarries, PTL DEF Spec

\* Whoever is in the middle of what, and after any crash: guards exclude each other, a
\* blob that is free to be read has the file and the attribute the map says, no file is
\* left behind without an entry, and what a commit is about to make count is queued.
THEOREM StorageInvariant == Spec => []StorageInv
BY AlwaysCarried, CarriedSuffices, PTL

\* No blob with an expire_at is forgotten by the expire queue (blob.rs, lib.rs).
THEOREM ExpiryIsTracked == Spec => []ExpiryTracked
<1>1. Carried => ExpiryTracked
  <2> SUFFICES ASSUME Carried, NEW h \in Hashes, cell[h].tag = "Present", cell[h].meta.expire # Never
               PROVE  Tracked(cell[h].meta.expire, cell[h].key)
    BY Zenon DEF ExpiryTracked
  <2>1. cell[h] \in [key : Keys, tag : {"New", "Present"}, meta : Metadata]
    BY DEF Carried, GuardedMapInv, GuardedMapTypeOK, Absent
  <2>2. cell[h].key \in Keys /\ cell[h].meta.expire \in Times
    BY <2>1, Zenon
  <2>3. Needed(cell[h].meta.expire, cell[h].key)
    BY Zenon DEF Needed
  <2> QED BY <2>2, <2>3, Zenon DEF Carried, NeededIsTracked
<1> QED BY <1>1, AlwaysCarried, PTL

-----------------------------------------------------------------------------
\* A step of a task changes no file but the one under its own exclusive guard.
LEMMA OwnFileOnly ==
  ASSUME Carried, NEW u \in Tasks, Start(u) \/ DropReader(u) \/ Writer(u) \/ Remover(u)
  PROVE  \/ file' = file
         \/ guard[u] \notin {"none", "read"} /\ \A f \in Hashes \ {At(u)} : file'[f] = file[f]
<1>1. CASE Start(u) \/ DropReader(u)
  BY <1>1, Zenon DEF Start, DropReader, Read, WriteNew, Remove, TryWrite, Write, BeginExpire, BeginEvict, diskVars
<1>2. CASE Remover(u) /\ ~RemoveFile(u)
  BY <1>2, Zenon DEF Remover, RemoveError, EraseSize, EraseCell, PopExpire, ExpireLock, ExpireMiss, CancelExpire,
              EvictNext, EvictStop, diskVars
<1>3. CASE \/ Seek(u) \/ Collide(u) \/ Replace(u) \/ ReplaceMiss(u) \/ CancelWrite(u)
           \/ \E e \in Times \cup {Never} : SetExpireAt(u, e)
           \/ CommitExpire(u) \/ CommitSize(u) \/ CommitMap(u)
  BY <1>3, Zenon DEF Seek, Collide, Replace, ReplaceMiss, CancelWrite, SetExpireAt, CommitExpire, CommitSize,
              CommitMap, diskVars
<1>4. ASSUME op[u].step \in {"writing", "sized", "removing"}
      PROVE  guard[u] \in {"write", "remove"} /\ At(u) \in Hashes /\ file \in [Hashes -> {NoFile} \cup Files]
  <2>1. guard[u] \in {"write", "remove"}
    BY <1>4, Places, Zenon DEF GuardAt
  <2> QED BY <2>1, HeldCell, Zenon DEF Carried, At, TypeOK
<1>5. CASE Open(u)
  <2>1. op[u].step = "writing" /\ EnsureFile(u, op[u].truncate)
    BY <1>5, Zenon DEF Open
  <2>2. guard[u] = "write" /\ op[u].truncate \in BOOLEAN
    BY <2>1, WriterFacts, Zenon DEF Ops
  <2> QED BY <2>1, <2>2, EnsureFileLeaves, Zenon
<1>6. CASE CommitLength(u)
  <2>1. op[u].step = "writing" /\ (file' = file \/ EnsureFile(u, FALSE))
    BY <1>6, Zenon DEF CommitLength
  <2> QED BY <2>1, WriterFacts, EnsureFileLeaves, Zenon
<1>7. CASE Append(u) \/ CommitAttr(u)
  BY <1>4, <1>7, Zenon DEF Append, CommitAttr
<1>8. CASE DropWriter(u)
  BY <1>4, <1>8, Zenon DEF DropWriter, diskVars
<1>9. CASE RemoveFile(u)
  BY <1>4, <1>9, Zenon DEF RemoveFile
<1> QED BY <1>1, <1>2, <1>3, <1>5, <1>6, <1>7, <1>8, <1>9, ZenonT(60) DEF Writer

\* No step touches the file under a reader's guard, and expire removes no blob before
\* its time, though both act on locks taken several steps ago.
THEOREM SafeSteps == Spec => StepsAreSafe
<1>1. Carried /\ [Next]_vars =>
        [\A t \in Tasks : (guard[t] = "read" /\ guard'[t] = "read") => file'[At(t)] = file[At(t)]]_vars
  <2> SUFFICES ASSUME Carried, Next, NEW t \in Tasks, guard[t] = "read", guard'[t] = "read"
               PROVE  file'[At(t)] = file[At(t)]
    BY Zenon
  <2>0. At(t) \in Hashes
    BY HeldCell, Zenon DEF Carried, At
  <2>1. CASE Reopen
    BY <2>1, Zenon DEF Reopen
  <2>2. CASE Tick
    BY <2>2, Zenon DEF Tick
  <2>3. ASSUME NEW u \in Tasks, Start(u) \/ DropReader(u) \/ Writer(u) \/ Remover(u)
        PROVE  file'[At(t)] = file[At(t)]
    <3>1. CASE file' = file
      BY <3>1, Zenon
    <3>2. CASE guard[u] \notin {"none", "read"} /\ \A f \in Hashes \ {At(u)} : file'[f] = file[f]
      <4>1. At(t) # At(u)
        BY <3>2, Zenon DEF Carried, GuardedMapInv, HoldersExclude, At
      <4> QED BY <2>0, <3>2, <4>1, Zenon
    <3> QED BY <2>3, <3>1, <3>2, OwnFileOnly, Zenon
  <2> QED BY <2>1, <2>2, <2>3, Zenon DEF Next
<1>2. Carried =>
        \A t \in Tasks : (op[t].job = "expire" /\ op[t].step = "removing") => IsExpired(CellOf(t).meta, now)
  <2> SUFFICES ASSUME Carried, NEW t \in Tasks, op[t].job = "expire", op[t].step = "removing"
               PROVE  IsExpired(CellOf(t).meta, now)
    BY Zenon
  <2>1. IsExpired(CellOf(t).meta, op[t].asof) /\ op[t].asof <= now /\ op[t] \in Ops /\ now \in 0 .. MaxTime
    BY Zenon DEF Carried, TasksFit, JobFits, TypeOK
  <2>2. CellOf(t).meta \in Metadata /\ op[t].asof \in 0 .. MaxTime
    <3>1. guard[t] # "none"
      BY Places, Zenon
    <3> QED BY <2>1, <3>1, HeldCell, Zenon DEF Carried, Ops
  <2>3. CellOf(t).meta.expire \in Times
    BY <2>1, <2>2, Zenon DEF IsExpired
  <2> QED BY <2>1, <2>2, <2>3 DEF IsExpired
<1>3. Carried /\ [Next]_vars =>
        [\A t \in Tasks : (op[t].job = "expire" /\ op[t].step = "removing" /\ op'[t].step = "erasing") =>
           IsExpired(CellOf(t).meta, now)]_vars
  BY <1>2, Zenon
<1> QED BY <1>1, <1>3, AlwaysCarried, PTL DEF Spec, StepsAreSafe, ReaderFileStable, ExpiresOnlyExpired
=============================================================================
