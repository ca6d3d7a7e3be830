------------------------------- MODULE BlobMap -------------------------------
(***************************************************************************)
(* The in-memory index of a ddcache storage (ddcache/storage/src/map.rs).  *)
(*                                                                         *)
(* A mutex-protected, recency-ordered table maps a key hash to an entry;   *)
(* an entry pairs its key with an Arc of a reader-writer lock around the   *)
(* blob's state.  Tasks look an Arc up under the mutex, release the mutex, *)
(* and only then wait for the lock, so by the time a task is granted the   *)
(* lock the entry may have left the table and another one may have taken   *)
(* its place.  The Removing state is the sentinel that makes this safe.    *)
(*                                                                         *)
(* One action is one step no other thread can see inside of: a critical    *)
(* section of the mutex, the grant of a lock, one atomic update of the     *)
(* size counter.  A lookup that finds nothing and changes nothing is a     *)
(* stuttering step and has no action.                                      *)
(***************************************************************************)
EXTENDS Integers, FiniteSets, FiniteSetsExt

CONSTANTS
  Keys,      \* blob keys
  Hashes,    \* key hashes
  HashOf,    \* KeyHash::new, a function: two keys may collide
  Tasks,     \* concurrent callers
  Arcs,      \* identities of allocated Arc<RwLock<State>>
  Metadata,  \* what a blob's metadata can be
  Fresh,     \* BlobMetadata::new: the metadata of a blob never committed
  SizeOf,    \* the size field of a metadata
  NumTries,  \* BlobMap::write's bound on retries
  NoKey,
  NoArc

ASSUME HashAssumption == HashOf \in [Keys -> Hashes]
ASSUME MetadataAssumption ==
  SizeOf \in [Metadata -> Nat] /\ Fresh \in Metadata /\ SizeOf[Fresh] = 0
ASSUME TriesAssumption == NumTries \in Nat \ {0}
ASSUME NullAssumption == NoKey \notin Keys /\ NoArc \notin Arcs

VARIABLES
  map,    \* hash -> the entry [key, arc], Vacant if there is none
  older,  \* recency order of the table: <<g, h>> when g is nearer the front
  tag,    \* arc -> variant of its State; an Arc dies, and starts, as Removing
  meta,   \* arc -> metadata carried by New and Present
  size,   \* the AtomicU64 counter
  pc,     \* task -> where it is
  arc,    \* task -> the Arc it holds a clone of
  key,    \* task -> the key it works on
  tries,  \* task -> calls of write_lock made by BlobMap::write
  new,    \* task -> the metadata WriteGuard::commit is committing
  left    \* hashes try_remove_front has still to visit

tableVars == <<map, older, left>>
stateVars == <<tag, meta>>
taskVars == <<pc, arc, key, tries, new>>
vars == <<tableVars, stateVars, size, taskVars>>

Vacant == [key |-> NoKey, arc |-> NoArc]

Waiting == {"read_wait", "write_wait", "try_wait", "remove_wait"}
\* Where a task owns the write half of its Arc's lock.
Exclusive == {"writing", "charged", "removing", "discharged", "yielding"}
\* Where a task owns a ReadGuard, a WriteGuard or a RemoveGuard.
Guarded == {"reading", "writing", "charged", "removing", "discharged"}
Failed == {"panic", "stuck"}
Locations == {"idle", "scan", "unmap"} \cup Waiting \cup Exclusive \cup Guarded \cup Failed

Mapped == {h \in Hashes : map[h] # Vacant}
MapFree == \A t \in Tasks : pc[t] # "scan"

CanRead(a) == \A t \in Tasks : ~(arc[t] = a /\ pc[t] \in Exclusive)
CanWrite(a) == \A t \in Tasks : ~(arc[t] = a /\ pc[t] \in Exclusive \cup {"reading"})

Unreferenced(a) ==
  /\ \A h \in Hashes : map[h].arc # a
  /\ \A t \in Tasks : arc[t] # a

OrderWithout(h) == {p \in older : p[1] # h /\ p[2] # h}
\* Mutant of MoveToBack: the entry keeps its old position too.
MoveToBackTwice(h) == older' = older \cup {<<g, h>> : g \in Mapped \ {h}}

MoveToBack(h) == older' = OrderWithout(h) \cup {<<g, h>> : g \in Mapped \ {h}}

\* Task t reaches location p holding Arc a, working on key k.
Move(t, p, a, k, n) ==
  /\ pc' = [pc EXCEPT ![t] = p]
  /\ arc' = [arc EXCEPT ![t] = a]
  /\ key' = [key EXCEPT ![t] = k]
  /\ tries' = [tries EXCEPT ![t] = n]
  /\ new' = [new EXCEPT ![t] = Fresh]

Finish(t) == Move(t, "idle", NoArc, NoKey, 0)
Fail(t, p) == Move(t, p, NoArc, NoKey, 0)
Stay(t, p) == Move(t, p, arc[t], key[t], 0)

TotalSize == MapThenSumSet(LAMBDA a : SizeOf[meta[a]], Arcs)

(***************************************************************************)
(* BlobMapBuilder: the table is rebuilt from the blobs found on disk, at   *)
(* most one per hash because the hash names the file, in any order.        *)
(***************************************************************************)
TotalOrders(S) ==
  {r \in SUBSET (S \X S) :
    /\ \A g, h \in S : (g = h) => <<g, h>> \notin r
    /\ \A g, h \in S : (g # h) => (<<g, h>> \in r <=> <<h, g>> \notin r)
    /\ \A f, g, h \in S : (<<f, g>> \in r /\ <<g, h>> \in r) => <<f, h>> \in r}

Init ==
  /\ map \in [Hashes -> [key : Keys \cup {NoKey}, arc : Arcs \cup {NoArc}]]
  /\ \A h \in Hashes : map[h] = Vacant \/
       (map[h].key \in Keys /\ HashOf[map[h].key] = h /\ map[h].arc \in Arcs)
  /\ \A g, h \in Mapped : map[g].arc = map[h].arc => g = h
  /\ older \in TotalOrders(Mapped)
  /\ tag = [a \in Arcs |-> IF \E h \in Hashes : map[h].arc = a THEN "Present" ELSE "Removing"]
  /\ meta \in [Arcs -> Metadata]
  /\ \A a \in Arcs : tag[a] = "Removing" => meta[a] = Fresh
  /\ size = TotalSize /\ size \in Nat
  /\ pc = [t \in Tasks |-> "idle"]
  /\ arc = [t \in Tasks |-> NoArc]
  /\ key = [t \in Tasks |-> NoKey]
  /\ tries = [t \in Tasks |-> 0]
  /\ new = [t \in Tasks |-> Fresh]
  /\ left = {}

-----------------------------------------------------------------------------
(***************************************************************************)
(* Readers: BlobMap::read and BlobMap::peek.                               *)
(***************************************************************************)

\* get_back moves the entry to the back even when its key is another one.
Read(t, k) ==
  LET h == HashOf[k] IN
  /\ pc[t] = "idle" /\ MapFree /\ h \in Mapped
  /\ MoveToBack(h)
  /\ IF map[h].key = k THEN Move(t, "read_wait", map[h].arc, k, 0) ELSE UNCHANGED taskVars
  /\ UNCHANGED <<map, left, stateVars, size>>

Peek(t, k) ==
  /\ pc[t] = "idle" /\ MapFree /\ map[HashOf[k]].key = k
  /\ Move(t, "read_wait", map[HashOf[k]].arc, k, 0)
  /\ UNCHANGED <<tableVars, stateVars, size>>

\* Mutant of EnsurePresent: the sentinel is taken for a blob.
EnsurePresentNot(t, p) == Stay(t, p)

\* State::ensure_present on a lock just granted to t.
EnsurePresent(t, p) ==
  CASE tag[arc[t]] = "Present"  -> Stay(t, p)
    [] tag[arc[t]] = "Removing" -> Finish(t)
    [] OTHER                    -> Fail(t, "panic")

ReadLocked(t) ==
  /\ pc[t] = "read_wait" /\ CanRead(arc[t])
  /\ EnsurePresent(t, "reading")
  /\ UNCHANGED <<tableVars, stateVars, size>>

DropRead(t) ==
  /\ pc[t] = "reading"
  /\ Finish(t)
  /\ UNCHANGED <<tableVars, stateVars, size>>

\* A future dropped while it awaits a lock, or the yield of BlobMap::write.
Cancel(t) ==
  /\ pc[t] \in {"read_wait", "write_wait", "remove_wait", "yielding"}
  /\ Finish(t)
  /\ UNCHANGED <<tableVars, stateVars, size>>

-----------------------------------------------------------------------------
(***************************************************************************)
(* Writers: BlobMap::write, write_new and try_write.                       *)
(***************************************************************************)

\* Entry::new, locked before the mutex is released.
Insert(t, k) ==
  \E a \in Arcs :
    /\ Unreferenced(a)
    /\ map' = [map EXCEPT ![HashOf[k]] = [key |-> k, arc |-> a]]
    /\ MoveToBack(HashOf[k])
    /\ tag' = [tag EXCEPT ![a] = "New"]
    /\ meta' = [meta EXCEPT ![a] = Fresh]
    /\ Move(t, "writing", a, k, 0)
    /\ UNCHANGED <<left, size>>

\* Mutant of WriteLock: the key of the entry found is not compared.
WriteLockAnyKey(t, k, p, n) ==
  LET h == HashOf[k] IN
  /\ MapFree
  /\ \/ h \notin Mapped /\ Insert(t, k)
     \/ /\ h \in Mapped
        /\ MoveToBack(h)
        /\ Move(t, p, map[h].arc, k, n)
        /\ UNCHANGED <<map, left, stateVars, size>>

\* BlobMap::write_lock; a task that finds the key's entry goes on to p.
WriteLock(t, k, p, n) ==
  LET h == HashOf[k] IN
  /\ MapFree
  /\ \/ h \notin Mapped /\ Insert(t, k)
     \/ /\ h \in Mapped
        /\ MoveToBack(h)
        /\ IF map[h].key = k THEN Move(t, p, map[h].arc, k, n) ELSE Finish(t)
        /\ UNCHANGED <<map, left, stateVars, size>>

Write(t, k) == pc[t] = "idle" /\ WriteLock(t, k, "write_wait", 1)

\* The guard of a Removing entry stays locked across the yield.
WriteLocked(t) ==
  /\ pc[t] = "write_wait" /\ CanWrite(arc[t])
  /\ CASE tag[arc[t]] = "Present"  -> Stay(t, "writing")
       [] tag[arc[t]] = "Removing" -> Move(t, "yielding", arc[t], key[t], tries[t])
       [] OTHER                    -> Fail(t, "panic")
  /\ UNCHANGED <<tableVars, stateVars, size>>

\* Mutant of Retry: one try too many.
RetryOnceMore(t) ==
  /\ pc[t] = "yielding" /\ tries[t] <= NumTries
  /\ WriteLock(t, key[t], "write_wait", tries[t] + 1)

Retry(t) ==
  /\ pc[t] = "yielding" /\ tries[t] < NumTries
  /\ WriteLock(t, key[t], "write_wait", tries[t] + 1)

GiveUp(t) ==
  /\ pc[t] = "yielding" /\ tries[t] = NumTries
  /\ Fail(t, "stuck")
  /\ UNCHANGED <<tableVars, stateVars, size>>

WriteNew(t, k) == pc[t] = "idle" /\ MapFree /\ HashOf[k] \notin Mapped /\ Insert(t, k)

TryWrite(t, k) == pc[t] = "idle" /\ WriteLock(t, k, "try_wait", 0)

\* Mutant of TryWriteLocked: try_read_owned in place of try_write_owned.
TryWriteShared(t) ==
  /\ pc[t] = "try_wait"
  /\ IF CanRead(arc[t]) THEN EnsurePresent(t, "writing") ELSE Finish(t)
  /\ UNCHANGED <<tableVars, stateVars, size>>

TryWriteLocked(t) ==
  /\ pc[t] = "try_wait"
  /\ IF CanWrite(arc[t]) THEN EnsurePresent(t, "writing") ELSE Finish(t)
  /\ UNCHANGED <<tableVars, stateVars, size>>

\* Mutant of Charge: the size of the blob it replaces is not given back.
ChargeInFull(t, m) ==
  /\ pc[t] = "writing"
  /\ size' = size + SizeOf[m]
  /\ pc' = [pc EXCEPT ![t] = "charged"]
  /\ new' = [new EXCEPT ![t] = m]
  /\ UNCHANGED <<tableVars, stateVars, arc, key, tries>>

\* WriteGuard::commit, first the counter, then the state.
Charge(t, m) ==
  /\ pc[t] = "writing"
  /\ size' = size + SizeOf[m] - SizeOf[meta[arc[t]]]
  /\ pc' = [pc EXCEPT ![t] = "charged"]
  /\ new' = [new EXCEPT ![t] = m]
  /\ UNCHANGED <<tableVars, stateVars, arc, key, tries>>

Commit(t) ==
  /\ pc[t] = "charged"
  /\ tag' = [tag EXCEPT ![arc[t]] = "Present"]
  /\ meta' = [meta EXCEPT ![arc[t]] = new[t]]
  /\ Finish(t)
  /\ UNCHANGED <<tableVars, size>>

\* Mutant of SetRemoving: the lock is released without setting the sentinel.
SetRemovingNot(t) ==
  /\ Move(t, "unmap", NoArc, key[t], 0)
  /\ UNCHANGED <<stateVars, tableVars, size>>

\* The first half of map_remove!: the sentinel is set and the lock released.
SetRemoving(t) ==
  /\ tag' = [tag EXCEPT ![arc[t]] = "Removing"]
  /\ meta' = [meta EXCEPT ![arc[t]] = Fresh]
  /\ Move(t, "unmap", NoArc, key[t], 0)
  /\ UNCHANGED <<tableVars, size>>

\* Mutant of DropWrite: an entry never committed stays in the table.
DropWriteKeepsNew(t) ==
  /\ pc[t] = "writing"
  /\ Finish(t)
  /\ UNCHANGED <<tableVars, stateVars, size>>

\* Drop of a WriteGuard that was not committed.
DropWrite(t) ==
  /\ pc[t] = "writing"
  /\ \/ tag[arc[t]] = "New" /\ SetRemoving(t)
     \/ tag[arc[t]] # "New" /\ Finish(t) /\ UNCHANGED <<tableVars, stateVars, size>>

-----------------------------------------------------------------------------
(***************************************************************************)
(* Removal: BlobMap::remove, try_remove_front, and the two commits.        *)
(***************************************************************************)

Remove(t, k) ==
  /\ pc[t] = "idle" /\ MapFree /\ map[HashOf[k]].key = k
  /\ Move(t, "remove_wait", map[HashOf[k]].arc, k, 0)
  /\ UNCHANGED <<tableVars, stateVars, size>>

RemoveLocked(t) ==
  /\ pc[t] = "remove_wait" /\ CanWrite(arc[t])
  /\ EnsurePresent(t, "removing")
  /\ UNCHANGED <<tableVars, stateVars, size>>

\* try_remove_front holds the mutex from BeginScan until it leaves "scan".
BeginScan(t) ==
  /\ pc[t] = "idle" /\ MapFree
  /\ Move(t, "scan", NoArc, NoKey, 0)
  /\ left' = Mapped
  /\ UNCHANGED <<map, older, stateVars, size>>

Front(h) == h \in left /\ \A g \in left : <<g, h>> \notin older

Scan(t) ==
  /\ pc[t] = "scan"
  /\ \/ /\ left = {}
        /\ Finish(t)
        /\ UNCHANGED left
     \/ \E h \in left :
          LET a == map[h].arc IN
          /\ Front(h)
          /\ IF ~CanWrite(a) \/ tag[a] = "Removing"
               THEN left' = left \ {h} /\ UNCHANGED taskVars
               ELSE /\ left' = {}
                    /\ IF tag[a] = "Present" THEN Move(t, "removing", a, map[h].key, 0)
                                             ELSE Fail(t, "panic")
  /\ UNCHANGED <<map, older, stateVars, size>>

\* WriteGuard::commit_remove and RemoveGuard::commit: the counter comes first.
Discharge(t) ==
  /\ pc[t] \in {"writing", "removing"}
  /\ size' = size - SizeOf[meta[arc[t]]]
  /\ Stay(t, "discharged")
  /\ UNCHANGED <<tableVars, stateVars>>

\* Mutant of CommitRemove: the sentinel is never taken out of the table.
CommitRemoveHalf(t) ==
  /\ pc[t] = "discharged"
  /\ tag' = [tag EXCEPT ![arc[t]] = "Removing"]
  /\ meta' = [meta EXCEPT ![arc[t]] = Fresh]
  /\ Finish(t)
  /\ UNCHANGED <<tableVars, size>>

CommitRemove(t) == pc[t] = "discharged" /\ SetRemoving(t)

DropRemove(t) ==
  /\ pc[t] = "removing"
  /\ Finish(t)
  /\ UNCHANGED <<tableVars, stateVars, size>>

\* tokio contains a panic to the task; a later task reuses the identity.
Unwind(t) ==
  /\ pc[t] \in Failed
  /\ Finish(t)
  /\ UNCHANGED <<tableVars, stateVars, size>>

\* The second half of map_remove!, with its assertion.
Unmap(t) ==
  LET h == HashOf[key[t]] IN
  /\ pc[t] = "unmap" /\ MapFree
  /\ IF h \in Mapped THEN Finish(t) ELSE Fail(t, "panic")
  /\ map' = [map EXCEPT ![h] = Vacant]
  /\ older' = OrderWithout(h)
  /\ UNCHANGED <<left, stateVars, size>>

-----------------------------------------------------------------------------
Call(t, k) == Read(t, k) \/ Peek(t, k) \/ Write(t, k) \/ WriteNew(t, k) \/ TryWrite(t, k) \/ Remove(t, k)
Locked(t) == ReadLocked(t) \/ WriteLocked(t) \/ RemoveLocked(t)
Internal(t) ==
  \/ TryWriteLocked(t) \/ Retry(t) \/ GiveUp(t) \/ Commit(t)
  \/ Scan(t) \/ CommitRemove(t) \/ Unmap(t) \/ Unwind(t)
\* The holder of a guard commits it or drops it.
Release(t) ==
  \/ DropRead(t) \/ DropWrite(t) \/ DropRemove(t) \/ Discharge(t)
  \/ \E m \in Metadata : Charge(t, m)

Next ==
  \E t \in Tasks :
    \/ \E k \in Keys : Call(t, k)
    \/ BeginScan(t) \/ Locked(t) \/ Internal(t) \/ Release(t) \/ Cancel(t)

Spec == Init /\ [][Next]_vars

-----------------------------------------------------------------------------
(***************************************************************************)
(* What the map guarantees.                                                *)
(***************************************************************************)

TypeOK ==
  /\ map \in [Hashes -> [key : Keys \cup {NoKey}, arc : Arcs \cup {NoArc}]]
  /\ older \subseteq Hashes \X Hashes
  /\ left \subseteq Hashes
  /\ tag \in [Arcs -> {"New", "Present", "Removing"}]
  /\ meta \in [Arcs -> Metadata]
  /\ pc \in [Tasks -> Locations]
  /\ arc \in [Tasks -> Arcs \cup {NoArc}]
  /\ key \in [Tasks -> Keys \cup {NoKey}]
  /\ tries \in [Tasks -> 0 .. NumTries]
  /\ new \in [Tasks -> Metadata]

\* No interleaving reaches the unreachable! of BlobMap::write, the panic of
\* ensure_present ("State::New is always locked by a write lock, making it
\* invisible to other locks"), or the assertion of map_remove!.
NeverPanics == \A t \in Tasks : pc[t] # "panic"

\* A guard always speaks for the entry now in the table under its hash, though
\* its Arc was looked up before its lock was granted: no ReadGuard, WriteGuard
\* or RemoveGuard outlives the entry or survives its replacement.
GuardsAreLive ==
  \A t \in Tasks : pc[t] \in Guarded =>
    /\ map[HashOf[key[t]]] = [key |-> key[t], arc |-> arc[t]]
    /\ tag[arc[t]] # "Removing"

\* Guards on one hash, hence on one blob file, exclude each other whatever Arc
\* and key they were obtained through: a writer or remover is alone.
GuardsExclude ==
  \A t, u \in Tasks :
    (/\ t # u /\ pc[t] \in Guarded /\ pc[u] \in Guarded
     /\ HashOf[key[t]] = HashOf[key[u]]) => pc[t] = "reading" /\ pc[u] = "reading"

\* map_remove! drops the lock before it takes the mutex.  In that gap the entry
\* in the table is still the remover's own sentinel, only one task is about to
\* remove it, and no sentinel is left in the table without such a task.
SentinelOwned ==
  /\ \A t \in Tasks : pc[t] = "unmap" =>
       /\ map[HashOf[key[t]]].key = key[t]
       /\ tag[map[HashOf[key[t]]].arc] = "Removing"
       /\ \A u \in Tasks \ {t} : pc[u] = "unmap" => HashOf[key[u]] # HashOf[key[t]]
  /\ \A h \in Mapped : tag[map[h].arc] = "Removing" =>
       \E t \in Tasks : pc[t] = "unmap" /\ HashOf[key[t]] = h

\* The counter that eviction reads is the size of the blobs in the table, up to
\* the commits that have updated it and not yet the state; so it never wraps.
Uncommitted(t) ==
  CASE pc[t] = "charged"    -> SizeOf[new[t]] - SizeOf[meta[arc[t]]]
    [] pc[t] = "discharged" -> 0 - SizeOf[meta[arc[t]]]
    [] OTHER                -> 0
SizeAccounted == size = TotalSize + MapThenSumSet(Uncommitted, Tasks) /\ size >= 0

\* The table's order is a strict total order of exactly the mapped hashes, so
\* the front that try_remove_front looks for exists until the scan is over.
RecencyTotal ==
  /\ older \in TotalOrders(Mapped)
  /\ left \subseteq Mapped

\* The facts that make the ones above inductive: what a task holds where, that
\* each live Arc is the one in the table under the key it was looked up by, that
\* New is write-locked, and that the lock and the mutex have one owner.
OwnsArc == Waiting \cup Exclusive \cup {"reading"}

TableWellFormed ==
  /\ \A h \in Mapped :
       map[h].key \in Keys /\ HashOf[map[h].key] = h /\ map[h].arc \in Arcs
  /\ \A g, h \in Mapped : map[g].arc = map[h].arc => g = h

TasksWellFormed ==
  \A t \in Tasks :
    /\ pc[t] \in OwnsArc <=> arc[t] \in Arcs
    /\ pc[t] \in OwnsArc \cup {"unmap"} => key[t] \in Keys
    /\ pc[t] \in Guarded => tag[arc[t]] # "Removing"
    /\ pc[t] \in {"reading", "removing"} => tag[arc[t]] = "Present"
    /\ pc[t] \in {"write_wait", "yielding"} => tries[t] \in 1 .. NumTries

LiveIsMapped ==
  /\ \A t \in Tasks : (arc[t] \in Arcs /\ tag[arc[t]] # "Removing") =>
       map[HashOf[key[t]]] = [key |-> key[t], arc |-> arc[t]]
  /\ \A a \in Arcs : tag[a] # "Removing" => \E h \in Mapped : map[h].arc = a

NewIsLocked ==
  \A a \in Arcs : tag[a] = "New" =>
    \E t \in Tasks : arc[t] = a /\ pc[t] \in {"writing", "charged", "discharged"}

LocksExclude ==
  /\ \A t, u \in Tasks :
       (t # u /\ arc[t] \in Arcs /\ arc[t] = arc[u] /\ pc[t] \in Exclusive) =>
         pc[u] \notin Exclusive \cup {"reading"}
  /\ \A t, u \in Tasks : (pc[t] = "scan" /\ pc[u] = "scan") => t = u

ScanInTable == left \subseteq Mapped /\ (left # {} => \E t \in Tasks : pc[t] = "scan")

\* The inductive invariant.
MapInv ==
  /\ TypeOK
  /\ TableWellFormed
  /\ TasksWellFormed
  /\ LiveIsMapped
  /\ NewIsLocked
  /\ LocksExclude
  /\ SentinelOwned
  /\ ScanInTable
  /\ NeverPanics

\* While a reader keeps its guard the metadata it sees does not change.
ReaderStable ==
  [][\A t \in Tasks : (pc[t] = "reading" /\ pc'[t] = "reading") =>
       tag'[arc[t]] = tag[arc[t]] /\ meta'[arc[t]] = meta[arc[t]]]_vars

\* BlobMap::write gives up with "map is stuck in removing entry": then no task
\* should be on its way to take that entry out of the table.
GivesUpOnlyIfStuck ==
  [][\A t, u \in Tasks :
       (pc[t] = "yielding" /\ pc'[t] = "stuck") => ~(pc[u] = "unmap" /\ key[u] = key[t])]_vars

\* The table's own bookkeeping is right whatever operations are under way: its size
\* is that of its entries and its recency order is one of them all.
TableAccounted == SizeAccounted /\ RecencyTotal
=============================================================================
