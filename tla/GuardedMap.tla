----------------------------- MODULE GuardedMap ------------------------------
(***************************************************************************)
(* What a BlobMap promises its users (ddcache/storage/src/map.rs): one     *)
(* cell per hash, handed out through read, write and remove guards that    *)
(* exclude each other like the guards of a reader-writer lock per hash.    *)
(* The Arcs, the sentinel, the recency order and the retries are hidden;   *)
(* the size counter, which a commit updates before the cell, is not.       *)
(***************************************************************************)
EXTENDS Integers

CONSTANTS Keys, Hashes, HashOf, Tasks, Metadata, Fresh, SizeOf, NoKey

ASSUME GuardedMapConstants ==
  HashOf \in [Keys -> Hashes] /\ NoKey \notin Keys /\ Fresh \in Metadata

VARIABLES
  cell,     \* hash -> [key, tag, meta]
  guard,    \* task -> the guard it holds
  at,       \* task -> the key of its guard
  pending,  \* task -> the metadata being committed
  size

mapVars == <<cell, guard, at, pending, size>>

Absent == [key |-> NoKey, tag |-> "Absent", meta |-> Fresh]
Blob(k, s, m) == [key |-> k, tag |-> s, meta |-> m]

GuardKinds == {"none", "read", "write", "charged", "remove", "discharged"}

GuardedMapTypeOK ==
  /\ cell \in [Hashes -> {Absent} \cup [key : Keys, tag : {"New", "Present"}, meta : Metadata]]
  /\ guard \in [Tasks -> GuardKinds]
  /\ at \in [Tasks -> Keys \cup {NoKey}]
  /\ pending \in [Tasks -> Metadata]

Holders(h) == {t \in Tasks : guard[t] # "none" /\ HashOf[at[t]] = h}
Readable(h) == cell[h].tag = "Present" /\ \A t \in Holders(h) : guard[t] = "read"
Writable(h) == cell[h].tag = "Present" /\ Holders(h) = {}

CellOf(t) == cell[HashOf[at[t]]]
SetCell(h, c) == cell' = [cell EXCEPT ![h] = c]

Hold(t, g, k) ==
  /\ guard' = [guard EXCEPT ![t] = g]
  /\ at' = [at EXCEPT ![t] = k]
  /\ pending' = [pending EXCEPT ![t] = Fresh]

LetGo(t) == Hold(t, "none", NoKey)

LockRead(t, k) ==
  /\ guard[t] = "none" /\ cell[HashOf[k]].key = k /\ Readable(HashOf[k])
  /\ Hold(t, "read", k)
  /\ UNCHANGED <<cell, size>>

LockWrite(t, k) ==
  /\ guard[t] = "none" /\ cell[HashOf[k]].key = k /\ Writable(HashOf[k])
  /\ Hold(t, "write", k)
  /\ UNCHANGED <<cell, size>>

LockRemove(t, k) ==
  /\ guard[t] = "none" /\ cell[HashOf[k]].key = k /\ Writable(HashOf[k])
  /\ Hold(t, "remove", k)
  /\ UNCHANGED <<cell, size>>

InsertNew(t, k) ==
  /\ guard[t] = "none" /\ cell[HashOf[k]] = Absent
  /\ SetCell(HashOf[k], Blob(k, "New", Fresh))
  /\ Hold(t, "write", k)
  /\ UNCHANGED size

\* Dropping the write guard of a cell that was never committed empties it.
DropGuard(t) ==
  /\ guard[t] \in {"read", "write", "remove"}
  /\ IF guard[t] = "write" /\ CellOf(t).tag = "New"
       THEN SetCell(HashOf[at[t]], Absent)
       ELSE UNCHANGED cell
  /\ LetGo(t)
  /\ UNCHANGED size

ChargeSize(t, m) ==
  /\ guard[t] = "write"
  /\ size' = size + SizeOf[m] - SizeOf[CellOf(t).meta]
  /\ guard' = [guard EXCEPT ![t] = "charged"]
  /\ pending' = [pending EXCEPT ![t] = m]
  /\ UNCHANGED <<cell, at>>

CommitCell(t) ==
  /\ guard[t] = "charged"
  /\ SetCell(HashOf[at[t]], Blob(at[t], "Present", pending[t]))
  /\ LetGo(t)
  /\ UNCHANGED size

DischargeSize(t) ==
  /\ guard[t] \in {"write", "remove"}
  /\ size' = size - SizeOf[CellOf(t).meta]
  /\ guard' = [guard EXCEPT ![t] = "discharged"]
  /\ UNCHANGED <<cell, at, pending>>

RemoveCell(t) ==
  /\ guard[t] = "discharged"
  /\ SetCell(HashOf[at[t]], Absent)
  /\ LetGo(t)
  /\ UNCHANGED size

GuardedMapInit ==
  /\ cell \in [Hashes -> {Absent} \cup [key : Keys, tag : {"Present"}, meta : Metadata]]
  /\ \A h \in Hashes : cell[h] # Absent => HashOf[cell[h].key] = h
  /\ guard = [t \in Tasks |-> "none"]
  /\ at = [t \in Tasks |-> NoKey]
  /\ pending = [t \in Tasks |-> Fresh]
  /\ size \in Int

GuardedMapNext ==
  \E t \in Tasks :
    \/ \E k \in Keys : LockRead(t, k) \/ LockWrite(t, k) \/ LockRemove(t, k) \/ InsertNew(t, k)
    \/ \E m \in Metadata : ChargeSize(t, m)
    \/ DropGuard(t) \/ CommitCell(t) \/ DischargeSize(t) \/ RemoveCell(t)

GuardedMapSpec == GuardedMapInit /\ [][GuardedMapNext]_mapVars

-----------------------------------------------------------------------------
\* What every user of the map relies on.  A cell is under the hash of its key; a
\* guard is for the cell of its key, which a reader and a remover find committed;
\* guards on a hash exclude each other unless they are readers'; and a cell that was
\* never committed has the writer that will commit it or empty it.
CellsHashed == \A h \in Hashes : cell[h] # Absent => HashOf[cell[h].key] = h
GuardsFit ==
  \A t \in Tasks :
    /\ guard[t] = "none" <=> at[t] = NoKey
    /\ guard[t] # "none" => CellOf(t).key = at[t]
    /\ guard[t] \in {"read", "remove"} => CellOf(t).tag = "Present"
HoldersExclude ==
  \A t, u \in Tasks :
    (t # u /\ guard[t] # "none" /\ guard[u] # "none" /\ HashOf[at[t]] = HashOf[at[u]]) =>
      guard[t] = "read" /\ guard[u] = "read"
NewIsHeld ==
  \A h \in Hashes : cell[h].tag = "New" =>
    \E t \in Tasks : guard[t] \in {"write", "charged", "discharged"} /\ HashOf[at[t]] = h

GuardedMapInv == GuardedMapTypeOK /\ CellsHashed /\ GuardsFit /\ HoldersExclude /\ NewIsHeld
=============================================================================
