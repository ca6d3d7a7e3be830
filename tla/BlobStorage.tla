----------------------------- MODULE BlobStorage -----------------------------
(***************************************************************************)
(* A ddcache storage (ddcache/storage/src/lib.rs): a directory of blob     *)
(* files, the map that guards them, and the queue of blobs to expire.      *)
(*                                                                         *)
(* The map is the abstract GuardedMap, which BlobMap implements.  A file   *)
(* is its length and its metadata attribute; torn, which no code can see,  *)
(* says that its contents are those of a write whose attribute, which is   *)
(* what makes it last, has not been written.                               *)
(* A failed system call is a step a task may take wherever the code        *)
(* returns early on an error; the unlink of WriteGuard::drop, whose result *)
(* the code unwraps, is taken not to fail.                                 *)
(***************************************************************************)
EXTENDS GuardedMap, FiniteSetsExt

CONSTANTS
  Times,         \* the values of an expire_at
  Never,         \* no expire_at
  MaxLen,        \* bound on the length of a blob
  MaxCopies,     \* bound on equal items in the expire queue
  MaxTime,       \* bound on the clock
  TargetSize,    \* the argument of evict
  NumReplaces    \* the NUM_TRIES of Storage::write

ASSUME StorageConstants ==
  /\ Times \subseteq Nat /\ Never \notin Times
  /\ NoKey \notin [key : Keys, expire : Times \cup {Never}]
  /\ {MaxLen, MaxTime, TargetSize} \subseteq Nat /\ {MaxCopies, NumReplaces} \subseteq Nat \ {0}

ASSUME MetadataIsRecord ==
  /\ Metadata = [size : 0 .. MaxLen, expire : Times \cup {Never}]
  /\ Fresh = [size |-> 0, expire |-> Never]
  /\ SizeOf = [m \in Metadata |-> m.size]

VARIABLES
  file,   \* hash -> the file of that name
  queue,  \* <<expire_at, key>> -> how often it is in the expire queue
  now,    \* the clock
  op      \* task -> the operation it runs and its local state

vars == <<mapVars, file, queue, now, op>>
diskVars == <<file, queue, now>>

NoFile == [len |-> 0, attr |-> NoKey, torn |-> FALSE]
NoAttr == [key |-> NoKey, expire |-> Never]
Items == Times \X Keys

\* A task's place: step is where it is, job the loop it goes on with after a
\* removal, draft the metadata to commit, opened whether it has the blob file
\* open, want the key and due the time of the item it handles, victim the key
\* in the way of a write, asof the time it was told.
Idle == [step |-> "idle", job |-> "none", draft |-> Fresh, opened |-> FALSE, truncate |-> FALSE,
         want |-> NoKey, victim |-> NoKey, tries |-> 0, due |-> Never, asof |-> 0]

Steps == {"idle", "reading", "seeking", "replacing", "writing", "sized", "tagged", "queued",
          "removing", "erasing", "expiring", "expire_wait", "evicting"}

Ops == [step : Steps, job : {"none", "write", "expire", "evict"}, draft : Metadata,
        opened : BOOLEAN, truncate : BOOLEAN, want : Keys \cup {NoKey},
        victim : Keys \cup {NoKey}, tries : 0 .. NumReplaces,
        due : Times \cup {Never}, asof : 0 .. MaxTime]

Files == [len : 0 .. MaxLen, attr : {NoAttr} \cup [key : Keys, expire : Times \cup {Never}],
          torn : BOOLEAN]

TypeOK ==
  /\ file \in [Hashes -> {NoFile} \cup Files]
  /\ queue \in [Items -> 0 .. MaxCopies]
  /\ now \in 0 .. MaxTime
  /\ op \in [Tasks -> Ops]

At(t) == HashOf[at[t]]
Goto(t, s) == op' = [op EXCEPT ![t].step = s]
Done(t) == op' = [op EXCEPT ![t] = Idle]

CanPush(i) == queue[i] < MaxCopies
Push(i) == CanPush(i) /\ queue' = [queue EXCEPT ![i] = @ + 1]

-----------------------------------------------------------------------------
(* Readers *)

Read(t, k) ==
  /\ op[t] = Idle /\ LockRead(t, k)
  /\ Goto(t, "reading")
  /\ UNCHANGED diskVars

DropReader(t) ==
  /\ op[t].step = "reading" /\ DropGuard(t)
  /\ Done(t)
  /\ UNCHANGED diskVars

-----------------------------------------------------------------------------
(* Writers *)

\* new_write_guard: the draft starts as what the entry holds.
BeWriter(t, k, truncate) ==
  op' = [op EXCEPT ![t] = [Idle EXCEPT !.step = "writing", !.truncate = truncate,
                                       !.draft = cell'[HashOf[k]].meta]]

WriteNew(t, k) == op[t] = Idle /\ InsertNew(t, k) /\ BeWriter(t, k, TRUE) /\ UNCHANGED diskVars

TryWrite(t, k, truncate) ==
  /\ op[t] = Idle
  /\ LockWrite(t, k) \/ InsertNew(t, k)
  /\ BeWriter(t, k, truncate)
  /\ UNCHANGED diskVars

\* Storage::write waits for the lock and removes a blob of another key.
Write(t, k, truncate) ==
  /\ op[t] = Idle
  /\ op' = [op EXCEPT ![t] = [Idle EXCEPT !.step = "seeking", !.job = "write", !.want = k,
                                          !.truncate = truncate, !.tries = 1]]
  /\ UNCHANGED <<mapVars, diskVars>>

Seek(t) ==
  LET k == op[t].want IN
  /\ op[t].step = "seeking"
  /\ LockWrite(t, k) \/ InsertNew(t, k)
  /\ BeWriter(t, k, op[t].truncate)
  /\ UNCHANGED diskVars

Collide(t) ==
  LET c == cell[HashOf[op[t].want]] IN
  /\ op[t].step = "seeking" /\ c # Absent /\ c.key # op[t].want
  /\ op' = [op EXCEPT ![t].step = "replacing", ![t].victim = c.key]
  /\ UNCHANGED <<mapVars, diskVars>>

\* Mutant of Again: one replacement too many.
AgainOnceMore(t) ==
  op' = [op EXCEPT ![t] = IF @.tries > NumReplaces THEN Idle
                          ELSE [@ EXCEPT !.step = "seeking", !.victim = NoKey, !.tries = @ + 1]]

\* The for loop of Storage::write.
Again(t) ==
  op' = [op EXCEPT ![t] = IF op[t].tries = NumReplaces THEN Idle
                          ELSE [op[t] EXCEPT !.step = "seeking", !.victim = NoKey, !.tries = op[t].tries + 1]]

Replace(t) ==
  /\ op[t].step = "replacing" /\ LockRemove(t, op[t].victim)
  /\ Goto(t, "removing")
  /\ UNCHANGED diskVars

ReplaceMiss(t) ==
  /\ op[t].step = "replacing" /\ cell[HashOf[op[t].victim]].key # op[t].victim
  /\ Again(t)
  /\ UNCHANGED <<mapVars, diskVars>>

CancelWrite(t) ==
  /\ op[t].step \in {"seeking", "replacing"}
  /\ Done(t)
  /\ UNCHANGED <<mapVars, diskVars>>

SetExpireAt(t, e) ==
  /\ op[t].step = "writing" /\ op[t].draft.expire # e
  /\ op' = [op EXCEPT ![t].draft.expire = e]
  /\ UNCHANGED <<mapVars, diskVars>>

\* ensure_file: create_new for a New entry, which fails if the file exists, and
\* an open that fails if the file does not exist for a Present one.
EnsureFile(t, truncate) ==
  LET h == At(t) IN
  IF CellOf(t).tag = "New"
    THEN file[h] = NoFile /\ file' = [file EXCEPT ![h] = [len |-> 0, attr |-> NoAttr, torn |-> TRUE]]
    ELSE /\ file[h] # NoFile
         /\ file' = IF truncate THEN [file EXCEPT ![h].len = 0, ![h].torn = TRUE] ELSE file

Open(t) ==
  /\ op[t].step = "writing" /\ ~op[t].opened
  /\ EnsureFile(t, op[t].truncate)
  /\ op' = [op EXCEPT ![t].opened = TRUE]
  /\ UNCHANGED <<mapVars, queue, now>>

\* The caller writes to the open file, extending it or not.
Append(t) ==
  LET h == At(t) IN
  /\ op[t].step = "writing" /\ op[t].opened
  /\ \E n \in {file[h].len, file[h].len + 1} :
       /\ n \in 1 .. MaxLen
       /\ file' = [file EXCEPT ![h].len = n, ![h].torn = TRUE]
  /\ UNCHANGED <<mapVars, queue, now, op>>

\* Mutant of CommitLength: the size of the metadata is not brought up to date.
CommitLengthStale(t) ==
  /\ op[t].step = "writing"
  /\ IF op[t].opened THEN UNCHANGED file ELSE EnsureFile(t, FALSE)
  /\ op' = [op EXCEPT ![t].step = "sized", ![t].opened = TRUE]
  /\ UNCHANGED <<mapVars, queue, now>>

\* WriteGuard::commit in the order of its effects: the file is ensured and its
\* length read, the attribute written, the expire queue fed, the map updated.
CommitLength(t) ==
  /\ op[t].step = "writing"
  /\ IF op[t].opened THEN UNCHANGED file ELSE EnsureFile(t, FALSE)
  /\ op' = [op EXCEPT ![t] = [@ EXCEPT !.step = "sized", !.opened = TRUE,
                                       !.draft.size = file'[At(t)].len]]
  /\ UNCHANGED <<mapVars, queue, now>>

CommitAttr(t) ==
  /\ op[t].step = "sized"
  /\ file' = [file EXCEPT ![At(t)].attr = [key |-> at[t], expire |-> op[t].draft.expire],
                          ![At(t)].torn = FALSE]
  /\ Goto(t, "tagged")
  /\ UNCHANGED <<mapVars, queue, now>>

CommitExpire(t) ==
  LET e == op[t].draft.expire IN
  /\ op[t].step = "tagged"
  /\ IF e # Never THEN Push(<<e, at[t]>>) ELSE UNCHANGED queue
  /\ Goto(t, "queued")
  /\ UNCHANGED <<mapVars, file, now>>

CommitSize(t) ==
  /\ op[t].step = "queued" /\ ChargeSize(t, op[t].draft)
  /\ UNCHANGED <<diskVars, op>>

CommitMap(t) ==
  /\ op[t].step = "queued" /\ CommitCell(t)
  /\ Done(t)
  /\ UNCHANGED diskVars

\* Mutant of DropWriter: the blob is kept although its file was opened.
DropWriterKeeps(t) ==
  /\ op[t].step \in {"writing", "sized"}
  /\ DropGuard(t)
  /\ Done(t)
  /\ UNCHANGED diskVars

\* A writer dropped, or whose commit failed before the attribute was written:
\* it removes the blob if it had opened the file.
DropWriter(t) ==
  /\ op[t].step \in {"writing", "sized"}
  /\ \/ /\ op[t].opened
        /\ file' = [file EXCEPT ![At(t)] = NoFile]
        /\ Goto(t, "erasing")
        /\ UNCHANGED <<mapVars, queue, now>>
     \/ /\ ~op[t].opened
        /\ DropGuard(t)
        /\ Done(t)
        /\ UNCHANGED diskVars

-----------------------------------------------------------------------------
(* Removal: Storage::remove, expire and evict *)

\* Mutant of Remove: the file is unlinked before the blob is locked.
RemoveUnlocked(t, k) ==
  /\ op[t] = Idle /\ cell[HashOf[k]].key = k /\ cell[HashOf[k]].tag = "Present"
  /\ file' = [file EXCEPT ![HashOf[k]] = NoFile]
  /\ UNCHANGED <<mapVars, queue, now, op>>

Remove(t, k) ==
  /\ op[t] = Idle /\ LockRemove(t, k)
  /\ Goto(t, "removing")
  /\ UNCHANGED diskVars

\* Mutant of RemoveFile: the map forgets the blob, the file stays.
RemoveFileNot(t) ==
  /\ op[t].step = "removing"
  /\ Goto(t, "erasing")
  /\ UNCHANGED <<mapVars, diskVars>>

\* do_remove: the unlink, then the map.
RemoveFile(t) ==
  /\ op[t].step = "removing"
  /\ file' = [file EXCEPT ![At(t)] = NoFile]
  /\ Goto(t, "erasing")
  /\ UNCHANGED <<mapVars, queue, now>>

\* Mutant of RemoveError: no ExpireGuard puts the item back.
RemoveErrorForgets(t) ==
  /\ op[t].step = "removing" /\ DropGuard(t)
  /\ Done(t)
  /\ UNCHANGED diskVars

\* A failed unlink returns early: every caller gives up, and the ExpireGuard
\* puts the item back.
RemoveError(t) ==
  /\ op[t].step = "removing" /\ DropGuard(t)
  /\ IF op[t].job = "expire" THEN Push(<<op[t].due, op[t].want>>) ELSE UNCHANGED queue
  /\ Done(t)
  /\ UNCHANGED <<file, now>>

EraseSize(t) ==
  /\ op[t].step = "erasing" /\ DischargeSize(t)
  /\ UNCHANGED <<diskVars, op>>

EraseCell(t) ==
  /\ op[t].step = "erasing" /\ RemoveCell(t)
  /\ CASE op[t].job = "write"  -> Again(t)
       [] op[t].job = "expire" -> op' = [op EXCEPT ![t].step = "expiring", ![t].want = NoKey, ![t].due = Never]
       [] op[t].job = "evict"  -> Goto(t, "evicting")
       [] OTHER                -> Done(t)
  /\ UNCHANGED diskVars

BeginExpire(t) ==
  /\ op[t] = Idle
  /\ op' = [op EXCEPT ![t] = [Idle EXCEPT !.step = "expiring", !.job = "expire", !.asof = now]]
  /\ UNCHANGED <<mapVars, diskVars>>

\* ExpireQueue::pop: an earliest item, if it is due.
Due(asof) == {i \in Items : queue[i] > 0 /\ i[1] <= asof /\ \A j \in Items : queue[j] > 0 => i[1] <= j[1]}

PopExpire(t) ==
  /\ op[t].step = "expiring"
  /\ \/ /\ Due(op[t].asof) = {}
        /\ Done(t)
        /\ UNCHANGED queue
     \/ \E i \in Due(op[t].asof) :
          /\ queue' = [queue EXCEPT ![i] = @ - 1]
          /\ op' = [op EXCEPT ![t].step = "expire_wait", ![t].due = i[1], ![t].want = i[2]]
  /\ UNCHANGED <<mapVars, file, now>>

IsExpired(m, time) == m.expire # Never /\ m.expire <= time

\* Mutant of ExpireLock: a queue item is taken for the blob's expire_at.
ExpireLockBlindly(t) ==
  /\ op[t].step = "expire_wait" /\ LockRemove(t, op[t].want)
  /\ Goto(t, "removing")
  /\ UNCHANGED diskVars

ExpireLock(t) ==
  LET k == op[t].want IN
  /\ op[t].step = "expire_wait"
  /\ IsExpired(cell[HashOf[k]].meta, op[t].asof) /\ LockRemove(t, k)
  /\ Goto(t, "removing")
  /\ UNCHANGED diskVars

\* The blob is gone, or is not expired: the item is dropped.
ExpireMiss(t) ==
  LET k == op[t].want
      c == cell[HashOf[k]] IN
  /\ op[t].step = "expire_wait"
  /\ c.key # k \/ (Writable(HashOf[k]) /\ ~IsExpired(c.meta, op[t].asof))
  /\ op' = [op EXCEPT ![t].step = "expiring", ![t].want = NoKey, ![t].due = Never]
  /\ UNCHANGED <<mapVars, diskVars>>

CancelExpire(t) ==
  /\ op[t].step = "expire_wait"
  /\ Push(<<op[t].due, op[t].want>>)
  /\ Done(t)
  /\ UNCHANGED <<mapVars, file, now>>

BeginEvict(t) ==
  /\ op[t] = Idle
  /\ op' = [op EXCEPT ![t] = [Idle EXCEPT !.step = "evicting", !.job = "evict"]]
  /\ UNCHANGED <<mapVars, diskVars>>

\* try_remove_front finds an unlocked blob ...
EvictNext(t) ==
  /\ op[t].step = "evicting" /\ size > TargetSize
  /\ \E k \in Keys : LockRemove(t, k)
  /\ Goto(t, "removing")
  /\ UNCHANGED diskVars

\* ... or the size is met, or each blob was locked when the scan came by.
EvictStop(t) ==
  /\ op[t].step = "evicting"
  /\ Done(t)
  /\ UNCHANGED <<mapVars, diskVars>>

-----------------------------------------------------------------------------
(* Crash and Storage::open *)

\* BlobMetadata::read and the hash check of BlobMapBuilder::insert.
Valid(h) == file[h] # NoFile /\ file[h].attr # NoAttr /\ HashOf[file[h].attr.key] = h

Opened(h) ==
  IF Valid(h) THEN Blob(file[h].attr.key, "Present", [size |-> file[h].len, expire |-> file[h].attr.expire])
              ELSE Absent

\* The process dies anywhere, and the directory is opened again: invalid files
\* are deleted, the others become the map and the expire queue.
Reopen ==
  /\ cell' = [h \in Hashes |-> Opened(h)]
  /\ guard' = [t \in Tasks |-> "none"]
  /\ at' = [t \in Tasks |-> NoKey]
  /\ pending' = [t \in Tasks |-> Fresh]
  /\ size' = MapThenSumSet(LAMBDA h : Opened(h).meta.size, Hashes)
  /\ file' = [h \in Hashes |-> IF Valid(h) THEN file[h] ELSE NoFile]
  /\ queue' = [i \in Items |->
       IF \E h \in Hashes : Valid(h) /\ file[h].attr = [key |-> i[2], expire |-> i[1]] THEN 1 ELSE 0]
  /\ op' = [t \in Tasks |-> Idle]
  /\ UNCHANGED now

Tick == now < MaxTime /\ now' = now + 1 /\ UNCHANGED <<mapVars, file, queue, op>>

\* An empty directory.
Init ==
  /\ cell = [h \in Hashes |-> Absent]
  /\ guard = [t \in Tasks |-> "none"]
  /\ at = [t \in Tasks |-> NoKey]
  /\ pending = [t \in Tasks |-> Fresh]
  /\ size = 0
  /\ file = [h \in Hashes |-> NoFile]
  /\ queue = [i \in Items |-> 0]
  /\ now = 0
  /\ op = [t \in Tasks |-> Idle]

Start(t) ==
  \/ \E k \in Keys : Read(t, k) \/ WriteNew(t, k) \/ Remove(t, k)
  \/ \E k \in Keys, b \in BOOLEAN : TryWrite(t, k, b) \/ Write(t, k, b)
  \/ BeginExpire(t) \/ BeginEvict(t)

Writer(t) ==
  \/ Seek(t) \/ Collide(t) \/ Replace(t) \/ ReplaceMiss(t) \/ CancelWrite(t)
  \/ \E e \in Times \cup {Never} : SetExpireAt(t, e)
  \/ Open(t) \/ Append(t) \/ DropWriter(t)
  \/ CommitLength(t) \/ CommitAttr(t) \/ CommitExpire(t) \/ CommitSize(t) \/ CommitMap(t)

Remover(t) ==
  \/ RemoveFile(t) \/ RemoveError(t) \/ EraseSize(t) \/ EraseCell(t)
  \/ PopExpire(t) \/ ExpireLock(t) \/ ExpireMiss(t) \/ CancelExpire(t)
  \/ EvictNext(t) \/ EvictStop(t)

Next ==
  \/ \E t \in Tasks : Start(t) \/ DropReader(t) \/ Writer(t) \/ Remover(t)
  \/ Reopen \/ Tick

Spec == Init /\ [][Next]_vars

-----------------------------------------------------------------------------
(***************************************************************************)
(* What the storage guarantees.                                            *)
(***************************************************************************)

Unlocked(h) == \A t \in Holders(h) : guard[t] = "read"

\* A blob that is in the map and not being written or removed has a file whose
\* length and attribute are the map's metadata: ReadGuard::open succeeds, and
\* the size announced to a client is the number of bytes it is sent.
Matches(h) ==
  /\ file[h] # NoFile
  /\ file[h].len = cell[h].meta.size
  /\ file[h].attr = [key |-> cell[h].key, expire |-> cell[h].meta.expire]
FilesMatch == \A h \in Hashes : (cell[h].tag = "Present" /\ Unlocked(h)) => Matches(h)

\* A file without an entry in the map is never left behind, so create_new in
\* ensure_file, which a New entry depends on, does not fail because of one.
NoOrphans ==
  \A h \in Hashes :
    /\ cell[h] = Absent => file[h] = NoFile
    /\ cell[h].tag = "New" => file[h] = NoFile \/ \E t \in Holders(h) : op[t].opened

\* A committed blob with an expire_at stays in the expire queue, or with the
\* expire task that popped it, whatever overwrote, failed or was cancelled.
Tracked(e, k) == queue[<<e, k>>] > 0 \/ \E t \in Tasks : op[t].due = e /\ op[t].want = k
ExpiryTracked ==
  \A h \in Hashes : (cell[h].tag = "Present" /\ cell[h].meta.expire # Never) =>
    Tracked(cell[h].meta.expire, cell[h].key)

\* With nobody writing or removing, the size that eviction compares with its
\* target is the number of bytes in the blob files.
SizeIsDiskUse ==
  (\A h \in Hashes : Unlocked(h)) => size = MapThenSumSet(LAMBDA h : file[h].len, Hashes)

\* expire removes no blob whose expire_at is later than the time it was given.
ExpiresOnlyExpired ==
  [][\A t \in Tasks : (op[t].job = "expire" /\ op[t].step = "removing" /\ op'[t].step = "erasing") =>
       IsExpired(CellOf(t).meta, now)]_vars

\* The file under a reader's guard is neither changed nor removed.
ReaderFileStable ==
  [][\A t \in Tasks : (guard[t] = "read" /\ guard'[t] = "read") => file'[At(t)] = file[At(t)]]_vars

\* "If the caller opened the writer without committing, I will assume an error
\* has occurred and remove the blob": no blob in the map, free to be read, has
\* the contents of a write that was not committed.
UncommittedIsRemoved ==
  \A h \in Hashes : (cell[h].tag = "Present" /\ Unlocked(h)) => ~file[h].torn

\* What makes them inductive: which guard a task has where, and what that says of
\* the file under it.  A writer that has not opened the file has it as the map knows
\* it; one that commits has a file of the length and then with the attribute that it
\* will put into the map; a remover has the blob's file until it unlinks it.
GuardAt(s) ==
  CASE s = "reading"                         -> {"read"}
    [] s \in {"writing", "sized", "tagged"} -> {"write"}
    [] s = "queued"                          -> {"write", "charged"}
    [] s = "removing"                        -> {"remove"}
    [] s = "erasing"                         -> {"write", "remove", "discharged"}
    [] OTHER                                 -> {"none"}

FileFits(t) ==
  /\ op[t].step = "writing" /\ ~op[t].opened =>
       IF CellOf(t).tag = "New" THEN file[At(t)] = NoFile ELSE Matches(At(t))
  /\ op[t].step = "writing" /\ op[t].opened => file[At(t)] # NoFile
  /\ op[t].step \in {"sized", "tagged", "queued"} =>
       op[t].opened /\ file[At(t)] # NoFile /\ op[t].draft.size = file[At(t)].len
  /\ op[t].step \in {"tagged", "queued"} =>
       file[At(t)].attr = [key |-> at[t], expire |-> op[t].draft.expire]
  /\ guard[t] = "charged" => pending[t] = op[t].draft
  /\ op[t].step = "removing" => Matches(At(t))
  /\ op[t].step = "erasing" => file[At(t)] = NoFile

\* The loops of write and expire know their keys; an item that expire has popped is
\* one it was told is due, and is with it until the blob is gone.
JobFits(t) ==
  /\ op[t].step \in {"idle", "reading", "writing", "sized", "tagged", "queued"} => op[t].job = "none"
  /\ op[t].step \in {"seeking", "replacing"} => op[t].job = "write"
  /\ op[t].step \in {"expiring", "expire_wait"} => op[t].job = "expire"
  /\ op[t].step = "evicting" => op[t].job = "evict"
  /\ op[t].job = "write" => op[t].want \in Keys
  /\ op[t].step = "replacing" => op[t].victim \in Keys
  /\ op[t].due # Never =>
       /\ op[t].job = "expire" /\ op[t].step \in {"expire_wait", "removing", "erasing"}
       /\ op[t].due <= op[t].asof /\ op[t].want \in Keys
  /\ op[t].step = "expire_wait" => op[t].due # Never
  /\ op[t].job = "expire" /\ op[t].step \in {"removing", "erasing"} =>
       op[t].due # Never /\ at[t] = op[t].want
  /\ op[t].job = "expire" /\ op[t].step = "removing" => IsExpired(CellOf(t).meta, op[t].asof)
  /\ op[t].asof <= now

TasksFit == \A t \in Tasks : guard[t] \in GuardAt(op[t].step) /\ FileFits(t) /\ JobFits(t)

\* An expiry is needed from before the commit that makes it count.
Needed(e, k) ==
  \/ \E h \in Hashes : cell[h].tag = "Present" /\ cell[h].key = k /\ cell[h].meta.expire = e
  \/ \E t \in Tasks : op[t].step = "queued" /\ at[t] = k /\ op[t].draft.expire = e
NeededIsTracked == \A e \in Times, k \in Keys : Needed(e, k) => Tracked(e, k)

\* What is on the disk and what is in the map agree (lib.rs, blob.rs), whoever is in the
\* middle of what: the inductive invariant.
StorageInv == GuardedMapInv /\ TypeOK /\ TasksFit /\ FilesMatch /\ NoOrphans /\ NeededIsTracked

\* What no step of the storage does: touch a file that is read, or expire a blob
\* before its time.
StepsAreSafe == ReaderFileStable /\ ExpiresOnlyExpired
=============================================================================
