------------------------------ MODULE LockQueue ------------------------------
(***************************************************************************)
(* BlobMap with the order in which a tokio RwLock serves its waiters, for  *)
(* what has to happen eventually.  The lock is a fair semaphore: a reader  *)
(* that comes after a waiting writer waits behind it.  Without this order  *)
(* readers that overlap keep a remover waiting for ever.  A task takes its *)
(* place in the line as it leaves the mutex.                               *)
(***************************************************************************)
EXTENDS BlobMap, Sequences

CONSTANT Watched  \* the tasks followed: they are interchangeable, so one is enough

ASSUME WatchedAssumption == Watched \subseteq Tasks

VARIABLE line  \* the tasks that wait for a lock, first come first served

lineVars == <<vars, line>>

Awaiting == {"read_wait", "write_wait", "remove_wait"}

\* Mutant of InTurn: a reader does not wait behind a waiting writer.
ReadersFirst(t) ==
  \E i \in DOMAIN line :
    /\ line[i] = t
    /\ pc[t] = "read_wait" \/ \A j \in 1 .. i - 1 : arc[line[j]] # arc[t]

\* Only readers pass waiters on the same lock, and only other readers.
InTurn(t) ==
  \E i \in DOMAIN line :
    /\ line[i] = t
    /\ \A j \in 1 .. i - 1 :
         arc[line[j]] = arc[t] => pc[t] = "read_wait" /\ pc[line[j]] = "read_wait"

\* Arcs are interchangeable, so it is enough to allocate one that is free.
Allocates(a) == tag[a] # "New" /\ tag'[a] = "New"
NextFree == CHOOSE a \in Arcs : Unreferenced(a)

Grant(t) == InTurn(t) /\ Locked(t) /\ line' = SelectSeq(line, LAMBDA u : u # t)
Leave(t) == Cancel(t) /\ line' = SelectSeq(line, LAMBDA u : u # t)
Run(t) ==
  /\ BeginScan(t) \/ Internal(t) \/ Release(t) \/ \E k \in Keys : Call(t, k)
  /\ \A a \in Arcs : Allocates(a) => a = NextFree
  /\ line' = IF pc'[t] \in Awaiting THEN Append(line, t) ELSE line

LineInit == Init /\ line = <<>>
LineNext == \E t \in Tasks : Grant(t) \/ Leave(t) \/ Run(t)

\* A lock that keeps becoming free for the next in line is given to it; a thread
\* that keeps finding the mutex free gets it; the server bounds the time a guard
\* is held.  Where a task is decides which of the three applies to it.
Advance(t) == Grant(t) \/ (Run(t) /\ (Internal(t) \/ Release(t)))
Fairness == \A t \in Tasks : SF_lineVars(Advance(t))

FairSpec == LineInit /\ [][LineNext]_lineVars /\ Fairness

\* Every operation returns, with a guard, with nothing, or by giving up after
\* NumTries sentinels, whatever the others do; in particular a remover does not
\* starve behind readers, and each sentinel leaves the table.
OperationsReturn ==
  \A t \in Watched :
    (pc[t] \in Waiting \cup {"yielding", "scan", "unmap"})
      ~> (pc[t] \in {"idle"} \cup Guarded \cup Failed)

-----------------------------------------------------------------------------
(* For TLC: every key has one hash, and sizes do not matter. *)

OneHashOf == [k \in Keys |-> CHOOSE h \in Hashes : TRUE]
OneSizeOf == [m \in Metadata |-> 0]
=============================================================================
