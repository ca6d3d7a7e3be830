------------------------------ MODULE JoinTasks ------------------------------
(***************************************************************************)
(* Structured tasks of g1/tokio/src/task: JoinGuard, Cancel and JoinQueue, *)
(* on the one-way flag of sync/oneway.rs.  One queue owns the guards that  *)
(* are pushed on it; cancelling the queue reaches the tasks through        *)
(* propagator tasks, and shutdown joins them until its time is up.         *)
(*                                                                         *)
(* The ReadyQueue under the JoinQueue is the one of module ReadyQueue with *)
(* one poller: guards to be polled, and guards whose task has ended.       *)
(***************************************************************************)
EXTENDS Integers, TokioSync

CONSTANTS
  JtTasks,
  JtStubborn,  \* the tasks that do not look at their Cancel
  JtEnds       \* how a task may end: some of "ok", "err", "panic"

VARIABLES
  jtFlag,      \* the flags: of the queue and of every guard
  jtTask,      \* the tasks
  jtProp,      \* the propagators, from the queue's flag to the guard's
  jtGuard,     \* where the guards are: outside, in the queue, or taken from it
  jtQueue,     \* the queue and its shutdown
  jtResult

joinVars == <<jtFlag, jtTask, jtProp, jtGuard, jtQueue, jtResult>>

OfQueue == "queue"
Flags == JtTasks \cup {OfQueue}
Watcher(t) == <<"task", t>>
Parent(t) == <<"parent", t>>
Self(t) == <<"self", t>>
Ended == {"ok", "err", "panic", "aborted"}

\* A guard's flag is not the queue's, and a task ends in one of the ways it can.
ASSUME JoinAssumption == OfQueue \notin JtTasks /\ JtEnds \subseteq {"ok", "err", "panic"}

JoinInit ==
  /\ jtFlag = [f \in Flags |-> [set |-> FALSE, notify |-> NewNotify, calls |-> 0]]
  /\ jtTask = [t \in JtTasks |-> "enabling"]
  /\ jtProp = [t \in JtTasks |-> "none"]
  /\ jtGuard = [t \in JtTasks |-> "outside"]
  /\ jtQueue = "open" /\ jtResult = "ok"

(* Flag: set stores and then notifies; wait enables, looks and then awaits. *)

SetFlag(fs, S) ==
  [f \in Flags |-> IF f \in S THEN [fs[f] EXCEPT !.set = TRUE, !.calls = 1] ELSE fs[f]]
CallWaiters(f) ==
  /\ jtFlag[f].calls > 0
  /\ jtFlag' = [jtFlag EXCEPT ![f].notify = NotifyWaiters(@), ![f].calls = 0]
  /\ UNCHANGED <<jtTask, jtProp, jtGuard, jtQueue, jtResult>>

Enabled(f, w) == [jtFlag EXCEPT ![f].notify = Enable(@, w)]
Done(f, w) == [jtFlag EXCEPT ![f].notify = Forget(@, w)]

(* The tasks. *)

TaskEnables(t) ==
  /\ jtTask[t] = "enabling" /\ t \notin JtStubborn
  /\ jtTask' = [jtTask EXCEPT ![t] = "looking"]
  /\ jtFlag' = Enabled(t, Watcher(t))
  /\ UNCHANGED <<jtProp, jtGuard, jtQueue, jtResult>>

TaskLooks(t) ==
  /\ jtTask[t] = "looking"
  /\ jtTask' = [jtTask EXCEPT ![t] = IF jtFlag[t].set THEN "stopping" ELSE "waiting"]
  /\ UNCHANGED <<jtFlag, jtProp, jtGuard, jtQueue, jtResult>>

TaskAwakes(t) ==
  /\ jtTask[t] = "waiting" /\ Notified(jtFlag[t].notify, Watcher(t))
  /\ jtTask' = [jtTask EXCEPT ![t] = "stopping"]
  /\ UNCHANGED <<jtFlag, jtProp, jtGuard, jtQueue, jtResult>>

\* The task ends because it has been cancelled, or because its work is done.
TaskEnds(t) ==
  /\ jtTask[t] \notin Ended /\ t \notin JtStubborn
  /\ \E e \in JtEnds : jtTask' = [jtTask EXCEPT ![t] = e]
  /\ jtFlag' = Done(t, Watcher(t))
  /\ UNCHANGED <<jtProp, jtGuard, jtQueue, jtResult>>

\* handle.abort(), carried out by the runtime at the next await.
AbortHappens(t) ==
  /\ jtTask[t] \notin Ended /\ jtGuard[t] \in {"dropped", "detached", "timed out"}
  /\ jtTask' = [jtTask EXCEPT ![t] = "aborted"]
  /\ jtFlag' = Done(t, Watcher(t))
  /\ UNCHANGED <<jtProp, jtGuard, jtQueue, jtResult>>

(* propagate_from: select! over the parent's wait and the own wait. *)

PropStarts(t) ==
  /\ jtProp[t] = "starting"
  /\ jtProp' = [jtProp EXCEPT ![t] = "enabled parent"]
  /\ jtFlag' = Enabled(OfQueue, Parent(t))
  /\ UNCHANGED <<jtTask, jtGuard, jtQueue, jtResult>>

PropLooksAtParent(t) ==
  /\ jtProp[t] = "enabled parent"
  /\ jtProp' = [jtProp EXCEPT ![t] = IF jtFlag[OfQueue].set THEN "ended" ELSE "enabled self"]
  /\ jtFlag' = IF jtFlag[OfQueue].set THEN SetFlag(Done(OfQueue, Parent(t)), {t}) ELSE Enabled(t, Self(t))
  /\ UNCHANGED <<jtTask, jtGuard, jtQueue, jtResult>>

\* Mutant of PropLooksAtSelf: it awaits without a look.
PropWaitsBlindly(t) ==
  /\ jtProp[t] = "enabled self"
  /\ jtProp' = [jtProp EXCEPT ![t] = "waiting"]
  /\ UNCHANGED <<jtFlag, jtTask, jtGuard, jtQueue, jtResult>>

PropLooksAtSelf(t) ==
  /\ jtProp[t] = "enabled self"
  /\ jtProp' = [jtProp EXCEPT ![t] = IF jtFlag[t].set THEN "ended" ELSE "waiting"]
  /\ jtFlag' = IF jtFlag[t].set
               THEN [jtFlag EXCEPT ![OfQueue].notify = Forget(@, Parent(t)), ![t].notify = Forget(@, Self(t))]
               ELSE jtFlag
  /\ UNCHANGED <<jtTask, jtGuard, jtQueue, jtResult>>

PropAwakes(t) ==
  LET rest == [jtFlag EXCEPT ![OfQueue].notify = Forget(@, Parent(t)), ![t].notify = Forget(@, Self(t))]
  IN /\ jtProp[t] = "waiting"
     /\ \/ Notified(jtFlag[OfQueue].notify, Parent(t)) /\ jtFlag' = SetFlag(rest, {t})
        \/ Notified(jtFlag[t].notify, Self(t)) /\ jtFlag' = rest
     /\ jtProp' = [jtProp EXCEPT ![t] = "ended"]
     /\ UNCHANGED <<jtTask, jtGuard, jtQueue, jtResult>>

(* JoinQueue. *)

\* push: the parent is added first, even if the queue turns the guard down.
Push(t) ==
  /\ jtGuard[t] = "outside" /\ jtProp[t] = "none"
  /\ jtProp' = [jtProp EXCEPT ![t] = "starting"]
  /\ jtGuard' = [jtGuard EXCEPT ![t] = IF jtQueue = "open" THEN "queued" ELSE "outside"]
  /\ UNCHANGED <<jtFlag, jtTask, jtQueue, jtResult>>

\* cancel(), the first thing shutdown does, closes the queue and then sets its flag.
CloseGuards ==
  /\ jtQueue = "open"
  /\ jtQueue' = "closed"
  /\ UNCHANGED <<jtFlag, jtTask, jtProp, jtGuard, jtResult>>

SetCancel ==
  /\ jtQueue = "closed"
  /\ jtQueue' = "joining"
  /\ jtFlag' = SetFlag(jtFlag, {OfQueue})
  /\ UNCHANGED <<jtTask, jtProp, jtGuard, jtResult>>

\* Mutant of Merge: the last result wins.
MergeLast(r, s) == IF s = "ok" THEN r ELSE s

\* The errors of tasks come first, then aborted tasks, then the time that is up.
Merge(r, s) ==
  LET rank == [ok |-> 0, timeout |-> 1, aborted |-> 2, err |-> 3]
  IN IF rank[r] >= rank[s] THEN r ELSE s

\* join_next polls every queued guard: those whose task has ended become ready.
PollGuards(g) ==
  [t \in JtTasks |-> IF g[t] = "queued" /\ jtTask[t] \in Ended THEN "ready" ELSE g[t]]

\* A guard is joined; its take_result unwinds when the task has panicked.
JoinNext(t) ==
  LET g == PollGuards(jtGuard)
  IN /\ jtQueue = "joining" /\ g[t] = "ready"
     /\ jtGuard' = [g EXCEPT ![t] = "joined"]
     /\ IF jtTask[t] = "panic" THEN jtQueue' = "panicked" /\ UNCHANGED jtResult
        ELSE jtResult' = Merge(jtResult, jtTask[t]) /\ UNCHANGED jtQueue
     /\ UNCHANGED <<jtFlag, jtTask, jtProp>>

JoinedAll ==
  /\ jtQueue = "joining" /\ \A t \in JtTasks : jtGuard[t] \notin {"queued", "ready"}
  /\ jtQueue' = "returned"
  /\ UNCHANGED <<jtFlag, jtTask, jtProp, jtGuard, jtResult>>

DropGuards(S, how) ==
  /\ jtGuard' = [t \in JtTasks |-> IF t \in S THEN how ELSE jtGuard[t]]
  /\ jtFlag' = SetFlag(jtFlag, S)

\* Mutant of TimeIsUp: the guards that are left are forgotten.
TimeIsUpLeak ==
  /\ jtQueue = "joining" /\ \E t \in JtTasks : jtGuard[t] = "queued"
  /\ jtQueue' = "returned" /\ jtResult' = Merge(jtResult, "timeout")
  /\ UNCHANGED <<jtTask, jtProp, jtFlag, jtGuard>>

\* The sleep of shutdown_with_timeout: detach_all takes the guards that are not
\* ready, and dropping them aborts their tasks.
TimeIsUp ==
  /\ jtQueue = "joining" /\ \E t \in JtTasks : jtGuard[t] \in {"queued", "ready"}
  /\ jtQueue' = "returned" /\ jtResult' = Merge(jtResult, "timeout")
  /\ DropGuards({t \in JtTasks : jtGuard[t] = "queued"}, "detached")
  /\ UNCHANGED <<jtTask, jtProp>>

\* JoinQueue::drop cancels; then the guards it still has are dropped.
DropQueue ==
  LET left == {t \in JtTasks : jtGuard[t] \in {"queued", "ready"}}
  IN /\ jtQueue \in {"open", "returned", "panicked"}
     /\ jtQueue' = "dropped"
     /\ jtGuard' = [t \in JtTasks |-> IF t \in left THEN "detached" ELSE jtGuard[t]]
     /\ jtFlag' = SetFlag(jtFlag, left \cup {OfQueue})
     /\ UNCHANGED <<jtTask, jtProp, jtResult>>

(* A guard that is not in the queue. *)

\* JoinGuard::shutdown_with_timeout, and JoinGuard::drop.
GuardCancels(t) ==
  /\ jtGuard[t] = "outside" /\ jtProp[t] # "none"
  /\ jtGuard' = [jtGuard EXCEPT ![t] = "shutting down"]
  /\ jtFlag' = SetFlag(jtFlag, {t})
  /\ UNCHANGED <<jtTask, jtProp, jtQueue, jtResult>>

GuardJoins(t) ==
  /\ jtGuard[t] = "shutting down"
  /\ jtGuard' = [jtGuard EXCEPT ![t] = IF jtTask[t] \in Ended THEN "finished" ELSE "timed out"]
  /\ UNCHANGED <<jtFlag, jtTask, jtProp, jtQueue, jtResult>>

GuardDrops(t) ==
  /\ jtGuard[t] = "outside" /\ jtProp[t] # "none"
  /\ DropGuards({t}, "dropped")
  /\ UNCHANGED <<jtTask, jtProp, jtQueue, jtResult>>

JoinTasksNext ==
  \/ \E f \in Flags : CallWaiters(f)
  \/ \E t \in JtTasks : \/ TaskEnables(t) \/ TaskLooks(t) \/ TaskAwakes(t) \/ TaskEnds(t) \/ AbortHappens(t)
                        \/ PropStarts(t) \/ PropLooksAtParent(t) \/ PropLooksAtSelf(t) \/ PropAwakes(t)
                        \/ Push(t) \/ JoinNext(t) \/ GuardCancels(t) \/ GuardJoins(t) \/ GuardDrops(t)
  \/ CloseGuards \/ SetCancel \/ JoinedAll \/ TimeIsUp \/ DropQueue

JoinSpec == JoinInit /\ [][JoinTasksNext]_joinVars

-----------------------------------------------------------------------------
WasSet(f) == jtFlag[f].set /\ jtFlag[f].calls = 0

\* Cancellation is not lost: once a flag is set and its waiters have been called,
\* no task and no propagator sleeps on it, whenever it began to wait.  So a
\* propagator does not outlive its guard.
CancelReachesAll ==
  \A t \in JtTasks :
    /\ jtTask[t] = "waiting" /\ WasSet(t) => Notified(jtFlag[t].notify, Watcher(t))
    /\ jtProp[t] = "waiting" /\ WasSet(t) => Notified(jtFlag[t].notify, Self(t))
    /\ jtProp[t] = "waiting" /\ WasSet(OfQueue) => Notified(jtFlag[OfQueue].notify, Parent(t))

\* Shutdown leaves no task behind: when it has returned, every guard that the queue
\* accepted has been joined, or dropped so that its task is aborted, or its task has
\* ended.
ShutdownLeavesNone ==
  jtQueue \in {"returned", "dropped"} =>
    \A t \in JtTasks : jtGuard[t] \in {"queued", "ready"} => jtTask[t] \in Ended

\* The result of shutdown is Ok only if all accepted tasks have ended well, and the
\* error of a task that was joined is not hidden by an aborted or a late one.
ResultIsHonest ==
  jtQueue = "returned" =>
    /\ jtResult = "ok" => \A t \in JtTasks : /\ jtGuard[t] \notin {"queued", "ready", "detached"}
                                             /\ jtGuard[t] = "joined" => jtTask[t] = "ok"
    /\ (\E t \in JtTasks : jtGuard[t] = "joined" /\ jtTask[t] = "err") => jtResult = "err"

\* Cancellation reaches every task, and shutdown leaves none behind and reports what
\* became of them.
ShutdownIsSound == CancelReachesAll /\ ShutdownLeavesNone /\ ResultIsHonest
=============================================================================
