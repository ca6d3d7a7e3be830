----------------------------- MODULE ReadyQueue -----------------------------
(***************************************************************************)
(* The queue of futures of g1/base/src/future/ready_queue.  Futures are    *)
(* pushed; tasks that await ready() or pop_ready() (the pollers) poll them *)
(* and take the results.  A future is polled without the lock, so it may   *)
(* be woken, detached from or overtaken by others meanwhile.               *)
(*                                                                         *)
(* The serial of a reserved spot stands for the spot: cursors are reused,  *)
(* serials are not.                                                        *)
(***************************************************************************)
EXTENDS Integers, Sequences, SequencesExt

CONSTANTS
  RqFutures,
  RqReady, RqPop,  \* the pollers of ready() and of pop_ready()
  RqMaxSerial      \* bound: how often futures are polled

VARIABLES
  rq,              \* the queue, its wakers, and the tasks that have been woken
  rqPoller,        \* where the pollers are
  rqFuture,        \* the futures: whether they are resolved, and whom they wake
  rqOut,           \* the futures that have been popped or detached
  rqCancelled      \* whether a poller was dropped that had been woken since it was polled

readyQueueVars == <<rq, rqPoller, rqFuture, rqOut, rqCancelled>>

Pollers == RqReady \cup RqPop
NoFuture == "none"
NoSerial == -1
Away == [pc |-> "new", id |-> NoSerial, fut |-> NoFuture]

ReadyQueueInit ==
  /\ rq = [closed |-> FALSE, serial |-> 0, polling |-> <<>>, pending |-> {}, ready |-> <<>>,
           readyWakers |-> <<>>, popWakers |-> <<>>, armed |-> {}, woken |-> {}]
  /\ rqPoller = [p \in Pollers |-> Away]
  /\ rqFuture = [f \in RqFutures |-> [pc |-> "outside", waker |-> NoSerial]]
  /\ rqOut = {} /\ rqCancelled = FALSE

(* The wakers. *)

Woken(q, ps) == [q EXCEPT !.armed = @ \ ps, !.woken = @ \cup (q.armed \cap ps)]
FirstOf(q, wakers) == LET a == SelectSeq(wakers, LAMBDA p : p \in q.armed)
                      IN IF a = <<>> THEN {} ELSE {Head(a)}
WakeReadies(q) == Woken(q, ToSet(q.readyWakers))
WakePop(q) == Woken(q, FirstOf(q, q.popWakers))
WakeAll(q) == Woken(q, Pollers)
WakeOne(q) == Woken(q, FirstOf(q, q.readyWakers \o q.popWakers))

(* The methods of Queue. *)

\* Mutant of IsEmpty: the pending futures do not count.
IsEmptyAtOnce(q) == q.polling = <<>> /\ q.ready = <<>>

IsEmpty(q) == q.polling = <<>> /\ q.pending = {} /\ q.ready = <<>>
Finished(q) == q.closed /\ IsEmpty(q)
IsReady(q) == q.ready # <<>> \/ Finished(q)
WakeAtEnd(q) == IF Finished(q) THEN WakeAll(q) ELSE q

PushPolling(q, f) == WakeOne([q EXCEPT !.polling = Append(@, f)])
TakePolling(q) == [q EXCEPT !.polling = Tail(@), !.serial = @ + 1,
                            !.pending = @ \cup {[id |-> q.serial, fut |-> NoFuture]}]
Spots(q, id) == {s \in q.pending : s.id = id}
\* Mutant of PushReady: the tasks in pop_ready are not woken.
PushReadyQuietly(q, id, f) ==
  WakeReadies([q EXCEPT !.pending = @ \ Spots(q, id), !.ready = Append(@, f)])

PushReady(q, id, f) ==
  WakePop(WakeReadies([q EXCEPT !.pending = @ \ Spots(q, id), !.ready = Append(@, f)]))

\* Mutant of ResumePolling: the spot of a future that is being polled stays.
ResumePollingLate(q, id) ==
  IF \A s \in Spots(q, id) : s.fut = NoFuture THEN q
  ELSE PushPolling([q EXCEPT !.pending = @ \ Spots(q, id)], (CHOOSE s \in Spots(q, id) : TRUE).fut)

\* A spot without a future belongs to one that is being polled: it is removed,
\* and push_pending will find that the future yields.
ResumePolling(q, id) ==
  LET spot == Spots(q, id)
      rest == [q EXCEPT !.pending = @ \ spot]
  IN IF \E s \in spot : s.fut # NoFuture
     THEN PushPolling(rest, (CHOOSE s \in spot : TRUE).fut) ELSE rest

\* Mutant of PopReady: the one who takes the last future tells no one.
PopReadyQuietly(q) ==
  LET rest == [q EXCEPT !.ready = Tail(@)]
  IN IF rest.ready # <<>> THEN WakePop(WakeReadies(rest)) ELSE rest

PopReady(q) ==
  LET rest == [q EXCEPT !.ready = Tail(@)]
  IN IF rest.ready # <<>> THEN WakePop(WakeReadies(rest)) ELSE WakeAtEnd(rest)

(* The users of the queue. *)

PushFuture(f) ==
  /\ rqFuture[f].pc = "outside" /\ ~rq.closed
  /\ rq' = PushPolling(rq, f)
  /\ rqFuture' = [rqFuture EXCEPT ![f].pc = "unresolved"]
  /\ UNCHANGED <<rqPoller, rqOut, rqCancelled>>

CloseQueue ==
  /\ ~rq.closed
  /\ rq' = WakeAtEnd([rq EXCEPT !.closed = TRUE])
  /\ UNCHANGED <<rqPoller, rqFuture, rqOut, rqCancelled>>

\* detach_all, which leaves the spot of a future that is being polled.
DetachAll ==
  LET taken == {s \in rq.pending : s.fut # NoFuture}
  IN /\ rq.polling # <<>> \/ taken # {}
     /\ rq' = WakeAtEnd([rq EXCEPT !.polling = <<>>, !.pending = @ \ taken])
     /\ rqOut' = rqOut \cup ToSet(rq.polling) \cup {s.fut : s \in taken}
     /\ UNCHANGED <<rqPoller, rqFuture, rqCancelled>>

(* The futures. *)

\* The future resolves, or makes progress; its waker is called.
WakeFuture(f, resolved) ==
  /\ rqFuture[f].pc = "unresolved" /\ (rqFuture[f].waker # NoSerial \/ resolved)
  /\ rqFuture' = [rqFuture EXCEPT ![f] = [pc |-> IF resolved THEN "resolved" ELSE @.pc,
                                          waker |-> NoSerial]]
  /\ rq' = ResumePolling(rq, rqFuture[f].waker)
  /\ UNCHANGED <<rqPoller, rqOut, rqCancelled>>

(* Poller::poll. *)

Reserve(q, p) ==
  IF p \in RqReady THEN [q EXCEPT !.readyWakers = Append(@, p)] ELSE [q EXCEPT !.popWakers = Append(@, p)]
SetPoller(p, pc) == rqPoller' = [rqPoller EXCEPT ![p] = [Away EXCEPT !.pc = pc]]

\* The poll function of ready() and of pop_ready(): what the task gets.
Output(q, p) ==
  \/ /\ p \in RqReady /\ IsReady(q)
     /\ rq' = q /\ SetPoller(p, "returned")
     /\ UNCHANGED rqOut
  \/ /\ p \in RqPop /\ q.ready # <<>>
     /\ rq' = PopReady(q) /\ SetPoller(p, "returned")
     /\ rqOut' = rqOut \cup {Head(q.ready)}
  \/ /\ p \in RqPop /\ q.ready = <<>> /\ Finished(q)
     /\ rq' = q /\ SetPoller(p, "ended")
     /\ UNCHANGED rqOut
  \/ /\ ~IsReady(q)
     /\ rq' = [q EXCEPT !.armed = @ \cup {p}] /\ SetPoller(p, "idle")
     /\ UNCHANGED rqOut

\* The loop: the next future, or the end of the poll.
Continue(q, p) ==
  \/ /\ q.polling # <<>> /\ q.serial < RqMaxSerial
     /\ rq' = TakePolling(q)
     /\ rqPoller' = [rqPoller EXCEPT ![p] = [pc |-> "current", id |-> q.serial, fut |-> Head(q.polling)]]
     /\ UNCHANGED rqOut
  \/ q.polling = <<>> /\ Output(q, p)

\* A task polls because it has been woken, or because of another branch of its select!.
Poll(p) ==
  LET q == [rq EXCEPT !.woken = @ \ {p}]
  IN /\ rqPoller[p].pc \in {"new", "idle"}
     /\ Continue(IF rqPoller[p].pc = "new" THEN Reserve(q, p) ELSE q, p)
     /\ UNCHANGED <<rqFuture, rqCancelled>>

\* The future registers its waker, and only then looks whether it is resolved.
PollCurrent(p) ==
  /\ rqPoller[p].pc = "current"
  /\ rqPoller' = [rqPoller EXCEPT ![p].pc = "registered"]
  /\ rqFuture' = [rqFuture EXCEPT ![rqPoller[p].fut].waker =
                    IF rqFuture[rqPoller[p].fut].pc = "resolved" THEN NoSerial ELSE rqPoller[p].id]
  /\ UNCHANGED <<rq, rqOut, rqCancelled>>

LookCurrent(p) ==
  /\ rqPoller[p].pc = "registered"
  /\ rqPoller' = [rqPoller EXCEPT ![p].pc = rqFuture[rqPoller[p].fut].pc]
  /\ UNCHANGED <<rq, rqFuture, rqOut, rqCancelled>>

CurrentIsReady(p) ==
  /\ rqPoller[p].pc = "resolved"
  /\ Continue(PushReady(rq, rqPoller[p].id, rqPoller[p].fut), p)
  /\ UNCHANGED <<rqFuture, rqCancelled>>

\* Mutant of CurrentIsPending: a future that yields is dropped.
CurrentIsDropped(p) ==
  LET id == rqPoller[p].id
      fut == rqPoller[p].fut
  IN /\ rqPoller[p].pc = "unresolved"
     /\ IF Spots(rq, id) # {}
        THEN Continue([rq EXCEPT !.pending = (@ \ Spots(rq, id)) \cup {[id |-> id, fut |-> fut]}], p)
        ELSE rq' = [rq EXCEPT !.woken = @ \cup {p}] /\ SetPoller(p, "idle") /\ UNCHANGED rqOut
     /\ UNCHANGED <<rqFuture, rqCancelled>>

\* push_pending, and when it finds no spot, resume_polling_after_yield.
CurrentIsPending(p) ==
  LET id == rqPoller[p].id
      fut == rqPoller[p].fut
  IN /\ rqPoller[p].pc = "unresolved"
     /\ IF Spots(rq, id) # {}
        THEN Continue([rq EXCEPT !.pending = (@ \ Spots(rq, id)) \cup {[id |-> id, fut |-> fut]}], p)
        ELSE /\ rq' = [rq EXCEPT !.polling = Append(@, fut), !.woken = @ \cup {p}]
             /\ SetPoller(p, "idle")
             /\ UNCHANGED rqOut
     /\ UNCHANGED <<rqFuture, rqCancelled>>

\* Mutant of DropPoller: what the poller was woken for is not passed on.
DropPollerSilent(p) ==
  /\ rqPoller[p].pc \in {"idle", "returned", "ended"}
  /\ rq' = [rq EXCEPT !.readyWakers = SelectSeq(@, LAMBDA o : o # p), !.armed = @ \ {p},
                      !.popWakers = SelectSeq(@, LAMBDA o : o # p), !.woken = @ \ {p}]
  /\ SetPoller(p, "new")
  /\ rqCancelled' = (rqCancelled \/ p \in rq.woken)
  /\ UNCHANGED <<rqFuture, rqOut>>

\* Poller::drop, after it has returned or because its task gives up.
DropPoller(p) ==
  LET q == [rq EXCEPT !.readyWakers = SelectSeq(@, LAMBDA o : o # p), !.armed = @ \ {p},
                      !.popWakers = SelectSeq(@, LAMBDA o : o # p), !.woken = @ \ {p}]
  IN /\ rqPoller[p].pc \in {"idle", "returned", "ended"}
     /\ rq' = IF q.polling # <<>> THEN WakeOne(q) ELSE q
     /\ SetPoller(p, "new")
     /\ rqCancelled' = (rqCancelled \/ p \in rq.woken)
     /\ UNCHANGED <<rqFuture, rqOut>>

ReadyQueueNext ==
  \/ CloseQueue \/ DetachAll
  \/ \E f \in RqFutures : PushFuture(f) \/ \E r \in BOOLEAN : WakeFuture(f, r)
  \/ \E p \in Pollers : \/ Poll(p) \/ PollCurrent(p) \/ LookCurrent(p) \/ CurrentIsReady(p)
                        \/ CurrentIsPending(p) \/ DropPoller(p)

-----------------------------------------------------------------------------
Active(p) == rqPoller[p].pc \notin {"new", "idle"} \/ p \in rq.woken
Waits(p) == rqPoller[p].pc = "idle" /\ p \notin rq.woken
Currents == {p \in Pollers : rqPoller[p].fut # NoFuture}

\* However the calls of resume_polling, push_ready, push_pending and detach_all
\* interleave, a future that was pushed is in exactly one place: in a queue, in
\* the hands of the one poller that polls it, or out.
FuturesAreKept ==
  \A f \in RqFutures :
    LET places == [kind : {"polling"}, at : {i \in DOMAIN rq.polling : rq.polling[i] = f}]
             \cup [kind : {"pending"}, at : {s.id : s \in {t \in rq.pending : t.fut = f}}]
             \cup [kind : {"ready"}, at : {i \in DOMAIN rq.ready : rq.ready[i] = f}]
             \cup [kind : {"current"}, at : {p \in Currents : rqPoller[p].fut = f}]
             \cup [kind : {"out"}, at : {f} \cap rqOut]
    IN IF rqFuture[f].pc = "outside" THEN places = {} ELSE \E x \in places : places = {x}

\* No wakeup of a future is lost: one that waits in pending is unresolved, or its
\* waker, which was registered with this very spot, is still to be called.
PendingIsUnresolved ==
  \A s \in rq.pending : s.fut # NoFuture =>
    rqFuture[s.fut] = [pc |-> "unresolved", waker |-> s.id]

\* Futures that need to be polled do not wait while every task that could poll
\* them sleeps, though only one task is woken for them and may be dropped before
\* it polls.
PollingIsAttended ==
  rq.polling # <<>> /\ (\E p \in Pollers : Waits(p)) => \E p \in Pollers : Active(p)

\* A result does not wait while the tasks that would take it sleep, unless the one
\* that was woken for it has been dropped, which does not pass this wakeup on.
ReadyIsAttended ==
  /\ rq.ready # <<>> => \A p \in RqReady : ~Waits(p)
  /\ rq.ready # <<>> /\ ~rqCancelled /\ (\E p \in RqPop : Waits(p)) => \E p \in RqPop : Active(p)

\* Once the queue is closed and empty no task sleeps, whoever took the last future.
EndIsAnnounced ==
  Finished(rq) /\ (\A p \in Currents : Spots(rq, rqPoller[p].id) # {}) => \A p \in Pollers : ~Waits(p)

\* pop_ready returns None only when every future that was pushed is out, except
\* those that another task is polling and that were woken meanwhile: resume_polling
\* has removed their spot and with it the mark that the queue is not empty.
NoneIsTheEnd ==
  [][\A p \in RqPop : rqPoller'[p].pc = "ended" /\ rqPoller[p].pc # "ended" =>
       \A f \in RqFutures : \/ rqFuture[f].pc = "outside" \/ f \in rqOut
                            \/ \E o \in Currents : rqPoller[o].fut = f /\ Spots(rq, rqPoller[o].id) = {}
    ]_readyQueueVars

\* A pushed future is kept, polled when woken and handed out before the end.
QueueIsSound == [](FuturesAreKept /\ PendingIsUnresolved /\ PollingIsAttended /\ ReadyIsAttended /\ EndIsAnnounced) /\ NoneIsTheEnd
=============================================================================
