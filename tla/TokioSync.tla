------------------------------ MODULE TokioSync -----------------------------
(***************************************************************************)
(* tokio's Notify, as a value: a permit, the waiters that have enabled     *)
(* their future, in order, and those that notify_one (woken) and           *)
(* notify_waiters (called) have let go but that have not run since.        *)
(* External code, modelled from how g1/tokio uses it.                      *)
(***************************************************************************)
EXTENDS Integers, Sequences, FiniteSets, Functions

\* A queue of waiters without w, wherever it stands in it.
Without(q, w) ==
  LET n == CHOOSE i \in DOMAIN q : q[i] = w
  IN IF w \in Range(q) THEN [i \in 1 .. Len(q) - 1 |-> IF i < n THEN q[i] ELSE q[i + 1]] ELSE q

NewNotify == [permit |-> FALSE, waiting |-> <<>>, woken |-> {}, called |-> {}]

\* notified() followed by enable().
Enable(n, w) == IF n.permit THEN [n EXCEPT !.permit = FALSE, !.woken = @ \cup {w}]
                            ELSE [n EXCEPT !.waiting = Append(@, w)]

NotifyOne(n) == IF n.waiting = <<>> THEN [n EXCEPT !.permit = TRUE]
                ELSE [n EXCEPT !.waiting = Tail(@), !.woken = @ \cup {Head(n.waiting)}]

NotifyWaiters(n) == [n EXCEPT !.waiting = <<>>, !.called = @ \cup Range(n.waiting)]

Notified(n, w) == w \in n.woken \cup n.called

\* The await returns.
Awaited(n, w) == [n EXCEPT !.woken = @ \ {w}, !.called = @ \ {w}]

\* The future is dropped before it was awaited; what notify_one gave it is passed on.
Forget(n, w) ==
  LET rest == [Awaited(n, w) EXCEPT !.waiting = Without(@, w)]
  IN IF w \in n.woken THEN NotifyOne(rest) ELSE rest

-----------------------------------------------------------------------------
(***************************************************************************)
(* tokio's Semaphore, as a value: the permits no one holds, those who wait *)
(* for one, in order, those who have been given one or have been told that *)
(* the semaphore is closed but have not run since, and whether it is       *)
(* closed.  External code, modelled from how g1/tokio uses it.             *)
(***************************************************************************)

NewSemaphore(n) == [permits |-> n, waiting |-> <<>>, given |-> {}, told |-> {}, closed |-> FALSE]

\* acquire(): its first poll takes a permit or joins the queue.
HasPermit(s) == s.permits > 0
TakePermit(s) == [s EXCEPT !.permits = @ - 1]
WaitFor(s, w) == [s EXCEPT !.waiting = Append(@, w)]

AddPermit(s) == IF s.waiting = <<>> THEN [s EXCEPT !.permits = @ + 1]
                ELSE [s EXCEPT !.waiting = Tail(@), !.given = @ \cup {Head(s.waiting)}]

CloseSemaphore(s) == [s EXCEPT !.closed = TRUE, !.waiting = <<>>, !.told = @ \cup Range(s.waiting)]

\* The task of w runs again.  When the semaphore is closed it gets an error, and a
\* permit that it had been given returns.
Runs(s, w) == w \in s.given \cup s.told
Ran(s, w) == LET rest == [s EXCEPT !.given = @ \ {w}, !.told = @ \ {w}]
             IN IF s.closed /\ w \in s.given THEN AddPermit(rest) ELSE rest

\* The future of acquire() is dropped.
GiveUp(s, w) ==
  LET rest == [s EXCEPT !.given = @ \ {w}, !.told = @ \ {w}, !.waiting = Without(@, w)]
  IN IF w \in s.given THEN AddPermit(rest) ELSE rest
=============================================================================
