-------------------------------- MODULE Mpmc --------------------------------
(***************************************************************************)
(* The queue of g1/tokio/src/sync/mpmc.rs: a deque with one semaphore for  *)
(* the messages in it and one for the room that is left.  Taking a permit, *)
(* touching the deque and adding the other permit are separate steps.      *)
(***************************************************************************)
EXTENDS TokioSync

CONSTANTS
  MpSenders, MpReceivers,
  MpSize,       \* of the channel
  MpMaxSent     \* bound: how many messages are accepted

VARIABLES
  mpQueue,      \* the deque; the n-th message that is accepted is n
  mpFree, mpUsed,
  mpTask,       \* where the tasks are
  mpClosing,    \* whether free is closed and used is about to be
  mpSent, mpPanicked

mpmcVars == <<mpQueue, mpFree, mpUsed, mpTask, mpClosing, mpSent, mpPanicked>>

MpTasks == MpSenders \cup MpReceivers

\* Finitely many tasks, which send or receive, and a channel of some size.
ASSUME MpmcAssumption == /\ IsFiniteSet(MpSenders) /\ IsFiniteSet(MpReceivers)
                         /\ MpSenders \cap MpReceivers = {} /\ MpSize \in Nat

MpmcInit ==
  /\ mpQueue = <<>>
  /\ mpFree = NewSemaphore(MpSize) /\ mpUsed = NewSemaphore(0)
  /\ mpTask = [t \in MpTasks |-> "idle"]
  /\ mpClosing = FALSE /\ mpSent = 0 /\ mpPanicked = FALSE

Goes(t, pc) == mpTask' = [mpTask EXCEPT ![t] = pc]

\* Queue::send and Queue::recv begin with the semaphore.
SendBegins(s) ==
  /\ mpTask[s] = "idle" /\ mpSent < MpMaxSent
  /\ \/ mpFree.closed /\ Goes(s, "idle") /\ UNCHANGED mpFree
     \/ ~mpFree.closed /\ HasPermit(mpFree) /\ Goes(s, "holding") /\ mpFree' = TakePermit(mpFree)
     \/ ~mpFree.closed /\ ~HasPermit(mpFree) /\ Goes(s, "waiting") /\ mpFree' = WaitFor(mpFree, s)
  /\ UNCHANGED <<mpQueue, mpUsed, mpClosing, mpSent, mpPanicked>>

TrySendBegins(s) ==
  /\ mpTask[s] = "idle" /\ mpSent < MpMaxSent
  /\ ~mpFree.closed /\ HasPermit(mpFree)
  /\ Goes(s, "holding") /\ mpFree' = TakePermit(mpFree)
  /\ UNCHANGED <<mpQueue, mpUsed, mpClosing, mpSent, mpPanicked>>

ReceiveBegins(r) ==
  /\ mpTask[r] = "idle"
  /\ \/ mpUsed.closed /\ Goes(r, "late") /\ UNCHANGED mpUsed
     \/ ~mpUsed.closed /\ HasPermit(mpUsed) /\ Goes(r, "holding") /\ mpUsed' = TakePermit(mpUsed)
     \/ ~mpUsed.closed /\ ~HasPermit(mpUsed) /\ Goes(r, "waiting") /\ mpUsed' = WaitFor(mpUsed, r)
  /\ UNCHANGED <<mpQueue, mpFree, mpClosing, mpSent, mpPanicked>>

SendResumes(s) ==
  /\ mpTask[s] = "waiting" /\ Runs(mpFree, s)
  /\ Goes(s, IF mpFree.closed THEN "idle" ELSE "holding")
  /\ mpFree' = Ran(mpFree, s)
  /\ UNCHANGED <<mpQueue, mpUsed, mpClosing, mpSent, mpPanicked>>

ReceiveResumes(r) ==
  /\ mpTask[r] = "waiting" /\ Runs(mpUsed, r)
  /\ Goes(r, IF mpUsed.closed THEN "late" ELSE "holding")
  /\ mpUsed' = Ran(mpUsed, r)
  /\ UNCHANGED <<mpQueue, mpFree, mpClosing, mpSent, mpPanicked>>

\* The future of send or recv is dropped while it waits.
GivesUp(t) ==
  /\ mpTask[t] = "waiting"
  /\ Goes(t, "idle")
  /\ mpFree' = IF t \in MpSenders THEN GiveUp(mpFree, t) ELSE mpFree
  /\ mpUsed' = IF t \in MpReceivers THEN GiveUp(mpUsed, t) ELSE mpUsed
  /\ UNCHANGED <<mpQueue, mpClosing, mpSent, mpPanicked>>

\* push: the deque, then the permit.
PushMessage(s) ==
  /\ mpTask[s] = "holding" /\ s \in MpSenders
  /\ mpQueue' = Append(mpQueue, mpSent + 1) /\ mpSent' = mpSent + 1
  /\ Goes(s, "adding")
  /\ UNCHANGED <<mpFree, mpUsed, mpClosing, mpPanicked>>

AddUsed(s) ==
  /\ mpTask[s] = "adding" /\ s \in MpSenders
  /\ mpUsed' = AddPermit(mpUsed) /\ Goes(s, "idle")
  /\ UNCHANGED <<mpQueue, mpFree, mpClosing, mpSent, mpPanicked>>

\* pop: the deque, which must not be empty, then the permit.
PopMessage(r) ==
  /\ mpTask[r] = "holding" /\ r \in MpReceivers
  /\ IF mpQueue = <<>>
     THEN mpPanicked' = TRUE /\ Goes(r, "gone") /\ UNCHANGED mpQueue
     ELSE /\ mpQueue' = Tail(mpQueue) /\ Goes(r, "adding") /\ UNCHANGED mpPanicked
  /\ UNCHANGED <<mpFree, mpUsed, mpClosing, mpSent>>

\* Mutant of AddFree: the room is not given back.
AddNothing(r) ==
  /\ mpTask[r] = "adding" /\ r \in MpReceivers
  /\ Goes(r, "idle")
  /\ UNCHANGED <<mpQueue, mpFree, mpUsed, mpClosing, mpSent, mpPanicked>>

AddFree(r) ==
  /\ mpTask[r] = "adding" /\ r \in MpReceivers
  /\ mpFree' = AddPermit(mpFree) /\ Goes(r, "idle")
  /\ UNCHANGED <<mpQueue, mpUsed, mpClosing, mpSent, mpPanicked>>

\* recv on a closed queue takes what is left, without a permit.
PopLate(r) ==
  /\ mpTask[r] = "late"
  /\ mpQueue' = IF mpQueue = <<>> THEN <<>> ELSE Tail(mpQueue)
  /\ Goes(r, "idle")
  /\ UNCHANGED <<mpFree, mpUsed, mpClosing, mpSent, mpPanicked>>

\* close(), called by a task or because the last sender or receiver is dropped.
DropEnd(t) ==
  LET side == IF t \in MpSenders THEN MpSenders ELSE MpReceivers
      last == \A o \in side \ {t} : mpTask[o] = "gone"
  IN /\ mpTask[t] = "idle"
     /\ Goes(t, "gone")
     /\ mpFree' = IF last THEN CloseSemaphore(mpFree) ELSE mpFree
     /\ mpClosing' = (mpClosing \/ last)
     /\ UNCHANGED <<mpQueue, mpUsed, mpSent, mpPanicked>>

CloseFree ==
  /\ \E t \in MpTasks : mpTask[t] = "idle"
  /\ ~mpFree.closed
  /\ mpFree' = CloseSemaphore(mpFree) /\ mpClosing' = TRUE
  /\ UNCHANGED <<mpQueue, mpUsed, mpTask, mpSent, mpPanicked>>

\* Mutant of CloseUsed: the receivers are not told.
CloseUsedLate ==
  /\ mpClosing /\ mpClosing' = FALSE
  /\ UNCHANGED <<mpQueue, mpFree, mpUsed, mpTask, mpSent, mpPanicked>>

CloseUsed ==
  /\ mpClosing /\ mpClosing' = FALSE
  /\ mpUsed' = CloseSemaphore(mpUsed)
  /\ UNCHANGED <<mpQueue, mpFree, mpTask, mpSent, mpPanicked>>

MpmcNext ==
  \/ CloseFree \/ CloseUsed
  \/ \E s \in MpSenders : SendBegins(s) \/ TrySendBegins(s) \/ SendResumes(s) \/ PushMessage(s) \/ AddUsed(s)
  \/ \E r \in MpReceivers : \/ ReceiveBegins(r) \/ ReceiveResumes(r) \/ PopMessage(r) \/ PopLate(r)
                            \/ AddFree(r)
  \/ \E t \in MpTasks : GivesUp(t) \/ DropEnd(t)

MpmcSpec == MpmcInit /\ [][MpmcNext]_mpmcVars

-----------------------------------------------------------------------------
Number(S, pcs) == Cardinality({t \in S : mpTask[t] \in pcs})

\* The two semaphores and the tasks between them account for every place of the
\* channel, whoever is cancelled while a permit is on its way: until the channel
\* is closed, room, messages and permits in hand add up to its size, and a receiver
\* that holds a permit finds a message.
PermitsAddUp ==
  /\ ~mpFree.closed =>
       mpFree.permits + Cardinality(mpFree.given) + Number(MpSenders, {"holding"})
         + Len(mpQueue) + Number(MpReceivers, {"adding"}) = MpSize
  /\ ~mpUsed.closed =>
       /\ Len(mpQueue) = mpUsed.permits + Cardinality(mpUsed.given) + Number(MpReceivers, {"holding"})
                           + Number(MpSenders, {"adding"})
       /\ ~mpPanicked

\* No one sleeps for what is there, and once the channel is closed no one sleeps:
\* a waiting sender has no room, a waiting receiver no message that is ready.
NoOneSleepsInVain ==
  /\ \A s \in MpSenders : mpTask[s] = "waiting" /\ ~Runs(mpFree, s) => mpFree.permits = 0 /\ ~mpFree.closed
  /\ \A r \in MpReceivers : mpTask[r] = "waiting" /\ ~Runs(mpUsed, r) =>
       mpUsed.permits = 0 /\ ~mpUsed.closed /\ (mpFree.closed => mpClosing)

\* The permits account for the places of the channel, and no one sleeps in vain.
MpmcIsSound == PermitsAddUp /\ NoOneSleepsInVain
=============================================================================
