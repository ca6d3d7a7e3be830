------------------------------ MODULE Broadcast ------------------------------
(***************************************************************************)
(* The broadcast queue of g1/tokio/src/sync/broadcast.rs: every value goes *)
(* to every receiver that has subscribed before it was sent, and a sender  *)
(* waits while the slowest receiver has not made room.                     *)
(*                                                                         *)
(* The mutex makes every operation on the queue one step; creating the     *)
(* futures, trying, looking at num_senders and awaiting are separate ones. *)
(* The n-th value that is sent is n.                                       *)
(***************************************************************************)
EXTENDS Integers, TokioSync

CONSTANTS
  BcSenders, BcReceivers,
  BcCapacity,   \* of the buffer, a power of two
  BcSerials,    \* how many serials there are: a multiple of the capacity, 2^64
  BcMaxSent     \* bound: how many values are sent

VARIABLES
  bcQueue,      \* [slots, start, len]
  bcTx, bcRx,   \* where the senders and the receivers are
  bcNotEmpty, bcNotFull,
  bcSent,       \* the number of values that have been sent
  bcDropped     \* whether a receiver has been dropped

broadcastVars == <<bcQueue, bcTx, bcRx, bcNotEmpty, bcNotFull, bcSent, bcDropped>>

NoValue == 0
NextSerial(s, n) == (s + n) % BcSerials
SlotOf(s) == s % BcCapacity
QueueEnd(q) == NextSerial(q.start, q.len)
IsFull(q) == q.len >= BcCapacity

NoReceiver == [pc |-> "gone", serial |-> 0, from |-> 0, got |-> <<>>]

NewQueue == [slots |-> [i \in 0 .. BcCapacity - 1 |->
                          [value |-> NoValue, serial |-> i, now |-> 0, next |-> 0]],
             start |-> 0, len |-> 0]

\* The receiver that channel() returns is the first that subscribes.
BroadcastInit ==
  /\ bcQueue = NewQueue
  /\ bcTx = [s \in BcSenders |-> "idle"]
  /\ bcRx = [r \in BcReceivers |-> NoReceiver]
  /\ bcNotEmpty = NewNotify /\ bcNotFull = NewNotify
  /\ bcSent = 0 /\ bcDropped = FALSE

\* num_receivers_mut: the count of the slot, in this cycle or in the next one.
Count(q, serial, d) ==
  LET i == SlotOf(serial)
  IN IF q.slots[i].serial = serial THEN [q EXCEPT !.slots[i].now = @ + d]
                                   ELSE [q EXCEPT !.slots[i].next = @ + d]

\* Mutant of Freed: the readers that wait for the next cycle are forgotten.
FreedForgetful(slot) ==
  [value |-> NoValue, serial |-> NextSerial(slot.serial, BcCapacity), now |-> 0, next |-> 0]

Freed(slot) ==
  [value |-> NoValue, serial |-> NextSerial(slot.serial, BcCapacity), now |-> slot.next, next |-> 0]

\* The slots at the start that no receiver will read are prepared for the next cycle.
Cleanup(q) ==
  LET Slot(k) == q.slots[SlotOf(q.start + k)]
      n == CHOOSE k \in 0 .. q.len :
             (\A j \in 0 .. k - 1 : Slot(j).now = 0) /\ (k = q.len \/ Slot(k).now # 0)
  IN [slots |-> [i \in DOMAIN q.slots |->
                   IF \E j \in 0 .. n - 1 : SlotOf(q.start + j) = i THEN Freed(q.slots[i]) ELSE q.slots[i]],
      start |-> NextSerial(q.start, n), len |-> q.len - n]

PushResult(q) == IF IsFull(q) THEN "full"
                 ELSE IF q.len > 0 \/ q.slots[SlotOf(QueueEnd(q))].now > 0 THEN "ok" ELSE "no receiver"
Pushed(q, v) == [q EXCEPT !.slots[SlotOf(QueueEnd(q))].value = v, !.len = @ + 1]

\* Mutant of Readable: a slot of the cycle before is read again.
ReadableAgain(q, serial) == q.slots[SlotOf(serial)].value # NoValue

Readable(q, serial) == LET slot == q.slots[SlotOf(serial)]
                       IN slot.serial = serial /\ slot.value # NoValue
AfterRead(q, serial) == Cleanup(Count(Count(q, serial, -1), NextSerial(serial, 1), 1))

(* Senders. *)

Send(s) ==
  /\ bcTx[s] = "idle"
  /\ bcTx' = [bcTx EXCEPT ![s] = "trying"]
  /\ bcNotFull' = Enable(bcNotFull, s)
  /\ UNCHANGED <<bcQueue, bcRx, bcNotEmpty, bcSent, bcDropped>>

\* try_send, and what send does with its result.
TrySend(s) ==
  LET result == PushResult(bcQueue)
  IN /\ bcTx[s] = "trying" /\ (result = "ok" => bcSent < BcMaxSent)
     /\ bcTx' = [bcTx EXCEPT ![s] = IF result = "full" THEN "waiting" ELSE "idle"]
     /\ bcNotFull' = IF result = "full" THEN bcNotFull ELSE Forget(bcNotFull, s)
     /\ IF result = "ok"
        THEN /\ bcQueue' = Pushed(bcQueue, bcSent + 1) /\ bcSent' = bcSent + 1
             /\ bcNotEmpty' = NotifyWaiters(bcNotEmpty)
        ELSE UNCHANGED <<bcQueue, bcSent, bcNotEmpty>>
     /\ UNCHANGED <<bcRx, bcDropped>>

SendAwakes(s) ==
  /\ bcTx[s] = "waiting" /\ Notified(bcNotFull, s)
  /\ bcTx' = [bcTx EXCEPT ![s] = "trying"]
  /\ bcNotFull' = Enable(Awaited(bcNotFull, s), s)
  /\ UNCHANGED <<bcQueue, bcRx, bcNotEmpty, bcSent, bcDropped>>

\* The future of send is dropped.
SendCancelled(s) ==
  /\ bcTx[s] = "waiting"
  /\ bcTx' = [bcTx EXCEPT ![s] = "idle"]
  /\ bcNotFull' = Forget(bcNotFull, s)
  /\ UNCHANGED <<bcQueue, bcRx, bcNotEmpty, bcSent, bcDropped>>

\* Sender::drop counts the sender off and, if it was the last, calls the receivers.
DropSender(s) ==
  /\ bcTx[s] = "idle"
  /\ bcTx' = [bcTx EXCEPT ![s] = IF \A t \in BcSenders \ {s} : bcTx[t] \in {"gone", "closing"}
                                 THEN "closing" ELSE "gone"]
  /\ UNCHANGED <<bcQueue, bcRx, bcNotEmpty, bcNotFull, bcSent, bcDropped>>

\* Mutant of CloseChannel: the receivers are not called.
CloseQuietly(s) ==
  /\ bcTx[s] = "closing"
  /\ bcTx' = [bcTx EXCEPT ![s] = "gone"]
  /\ UNCHANGED <<bcQueue, bcRx, bcNotEmpty, bcNotFull, bcSent, bcDropped>>

CloseChannel(s) ==
  /\ bcTx[s] = "closing"
  /\ bcTx' = [bcTx EXCEPT ![s] = "gone"]
  /\ bcNotEmpty' = NotifyWaiters(bcNotEmpty)
  /\ UNCHANGED <<bcQueue, bcRx, bcNotFull, bcSent, bcDropped>>

BcClosed == \A s \in BcSenders : bcTx[s] \in {"gone", "closing"}

(* Receivers. *)

\* A receiver that subscribes, at a sender or at another receiver, gets what is
\* sent from now on.
Subscribe(r) ==
  /\ bcRx[r].pc = "gone"
  /\ ~BcClosed \/ \E o \in BcReceivers : bcRx[o].pc # "gone"
  /\ bcRx' = [bcRx EXCEPT ![r] = [pc |-> "idle", serial |-> QueueEnd(bcQueue), from |-> bcSent,
                                  got |-> <<>>]]
  /\ bcQueue' = Count(bcQueue, QueueEnd(bcQueue), 1)
  /\ UNCHANGED <<bcTx, bcNotEmpty, bcNotFull, bcSent, bcDropped>>

Receive(r) ==
  /\ bcRx[r].pc = "idle"
  /\ bcRx' = [bcRx EXCEPT ![r].pc = "trying"]
  /\ bcNotEmpty' = Enable(bcNotEmpty, r)
  /\ UNCHANGED <<bcQueue, bcTx, bcNotFull, bcSent, bcDropped>>

\* Mutant of ReadValue: room is announced only when the queue was full.
ReadValueWhenFull(r) ==
  LET serial == bcRx[r].serial
      q == AfterRead(bcQueue, serial)
  IN /\ bcRx[r].pc = "trying" /\ Readable(bcQueue, serial)
     /\ bcRx' = [bcRx EXCEPT ![r].pc = "idle", ![r].serial = NextSerial(@, 1),
                             ![r].got = Append(@, bcQueue.slots[SlotOf(serial)].value)]
     /\ bcQueue' = q
     /\ bcNotEmpty' = Forget(bcNotEmpty, r)
     /\ bcNotFull' = IF IsFull(bcQueue) /\ ~IsFull(q) THEN NotifyOne(bcNotFull) ELSE bcNotFull
     /\ UNCHANGED <<bcTx, bcSent, bcDropped>>

\* recv_impl, when there is a value.
ReadValue(r) ==
  LET serial == bcRx[r].serial
      q == AfterRead(bcQueue, serial)
  IN /\ bcRx[r].pc = "trying" /\ Readable(bcQueue, serial)
     /\ bcRx' = [bcRx EXCEPT ![r].pc = "idle", ![r].serial = NextSerial(@, 1),
                             ![r].got = Append(@, bcQueue.slots[SlotOf(serial)].value)]
     /\ bcQueue' = q
     /\ bcNotEmpty' = Forget(bcNotEmpty, r)
     /\ bcNotFull' = IF IsFull(q) THEN bcNotFull ELSE NotifyOne(bcNotFull)
     /\ UNCHANGED <<bcTx, bcSent, bcDropped>>

ReadNothing(r) ==
  /\ bcRx[r].pc = "trying" /\ ~Readable(bcQueue, bcRx[r].serial)
  /\ bcRx' = [bcRx EXCEPT ![r].pc = "checking"]
  /\ UNCHANGED <<bcQueue, bcTx, bcNotEmpty, bcNotFull, bcSent, bcDropped>>

CheckClosed(r) ==
  /\ bcRx[r].pc = "checking"
  /\ bcRx' = [bcRx EXCEPT ![r].pc = IF BcClosed THEN "idle" ELSE "waiting"]
  /\ bcNotEmpty' = IF BcClosed THEN Forget(bcNotEmpty, r) ELSE bcNotEmpty
  /\ UNCHANGED <<bcQueue, bcTx, bcNotFull, bcSent, bcDropped>>

ReceiveAwakes(r) ==
  /\ bcRx[r].pc = "waiting" /\ Notified(bcNotEmpty, r)
  /\ bcRx' = [bcRx EXCEPT ![r].pc = "trying"]
  /\ bcNotEmpty' = Enable(Awaited(bcNotEmpty, r), r)
  /\ UNCHANGED <<bcQueue, bcTx, bcNotFull, bcSent, bcDropped>>

DropReceiver(r) ==
  LET q == Count(bcQueue, bcRx[r].serial, -1)
      i == SlotOf(bcRx[r].serial)
      left == IF q.slots[i].serial = bcRx[r].serial THEN q.slots[i].now ELSE q.slots[i].next
  IN /\ bcRx[r].pc \in {"idle", "waiting"}
     /\ bcRx' = [bcRx EXCEPT ![r] = NoReceiver]
     /\ bcQueue' = IF left = 0 THEN Cleanup(q) ELSE q
     /\ bcNotEmpty' = IF bcRx[r].pc = "waiting" THEN Forget(bcNotEmpty, r) ELSE bcNotEmpty
     /\ bcDropped' = TRUE
     /\ UNCHANGED <<bcTx, bcNotFull, bcSent>>

BroadcastNext ==
  \/ \E s \in BcSenders : \/ Send(s) \/ TrySend(s) \/ SendAwakes(s) \/ SendCancelled(s)
                          \/ DropSender(s) \/ CloseChannel(s)
  \/ \E r \in BcReceivers : \/ Subscribe(r) \/ Receive(r) \/ ReadValue(r) \/ ReadNothing(r)
                            \/ CheckClosed(r) \/ ReceiveAwakes(r) \/ DropReceiver(r)

-----------------------------------------------------------------------------
Live == {r \in BcReceivers : bcRx[r].pc # "gone"}

\* What the assertions of the queue rely on: the slots from start on hold the
\* values, one per serial, the others are vacant and belong to the next serials,
\* and their counts are the numbers of receivers that stand there.
SlotsAreCounted ==
  \A k \in 0 .. BcCapacity - 1 :
    LET serial == NextSerial(bcQueue.start, k)
        slot == bcQueue.slots[SlotOf(serial)]
        At(n) == Cardinality({r \in Live : bcRx[r].serial = n})
    IN /\ slot.serial = serial /\ (slot.value # NoValue <=> k < bcQueue.len)
       /\ slot.now = At(serial) /\ slot.next = At(NextSerial(serial, BcCapacity))

\* A receiver gets the values that were sent since it subscribed, all of them and
\* in order: what it has, and the value at its serial if there is one to come.
BroadcastInOrder ==
  \A r \in Live :
    LET n == bcRx[r].from + Len(bcRx[r].got)
    IN /\ \A i \in DOMAIN bcRx[r].got : bcRx[r].got[i] = bcRx[r].from + i
       /\ n < bcSent => bcQueue.slots[SlotOf(bcRx[r].serial)].value = n + 1

\* A receiver that waits has nothing to read, or it has been notified; and it is
\* not left waiting when the last sender is gone.
ReceiverIsWoken ==
  \A r \in BcReceivers :
    bcRx[r].pc = "waiting" /\ (Readable(bcQueue, bcRx[r].serial) \/ \A s \in BcSenders : bcTx[s] = "gone")
      => Notified(bcNotEmpty, r)

\* Room is announced: when the queue has room, not every sender waits for it
\* without having been notified.  This holds until a receiver is dropped, for that
\* makes room, or leaves no one to send to, and tells no sender.
RoomIsAnnounced ==
  ~IsFull(bcQueue) /\ ~bcDropped /\ (\E s \in BcSenders : bcTx[s] = "waiting")
    => \E s \in BcSenders : bcTx[s] = "trying" \/ Notified(bcNotFull, s)

\* A value that was accepted is not held for ever by a receiver that is gone: the
\* oldest value in the queue is one that a receiver has yet to read.
OldestIsAwaited ==
  bcQueue.len > 0 => \E r \in Live : bcRx[r].serial = bcQueue.start

\* The channel delivers every value to every receiver and wakes whom it must, while
\* its slots are reused and senders and receivers come and go.
BroadcastIsExact == SlotsAreCounted /\ BroadcastInOrder /\ OldestIsAwaited /\ ReceiverIsWoken /\ RoomIsAnnounced
=============================================================================
