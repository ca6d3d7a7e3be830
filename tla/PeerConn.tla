------------------------------ MODULE PeerConn ------------------------------
(* The task of one connected peer and the two queues it shares with the    *)
(* transceiver (bittorrent/peer/src/actor.rs, outgoing.rs, incoming.rs,    *)
(* state.rs, peer.rs).  Outgoing: blocks we ask the peer for; the          *)
(* transceiver enqueues and drops response handles from its own task while *)
(* the actor sends, dequeues and expires them.  Incoming: blocks the peer  *)
(* asks us for, each waited on by a small task of a JoinQueue.             *)
(* Blocks are of size one; what is only forwarded to the transceiver       *)
(* (Have, Bitfield, Suggest, Port, Extended) changes nothing here.         *)
EXTENDS Naturals, Sequences, FiniteSets, SequencesExt

CONSTANTS
    PcBlocks,
    PcOutLimit, PcInLimit, \* limits of the two queues
    PcTimeout,             \* request_timeout
    PcMaxRequests,         \* bounds the outgoing requests ever made
    PcMaxServed,           \* bounds the incoming requests ever made
    PcMaxTime

VARIABLES
    pcRequests,   \* block -> id of the request it waits for
    pcSize,       \* the outgoing size counter
    pcDeadlines,  \* [at, blk, id]; the id is only for the properties
    pcChoke,      \* blocks waiting for an unchoke
    pcNew, pcCancel,  \* the channels new_recv and cancel_recv
    pcExpired,    \* block returned by expired() and not yet handled, or {}
    pcHandle,     \* id -> [blk, res] of a ResponseRecv that exists
    pcNextId,
    pcChoking,    \* peer_choking
    pcSent,       \* blocks requested on the wire and neither sent nor rejected
    pcClock,
    pcServe,      \* the incoming requests map: block -> id of its task
    pcServeTask,  \* id -> [blk, cancelled, res]: the tasks of the incoming queue
    pcServeNext

outVars == <<pcRequests, pcSize, pcDeadlines, pcChoke, pcNew, pcCancel, pcExpired, pcHandle,
             pcNextId, pcChoking, pcSent, pcClock>>
inVars == <<pcServe, pcServeTask, pcServeNext>>
peerConnVars == <<outVars, inVars>>

PcWithout(f, x) == [y \in DOMAIN f \ {x} |-> f[y]]

PcWith(f, x, v) == [y \in DOMAIN f \cup {x} |-> IF y = x THEN v ELSE f[y]]

PeerConnInit ==
    /\ pcRequests = <<>> /\ pcSize = 0 /\ pcDeadlines = <<>> /\ pcChoke = <<>>
    /\ pcNew = <<>> /\ pcCancel = <<>> /\ pcExpired = {} /\ pcHandle = <<>> /\ pcNextId = 1
    /\ pcChoking = TRUE /\ pcSent = {} /\ pcClock = 0
    /\ pcServe = <<>> /\ pcServeTask = <<>> /\ pcServeNext = 1

-----------------------------------------------------------------------------
(* Outgoing requests. *)

\* QueueUpper::enqueue, from the transceiver.  A block already waited for, or
\* a full queue, makes no request.
Enqueue(b) ==
    /\ b \notin DOMAIN pcRequests
    /\ pcSize + 1 <= PcOutLimit /\ pcNextId <= PcMaxRequests
    /\ pcRequests' = PcWith(pcRequests, b, pcNextId)
    /\ pcSize' = pcSize + 1
    /\ pcDeadlines' = Append(pcDeadlines, [at |-> pcClock + PcTimeout, blk |-> b, id |-> pcNextId])
    /\ pcNew' = Append(pcNew, b)
    /\ pcHandle' = PcWith(pcHandle, pcNextId, [blk |-> b, res |-> "wait"])
    /\ pcNextId' = pcNextId + 1
    /\ UNCHANGED <<pcChoke, pcCancel, pcExpired, pcChoking, pcSent, pcClock>>

Resolved(handles, id, res) ==
    IF id \in DOMAIN handles THEN [handles EXCEPT ![id].res = res] ELSE handles

DequeueLeaky(b, res) ==
    /\ pcRequests' = PcWithout(pcRequests, b)
    /\ pcSize' = IF res = "ok" THEN pcSize - 1 ELSE pcSize
    /\ pcHandle' = IF b \in DOMAIN pcRequests THEN Resolved(pcHandle, pcRequests[b], res)
                                              ELSE pcHandle

\* Queue::dequeue.  Its sender is used, or dropped, which fails the handle.
Dequeue(b, res) ==
    IF b \in DOMAIN pcRequests
    THEN /\ pcRequests' = PcWithout(pcRequests, b)
         /\ pcSize' = pcSize - 1
         /\ pcHandle' = Resolved(pcHandle, pcRequests[b], res)
    ELSE UNCHANGED <<pcRequests, pcSize, pcHandle>>

\* ResponseRecv::drop: cancels whatever request of the block is in the queue.
DropResponse(id) ==
    LET b == pcHandle[id].blk
        held == b \in DOMAIN pcRequests
    IN /\ pcHandle' = PcWithout(IF held THEN Resolved(pcHandle, pcRequests[b], "err") ELSE pcHandle, id)
       /\ pcRequests' = PcWithout(pcRequests, b)
       /\ pcSize' = IF held THEN pcSize - 1 ELSE pcSize
       /\ pcCancel' = IF held THEN Append(pcCancel, b) ELSE pcCancel
       /\ UNCHANGED <<pcDeadlines, pcChoke, pcNew, pcExpired, pcNextId, pcChoking, pcSent, pcClock>>

\* handle_new, with AllowedFast or without.
HandleNew(fast) ==
    /\ pcNew # <<>> /\ pcNew' = Tail(pcNew)
    /\ IF ~ pcChoking \/ fast
       THEN pcSent' = pcSent \cup {Head(pcNew)} /\ UNCHANGED pcChoke
       ELSE pcChoke' = Append(pcChoke, Head(pcNew)) /\ UNCHANGED pcSent
    /\ UNCHANGED <<pcRequests, pcSize, pcDeadlines, pcCancel, pcExpired, pcHandle, pcNextId,
                   pcChoking, pcClock>>

\* handle_cancel: Message::Cancel on the wire, which the peer may ignore.
HandleCancel ==
    /\ pcCancel # <<>> /\ pcCancel' = Tail(pcCancel)
    /\ UNCHANGED <<pcRequests, pcSize, pcDeadlines, pcChoke, pcNew, pcExpired, pcHandle, pcNextId,
                   pcChoking, pcSent, pcClock>>

\* Message::Choke and Message::Unchoke; the latter sends what was held back
\* and is still wanted.
RecvChoke ==
    /\ pcChoking' = TRUE
    /\ UNCHANGED <<pcRequests, pcSize, pcDeadlines, pcChoke, pcNew, pcCancel, pcExpired, pcHandle,
                   pcNextId, pcSent, pcClock>>

RecvUnchokeLater ==
    /\ pcChoking' = FALSE
    /\ UNCHANGED <<pcRequests, pcSize, pcDeadlines, pcChoke, pcNew, pcCancel, pcExpired, pcHandle,
                   pcNextId, pcSent, pcClock>>

RecvUnchoke ==
    /\ pcChoking' = FALSE
    /\ pcSent' = pcSent \cup (Range(pcChoke) \cap DOMAIN pcRequests)
    /\ pcChoke' = <<>>
    /\ UNCHANGED <<pcRequests, pcSize, pcDeadlines, pcNew, pcCancel, pcExpired, pcHandle,
                   pcNextId, pcClock>>

\* Message::Piece and Message::Reject.  A piece nobody waits for goes to the
\* transceiver as an unsolicited block.
RecvAnswer(b, res) ==
    /\ Dequeue(b, res)
    /\ pcSent' = pcSent \ {b}
    /\ UNCHANGED <<pcDeadlines, pcChoke, pcNew, pcCancel, pcExpired, pcNextId, pcChoking, pcClock>>

\* pop_expired: entries of blocks no longer waited for are skipped.
FirstLive == SelectInSeq(pcDeadlines, LAMBDA d : d.blk \in DOMAIN pcRequests)

PopExpiredUndue ==
    /\ pcExpired = {} /\ FirstLive # 0
    /\ pcExpired' = {d \in {pcDeadlines[FirstLive]} : d.at <= pcClock}
    /\ pcDeadlines' = SubSeq(pcDeadlines, FirstLive + 1, Len(pcDeadlines))
    /\ UNCHANGED <<pcRequests, pcSize, pcChoke, pcNew, pcCancel, pcHandle, pcNextId, pcChoking,
                   pcSent, pcClock>>

PopExpired ==
    /\ pcExpired = {} /\ FirstLive # 0
    /\ pcDeadlines[FirstLive].at <= pcClock
    /\ pcExpired' = {pcDeadlines[FirstLive]}
    /\ pcDeadlines' = SubSeq(pcDeadlines, FirstLive + 1, Len(pcDeadlines))
    /\ UNCHANGED <<pcRequests, pcSize, pcChoke, pcNew, pcCancel, pcHandle, pcNextId, pcChoking,
                   pcSent, pcClock>>

\* handle_expired, after another lock of the queue.
HandleExpired ==
    \E d \in pcExpired :
        /\ pcExpired' = {}
        /\ Dequeue(d.blk, "err")
        /\ UNCHANGED <<pcDeadlines, pcChoke, pcNew, pcCancel, pcNextId, pcChoking, pcSent, pcClock>>

PcTick ==
    /\ pcClock < PcMaxTime /\ pcClock' = pcClock + 1
    /\ UNCHANGED <<pcRequests, pcSize, pcDeadlines, pcChoke, pcNew, pcCancel, pcExpired, pcHandle,
                   pcNextId, pcChoking, pcSent>>

\* While expired() has returned a block the actor does nothing else.
OutgoingNext ==
    \/ \E b \in PcBlocks : Enqueue(b)
    \/ \E id \in DOMAIN pcHandle : DropResponse(id)
    \/ PcTick
    \/ HandleExpired
    \/ /\ pcExpired = {}
       /\ \/ \E fast \in BOOLEAN : HandleNew(fast)
          \/ HandleCancel
          \/ RecvChoke
          \/ RecvUnchoke
          \/ \E b \in PcBlocks : RecvAnswer(b, "ok") \/ RecvAnswer(b, "err")
          \/ PopExpired

-----------------------------------------------------------------------------
(* Incoming requests. *)

\* Message::Request while not choking: enqueue spawns the waiting task.
ServeEnqueue(b) ==
    /\ b \notin DOMAIN pcServe /\ Cardinality(DOMAIN pcServe) + 1 <= PcInLimit
    /\ pcServeNext <= PcMaxServed
    /\ pcServe' = PcWith(pcServe, b, pcServeNext)
    /\ pcServeTask' = PcWith(pcServeTask, pcServeNext, [blk |-> b, cancelled |-> FALSE, res |-> "wait"])
    /\ pcServeNext' = pcServeNext + 1

\* Message::Cancel
ServeCancel(b) ==
    /\ b \in DOMAIN pcServe
    /\ pcServe' = PcWithout(pcServe, b)
    /\ pcServeTask' = [pcServeTask EXCEPT ![pcServe[b]].cancelled = TRUE]
    /\ UNCHANGED pcServeNext

\* The transceiver answers through ResponseSend, or drops it.
ServeAnswer(id, res) ==
    /\ pcServeTask[id].res = "wait"
    /\ pcServeTask' = [pcServeTask EXCEPT ![id].res = res]
    /\ UNCHANGED <<pcServe, pcServeNext>>

DequeuedKept(b) == pcServe

\* Inner::remove
Dequeued(b) == PcWithout(pcServe, b)

\* dequeue: a task that ended with a response is sent to the peer, a Piece or
\* a Reject; a task that saw its cancellation first is skipped.  A task both
\* cancelled and answered may do either.
ServeDequeue(id) ==
    LET task == pcServeTask[id]
    IN /\ pcServeTask' = PcWithout(pcServeTask, id)
       /\ \/ task.res # "wait" /\ pcServe' = Dequeued(task.blk)
          \/ task.cancelled /\ UNCHANGED pcServe
       /\ UNCHANGED pcServeNext

IncomingNext ==
    \/ \E b \in PcBlocks : ServeEnqueue(b) \/ ServeCancel(b)
    \/ \E id \in DOMAIN pcServeTask :
            ServeAnswer(id, "ok") \/ ServeAnswer(id, "err") \/ ServeDequeue(id)

(* The two queues share no state, so each is explored on its own. *)

-----------------------------------------------------------------------------

\* The outgoing size is exactly that of the requests held, through answers,
\* rejections, timeouts and cancellations from two tasks: no block leaks room,
\* and a handle is answered exactly when its request has left the queue.
OutgoingIsCounted ==
    /\ pcSize = Cardinality(DOMAIN pcRequests) /\ pcSize <= PcOutLimit
    /\ \A id \in DOMAIN pcHandle :
            pcHandle[id].res = "wait" <=>
                (pcHandle[id].blk \in DOMAIN pcRequests /\ pcRequests[pcHandle[id].blk] = id)

\* Every request held will time out if the peer is silent: it has a deadline,
\* not later than its own, still to be reached, or is being expired.
RequestHasDeadline ==
    \A b \in DOMAIN pcRequests :
        \E d \in Range(pcDeadlines) \cup pcExpired : d.blk = b /\ d.at <= pcClock + PcTimeout

\* No request is forgotten: it is on its way to the actor, held back while
\* the peer chokes us, or on the wire; and nothing is held back once the peer
\* no longer chokes us.
RequestIsSent ==
    /\ DOMAIN pcRequests \subseteq Range(pcNew) \cup Range(pcChoke) \cup pcSent
    /\ pcChoke # <<>> => pcChoking

\* An incoming request in the map has a task that is not cancelled and will
\* remove it: cancelling, answering and asking again for the same block in
\* any order never leaks room for the peer's requests.
ServedIsRemoved ==
    \A b \in DOMAIN pcServe :
        LET id == pcServe[b]
        IN id \in DOMAIN pcServeTask /\ pcServeTask[id].blk = b /\ ~ pcServeTask[id].cancelled

\* Requests in either direction are kept, timed, sent and given up consistently.
RequestsAreKept == OutgoingIsCounted /\ RequestHasDeadline /\ RequestIsSent /\ ServedIsRemoved
=============================================================================
