------------------------------- MODULE ReqRep -------------------------------
(***************************************************************************)
(* Request and response over a datagram socket: the actor of g1/msg        *)
(* (reqrep.rs), the loop and the stub that g1_actor generates for it       *)
(* (g1/actor/attribute, loop_.rs and stub.rs) and the DHT client on top of *)
(* it (bt/dht/reqrep).  An id is an endpoint and a transaction id.  The    *)
(* network delays, repeats and drops messages, and the other end may use   *)
(* an id of ours in a query of its own.                                    *)
(***************************************************************************)
EXTENDS Integers, FiniteSets, Sequences, SequencesExt

CONSTANTS
  RrCalls,       \* calls of request
  RrIds,         \* ids: they are drawn at random, a collision is possible
  RrQueueSize,   \* the stub's queue, 16 in the code
  RrAcceptSize,  \* accept_queue_size
  RrTimeout,     \* request_timeout
  RrMaxSent,     \* bound: messages from other ends
  RrMaxTime      \* bound: how far the clock goes

VARIABLES
  rrCall,        \* state of a call: idle, queued, waiting, ok, refused, none, gone
  rrId,          \* the id a call drew, 0 before
  rrQueue,       \* the stub's message queue: [kind, call] or [kind, id]
  rrRequests,    \* ReqRepActor::requests: [id, at, call], in the order of insertion
  rrAccept,      \* the accept queue: [id, kind]
  rrServed,      \* ids of the queries accepted, not answered yet
  rrLoop,        \* the actor: "run" or why it ended
  rrAsked,       \* ids on the wire, one for every request sent
  rrSent,        \* the ids of the messages delivered so far
  rrClock

reqRepVars == <<rrCall, rrId, rrQueue, rrRequests, rrAccept, rrServed, rrLoop, rrAsked, rrSent, rrClock>>

ReqRepInit ==
    /\ rrCall = [c \in RrCalls |-> "idle"] /\ rrId = [c \in RrCalls |-> 0]
    /\ rrQueue = <<>> /\ rrRequests = <<>> /\ rrAccept = <<>> /\ rrServed = <<>>
    /\ rrLoop = "run" /\ rrAsked = {} /\ rrSent = <<>> /\ rrClock = 0

(* The stub: send to the bounded queue, then wait for the result. *)

\* request_impl up to the stub's send.  The queue is closed once the loop has ended.
Request(call, id) ==
    /\ rrCall[call] = "idle"
    /\ rrId' = [rrId EXCEPT ![call] = id]
    /\ IF rrLoop = "run"
       THEN /\ Len(rrQueue) < RrQueueSize
            /\ rrQueue' = Append(rrQueue, [kind |-> "request", call |-> call])
            /\ rrCall' = [rrCall EXCEPT ![call] = "queued"]
       ELSE rrCall' = [rrCall EXCEPT ![call] = "none"] /\ UNCHANGED rrQueue
    /\ UNCHANGED <<rrRequests, rrAccept, rrServed, rrLoop, rrAsked, rrSent, rrClock>>

\* The caller's future is dropped.
Abandon(call) ==
    /\ rrCall[call] \in {"queued", "waiting"}
    /\ rrCall' = [rrCall EXCEPT ![call] = "gone"]
    /\ UNCHANGED <<rrId, rrQueue, rrRequests, rrAccept, rrServed, rrLoop, rrAsked, rrSent, rrClock>>

\* Mutant of Dropped: the calls still in the queue are forgotten.
DroppedRequests == {rrRequests[i].call : i \in DOMAIN rrRequests}

\* The calls whose sender is dropped with the loop.
Dropped ==
    {rrRequests[i].call : i \in DOMAIN rrRequests}
    \cup {rrQueue[i].call : i \in {j \in DOMAIN rrQueue : rrQueue[j].kind = "request"}}

EndLoop(why) ==
    /\ rrLoop' = why
    /\ rrCall' = [c \in RrCalls |-> IF c \in Dropped /\ rrCall[c] # "gone" THEN "none" ELSE rrCall[c]]
    /\ rrRequests' = <<>> /\ rrQueue' = <<>>

(* The branches of the loop's select. *)

\* Cancelled, the incoming stream ended or failed.
LoopEnds ==
    /\ rrLoop = "run" /\ EndLoop("ended")
    /\ UNCHANGED <<rrId, rrAccept, rrServed, rrAsked, rrSent, rrClock>>

\* request: the outgoing message may fail, which ends the loop, and a second request of
\* the same id panics.
OnRequest(sent) ==
    LET call == Head(rrQueue).call
        id == rrId[call]
    IN /\ rrLoop = "run" /\ rrQueue # <<>> /\ Head(rrQueue).kind = "request"
       /\ IF ~sent THEN EndLoop("failed") /\ UNCHANGED rrAsked
          ELSE /\ rrAsked' = rrAsked \cup {id}
               /\ IF \E i \in DOMAIN rrRequests : rrRequests[i].id = id THEN EndLoop("panicked")
                  ELSE /\ rrQueue' = Tail(rrQueue)
                       /\ rrRequests' = Append(rrRequests, [id |-> id, at |-> rrClock + RrTimeout, call |-> call])
                       /\ rrCall' = IF rrCall[call] = "gone" THEN rrCall
                                    ELSE [rrCall EXCEPT ![call] = "waiting"]
                       /\ UNCHANGED rrLoop
       /\ UNCHANGED <<rrId, rrAccept, rrServed, rrSent, rrClock>>

\* send_response.
OnSendResponse(sent) ==
    /\ rrLoop = "run" /\ rrQueue # <<>> /\ Head(rrQueue).kind = "response"
    /\ IF sent THEN rrQueue' = Tail(rrQueue) /\ UNCHANGED <<rrLoop, rrCall, rrRequests>>
       ELSE EndLoop("failed")
    /\ UNCHANGED <<rrId, rrAccept, rrServed, rrAsked, rrSent, rrClock>>

\* Mutant of InTime: a late response is taken.
InTimeAlways(entry) == TRUE

InTime(entry) == rrClock <= entry.at

\* request_impl and request: what the client makes of the message it gets.
Outcome(kind) == IF kind = "response" THEN "ok" ELSE "refused"

\* Mutant of Delivered: the oldest request gets the message.
DeliveredFirst(id) == 1 .. (IF rrRequests = <<>> THEN 0 ELSE 1)

Delivered(id) == {i \in DOMAIN rrRequests : rrRequests[i].id = id}

\* on_incoming: a message of an id that waits is its response, any other is a request.
OnIncoming(id, kind) ==
    /\ rrLoop = "run" /\ Len(rrSent) < RrMaxSent /\ rrSent' = Append(rrSent, id)
    /\ kind # "query" => id \in rrAsked
    /\ IF Delivered(id) # {}
       THEN \E i \in Delivered(id) :
              /\ rrRequests' = RemoveAt(rrRequests, i)
              /\ rrCall' = IF rrCall[rrRequests[i].call] = "gone" THEN rrCall
                           ELSE [rrCall EXCEPT ![rrRequests[i].call] =
                                   IF InTime(rrRequests[i]) THEN Outcome(kind) ELSE "none"]
              /\ UNCHANGED rrAccept
       ELSE /\ rrAccept' = IF Len(rrAccept) < RrAcceptSize
                           THEN Append(rrAccept, [id |-> id, kind |-> kind]) ELSE rrAccept
            /\ UNCHANGED <<rrRequests, rrCall>>
    /\ UNCHANGED <<rrId, rrQueue, rrServed, rrLoop, rrAsked, rrClock>>

\* Mutant of TimedOut: all requests from the deadline on.
TimedOutAll == DOMAIN rrRequests

\* on_timeout: the requests from the front whose deadline has passed.
TimedOut == {i \in DOMAIN rrRequests : \A j \in 1 .. i : rrRequests[j].at < rrClock}

OnTimeout ==
    LET out == {rrRequests[i].call : i \in TimedOut}
    IN /\ rrLoop = "run" /\ rrRequests # <<>> /\ Head(rrRequests).at <= rrClock
       /\ rrRequests' = SelectSeq(rrRequests, LAMBDA e : e.call \notin out)
       /\ rrCall' = [c \in RrCalls |-> IF c \in out /\ rrCall[c] # "gone" THEN "none" ELSE rrCall[c]]
       /\ UNCHANGED <<rrId, rrQueue, rrAccept, rrServed, rrLoop, rrAsked, rrSent, rrClock>>

(* The accepting side. *)

\* accept of bt/dht/reqrep: a response that no request waits for is skipped.
Accept ==
    /\ rrAccept # <<>>
    /\ rrAccept' = Tail(rrAccept)
    /\ rrServed' = IF Head(rrAccept).kind = "query" THEN Append(rrServed, Head(rrAccept).id) ELSE rrServed
    /\ UNCHANGED <<rrCall, rrId, rrQueue, rrRequests, rrLoop, rrAsked, rrSent, rrClock>>

\* ResponseSend::send.
Respond ==
    /\ rrServed # <<>> /\ rrServed' = Tail(rrServed)
    /\ IF rrLoop # "run" THEN UNCHANGED rrQueue
       ELSE Len(rrQueue) < RrQueueSize
            /\ rrQueue' = Append(rrQueue, [kind |-> "response", id |-> Head(rrServed)])
    /\ UNCHANGED <<rrCall, rrId, rrRequests, rrAccept, rrLoop, rrAsked, rrSent, rrClock>>

Elapse ==
    /\ rrClock < RrMaxTime /\ rrClock' = rrClock + 1
    /\ UNCHANGED <<rrCall, rrId, rrQueue, rrRequests, rrAccept, rrServed, rrLoop, rrAsked, rrSent>>

ReqRepNext ==
    \/ \E call \in RrCalls : Abandon(call) \/ \E id \in RrIds : Request(call, id)
    \/ LoopEnds \/ OnTimeout \/ Accept \/ Respond \/ Elapse
    \/ \E sent \in BOOLEAN : OnRequest(sent) \/ OnSendResponse(sent)
    \/ \E id \in RrIds, kind \in {"response", "error", "query"} : OnIncoming(id, kind)

-----------------------------------------------------------------------------

\* No caller of request is left waiting: one that waits is known to the running actor,
\* in its queue or under its own id with a deadline, and none waits once the loop has
\* ended, by a panic or a failed send too.
CallersAreKnown ==
    \A c \in RrCalls :
        /\ rrCall[c] = "queued" => \E i \in DOMAIN rrQueue : rrQueue[i].kind = "request" /\ rrQueue[i].call = c
        /\ rrCall[c] = "waiting" =>
             \E i \in DOMAIN rrRequests : rrRequests[i].call = c /\ rrRequests[i].id = rrId[c]

\* The requests are in the order of their deadlines, so the timer waits for the first
\* one to be due.
DeadlinesAreSorted ==
    \A i, j \in DOMAIN rrRequests : i < j => rrRequests[i].at <= rrRequests[j].at /\ rrRequests[i].id # rrRequests[j].id

\* A call that waits only ends with a message of its own id that came in time, only
\* times out after its deadline, and fails before that only with the loop.
EndIsEarned(c) ==
    LET e == CHOOSE e \in ToSet(rrRequests) : e.call = c
    IN CASE rrCall'[c] \in {"ok", "refused"} -> rrClock <= e.at /\ rrSent' = Append(rrSent, rrId[c])
         [] rrCall'[c] = "none" -> rrLoop' # "run" \/ rrClock > e.at
         [] OTHER -> rrCall'[c] = "gone"

\* Every request of a DHT client ends, and with its own response or for a reason.
RequestsAreAnswered ==
    [][/\ CallersAreKnown' /\ DeadlinesAreSorted'
       /\ \A c \in RrCalls : rrCall[c] = "waiting" /\ rrCall'[c] # "waiting" => EndIsEarned(c)]_reqRepVars
=============================================================================
