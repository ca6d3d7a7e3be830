---------------------------- MODULE Transceiver ----------------------------
(* The actor that downloads and uploads one torrent                        *)
(* (bittorrent/transceiver/src/actor, queue.rs, progress.rs).  It owns the *)
(* scheduler and, per piece in progress, the blocks still to be requested  *)
(* and the byte ranges still to be received; the manager's peers live in   *)
(* other tasks.  One action is one turn of its select loop: the handler of *)
(* a message and the trailing backoff, request and idle bookkeeping.       *)
(* The actor's state is the record `tx`:                                   *)
(*   tx.sched    the Scheduler            tx.pieces   self_pieces          *)
(*   tx.queues   piece -> [requests, left, got] of pieces in progress      *)
(*   tx.waits    bag of requests awaiting a response: `responses`          *)
(*   tx.endgame, tx.running, tx.budget (of the model), tx.unseen (ghost:   *)
(*               bytes not received of pieces taken for complete)          *)
(* A block is a byte range <<piece, start, end>>.                          *)
EXTENDS PieceScheduler, BagsExt

CONSTANTS
    TxPlans,         \* instances: [peers, size], size[piece] in bytes; blocks are one byte
    TxLimit,         \* the requests a peer's outgoing queue holds
    TxEndgame,       \* pieces missing when the endgame starts
    TxBudget         \* bounds the connections, failures and ticks together

VARIABLES
    txPlan,    \* the instance, one of TxPlans
    tx,
    txPeers,   \* the manager's map: the peers connected
    txUpdates, \* peer updates sent by the manager and not yet received
    txClock,
    txLost     \* ghost: blocks whose response came after their peer was removed

transceiverVars == <<txPlan, tx, txPeers, txUpdates, txClock, txLost>>

Ranges(piece) ==
    {r \in {piece} \X (0..txPlan.size[piece]) \X (0..txPlan.size[piece]) : r[2] < r[3]}

BlockDescs(piece) == {<<piece, i, i + 1>> : i \in 0..txPlan.size[piece] - 1}

Bytes(r) == r[2]..r[3] - 1

HollowOutLeft(left, r) ==
    FlattenSeq([i \in 1..Len(left) |->
        IF left[i][1] < r[3] /\ r[2] < left[i][2]
        THEN (IF left[i][1] < r[2] THEN << <<left[i][1], r[2]>> >> ELSE <<>>)
        ELSE <<left[i]>>])

\* hollow_out: what is left of a list of ranges without the bytes of r.
HollowOut(left, r) ==
    LET Part(a, b) == IF a < b THEN << <<a, b>> >> ELSE <<>>
        Larger(a, b) == IF a > b THEN a ELSE b
        Smaller(a, b) == IF a < b THEN a ELSE b
        Exclude(p) ==
            LET start == Larger(p[1], r[2])
                end == Smaller(p[2], r[3])
            IN IF start < end THEN Part(p[1], start) \o Part(end, p[2]) ELSE <<p>>
    IN FlattenSeq([i \in 1..Len(left) |-> Exclude(left[i])])

\* Queue::new
NewQueue(piece) ==
    [requests |-> BlockDescs(piece), left |-> << <<0, txPlan.size[piece]>> >>, got |-> {}]

QueueOf(t, piece) == IF piece \in DOMAIN t.queues THEN t.queues[piece] ELSE NewQueue(piece)

SetQueue(t, piece, queue) ==
    [t EXCEPT !.queues = [q \in DOMAIN @ \cup {piece} |-> IF q = piece THEN queue ELSE @[q]]]

RemoveQueue(t, piece) == [t EXCEPT !.queues = [q \in DOMAIN @ \ {piece} |-> @[q]]]

Waiting(peer, blk) ==
    [peer |-> peer, blk |-> blk, res |-> "wait"]

Outstanding(t, peer) == {w \in DOMAIN t.waits : w.peer = peer /\ w.res = "wait"}

\* Peer::request on every block of the piece that nobody has been asked for.
\* A block this peer already owes us is dropped from the queue, a full
\* outgoing queue puts the block back and ends the piece.
RequestPiece(t, peer, piece) ==
    LET queue == QueueOf(t, piece)
        order == SetToSortSeq(queue.requests, LAMBDA a, b : a[2] < b[2])
        owed == SelectSeq(order, LAMBDA blk : Waiting(peer, blk) \in DOMAIN t.waits)
        fresh == SelectSeq(order, LAMBDA blk : Waiting(peer, blk) \notin DOMAIN t.waits)
        room == Minus(TxLimit, Cardinality(Outstanding(t, peer)))
        sent == FirstOf(fresh, room)
        stopped == IF Len(fresh) > room THEN fresh[room + 1] ELSE <<piece, txPlan.size[piece], 0>>
        popped == sent \cup {blk \in Range(owed) : blk[2] < stopped[2]}
    IN [SetQueue(t, piece, [queue EXCEPT !.requests = @ \ popped])
            EXCEPT !.waits = FoldSet(LAMBDA blk, bag : BagAdd(bag, Waiting(peer, blk)), @, sent)]

SendRequests(t, peer) ==
    FoldLeft(LAMBDA acc, piece : RequestPiece(acc, peer, piece), t, Assignments(t.sched, peer))

CheckEndgame(t) ==
    IF t.endgame \/ Len(t.sched.schedule) > TxEndgame THEN {t}
    ELSE {[t EXCEPT !.endgame = TRUE, !.sched = s] : s \in
            Schedule([t.sched EXCEPT !.max_assignments = 4, !.max_replicates = 4], txClock)}

\* recv_block: the outcomes of receiving the bytes r of a piece.
\* The storage either verifies a complete piece or does not.
RecvBlock(t, r) ==
    LET piece == r[1]
        queue == QueueOf(t, piece)
        new == Bytes(r) \ queue.got
        added == [queue EXCEPT !.left = HollowOut(@, r), !.got = @ \cup Bytes(r)]
        missed == (0..txPlan.size[piece] - 1) \ added.got
        removed == [RemoveQueue(t, piece) EXCEPT !.unseen = @ \cup missed]
        Verified == UNION {CheckEndgame([removed EXCEPT !.pieces = @ \cup {piece}, !.sched = s])
                            : s \in NotifyVerified(t.sched, piece, txClock)}
        Failed == {[removed EXCEPT !.budget = @ - 1]}
    IN IF piece \in t.pieces THEN {t}
       ELSE IF new = {} THEN {SetQueue(t, piece, queue)}
       ELSE IF added.left # <<>> THEN {SetQueue(t, piece, added)}
       ELSE Verified \cup (IF t.budget > 0 THEN Failed ELSE {})

\* The end of a turn: expired backoffs, requests of updated peers, idleness,
\* and the end of the download at the top of the next turn.
Turn(t) ==
    {LET taken == [t EXCEPT !.sched = [s EXCEPT !.updated = {}]]
         asked == FoldLeft(LAMBDA acc, peer : SendRequests(acc, peer), taken,
                    SetToSortSeq(s.updated \cap txPeers, <))
     IN [asked EXCEPT !.running = s.schedule # <<>>]
        : s \in RemoveExpiredBackoffs(t.sched, txClock)}

Turns(ts) == UNION {Turn(t) : t \in ts}

TransceiverInit ==
    /\ txPlan \in TxPlans
    /\ tx \in CheckEndgame(
            [sched |-> NewScheduler(SetToSortSeq(DOMAIN txPlan.size, <), 1, 1), pieces |-> {},
             queues |-> [q \in {} |-> 0], waits |-> EmptyBag,
             endgame |-> FALSE, running |-> TRUE, budget |-> TxBudget, unseen |-> {}])
    /\ txPeers = {} /\ txUpdates = <<>>
    /\ txClock = 0 /\ txLost = {}

-----------------------------------------------------------------------------
(* The other tasks. *)

\* One unit of the budget.
Spent == [tx EXCEPT !.budget = @ - 1]

\* The manager adds a connection, or removes one that has ended: the peer's
\* outgoing queue goes with it, which fails its outstanding requests.
PeerStart(p) ==
    /\ p \notin txPeers
    /\ txPeers' = txPeers \cup {p}
    /\ txUpdates' = Append(txUpdates, <<p, "start">>)
    /\ tx' = Spent
    /\ UNCHANGED <<txClock, txLost>>

Resolve(waits, old, res) ==
    LET n == CopiesIn(old, waits)
        new == [old EXCEPT !.res = res]
        rest == [w \in DOMAIN waits \ {old} |-> waits[w]]
    IN rest (+) [w \in {new} |-> n]

PeerStop(p) ==
    /\ p \in txPeers
    /\ txPeers' = txPeers \ {p}
    /\ txUpdates' = Append(txUpdates, <<p, "stop">>)
    /\ tx' = [tx EXCEPT !.waits =
            FoldSet(LAMBDA w, bag : Resolve(bag, w, "err"), @, Outstanding(tx, p))]
    /\ UNCHANGED <<txClock, txLost>>

\* A peer answers a request, or rejects it, or lets it time out.
PeerAnswers(w, res) ==
    /\ w.res = "wait"
    /\ tx' = [(IF res = "ok" THEN tx ELSE Spent) EXCEPT !.waits = Resolve(@, w, res)]
    /\ UNCHANGED <<txPeers, txUpdates, txClock, txLost>>

TxTick ==
    /\ txClock' = txClock + 1 /\ tx' = Spent
    /\ UNCHANGED <<txPeers, txUpdates, txLost>>

-----------------------------------------------------------------------------
(* The turns of the actor. *)

Runs(ts) ==
    /\ tx.running /\ tx' \in Turns(ts)
    /\ UNCHANGED <<txPeers, txClock>>

\* Start sends the handshake; Stop forgets what the peer owned.
HandlePeerUpdate ==
    /\ txUpdates # <<>>
    /\ txUpdates' = Tail(txUpdates) /\ UNCHANGED txLost
    /\ IF Head(txUpdates)[2] = "start" THEN Runs({tx})
       ELSE Runs({[tx EXCEPT !.sched = s]
                    : s \in NotifyPeerStop(tx.sched, Head(txUpdates)[1], txClock)})

HandlePossession(p, kind, pieces) ==
    /\ UNCHANGED <<txUpdates, txLost>>
    /\ IF p \notin txPeers THEN Runs({tx})
       ELSE Runs({SendRequests([tx EXCEPT !.sched =
                    NotifyPossession(@, p, kind, pieces, txClock)], p)})

\* Suggest and AllowedFast.
HandleAllowedFast(p, piece) ==
    /\ UNCHANGED <<txUpdates, txLost>>
    /\ IF p \notin txPeers THEN Runs({tx})
       ELSE Runs({SendRequests([tx EXCEPT !.sched = Assign(@, p, piece)], p)})

\* A block nobody asked this peer for.
HandleBlock(p, r) ==
    /\ UNCHANGED <<txUpdates, txLost>>
    /\ IF p \notin txPeers THEN Runs({tx})
       ELSE Runs({SendRequests(t, p) : t \in RecvBlock(tx, r)})

PushRequestNowhere(t, blk) == t

PushRequestBack(t, blk) ==
    IF blk[1] \in DOMAIN t.queues
    THEN [t EXCEPT !.queues[blk[1]].requests = @ \cup {blk}]
    ELSE t

HandleResponse(w) ==
    LET p == w.peer
        popped == [tx EXCEPT !.waits = BagRemove(@, w)]
        failed == {PushRequestBack([popped EXCEPT !.sched = s], w.blk)
                    : s \in NotifyResponseError(tx.sched, p, w.blk[1], txClock)}
    IN /\ w.res # "wait"
       /\ UNCHANGED txUpdates
       /\ txLost' = IF p \notin txPeers THEN txLost \cup {w.blk} ELSE txLost
       /\ IF p \notin txPeers THEN Runs({popped})
          ELSE Runs({SendRequests(t, p) : t \in
                    IF w.res = "ok" THEN RecvBlock(popped, w.blk) ELSE failed})

\* The timer: nothing but the end of the turn.
BackoffTimer == UNCHANGED <<txUpdates, txLost>> /\ Runs({tx})

TransceiverStep ==
    \/ tx.budget > 0 /\ \E p \in txPlan.peers : PeerStart(p)
    \/ \E p \in txPlan.peers : PeerStop(p)
    \/ \E w \in DOMAIN tx.waits : PeerAnswers(w, "ok") \/ (tx.budget > 0 /\ PeerAnswers(w, "err"))
    \/ tx.budget > 0 /\ TxTick
    \/ HandlePeerUpdate
    \/ \E p \in txPlan.peers : \E pieces \in SUBSET DOMAIN txPlan.size : HandlePossession(p, "set", pieces)
    \/ \E p \in txPlan.peers : \E pieces \in {{q} : q \in DOMAIN txPlan.size} \cup {DOMAIN txPlan.size} :
            HandlePossession(p, "add", pieces)
    \/ \E p \in txPlan.peers, q \in DOMAIN txPlan.size : HandleAllowedFast(p, q)
    \/ \E p \in txPlan.peers, q \in DOMAIN txPlan.size : \E r \in Ranges(q) : HandleBlock(p, r)
    \/ \E w \in DOMAIN tx.waits : HandleResponse(w)
    \/ BackoffTimer

TransceiverNext == TransceiverStep /\ UNCHANGED txPlan

-----------------------------------------------------------------------------

\* The ranges left of a piece are exactly the bytes not received, in order
\* and without overlap, for blocks of any size from any peers, and no piece
\* is handed to verify() before its last byte has come.
ProgressIsExact ==
    /\ tx.unseen = {}
    /\ \A piece \in DOMAIN tx.queues :
            LET queue == tx.queues[piece]
                left == queue.left
            IN /\ UNION {left[i][1]..left[i][2] - 1 : i \in 1..Len(left)}
                    = (0..txPlan.size[piece] - 1) \ queue.got
               /\ \A i \in 1..Len(left) : left[i][1] < left[i][2]
               /\ \A i \in 1..Len(left) - 1 : left[i][2] <= left[i + 1][1]

\* Every block still missing from a piece in progress will be asked for: it
\* is in the queue, or some peer owes a response to it.  The exception is the
\* blocks of a peer that was removed before its failed responses were handled:
\* handle_response returns before push_request, and nothing asks again.
MissingIsRequested ==
    \A piece \in DOMAIN tx.queues : \A blk \in BlockDescs(piece) :
        \/ Bytes(blk) \subseteq tx.queues[piece].got
        \/ blk \in tx.queues[piece].requests
        \/ \E w \in DOMAIN tx.waits : w.blk = blk
        \/ blk \in txLost

\* What a piece still needs is known exactly and on its way.
DownloadIsComplete == ProgressIsExact /\ MissingIsRequested
=============================================================================
