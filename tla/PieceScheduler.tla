--------------------------- MODULE PieceScheduler ---------------------------
(* The piece scheduler of a torrent download                               *)
(* (bittorrent/transceiver/src/schedule.rs): which connected peer is asked *)
(* for which missing piece.  It is a plain data structure owned by the     *)
(* transceiver, so every operation is an operator on the record            *)
(*   s.owned     pairs <<peer, piece>>: peer_pieces                        *)
(*   s.schedule  the missing pieces, rarest first                          *)
(*   s.assigned  pairs <<peer, piece>>: assignments                        *)
(*   s.max_assignments, s.max_replicates                                   *)
(*   s.updated   peers given a piece since take_updated                    *)
(*   s.backoffs  pair -> [deadline, num_errors]                            *)
(* Hash maps are iterated in no fixed order: an operation whose outcome    *)
(* depends on it returns the SET of its outcomes.                          *)
EXTENDS Naturals, Sequences, FiniteSets, SequencesExt

CONSTANTS
    ScPeers,       \* endpoints of peers
    ScPieces,      \* pieces 0 .. num_pieces - 1 of the torrent
    ScBackoff,     \* backoff_base, in ticks
    ScHour         \* the longest backoff, in ticks

ScPairs == ScPeers \X ScPieces

NewScheduler(missing, assignments, replicates) ==
    [owned |-> {}, schedule |-> missing, assigned |-> {},
     max_assignments |-> assignments, max_replicates |-> replicates,
     updated |-> {}, backoffs |-> [pair \in {} |-> 0]]

PiecesOf(pairs, peer) == {pair[2] : pair \in {x \in pairs : x[1] = peer}}

PeersOf(pairs, piece) == {pair[1] : pair \in {x \in pairs : x[2] = piece}}

Scheduled(s) == Range(s.schedule)

Rarity(s, piece) == Cardinality(PeersOf(s.owned, piece))

SortScheduleNot(s) == s

\* A stable sort: pieces with as many owners keep their order.
SortSchedule(s) ==
    LET owners == [n \in 1..Cardinality(ScPeers) + 1 |-> n - 1]
        Tier(n) == SelectSeq(s.schedule, LAMBDA piece : Rarity(s, piece) = n)
    IN [s EXCEPT !.schedule = FoldLeft(LAMBDA acc, n : acc \o Tier(n), <<>>, owners)]

\* sort_peers: fewest pieces first; peers with as many come in hash order.
PeerOrders(s, peers) ==
    {order \in SetToSeqs(peers) : \A i \in 1..Len(order) - 1 :
        Cardinality(PiecesOf(s.owned, order[i])) <= Cardinality(PiecesOf(s.owned, order[i + 1]))}

Minus(a, b) == IF a > b THEN a - b ELSE 0

NumAssignments(s, peer) == Cardinality(PiecesOf(s.assigned, peer))

NumReplicates(s, piece) == Cardinality(PeersOf(s.assigned, piece))

IsExpired(backoff, now) == backoff.deadline <= now

MayAssignAgain(s, peer, piece, now) ==
    /\ <<peer, piece>> \in s.owned \ s.assigned
    /\ NumAssignments(s, peer) < s.max_assignments
    /\ NumReplicates(s, piece) < s.max_replicates

MayAssignTo(s, peer, piece, now) ==
    /\ <<peer, piece>> \in s.owned \ s.assigned
    /\ NumAssignments(s, peer) < s.max_assignments
    /\ NumReplicates(s, piece) < s.max_replicates
    /\ <<peer, piece>> \in DOMAIN s.backoffs => IsExpired(s.backoffs[<<peer, piece>>], now)

Assigned(s, pairs) ==
    [s EXCEPT !.assigned = @ \cup pairs, !.updated = @ \cup {pair[1] : pair \in pairs}]

FirstOf(seq, n) == Range(SubSeq(seq, 1, IF n < Len(seq) THEN n ELSE Len(seq)))

SchedulePeer(s, peer, now) ==
    LET pieces == SelectSeq(s.schedule, LAMBDA piece : MayAssignTo(s, peer, piece, now))
        room == Minus(s.max_assignments, NumAssignments(s, peer))
    IN Assigned(s, {peer} \X FirstOf(pieces, room))

SchedulePeers(s, peers, now) ==
    {FoldLeft(LAMBDA acc, peer : SchedulePeer(acc, peer, now), s, order)
        : order \in PeerOrders(s, peers)}

SchedulePiece(s, piece, now) ==
    LET peers == {peer \in PeersOf(s.owned, piece) : MayAssignTo(s, peer, piece, now)}
        room == Minus(s.max_replicates, NumReplicates(s, piece))
    IN {Assigned(s, FirstOf(order, room) \X {piece}) : order \in PeerOrders(s, peers)}

SchedulePieces(s, pieces, now) ==
    FoldLeft(LAMBDA acc, piece : UNION {SchedulePiece(t, piece, now) : t \in acc}, {s},
             SelectSeq(s.schedule, LAMBDA piece : piece \in pieces))

Schedule(s, now) == SchedulePeers(s, {pair[1] : pair \in s.owned}, now)

\* A peer's pieces in the order of the schedule; position(piece).unwrap() is
\* why every assigned piece has to be scheduled.
Assignments(s, peer) ==
    SelectSeq(s.schedule, LAMBDA piece : piece \in PiecesOf(s.assigned, peer))

Assign(s, peer, piece) ==
    IF piece \in Scheduled(s) /\ <<peer, piece>> \notin s.assigned
    THEN Assigned(s, {<<peer, piece>>})
    ELSE s

Without(backoffs, pairs) == [pair \in DOMAIN backoffs \ pairs |-> backoffs[pair]]

RemoveExpiredBackoffs(s, now) ==
    LET expired == {pair \in DOMAIN s.backoffs : IsExpired(s.backoffs[pair], now)}
    IN SchedulePeers([s EXCEPT !.backoffs = Without(@, expired)],
                     {pair[1] : pair \in expired}, now)

\* Update::Stop.  Update::Start changes nothing.
NotifyPeerStop(s, peer, now) ==
    LET gone == {peer} \X ScPieces
        sorted == SortSchedule([s EXCEPT !.owned = @ \ gone])
    IN SchedulePieces([sorted EXCEPT !.assigned = @ \ gone, !.backoffs = Without(@, gone)],
                      PiecesOf(s.assigned, peer), now)

\* Possession: "set" is a bitfield (or HaveNone), "add" is Have or HaveAll.
NotifyPossession(s, peer, kind, pieces, now) ==
    LET kept == IF kind = "set" THEN s.owned \ ({peer} \X ScPieces) ELSE s.owned
        sorted == SortSchedule([s EXCEPT !.owned = kept \cup ({peer} \X pieces)])
    IN SchedulePeer(sorted, peer, now)

Increment(backoff, now) ==
    LET wait == ScBackoff * 2 ^ backoff.num_errors
    IN [deadline |-> now + (IF wait < ScHour THEN wait ELSE ScHour),
        num_errors |-> backoff.num_errors + 1]

NotifyResponseErrorPeerOnly(s, peer, piece, now) ==
    LET pair == <<peer, piece>>
        backed == [s EXCEPT !.assigned = @ \ {pair},
            !.backoffs = [x \in DOMAIN @ \cup {pair} |->
                IF x = pair THEN [deadline |-> now + ScBackoff, num_errors |-> 1] ELSE @[x]]]
    IN IF pair \in s.assigned THEN {SchedulePeer(backed, peer, now)} ELSE {s}

NotifyResponseError(s, peer, piece, now) ==
    LET pair == <<peer, piece>>
        old == IF pair \in DOMAIN s.backoffs THEN s.backoffs[pair]
                                             ELSE [deadline |-> now, num_errors |-> 0]
        backed == [s EXCEPT !.assigned = @ \ {pair},
            !.backoffs = [x \in DOMAIN @ \cup {pair} |->
                IF x = pair THEN Increment(old, now) ELSE @[x]]]
    IN IF pair \in s.assigned
       THEN SchedulePiece(SchedulePeer(backed, peer, now), piece, now)
       ELSE {s}

NotifyVerified(s, piece, now) ==
    LET done == ScPeers \X {piece}
        rest == [s EXCEPT !.schedule = SelectSeq(@, LAMBDA q : q # piece),
                          !.assigned = @ \ done, !.backoffs = Without(@, done)]
    IN IF piece \in Scheduled(s)
       THEN SchedulePeers(rest, PeersOf(s.assigned, piece), now)
       ELSE {s}

-----------------------------------------------------------------------------
(* The scheduler on its own: its calls                                     *)
(* (bittorrent/transceiver/src/schedule.rs), in any order, at any time.    *)

CONSTANTS
    ScAssignments, ScReplicates,  \* max_assignments, max_replicates
    ScMaxTime, ScMaxErrors        \* bound the clock and the errors of a pair

VARIABLES
    sc,        \* the scheduler
    scVerified,\* the pieces downloaded and verified
    scClock

schedulerVars == <<sc, scVerified, scClock>>

SchedulerInit ==
    /\ sc = NewScheduler(SetToSortSeq(ScPieces, <), ScAssignments, ScReplicates)
    /\ scVerified = {} /\ scClock = 0

\* After each call the transceiver calls take_updated.
Taken(outcomes) == {[s EXCEPT !.updated = {}] : s \in outcomes}

ScCall(outcomes) == sc' \in Taken(outcomes) /\ UNCHANGED <<scVerified, scClock>>

ScTick ==
    /\ scClock < ScMaxTime /\ scClock' = scClock + 1
    /\ UNCHANGED <<sc, scVerified>>

\* check_endgame raises the limits once, then schedules every peer.
EnterEndgame ==
    ScCall(Schedule([sc EXCEPT !.max_assignments = ScAssignments + 1,
                               !.max_replicates = ScReplicates + 1], scClock))

ResponseError(peer, piece) ==
    /\ <<peer, piece>> \in DOMAIN sc.backoffs =>
            sc.backoffs[<<peer, piece>>].num_errors < ScMaxErrors
    /\ ScCall(NotifyResponseError(sc, peer, piece, scClock))

PieceVerified(piece) ==
    /\ scVerified' = scVerified \cup {piece}
    /\ sc' \in Taken(NotifyVerified(sc, piece, scClock))
    /\ UNCHANGED scClock

SchedulerNext ==
    \/ ScTick
    \/ EnterEndgame
    \/ \E peer \in ScPeers : ScCall(NotifyPeerStop(sc, peer, scClock))
    \/ \E peer \in ScPeers, pieces \in SUBSET ScPieces :
            ScCall({NotifyPossession(sc, peer, "set", pieces, scClock)})
    \/ \E peer \in ScPeers, piece \in ScPieces :
            \/ ScCall({NotifyPossession(sc, peer, "add", {piece}, scClock)})
            \/ ScCall({Assign(sc, peer, piece)})
            \/ ResponseError(peer, piece)
    \/ \E piece \in ScPieces : PieceVerified(piece)
    \/ ScCall(RemoveExpiredBackoffs(sc, scClock))

-----------------------------------------------------------------------------

\* After every call the schedule is exactly the pieces not yet verified,
\* rarest first, and every assignment is of a scheduled piece: assignments()
\* cannot panic at position().unwrap(), and no piece is lost or fetched again.
ScheduleIsMissing ==
    /\ Scheduled(sc) = ScPieces \ scVerified
    /\ Len(sc.schedule) = Cardinality(Scheduled(sc))
    /\ \A pair \in sc.assigned : pair[2] \in Scheduled(sc)
    /\ \A i \in 1..Len(sc.schedule) - 1 :
            Rarity(sc, sc.schedule[i]) <= Rarity(sc, sc.schedule[i + 1])

\* After every call no peer could be given one more piece, except for a
\* backoff that is not removed yet: whatever stops, errors, possessions and
\* verifications led here, what they freed has been rescheduled.
NoPeerLeftIdle ==
    \A pair \in ScPairs \ DOMAIN sc.backoffs :
        pair[2] \in Scheduled(sc) => ~ MayAssignTo(sc, pair[1], pair[2], scClock)

\* A peer that failed a piece is not asked for it again by the scheduler
\* until its backoff has expired; only Assign, which a peer's own AllowedFast
\* or Suggest triggers, goes around a backoff.
BackoffIsRespected ==
    [][\A pair \in sc'.assigned \ sc.assigned :
        \/ pair \notin DOMAIN sc.backoffs
        \/ IsExpired(sc.backoffs[pair], scClock)
        \/ sc' \in Taken({Assign(sc, pair[1], pair[2])})]_schedulerVars

\* The schedule has the missing pieces, keeps every peer busy and respects backoffs.
ScheduleIsSound == [](ScheduleIsMissing /\ NoPeerLeftIdle) /\ BackoffIsRespected
=============================================================================
