---------------------------- MODULE BlockDownload ----------------------------
(***************************************************************************)
(* bt/txrx/src/download: which piece is asked from which peer.  The actor  *)
(* keeps a window of peers, one piece each, the blocks in flight, and two  *)
(* FixedDelaySets that run out: the requests' timeouts and the watchdogs   *)
(* that snub a silent peer.  One torrent.  A delay set is the order of its *)
(* entries: the oldest runs out first, at any time.                        *)
(***************************************************************************)
EXTENDS Integers, FiniteSets, SequencesExt

CONSTANTS
  BdPieces,      \* pieces, 0 .. n
  BdBlocks,      \* blocks of each piece, 1 .. m
  BdConns,       \* connections
  BdEndpoint,    \* the peer endpoint of a connection
  BdWindow,      \* WINDOW_SIZE
  BdInflights,   \* INFLIGHT_QUEUE_SIZE
  BdMaxInbox,    \* bound: peer messages not handled yet
  BdMaxEvents    \* bound: calls, timeouts, failed pieces and events outside

\* FANOUT and REDUNDANCY.
Fanout == 1
Redundancy == 1

VARIABLES
  bdSchedule,    \* the pieces to download, in order; all connections are candidates
  bdS,           \* [window, requests, cooldown, timeouts, watch, panic]
  bdPaused,      \* DownloadState::paused contains the torrent
  bdSelf,        \* the model: self_pieces; <<>> when the torrent is removed
  bdUp,          \* the model: connections in ConnStates
  bdHave,        \* the model: peer_pieces
  bdChoking,     \* the model: peer_choking
  bdSnubbing,    \* the model: snubbing
  bdChange,      \* what the fold task has for the actor: [chokes, removed]
  bdInbox,       \* peer messages: <<kind, connection, block>>
  bdAsked,       \* blocks a peer was asked for and has not answered
  bdStored,      \* the storage has the torrent
  bdLate,        \* connections un-snubbed before the snub was looked at
  bdEvents       \* events so far

blockDownloadVars == <<bdSchedule, bdS, bdPaused, bdSelf, bdUp, bdHave, bdChoking, bdSnubbing, bdChange,
                       bdInbox, bdAsked, bdStored, bdLate, bdEvents>>

NoneOf == [x \in {} |-> {}]

BlockDownloadInit ==
    /\ bdSchedule = <<>>
    /\ bdS = [window |-> NoneOf, requests |-> NoneOf, cooldown |-> <<>>, timeouts |-> <<>>,
              watch |-> <<>>, sent |-> {}, panic |-> FALSE]
    /\ bdPaused = FALSE /\ bdSelf = <<{}>>
    /\ bdUp = BdConns /\ bdHave = [c \in BdConns |-> BdPieces] /\ bdChoking = {} /\ bdSnubbing = {}
    /\ bdChange = [chokes |-> {}, removed |-> FALSE]
    /\ bdInbox = <<>> /\ bdAsked = {} /\ bdStored = TRUE /\ bdLate = {} /\ bdEvents = 0

(* Partial functions and delay sets. *)

Put(f, x, v) == [y \in DOMAIN f \cup {x} |-> IF y = x THEN v ELSE f[y]]

Cut(f, xs) == [y \in DOMAIN f \ xs |-> f[y]]

OfConn(entries, c) == SelectSeq(entries, LAMBDA e : e[1] # c)

\* A connection is the one the window has for its endpoint.
IsAssigned(s, c) == BdEndpoint[c] \in DOMAIN s.window /\ s.window[BdEndpoint[c]].conn = c

PeerStateOf(s, c) == s.window[BdEndpoint[c]]

WithInflights(s, c, inflights) == [s.window EXCEPT ![BdEndpoint[c]].inflights = inflights]

(* DownloadState. *)

Eligible(s, c, b) ==
    /\ s.requests[b[1]][b] < Redundancy
    /\ ~Contains(s.cooldown, <<c, b>>)
    /\ b \notin PeerStateOf(s, c).inflights

\* queue_requests, and the requests are sent (send_requests).
RECURSIVE BdSendRequests(_, _)
BdSendRequests(s, c) ==
    LET p == PeerStateOf(s, c).piece
        blocks == {b \in DOMAIN s.requests[p] : Eligible(s, c, b)}
        b == CHOOSE x \in blocks : \A y \in blocks : x[2] <= y[2]
    IN IF blocks = {} \/ Cardinality(PeerStateOf(s, c).inflights) >= BdInflights THEN s
       ELSE BdSendRequests(
              [s EXCEPT !.window = WithInflights(s, c, PeerStateOf(s, c).inflights \cup {b}),
                        !.requests[p][b] = @ + 1,
                        !.timeouts = Append(@, <<c, b>>),
                        !.panic = @ \/ Contains(s.timeouts, <<c, b>>),
                        !.watch = IF Contains(@, c) THEN @ ELSE Append(@, c),
                        !.sent = @ \cup {<<c, b>>}], c)

NumAssigned(s, p) == Cardinality({e \in DOMAIN s.window : s.window[e].piece = p})

\* A candidate of the schedule that the model still says can be asked for the piece.
Usable(s, c, p) ==
    /\ BdEndpoint[c] \notin DOMAIN s.window
    /\ p \in bdHave'[c]
    /\ c \in bdUp' \ (bdChoking' \cup bdSnubbing')

\* assign, along the schedule, and the requests of the assigned peers.
RECURSIVE AssignAlong(_, _)
AssignAlong(s, schedule) ==
    IF schedule = <<>> \/ Cardinality(DOMAIN s.window) >= BdWindow THEN s
    ELSE LET p == Head(schedule)
             usable == {c \in BdConns : Usable(s, c, p)}
             c == CHOOSE d \in usable : \A e \in usable : d <= e
         IN IF bdSelf' = <<>> \/ p \in UNION ToSet(bdSelf') \/ bdPaused' \/ usable = {} \/ NumAssigned(s, p) >= Fanout
            THEN AssignAlong(s, Tail(schedule))
            ELSE AssignAlong(
                   BdSendRequests([s EXCEPT
                       !.window = Put(@, BdEndpoint[c], [conn |-> c, piece |-> p, inflights |-> {}]),
                       !.requests = IF p \in DOMAIN @ THEN @
                                    ELSE Put(@, p, [b \in {p} \X BdBlocks[p] |-> 0])], c),
                   Tail(schedule))

AssignThenSend(s) == AssignAlong(s, bdSchedule')

\* Mutant of BdDequeued: the requests in flight of the peer stay counted.
BdDequeuedNot(s, c) == s.requests

BdDequeued(s, c) ==
    [s.requests EXCEPT ![PeerStateOf(s, c).piece] =
        [b \in DOMAIN @ |-> @[b] - IF b \in PeerStateOf(s, c).inflights THEN 1 ELSE 0]]

\* remove_peer of the state and of both delay sets.
RemovePeer(s, c) ==
    LET t == [s EXCEPT !.timeouts = OfConn(@, c), !.watch = SelectSeq(@, LAMBDA d : d # c)]
    IN IF ~IsAssigned(s, c) THEN t
       ELSE [t EXCEPT !.requests = BdDequeued(s, c),
                      !.window = Cut(@, {BdEndpoint[c]}),
                      !.cooldown = OfConn(@, c)]

\* reject, by the peer or by a timeout, and the requests that follow.
Reject(s, c, b) ==
    IF ~IsAssigned(s, c) \/ b \notin PeerStateOf(s, c).inflights THEN s
    ELSE BdSendRequests([s EXCEPT !.window = WithInflights(s, c, PeerStateOf(s, c).inflights \ {b}),
                                !.requests[b[1]][b] = @ - 1,
                                !.cooldown = Append(@, <<c, b>>)], c)

\* remove_torrent.
NoState(s) == [s EXCEPT !.window = NoneOf, !.requests = NoneOf, !.cooldown = <<>>,
                        !.timeouts = <<>>, !.watch = <<>>]

\* What the actor asked in a step is what the peers may answer.
Becomes(s) ==
    /\ bdS' = [s EXCEPT !.sent = {}]
    /\ bdAsked' = (bdAsked \cup s.sent)

(* The actor. *)

Counted == bdEvents < BdMaxEvents /\ bdEvents' = bdEvents + 1

BdAssign(schedule) ==
    /\ Counted
    /\ bdSchedule' = schedule
    /\ UNCHANGED <<bdPaused, bdSelf, bdUp, bdHave, bdChoking, bdSnubbing, bdChange, bdInbox, bdStored, bdLate>>
    /\ Becomes(AssignThenSend(bdS))

PauseOrResume ==
    /\ Counted
    /\ bdPaused' = ~bdPaused
    /\ UNCHANGED <<bdSchedule, bdSelf, bdUp, bdHave, bdChoking, bdSnubbing, bdChange, bdInbox, bdStored, bdLate>>
    /\ Becomes(AssignThenSend(bdS))

\* consume_change: the model decides, as it is now.
RemovePeers(s, conns) == FoldLeft(RemovePeer, s, SetToSeq(conns))

ConsumeChange ==
    /\ bdChange.chokes # {} \/ bdChange.removed
    /\ bdChange' = [chokes |-> {}, removed |-> FALSE]
    /\ bdSchedule' = IF bdChange.removed THEN <<>> ELSE bdSchedule
    /\ bdPaused' = (bdPaused /\ ~bdChange.removed)
    /\ UNCHANGED <<bdSelf, bdUp, bdHave, bdChoking, bdSnubbing, bdInbox, bdStored, bdLate, bdEvents>>
    /\ LET s == IF bdChange.removed THEN NoState(bdS) ELSE bdS
       IN Becomes(AssignThenSend(
            RemovePeers(s, bdChange.chokes \cap bdUp \cap (bdChoking \cup bdSnubbing))))

\* The next peer message is handled.
Takes(kind) == bdInbox # <<>> /\ Head(bdInbox)[1] = kind /\ bdInbox' = Tail(bdInbox)

RecvDisconnect ==
    LET c == Head(bdInbox)[2] IN
    /\ Takes("disconnect")
    /\ UNCHANGED <<bdSchedule, bdPaused, bdSelf, bdUp, bdHave, bdChoking, bdSnubbing, bdChange, bdStored, bdLate, bdEvents>>
    /\ Becomes(IF IsAssigned(bdS, c) THEN AssignThenSend(RemovePeer(bdS, c)) ELSE RemovePeer(bdS, c))

RecvReject ==
    LET c == Head(bdInbox)[2]  b == Head(bdInbox)[3] IN
    /\ Takes("reject")
    /\ UNCHANGED <<bdSchedule, bdPaused, bdSelf, bdUp, bdHave, bdChoking, bdSnubbing, bdChange, bdStored, bdLate, bdEvents>>
    /\ Becomes(Reject([bdS EXCEPT !.timeouts = SelectSeq(@, LAMBDA e : e # <<c, b>>)], c, b))

\* recv_block up to recv: the timeout goes, the peer is un-snubbed and its
\* watchdog starts again, whether or not the block was asked for.
Unsnubbed(c, b) ==
    /\ bdSnubbing' = bdSnubbing \ {c}
    /\ bdChange' = IF c \in bdSnubbing THEN [bdChange EXCEPT !.chokes = @ \cup {c}] ELSE bdChange
    /\ bdLate' = IF c \in bdSnubbing /\ IsAssigned(bdS, c) THEN bdLate \cup {c} ELSE bdLate

\* Mutant of Answered: the timeout of the request stays.
AnsweredLate(s, c, b) ==
    [s EXCEPT !.watch = IF Contains(@, c) THEN Append(SelectSeq(@, LAMBDA d : d # c), c) ELSE @]

Answered(s, c, b) ==
    [s EXCEPT !.timeouts = SelectSeq(@, LAMBDA e : e # <<c, b>>),
              !.watch = IF Contains(@, c) THEN Append(SelectSeq(@, LAMBDA d : d # c), c) ELSE @]

\* recv: the block leaves the requests, and with the last one the piece.
Received(s, c, b) ==
    LET left == Cut(s.requests[b[1]], {b})
        t == [s EXCEPT !.window = WithInflights(s, c, PeerStateOf(s, c).inflights \ {b}),
                       !.requests[b[1]] = left,
                       !.panic = @ \/ s.requests[b[1]][b] # 1]
    IN IF DOMAIN left # {} THEN t
       ELSE [t EXCEPT !.window = Cut(@, {e \in DOMAIN @ : @[e].piece = b[1]}),
                      !.requests = Cut(@, {b[1]})]

\* Mutant of Unwatched: the watchdog goes although there is a new piece.
UnwatchedAlways(s, c) == [s EXCEPT !.watch = SelectSeq(@, LAMBDA d : d # c)]

\* A peer without a piece is not snubbed for being silent.
Unwatched(s, c) == IF IsAssigned(s, c) THEN s ELSE [s EXCEPT !.watch = SelectSeq(@, LAMBDA d : d # c)]

BdRecvBlock ==
    LET c == Head(bdInbox)[2]
        b == Head(bdInbox)[3]
        s == Answered(bdS, c, b)
        r == Received(s, c, b)
        last == b[1] \notin DOMAIN r.requests
    IN /\ Takes("piece")
       /\ Unsnubbed(c, b)
       /\ UNCHANGED <<bdPaused, bdUp, bdHave, bdChoking, bdStored>>
       /\ \/ /\ ~(IsAssigned(s, c) /\ b \in PeerStateOf(s, c).inflights)
             /\ Becomes(s) /\ UNCHANGED <<bdSchedule, bdSelf, bdEvents>>
          \/ /\ IsAssigned(s, c) /\ b \in PeerStateOf(s, c).inflights
             /\ \/ ~bdStored /\ Becomes(r) /\ UNCHANGED <<bdSchedule, bdSelf, bdEvents>>
                \/ /\ bdStored /\ ~last
                   /\ UNCHANGED <<bdSchedule, bdSelf, bdEvents>>
                   /\ Becomes(BdSendRequests(r, c))
                \/ /\ bdStored /\ last
                   /\ \/ /\ bdSelf' = IF bdSelf = <<>> THEN <<>> ELSE <<bdSelf[1] \cup {b[1]}>>
                         /\ bdSchedule' = SelectSeq(bdSchedule, LAMBDA p : p # b[1])
                         /\ UNCHANGED bdEvents
                      \/ Counted /\ UNCHANGED <<bdSchedule, bdSelf>>   \* verify failed
                   /\ Becomes(Unwatched(AssignThenSend(r), c))

\* request_timeout: the oldest ones have run out.
RECURSIVE RejectAll(_, _)
RejectAll(s, entries) ==
    IF entries = <<>> THEN s ELSE RejectAll(Reject(s, Head(entries)[1], Head(entries)[2]), Tail(entries))

RequestTimeout ==
    \E n \in 1 .. Len(bdS.timeouts) :
        /\ Becomes(RejectAll([bdS EXCEPT !.timeouts = SubSeq(@, n + 1, Len(@))], SubSeq(bdS.timeouts, 1, n)))
        /\ UNCHANGED <<bdSchedule, bdPaused, bdSelf, bdUp, bdHave, bdChoking, bdSnubbing, bdChange, bdInbox, bdStored, bdLate>>
        /\ Counted

\* snub_peers, of which the model tells the fold task.
SnubPeers ==
    \E n \in 1 .. Len(bdS.watch) :
        LET snubbed == ToSet(SubSeq(bdS.watch, 1, n)) \cap bdUp
        IN /\ Becomes([bdS EXCEPT !.watch = SubSeq(@, n + 1, Len(@))])
           /\ bdSnubbing' = bdSnubbing \cup snubbed
           /\ bdChange' = [bdChange EXCEPT !.chokes = @ \cup snubbed]
           /\ UNCHANGED <<bdSchedule, bdPaused, bdSelf, bdUp, bdHave, bdChoking, bdInbox, bdStored, bdLate>>
           /\ Counted

(* Outside the actor. *)

\* A peer answers a request, be it late; the Conn actor tells of it.
BdPeerAnswers(c, b) ==
    /\ <<c, b>> \in bdAsked /\ c \in bdUp /\ Len(bdInbox) < BdMaxInbox
    /\ bdAsked' = bdAsked \ {<<c, b>>}
    /\ \E kind \in {"piece", "reject"} : bdInbox' = Append(bdInbox, <<kind, c, b>>)
    /\ UNCHANGED <<bdSchedule, bdS, bdPaused, bdSelf, bdUp, bdHave, bdChoking, bdSnubbing, bdChange, bdStored, bdLate, bdEvents>>

\* A cooldown ends; queue_requests clears it.
CooldownEnds ==
    /\ bdS.cooldown # <<>>
    /\ bdS' = [bdS EXCEPT !.cooldown = Tail(@)]
    /\ UNCHANGED <<bdSchedule, bdPaused, bdSelf, bdUp, bdHave, bdChoking, bdSnubbing, bdChange, bdInbox, bdAsked, bdStored, bdLate, bdEvents>>

Outside ==
    /\ Counted
    /\ \/ \E c \in bdUp :           \* Choke and Unchoke
             /\ bdChoking' = IF c \in bdChoking THEN bdChoking \ {c} ELSE bdChoking \cup {c}
             /\ bdChange' = [bdChange EXCEPT !.chokes = @ \cup {c}]
             /\ UNCHANGED <<bdUp, bdHave, bdInbox, bdAsked, bdSelf, bdStored, bdSnubbing>>
       \/ \E c \in bdUp, pieces \in SUBSET BdPieces :   \* Bitfield and Have
             /\ bdHave' = [bdHave EXCEPT ![c] = pieces]
             /\ UNCHANGED <<bdUp, bdChange, bdChoking, bdInbox, bdAsked, bdSelf, bdStored, bdSnubbing>>
       \/ \E c \in bdUp :           \* the Conn actor ends
             /\ Len(bdInbox) < BdMaxInbox
             /\ bdUp' = bdUp \ {c} /\ bdInbox' = Append(bdInbox, <<"disconnect", c, <<>> >>)
             /\ bdAsked' = {a \in bdAsked : a[1] # c}
             /\ bdChoking' = bdChoking \ {c} /\ bdSnubbing' = bdSnubbing \ {c}
             /\ UNCHANGED <<bdHave, bdChange, bdSelf, bdStored>>
       \/ /\ bdSelf # <<>> /\ bdSelf' = <<>>   \* Model::remove_torrent
          /\ bdChange' = [bdChange EXCEPT !.removed = TRUE]
          /\ UNCHANGED <<bdUp, bdHave, bdInbox, bdAsked, bdChoking, bdStored, bdSnubbing>>
       \/ /\ bdStored /\ bdStored' = FALSE     \* the storage drops the torrent
          /\ UNCHANGED <<bdChange, bdUp, bdHave, bdInbox, bdAsked, bdChoking, bdSelf, bdSnubbing>>
    /\ UNCHANGED <<bdSchedule, bdS, bdPaused, bdLate>>

BlockDownloadNext ==
    /\ ~bdS.panic
    /\ \/ \E schedule \in SetToSeqs(BdPieces) : BdAssign(schedule)
       \/ PauseOrResume \/ ConsumeChange \/ RecvDisconnect \/ RecvReject \/ BdRecvBlock
       \/ RequestTimeout \/ SnubPeers \/ CooldownEnds \/ Outside
       \/ \E a \in bdAsked : BdPeerAnswers(a[1], a[2])

(* Properties. *)

InFlight == UNION {{<<w.conn, b>> : b \in w.inflights} : w \in {bdS.window[e] : e \in DOMAIN bdS.window}}

\* "For any block, the number of PeerStates whose inflights contain the
\* block equals the number stored in requests" (state.rs:15), and a block
\* has a timeout exactly while it is in flight.
CountsAgree ==
    /\ \A p \in DOMAIN bdS.requests : \A b \in DOMAIN bdS.requests[p] :
          bdS.requests[p][b] = Cardinality({f \in InFlight : f[2] = b})
    /\ ToSet(bdS.timeouts) = InFlight
    /\ ~bdS.panic

\* A peer of the window downloads a piece that is wanted, alone, and
\* something will end a wait for it: a watchdog, or a snub to be looked at.
WindowIsWatched ==
    \A e \in DOMAIN bdS.window :
        LET w == bdS.window[e] IN
        /\ w.piece \in DOMAIN bdS.requests /\ DOMAIN bdS.requests[w.piece] # {}
        /\ bdSelf # <<>> => w.piece \notin bdSelf[1]
        /\ NumAssigned(bdS, w.piece) = 1
        /\ \/ Contains(bdS.watch, w.conn)
           \/ w.conn \in bdSnubbing /\ w.conn \in bdChange.chokes
           \/ w.conn \notin bdUp
           \/ w.conn \in bdLate

(***************************************************************************)
(* The downloader never loses count of its requests, and no peer can hold  *)
(* a piece for ever by staying silent, except one whose late block lifts a *)
(* snub before the snub is looked at.                                      *)
(***************************************************************************)
DownloadIsSound == CountsAgree /\ WindowIsWatched
=============================================================================
