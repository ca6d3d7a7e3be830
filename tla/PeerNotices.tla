----------------------------- MODULE PeerNotices -----------------------------
(***************************************************************************)
(* bt/txrx/src/push.rs and bt/txrx/src/download/push.rs: what the peers of *)
(* a torrent are told.  One actor sends our pieces (Bitfield, then Have),  *)
(* the other our interest, and asks a choking peer to be unchoked, again   *)
(* and again while it is of interest.  Each looks at the model when its    *)
(* fold task has a change for it.  Manifold::send returns when the Conn    *)
(* actor has handled the message; a connection is in the manifold's table  *)
(* before the model's lock is released (spawn_conn), so none is missed.    *)
(***************************************************************************)
EXTENDS TorrentModel, SequencesExt

VARIABLES
  pnChoking,     \* connections whose peer chokes us (peer_choking)
  pnRead,        \* updates read by the fold task of push.rs
  pnChange,      \* its value: [connects, haves]
  pnKnown,       \* the pieces a connection's peer was told we have
  pnRead2,       \* updates read by the fold task of download/push.rs
  pnChange2,     \* its value: [disconnects, all, some]
  pnInterested,  \* connections told that we are interested (self_interested)
  pnTimers       \* request_timers: the oldest runs out first

peerNoticesVars == <<pnChoking, pnRead, pnChange, pnKnown, pnRead2, pnChange2, pnInterested, pnTimers>>

Nothing == [connects |-> {}, haves |-> {}]

Nothing2 == [disconnects |-> {}, all |-> FALSE, some |-> {}]

PeerNoticesInit ==
    /\ pnChoking = {} /\ pnRead = 0 /\ pnChange = Nothing /\ pnKnown = [c \in TmConns |-> {}]
    /\ pnRead2 = 0 /\ pnChange2 = Nothing2 /\ pnInterested = {} /\ pnTimers = <<>>

UpdatesOf(kinds, read) ==
    {u[2] : u \in {v \in {tmUpdates[i] : i \in read + 1 .. Len(tmUpdates)} : v[1] \in kinds}}

\* Mutant of FoldHaves: the pieces of an earlier fold are forgotten.
FoldHavesLast(change) == UpdatesOf({"self"}, pnRead)

FoldHaves(change) == change.haves \cup UpdatesOf({"self"}, pnRead)

\* Folder::fold of push.rs.
FoldPush ==
    /\ pnRead < Len(tmUpdates)
    /\ pnRead' = Len(tmUpdates)
    /\ pnChange' = [connects |-> pnChange.connects \cup UpdatesOf({"connect"}, pnRead),
                    haves |-> FoldHaves(pnChange)]
    /\ UNCHANGED <<torrentModelVars, pnChoking, pnKnown, pnRead2, pnChange2, pnInterested, pnTimers>>

\* consume_changes of push.rs: Bitfield (or HaveAll, HaveNone) to the new
\* connections, Have to the others.
ConsumePush ==
    /\ pnChange # Nothing /\ ~tmPoisoned
    /\ pnChange' = Nothing
    /\ pnKnown' =
        IF ~Initialized THEN pnKnown
        ELSE [c \in TmConns |->
                IF c \notin tmConns THEN pnKnown[c]
                ELSE IF c \in pnChange.connects THEN TmTorrent.self
                ELSE pnKnown[c] \cup (pnChange.haves \cap TmTorrent.self)]
    /\ UNCHANGED <<torrentModelVars, pnChoking, pnRead, pnRead2, pnChange2, pnInterested, pnTimers>>

Interested(c) ==
    /\ Initialized /\ c \in DOMAIN TmTorrent.pieces
    /\ TmTorrent.pieces[c] \ TmTorrent.self # {}

PiecesKnown(c) == Initialized /\ c \in DOMAIN TmTorrent.pieces

\* Folder::fold of download/push.rs.
FoldInterest ==
    /\ pnRead2 < Len(tmUpdates)
    /\ pnRead2' = Len(tmUpdates)
    /\ pnChange2' = [disconnects |-> pnChange2.disconnects \cup UpdatesOf({"disconnect"}, pnRead2),
                     all |-> pnChange2.all \/ UpdatesOf({"self"}, pnRead2) # {},
                     some |-> pnChange2.some \cup UpdatesOf({"peer", "choking"}, pnRead2)]
    /\ UNCHANGED <<torrentModelVars, pnChoking, pnRead, pnChange, pnKnown, pnInterested, pnTimers>>

WithoutTimers(timers, conns) == SelectSeq(timers, LAMBDA c : c \notin conns)

\* Mutant of Looked: only the connections the change names.
LookedSome == pnChange2.some \cap tmConns

Looked == IF pnChange2.all THEN tmConns ELSE pnChange2.some \cap tmConns

\* consume_changes of download/push.rs.
ConsumeInterest ==
    LET asks == {c \in Looked : c \in pnChoking /\ Interested(c)}
    IN /\ pnChange2 # Nothing2 /\ ~tmPoisoned
       /\ pnChange2' = Nothing2
       /\ IF ~Initialized
          THEN /\ pnTimers' = WithoutTimers(pnTimers, pnChange2.disconnects)
               /\ UNCHANGED pnInterested
          ELSE /\ pnInterested' = ((pnInterested \cup {c \in Looked : Interested(c)})
                                    \ {c \in Looked : PiecesKnown(c) /\ ~Interested(c)})
               /\ pnTimers' = WithoutTimers(pnTimers, pnChange2.disconnects \cup Looked) \o SetToSeq(asks)
       /\ UNCHANGED <<torrentModelVars, pnChoking, pnRead, pnChange, pnKnown, pnRead2>>

\* Mutant of StillAsks: it is asked once.
StillAsksOnce(c) == FALSE

StillAsks(c) == c \in tmConns /\ c \in pnChoking /\ Interested(c)

\* request_unchoking: the oldest timers have run out.
RequestUnchoking ==
    /\ ~tmPoisoned
    /\ \E n \in 1 .. Len(pnTimers) :
          pnTimers' = SubSeq(pnTimers, n + 1, Len(pnTimers)) \o SelectSeq(SubSeq(pnTimers, 1, n), StillAsks)
    /\ UNCHANGED <<torrentModelVars, pnChoking, pnRead, pnChange, pnKnown, pnRead2, pnChange2, pnInterested>>

\* set_peer_choking, when the peer's Choke or Unchoke arrives.
PeerChokes(c) ==
    /\ c \in tmConns
    /\ pnChoking' = IF c \in pnChoking THEN pnChoking \ {c} ELSE pnChoking \cup {c}
    /\ TellUpdate("choking", c)
    /\ UNCHANGED <<tmOpen, tmTorrent, tmConns, tmPoisoned, pnRead, pnChange, pnKnown, pnRead2,
                   pnChange2, pnInterested, pnTimers>>

\* A new connection starts choked (ConnState::new); one that ends is gone.
ConnectOrDisconnect(c) ==
    /\ \/ c \notin tmConns /\ Initialized /\ ConnectPeer(c) /\ pnChoking' = pnChoking \cup {c}
       \/ c \in tmConns /\ DisconnectPeer(c) /\ pnChoking' = pnChoking \ {c}
    /\ pnInterested' = pnInterested \ {c} /\ pnKnown' = [pnKnown EXCEPT ![c] = {}]
    /\ UNCHANGED <<pnRead, pnChange, pnRead2, pnChange2, pnTimers>>

PeerNoticesNext ==
    \/ FoldPush \/ ConsumePush \/ FoldInterest \/ ConsumeInterest \/ RequestUnchoking
    \/ \E c \in TmConns : PeerChokes(c) \/ ConnectOrDisconnect(c)
    \/ /\ \/ NewTorrent \/ RemoveTorrent
          \/ ~Initialized /\ InitTorrent({})
          \/ \E c \in TmConns, pieces \in SUBSET TmPieces : SetPeerPieces(c, pieces)
          \/ \E i \in TmPieces : SetSelfPiece(i)
       /\ UNCHANGED peerNoticesVars

\* The connections of the torrent as it is now: those of an earlier
\* initialisation are about to end.
Current == IF Initialized /\ ~tmPoisoned THEN TmTorrent.stats ELSE {}

(***************************************************************************)
(* Once an actor has looked at every change, each peer knows our pieces    *)
(* and our interest as they are, and a peer that chokes us while it has    *)
(* something for us will be asked again: no Have is lost between the       *)
(* Bitfield of a new connection and the pieces that arrive meanwhile, and  *)
(* no timer is lost to a change.                                           *)
(***************************************************************************)
NoticesCatchUp ==
    /\ pnRead = Len(tmUpdates) /\ pnChange = Nothing =>
         \A c \in Current : pnKnown[c] = TmTorrent.self
    /\ pnRead2 = Len(tmUpdates) /\ pnChange2 = Nothing2 =>
         \A c \in Current :
            /\ (c \in pnInterested) = Interested(c)
            /\ Interested(c) /\ c \in pnChoking => Contains(pnTimers, c)
    /\ \A i, j \in 1 .. Len(pnTimers) : pnTimers[i] = pnTimers[j] => i = j
=============================================================================
