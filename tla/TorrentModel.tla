---------------------------- MODULE TorrentModel ----------------------------
(***************************************************************************)
(* bt/model: what the client knows of one torrent, behind one mutex, and   *)
(* the updates it broadcasts.  Every method runs under the lock, so it is  *)
(* one step; an assertion that fails poisons the mutex.  The updates keep  *)
(* the order of the changes; a subscriber reads them later, at its own     *)
(* place in tmUpdates (the channel holds 64, more than the bound here).    *)
(***************************************************************************)
EXTENDS Integers, Sequences, FiniteSets

CONSTANTS
  TmPieces,      \* the pieces of the torrent, 0 .. n
  TmConns,       \* the connections (a ConnPair each)
  TmMaxUpdates   \* bound: updates sent

VARIABLES
  tmOpen,        \* Peers contains the torrent: new_torrent was called
  tmTorrent,     \* <<>>, or <<[self, pieces, stats]>> once initialised
  tmConns,       \* ConnStates
  tmUpdates,     \* the updates sent, in order: <<kind, connection or piece or 0>>
  tmPoisoned     \* an assertion failed with the lock held

torrentModelVars == <<tmOpen, tmTorrent, tmConns, tmUpdates, tmPoisoned>>

TmTorrent == tmTorrent[1]

Initialized == tmTorrent # <<>>

NoPieces == [c \in {} |-> {}]

TorrentModelInit ==
    /\ tmOpen = FALSE /\ tmTorrent = <<>> /\ tmConns = {}
    /\ tmUpdates = <<>> /\ tmPoisoned = FALSE

TellUpdate(kind, c) ==
    /\ Len(tmUpdates) < TmMaxUpdates
    /\ tmUpdates' = Append(tmUpdates, <<kind, c>>)

NewTorrent ==
    /\ ~tmPoisoned /\ ~tmOpen
    /\ tmOpen' = TRUE
    /\ TellUpdate("new", 0)
    /\ UNCHANGED <<tmTorrent, tmConns, tmPoisoned>>

\* Called again with other pieces it replaces ours and keeps the peers; with the same
\* ones it does nothing.  A torrent that is not open fails the assertion.
InitTorrent(pieces) ==
    /\ ~tmPoisoned
    /\ IF tmOpen
       THEN /\ Initialized => TmTorrent.self # pieces
            /\ tmTorrent' = <<IF Initialized THEN [TmTorrent EXCEPT !.self = pieces]
                             ELSE [self |-> pieces, pieces |-> NoPieces, stats |-> {}]>>
            /\ TellUpdate("init", 0)
            /\ UNCHANGED tmPoisoned
       ELSE tmPoisoned' = TRUE /\ UNCHANGED <<tmTorrent, tmUpdates>>
    /\ UNCHANGED <<tmOpen, tmConns>>

RemoveTorrent ==
    /\ ~tmPoisoned /\ tmOpen
    /\ tmOpen' = FALSE /\ tmTorrent' = <<>>
    /\ TellUpdate("remove", 0)
    /\ UNCHANGED <<tmConns, tmPoisoned>>

ConnectPeer(c) ==
    /\ ~tmPoisoned
    /\ tmTorrent' = IF Initialized THEN <<[TmTorrent EXCEPT !.stats = @ \cup {c}]>> ELSE <<>>
    /\ tmConns' = tmConns \cup {c}
    /\ tmPoisoned' = \/ c \in tmConns
                     \/ Initialized /\ (c \in DOMAIN TmTorrent.pieces \/ c \in TmTorrent.stats)
    /\ TellUpdate("connect", c)
    /\ UNCHANGED tmOpen

WithoutConn(pieces, c) == [d \in DOMAIN pieces \ {c} |-> pieces[d]]

\* The statistics of the peer are asserted to be there when the torrent is.
DisconnectPeer(c) ==
    /\ ~tmPoisoned
    /\ tmTorrent' = IF Initialized
                    THEN <<[TmTorrent EXCEPT !.pieces = WithoutConn(@, c), !.stats = @ \ {c}]>>
                    ELSE <<>>
    /\ IF (Initialized /\ c \notin TmTorrent.stats) \/ c \notin tmConns
       THEN tmPoisoned' = TRUE /\ UNCHANGED <<tmConns, tmUpdates>>
       ELSE tmConns' = tmConns \ {c} /\ TellUpdate("disconnect", c) /\ UNCHANGED tmPoisoned
    /\ UNCHANGED tmOpen

\* Torrent::set_self_piece: self_pieces only grow.
SetSelfPiece(index) ==
    /\ ~tmPoisoned /\ Initialized /\ index \notin TmTorrent.self
    /\ tmTorrent' = <<[TmTorrent EXCEPT !.self = @ \cup {index}]>>
    /\ TellUpdate("self", index)
    /\ UNCHANGED <<tmOpen, tmConns, tmPoisoned>>

\* Torrent::insert and set_peer_piece: nothing is sent when nothing changes,
\* and a Have before the pieces are known is ignored.
SetPeerPieces(c, pieces) ==
    /\ ~tmPoisoned /\ Initialized /\ c \in tmConns
    /\ c \in DOMAIN TmTorrent.pieces => TmTorrent.pieces[c] # pieces
    /\ tmTorrent' = <<[TmTorrent EXCEPT !.pieces =
                          [d \in DOMAIN @ \cup {c} |-> IF d = c THEN pieces ELSE @[d]]]>>
    /\ TellUpdate("peer", c)
    /\ UNCHANGED <<tmOpen, tmConns, tmPoisoned>>
=============================================================================
