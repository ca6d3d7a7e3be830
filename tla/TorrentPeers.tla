---------------------------- MODULE TorrentPeers ----------------------------
(***************************************************************************)
(* bt/peer: the connections of a torrent.  Before the torrent is           *)
(* initialised a connection is half-open: its actor keeps the messages of  *)
(* the peer in a backlog until a fold task tells it of the initialisation; *)
(* then the half-open manifold hands it to the manifold, whose Conn actor  *)
(* replays the backlog and tells the peer's messages to the subscribers.   *)
(***************************************************************************)
EXTENDS TorrentModel

CONSTANTS
  TpConns,         \* the connections, a subset of TmConns
  TpMaxMessages,   \* bound: messages of a peer
  TpBacklogLimit,  \* BACKLOG_LIMIT
  TpNoConn         \* no connection is being handed over

VARIABLES
  tpHalf,          \* the half-open actor: "none", "start", "run", "stop", "result", "done"
  tpEnd,           \* how its loop ended: "ok", "backlog", "message", "io", "blocked"
  tpCancel,        \* disconnect was called: "no", "early" (before shutdown looked), "late"
  tpFold,          \* the fold task: [state, value, read, closed]
  tpSince,         \* updates sent when the fold task was spawned
  tpHanding,       \* the connection the half-open manifold passes on
  tpConn,          \* the Conn actor: "none", "start", "run", "stop", "result", "done"
  tpConnEnd,       \* how it ended: "ok" or "blocked"
  tpSink,          \* the sink: "open", "closed", "broken" (I/O error), "dropped"
  tpStream,        \* messages taken from the stream
  tpBacklog,       \* the messages of the backlog
  tpTold,          \* what subscribers saw: 0 for Connect, n for message n, -1 for Disconnect
  tpMain,          \* Manifold: "run" or "stopped"
  tpHalfMain       \* HalfOpenManifold: "run" or "stopped"

torrentPeersVars == <<tpHalf, tpEnd, tpCancel, tpFold, tpSince, tpHanding, tpConn, tpConnEnd, tpSink,
                      tpStream, tpBacklog, tpTold, tpMain, tpHalfMain>>

NoFold == [state |-> "none", value |-> "empty", read |-> 0, closed |-> FALSE]

TorrentPeersInit ==
    /\ tpHalf = [c \in TmConns |-> "none"] /\ tpEnd = [c \in TmConns |-> "ok"]
    /\ tpCancel = [c \in TmConns |-> "no"]
    /\ tpFold = [c \in TmConns |-> NoFold] /\ tpSince = [c \in TmConns |-> 0]
    /\ tpHanding = TpNoConn
    /\ tpConn = [c \in TmConns |-> "none"] /\ tpConnEnd = [c \in TmConns |-> "ok"]
    /\ tpSink = [c \in TmConns |-> "open"] /\ tpStream = [c \in TmConns |-> 0]
    /\ tpBacklog = [c \in TmConns |-> <<>>] /\ tpTold = [c \in TmConns |-> <<>>]
    /\ tpMain = "run" /\ tpHalfMain = "run"

(* The fold task of a connection: TorrentChange::fold. *)

\* model::spawn, under the lock of the model.
SpawnFold(c) ==
    /\ tpFold' = [tpFold EXCEPT ![c] = [state |-> IF Initialized THEN "yes" ELSE "none",
                                        value |-> "empty", read |-> Len(tmUpdates), closed |-> FALSE]]
    /\ tpSince' = [tpSince EXCEPT ![c] = Len(tmUpdates)]

\* One update; an unexpected one makes the task panic, which closes it.
FoldChange(fold, kind) ==
    CASE fold.closed -> fold
      [] kind = "init" /\ fold.state = "none" -> [fold EXCEPT !.state = "yes", !.value = "yes"]
      [] kind = "init" /\ fold.state = "yes" -> [fold EXCEPT !.closed = TRUE]
      [] kind = "remove" /\ fold.state = "none" -> [fold EXCEPT !.closed = TRUE]
      [] kind = "remove" /\ fold.state = "yes" -> [fold EXCEPT !.state = "no", !.value = "no"]
      [] OTHER -> fold

Fold(c) ==
    /\ {tpHalf[c], tpConn[c]} \cap {"start", "run", "stop"} # {}
    /\ ~tpFold[c].closed /\ tpFold[c].read < Len(tmUpdates)
    /\ tpFold' = [tpFold EXCEPT ![c] = [FoldChange(@, tmUpdates[@.read + 1][1]) EXCEPT !.read = @ + 1]]
    /\ UNCHANGED <<tpHalf, tpEnd, tpCancel, tpSince, tpHanding, tpConn, tpConnEnd, tpSink, tpStream,
                   tpBacklog, tpTold, tpMain, tpHalfMain, torrentModelVars>>

\* Consumer::consume returns.
Changed(c) == tpFold[c].value # "empty" \/ tpFold[c].closed

(* The half-open side. *)

\* HalfOpenManifold::connect: half-open, or passed on when initialised.
Connect(c) ==
    /\ tpHalf[c] = "none" /\ tpConn[c] = "none" /\ tpHanding = TpNoConn /\ ~tmPoisoned
    /\ \/ /\ tpHalfMain = "run" /\ ~Initialized
          /\ tpHalf' = [tpHalf EXCEPT ![c] = "start"]
          /\ SpawnFold(c)
          /\ UNCHANGED <<tpHanding, tpSink>>
       \/ /\ tpHalfMain = "run" /\ Initialized
          /\ tpHalf' = [tpHalf EXCEPT ![c] = "done"] /\ tpHanding' = c
          /\ UNCHANGED <<tpFold, tpSince, tpSink>>
       \/ /\ tpHalfMain = "stopped"
          /\ tpHalf' = [tpHalf EXCEPT ![c] = "done"] /\ tpSink' = [tpSink EXCEPT ![c] = "closed"]
          /\ UNCHANGED <<tpFold, tpSince, tpHanding>>
    /\ UNCHANGED <<tpEnd, tpCancel, tpConn, tpConnEnd, tpStream, tpBacklog, tpTold, tpMain, tpHalfMain, torrentModelVars>>

HalfEnds(c, end) ==
    /\ tpHalf' = [tpHalf EXCEPT ![c] = "stop"] /\ tpEnd' = [tpEnd EXCEPT ![c] = end]
    /\ UNCHANGED tpBacklog

\* startup, then the loop: a message, the end of the stream, an error of the
\* stream or of a send, a change of the torrent, a cancellation, or a blocked
\* broadcast.
HalfStep(c) ==
    /\ \/ tpHalf[c] = "start" /\ tpHalf' = [tpHalf EXCEPT ![c] = "run"] /\ UNCHANGED <<tpEnd, tpBacklog, tpStream>>
       \/ tpHalf[c] = "start" /\ HalfEnds(c, "blocked") /\ UNCHANGED tpStream
       \/ /\ tpHalf[c] = "run" /\ tpStream[c] < TpMaxMessages
          /\ tpStream' = [tpStream EXCEPT ![c] = @ + 1]
          /\ IF Len(tpBacklog[c]) < TpBacklogLimit
             THEN /\ tpBacklog' = [tpBacklog EXCEPT ![c] = Append(@, tpStream[c] + 1)]
                  /\ UNCHANGED <<tpHalf, tpEnd>>
             ELSE HalfEnds(c, "backlog")
       \/ tpHalf[c] = "run" /\ (Changed(c) \/ tpCancel[c] = "early") /\ HalfEnds(c, "ok") /\ UNCHANGED tpStream
       \/ tpHalf[c] = "run" /\ (\E end \in {"ok", "message", "io", "blocked"} : HalfEnds(c, end)) /\ UNCHANGED tpStream
    /\ UNCHANGED <<tpCancel, tpFold, tpSince, tpHanding, tpConn, tpConnEnd, tpSink, tpTold, tpMain, tpHalfMain, torrentModelVars>>

\* HalfOpenConn::disconnect, while the manifold has the connection.
Disconnect(c) ==
    /\ tpHalf[c] \in {"start", "run", "stop", "result"} /\ tpCancel[c] = "no"
    /\ tpCancel' = [tpCancel EXCEPT ![c] = IF tpHalf[c] = "result" THEN "late" ELSE "early"]
    /\ UNCHANGED <<tpHalf, tpEnd, tpFold, tpSince, tpHanding, tpConn, tpConnEnd, tpSink, tpStream,
                   tpBacklog, tpTold, tpMain, tpHalfMain, torrentModelVars>>

\* The argument of shutdown, read when the loop has ended; a manifold that stops
\* cancels the connections it has.
Disconnected(c) == tpCancel[c] = "early" \/ tpHalfMain = "stopped"

\* Mutant of SinkAfter: the sink of a connection that ended well is left open.
SinkAfterEnd(c) ==
    CASE tpEnd[c] = "ok" -> "open" [] tpEnd[c] = "io" -> "broken" [] OTHER -> "closed"

\* The sink is closed unless the loop ended well and the connection is passed on.
SinkAfter(c) ==
    CASE tpEnd[c] = "ok" /\ ~Disconnected(c) -> "open"
      [] tpEnd[c] = "io" -> "broken"
      [] OTHER -> "closed"

\* shutdown: the sink, then Disconnect is told, which may be blocked.
HalfShutdown(c) ==
    /\ tpHalf[c] = "stop"
    /\ tpHalf' = [tpHalf EXCEPT ![c] = "result"]
    /\ tpSink' = [tpSink EXCEPT ![c] = SinkAfter(c)]
    /\ tpEnd' \in {tpEnd, [tpEnd EXCEPT ![c] = "blocked"]}
    /\ UNCHANGED <<tpCancel, tpFold, tpSince, tpHanding, tpConn, tpConnEnd, tpStream, tpBacklog, tpTold,
                   tpMain, tpHalfMain, torrentModelVars>>

\* Mutant of PassedOn: the connections that were told to disconnect too.
PassedOnAll(c) == tpEnd[c] # "blocked"

\* What shutdown returned: nothing for a connection told to disconnect, the
\* connection with its backlog otherwise, also after an error.
PassedOn(c) == tpEnd[c] # "blocked" /\ tpCancel[c] # "early"

\* join_conn of the half-open manifold; a blocked broadcast stops it, and
\* what the stopped manifold still joins is dropped.
HalfJoin(c) ==
    /\ tpHalf[c] = "result" /\ tpHanding = TpNoConn
    /\ tpHalf' = [tpHalf EXCEPT ![c] = "done"]
    /\ tpHalfMain' = IF tpEnd[c] = "blocked" THEN "stopped" ELSE tpHalfMain
    /\ IF tpHalfMain = "run" /\ PassedOn(c)
       THEN tpHanding' = c /\ UNCHANGED tpSink
       ELSE /\ tpSink' = [tpSink EXCEPT ![c] = IF @ = "open" THEN "dropped" ELSE @]
            /\ UNCHANGED tpHanding
    /\ UNCHANGED <<tpEnd, tpCancel, tpFold, tpSince, tpConn, tpConnEnd, tpStream, tpBacklog, tpTold, tpMain, torrentModelVars>>

(* The Conn side. *)

\* Manifold::with_backlog: Conn::spawn, or the torrent is gone.
ManifoldTakes(c) ==
    /\ tpHanding = c /\ ~tmPoisoned
    /\ tpHanding' = TpNoConn
    /\ IF tpMain = "run" /\ Initialized
       THEN /\ SpawnFold(c) /\ ConnectPeer(c)
            /\ tpConn' = [tpConn EXCEPT ![c] = "start"]
            /\ UNCHANGED tpSink
       ELSE /\ tpConn' = [tpConn EXCEPT ![c] = "done"]
            /\ tpSink' = [tpSink EXCEPT ![c] = IF @ = "broken" THEN @ ELSE "closed"]
            /\ UNCHANGED <<tpFold, tpSince, torrentModelVars>>
    /\ UNCHANGED <<tpHalf, tpEnd, tpCancel, tpConnEnd, tpStream, tpBacklog, tpTold, tpMain, tpHalfMain>>

ConnEnds(c, end) ==
    /\ tpConn' = [tpConn EXCEPT ![c] = "stop"] /\ tpConnEnd' = [tpConnEnd EXCEPT ![c] = end]
    /\ UNCHANGED <<tpTold, tpBacklog, tpStream>>

\* Mutant of NextMessage: the stream before the backlog.
StreamFirst(c) == IF tpStream[c] < TpMaxMessages THEN tpStream[c] + 1 ELSE Head(tpBacklog[c])

\* ConnReceiver: the backlog first, then the stream.
NextMessage(c) == IF tpBacklog[c] # <<>> THEN Head(tpBacklog[c]) ELSE tpStream[c] + 1

ConnStep(c) ==
    /\ \/ /\ tpConn[c] = "start"
          /\ tpConn' = [tpConn EXCEPT ![c] = "run"]
          /\ tpTold' = [tpTold EXCEPT ![c] = Append(@, 0)]
          /\ UNCHANGED <<tpConnEnd, tpBacklog, tpStream>>
       \/ tpConn[c] = "start" /\ ConnEnds(c, "blocked")
       \/ /\ tpConn[c] = "run" /\ (tpBacklog[c] # <<>> \/ tpStream[c] < TpMaxMessages)
          /\ tpTold' = [tpTold EXCEPT ![c] = Append(@, NextMessage(c))]
          /\ IF NextMessage(c) > tpStream[c]
             THEN tpStream' = [tpStream EXCEPT ![c] = @ + 1] /\ UNCHANGED tpBacklog
             ELSE tpBacklog' = [tpBacklog EXCEPT ![c] = Tail(@)] /\ UNCHANGED tpStream
          /\ UNCHANGED <<tpConn, tpConnEnd>>
       \/ tpConn[c] = "run" /\ Changed(c) /\ ConnEnds(c, "ok")
       \/ tpConn[c] = "run" /\ \E end \in {"ok", "blocked"} : ConnEnds(c, end)
    /\ UNCHANGED <<tpHalf, tpEnd, tpCancel, tpFold, tpSince, tpHanding, tpSink, tpMain, tpHalfMain, torrentModelVars>>

\* shutdown, after the sender closed the sink: disconnect_peer, then
\* Disconnect is told unless the broadcast is blocked or the task panicked.
ConnShutdown(c) ==
    /\ tpConn[c] = "stop" /\ ~tmPoisoned
    /\ DisconnectPeer(c)
    /\ tpConn' = [tpConn EXCEPT ![c] = "result"]
    /\ tpSink' = [tpSink EXCEPT ![c] = IF @ = "broken" THEN @ ELSE "closed"]
    /\ tpTold' = [tpTold EXCEPT ![c] = IF tpConnEnd[c] = "blocked" \/ tmPoisoned' THEN @ ELSE Append(@, -1)]
    /\ UNCHANGED <<tpHalf, tpEnd, tpCancel, tpFold, tpSince, tpHanding, tpConnEnd, tpStream, tpBacklog, tpMain, tpHalfMain>>

\* join_conn of the manifold; a blocked broadcast stops it.
ConnJoin(c) ==
    /\ tpConn[c] = "result"
    /\ tpConn' = [tpConn EXCEPT ![c] = "done"]
    /\ tpMain' = IF tpConnEnd[c] = "blocked" THEN "stopped" ELSE tpMain
    /\ UNCHANGED <<tpHalf, tpEnd, tpCancel, tpFold, tpSince, tpHanding, tpConnEnd, tpSink, tpStream, tpBacklog,
                   tpTold, tpHalfMain, torrentModelVars>>

\* join_conn of either manifold for a connection that is not followed here.
OtherJoins ==
    /\ \/ tpMain = "run" /\ tpMain' = "stopped" /\ UNCHANGED tpHalfMain
       \/ tpHalfMain = "run" /\ tpHalfMain' = "stopped" /\ UNCHANGED tpMain
    /\ UNCHANGED <<tpHalf, tpEnd, tpCancel, tpFold, tpSince, tpHanding, tpConn, tpConnEnd, tpSink, tpStream,
                   tpBacklog, tpTold, torrentModelVars>>

TorrentPeersNext ==
    \/ OtherJoins
    \/ /\ NewTorrent \/ RemoveTorrent \/ \E pieces \in {{}, TmPieces} : InitTorrent(pieces)
       /\ UNCHANGED torrentPeersVars
    \/ \E c \in TpConns :
          \/ Fold(c) \/ Connect(c) \/ HalfStep(c) \/ Disconnect(c) \/ HalfShutdown(c) \/ HalfJoin(c)
          \/ ManifoldTakes(c) \/ ConnStep(c) \/ ConnShutdown(c) \/ ConnJoin(c)

(* Properties. *)

\* The model knows a connection while its Conn actor runs, and only then.
ModelKnowsConns == ~tmPoisoned => tmConns = {c \in TmConns : tpConn[c] \in {"start", "run", "stop"}}

\* Subscribers see Connect, the peer's messages in their order and Disconnect last.
\* None is repeated or missing across the hand-over, but for the one message that did
\* not fit in the backlog, when that ended the half-open actor.
TalesAreWhole ==
    \A c \in TmConns : \A i \in 1 .. Len(tpTold[c]) :
        \/ tpTold[c][i] = i - 1 + (IF tpEnd[c] = "backlog" /\ i > TpBacklogLimit + 1 THEN 1 ELSE 0)
        \/ tpTold[c][i] = -1 /\ i = Len(tpTold[c])

\* A connection that nobody runs any more is not left open.
NoOneForgotten ==
    \A c \in TmConns :
        tpHalf[c] = "done" /\ tpHanding # c /\ tpConn[c] \in {"none", "done"} => tpSink[c] # "open"

\* A connection that was told to disconnect while half-open, even after its loop had
\* ended for another reason, is closed and never taken up by the manifold.  One whose
\* half-open actor failed is taken up: its sink is closed or broken by then, so that
\* its first send ends it.  No other connection is taken up like that.
NoneTakenUpAgain ==
    \A c \in TmConns :
        /\ tpCancel[c] = "early" =>
             /\ tpConn[c] = "none"
             /\ tpHalf[c] \in {"result", "done"} => tpSink[c] \in {"closed", "broken"}
        /\ tpConn[c] \in {"start", "run"} /\ tpSink[c] # "open" =>
             tpEnd[c] \in {"backlog", "message", "io"}

Since(c) == {tmUpdates[i][1] : i \in tpSince[c] + 1 .. Len(tmUpdates)}

Coming(c) == Changed(c) \/ tpFold[c].read < Len(tmUpdates)

\* An actor never misses the change it waits for: the initialisation of
\* the torrent when half-open, its removal afterwards.
ChangesArrive ==
    \A c \in TmConns :
        /\ tpHalf[c] \in {"start", "run"} /\ "init" \in Since(c) => Coming(c)
        /\ tpConn[c] \in {"start", "run"} /\ "remove" \in Since(c) => Coming(c)

(***************************************************************************)
(* The connections of a torrent are kept track of through the hand-over    *)
(* from half-open to open, whether their half-open actor ends well, with   *)
(* an error or because it was told to.                                     *)
(***************************************************************************)
ConnsAreKept ==
    ModelKnowsConns /\ TalesAreWhole /\ NoOneForgotten /\ NoneTakenUpAgain /\ ChangesArrive
=============================================================================
