---------------------------- MODULE PeerManager ----------------------------
(* The actor that connects, accepts and retires the peers of a torrent     *)
(* (bittorrent/manager/src/actor.rs, manager.rs, net.rs).  Its maps are    *)
(* shared with the other tasks behind a mutex; each handler changes them   *)
(* and queues an update for the subscribers without awaiting in between,   *)
(* so a handler is one action.                                             *)
EXTENDS Naturals, FiniteSets, Sequences, SequencesExt

CONSTANTS
    PmPeers,       \* endpoints
    PmPrefs,       \* the pairs (transport, cipher), in DEFAULT_PREFS order
    PmMaxTasks,    \* bounds the peer tasks ever spawned
    PmMaxAccepts   \* bounds the sockets being accepted at a time

VARIABLES
    pmConnector,  \* endpoint -> the preferences of its connector; <<>> if unknown,
                  \* PmOut while a connect has borrowed it
    pmConnects,   \* endpoint -> the preference list of the connect in flight, or <<>>
    pmAccepts,    \* accepts in flight: [peer, utp]
    pmPeers,      \* peers: endpoint -> id of its task, 0 when absent
    pmEndpoints,  \* peer_endpoints: id of a task -> endpoint
    pmTasks,      \* the JoinQueue: id -> "running" or "ended"
    pmLast,       \* endpoint -> the last update sent: "none", "start" or "stop"
    pmNext,       \* the next task id
    pmPhase       \* "run", "drain" after the loop, "done"; "failed" after an error

managerVars == <<pmConnector, pmConnects, pmAccepts, pmPeers, pmEndpoints, pmTasks,
                 pmLast, pmNext, pmPhase>>

PmDrop(f, x) == [y \in DOMAIN f \ {x} |-> f[y]]

PmPut(f, x, v) == [y \in DOMAIN f \cup {x} |-> IF y = x THEN v ELSE f[y]]

PmOut == <<"out">>

ManagerInit ==
    /\ pmConnector = [p \in PmPeers |-> <<>>] /\ pmConnects = [p \in PmPeers |-> <<>>]
    /\ pmAccepts = {} /\ pmPeers = [p \in PmPeers |-> 0]
    /\ pmEndpoints = <<>> /\ pmTasks = <<>> /\ pmNext = 1
    /\ pmLast = [p \in PmPeers |-> "none"] /\ pmPhase = "run"

\* borrow_connector: of an unknown peer, or one that has come back.
BorrowConnector(p) ==
    /\ pmConnector[p] # PmOut
    /\ pmConnector' = [pmConnector EXCEPT ![p] = PmOut]
    /\ pmConnects' = [pmConnects EXCEPT ![p] =
            IF pmConnector[p] = <<>> THEN PmPrefs ELSE pmConnector[p]]

HandleConnect(p) ==
    /\ pmPhase = "run" /\ pmPeers[p] = 0
    /\ BorrowConnector(p)
    /\ UNCHANGED <<pmAccepts, pmPeers, pmEndpoints, pmTasks, pmLast, pmNext, pmPhase>>

SpawnOverPeer(p) ==
    /\ pmNext <= PmMaxTasks
    /\ pmNext' = pmNext + 1
    /\ pmPeers' = [pmPeers EXCEPT ![p] = pmNext]
    /\ pmEndpoints' = PmPut(pmEndpoints, pmNext, p)
    /\ pmTasks' = PmPut(pmTasks, pmNext, "running")
    /\ pmLast' = [pmLast EXCEPT ![p] = "start"]

\* Peers::spawn, then handle_peer_start: the task is queued and announced.
\* If a peer of this endpoint is running the new socket is shut down.
SpawnPeer(p) ==
    IF pmPeers[p] # 0
    THEN UNCHANGED <<pmPeers, pmEndpoints, pmTasks, pmLast, pmNext>>
    ELSE /\ pmNext <= PmMaxTasks
         /\ pmNext' = pmNext + 1
         /\ pmPeers' = [pmPeers EXCEPT ![p] = pmNext]
         /\ pmEndpoints' = PmPut(pmEndpoints, pmNext, p)
         /\ pmTasks' = PmPut(pmTasks, pmNext, "running")
         /\ pmLast' = [pmLast EXCEPT ![p] = "start"]

\* connect: the preference that works moves to the front; the others keep
\* their order (prefs[0..=i].rotate_right(1)).
Rotated(prefs, i) == <<prefs[i]>> \o RemoveAt(prefs, i)

\* A connect ends: with a socket from its i-th preference, or (0) without.
HandleConnected(p, i) ==
    /\ pmPhase = "run" /\ pmConnects[p] # <<>>
    /\ pmConnects' = [pmConnects EXCEPT ![p] = <<>>]
    /\ pmConnector' = [pmConnector EXCEPT ![p] =
            IF i = 0 THEN pmConnects[p] ELSE Rotated(pmConnects[p], i)]
    /\ IF i = 0 THEN UNCHANGED <<pmPeers, pmEndpoints, pmTasks, pmLast, pmNext>> ELSE SpawnPeer(p)
    /\ UNCHANGED <<pmAccepts, pmPhase>>

HandleAccept(p, utp) ==
    /\ pmPhase = "run" /\ Cardinality(pmAccepts) < PmMaxAccepts
    /\ pmAccepts' = pmAccepts \cup {[peer |-> p, utp |-> utp]}
    /\ UNCHANGED <<pmConnector, pmConnects, pmPeers, pmEndpoints, pmTasks, pmLast, pmNext, pmPhase>>

InsertNewConnector(p) == [pmConnector EXCEPT ![p] = PmPrefs]

\* insert_connector, unless there is one, at home or borrowed.
InsertConnector(p) ==
    IF pmConnector[p] = <<>> THEN [pmConnector EXCEPT ![p] = PmPrefs] ELSE pmConnector

\* An accept ends.  The endpoint of a uTP peer is also where it listens.
HandleAccepted(a, ok) ==
    /\ pmPhase = "run" /\ a \in pmAccepts
    /\ pmAccepts' = pmAccepts \ {a}
    /\ IF ok
       THEN /\ SpawnPeer(a.peer)
            /\ pmConnector' = IF a.utp THEN InsertConnector(a.peer) ELSE pmConnector
       ELSE UNCHANGED <<pmConnector, pmPeers, pmEndpoints, pmTasks, pmLast, pmNext>>
    /\ UNCHANGED <<pmConnects, pmPhase>>

\* A peer's task ends: its socket closes, or it is cancelled.
PeerTaskEnds(id) ==
    /\ id \in DOMAIN pmTasks /\ pmTasks[id] = "running"
    /\ pmTasks' = [pmTasks EXCEPT ![id] = "ended"]
    /\ UNCHANGED <<pmConnector, pmConnects, pmAccepts, pmPeers, pmEndpoints, pmLast, pmNext, pmPhase>>

\* join_next and handle_peer_stop: remove_by_id, then announce.
HandlePeerStop(id) ==
    /\ pmPhase \in {"run", "drain"} /\ id \in DOMAIN pmTasks /\ pmTasks[id] = "ended"
    /\ pmTasks' = PmDrop(pmTasks, id)
    /\ pmEndpoints' = PmDrop(pmEndpoints, id)
    /\ pmPeers' = [pmPeers EXCEPT ![pmEndpoints[id]] = 0]
    /\ pmLast' = [pmLast EXCEPT ![pmEndpoints[id]] = "stop"]
    /\ UNCHANGED <<pmConnector, pmConnects, pmAccepts, pmNext, pmPhase>>

LeaveLoopAtOnce ==
    /\ pmPhase = "run" /\ pmPhase' = "done"
    /\ UNCHANGED <<pmConnector, pmConnects, pmAccepts, pmPeers, pmEndpoints, pmTasks, pmLast, pmNext>>

\* Cancellation or a closed channel ends the loop; the futures in flight are
\* dropped with it at the end of run().
LeaveLoop ==
    /\ pmPhase = "run" /\ pmPhase' = "drain"
    /\ UNCHANGED <<pmConnector, pmConnects, pmAccepts, pmPeers, pmEndpoints, pmTasks, pmLast, pmNext>>

\* join_next returns None: the queue is closed and empty.
ManagerEnds ==
    /\ pmPhase = "drain" /\ pmTasks = <<>> /\ pmPhase' = "done"
    /\ UNCHANGED <<pmConnector, pmConnects, pmAccepts, pmPeers, pmEndpoints, pmTasks, pmLast, pmNext>>

\* An error of the listener returns from run() at once: the queue is dropped, and
\* with it the tasks are aborted; the shared maps stay as they are.
AcceptFails ==
    /\ pmPhase = "run" /\ pmPhase' = "failed" /\ pmTasks' = <<>>
    /\ UNCHANGED <<pmConnector, pmConnects, pmAccepts, pmPeers, pmEndpoints, pmLast, pmNext>>

ManagerNext ==
    \/ \E p \in PmPeers : HandleConnect(p)
    \/ \E p \in PmPeers : \E i \in 0..Len(PmPrefs) : HandleConnected(p, i)
    \/ \E p \in PmPeers, utp \in BOOLEAN : HandleAccept(p, utp)
    \/ \E a \in pmAccepts, ok \in BOOLEAN : HandleAccepted(a, ok)
    \/ \E id \in DOMAIN pmTasks : PeerTaskEnds(id) \/ HandlePeerStop(id)
    \/ LeaveLoop
    \/ ManagerEnds
    \/ AcceptFails

-----------------------------------------------------------------------------

\* Every peer in the map is the peer of exactly one queued task, found by its
\* id: both unwraps of remove_by_id succeed and the assertion of spawn holds,
\* whatever connects, accepts and ends of the same endpoint overlap.  After an
\* error of the listener no task is left and the peers are still in the map.
PeersAreTasks ==
    /\ DOMAIN pmTasks = IF pmPhase = "failed" THEN {} ELSE DOMAIN pmEndpoints
    /\ \A id \in DOMAIN pmEndpoints : pmPeers[pmEndpoints[id]] = id
    /\ \A p \in PmPeers : pmPeers[p] # 0 => pmPeers[p] \in DOMAIN pmEndpoints

\* The connector of an endpoint is away exactly while one connect to it is in
\* flight, so return_connector never panics, and however often preferences
\* rotate none is lost.
ConnectorIsReturned ==
    \A p \in PmPeers :
        /\ pmConnector[p] = PmOut <=> pmConnects[p] # <<>>
        /\ \A prefs \in {pmConnector[p], pmConnects[p]} \ {PmOut, <<>>} :
                Range(prefs) = Range(PmPrefs) /\ Len(prefs) = Len(PmPrefs)

\* Subscribers can trust the updates: the last one of an endpoint is Start
\* exactly while the manager's map has the peer, and when the actor has drained
\* its tasks every peer that was started has been stopped.  After an error of the
\* listener the peers it had stay started for ever: there is no drain, no Stop.
UpdatesAreTrue ==
    /\ \A p \in PmPeers : pmLast[p] = "start" <=> pmPeers[p] # 0
    /\ pmPhase = "done" => \A p \in PmPeers : pmLast[p] # "start"

\* The manager's maps, connectors, tasks and published updates agree.
ManagerIsConsistent == PeersAreTasks /\ ConnectorIsReturned /\ UpdatesAreTrue
=============================================================================
