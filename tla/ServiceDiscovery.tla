-------------------------- MODULE ServiceDiscovery --------------------------
(* The task that keeps the map of connected servers                        *)
(* (ddcache/client/service/src/lib.rs, with FixedDelayQueue of             *)
(* g1/tokio/src/time/queue/naive.rs).  Servers register in and disappear   *)
(* from etcd, the subscription breaks and is made again, a server that     *)
(* disappears is only disconnected after a while, and a client task that   *)
(* is cancelled or fails is removed when it is joined.  etcd is external.  *)
EXTENDS Naturals, Sequences

CONSTANTS
    SdIds,         \* server ids
    SdDisconnect,  \* DISCONNECT_BEFORE
    SdMaxEvents,   \* bounds changes of the registrations
    SdMaxBreaks,   \* bounds broken subscriptions
    SdMaxFails,    \* bounds client tasks that fail by themselves
    SdMaxTime

ASSUME ServiceAssumption == SdDisconnect \in Nat

VARIABLES
    sdEtcd,     \* registered servers
    sdStream,   \* [broken, events]: the subscriber
    sdServers,  \* id -> state of its client task: "run", "cancel" or "ended"
    sdSeen,     \* last_seen
    sdLeave,    \* will_disconnect: [id, at]
    sdActor,    \* [pc, id, scan]: where the task is
    sdClock,
    sdMissed,   \* ghost: servers seen while their client was already stopping
    sdLost,     \* ghost: servers whose deletion a broken stream did not report
    sdBudget    \* [events, breaks, fails] so far

serviceVars ==
    <<sdEtcd, sdStream, sdServers, sdSeen, sdLeave, sdActor, sdClock, sdMissed, sdLost, sdBudget>>

SdIdle == [pc |-> "loop", id |-> {}, scan |-> {}]

ServiceInit ==
    /\ sdEtcd \in SUBSET SdIds
    /\ sdStream = [broken |-> FALSE, events |-> <<>>]
    /\ sdServers = [i \in sdEtcd |-> "run"] /\ sdSeen = [i \in sdEtcd |-> 0]
    /\ sdLeave = <<>> /\ sdActor = SdIdle /\ sdClock = 1 /\ sdMissed = {} /\ sdLost = {}
    /\ sdBudget = [events |-> 0, breaks |-> 0, fails |-> 0]

-----------------------------------------------------------------------------
(* etcd and the client tasks. *)

SdTick ==
    /\ sdClock < SdMaxTime /\ sdClock' = sdClock + 1
    /\ UNCHANGED <<sdEtcd, sdStream, sdServers, sdSeen, sdLeave, sdActor, sdMissed, sdLost, sdBudget>>

Registers(i) ==
    /\ sdBudget.events < SdMaxEvents /\ sdBudget' = [sdBudget EXCEPT !.events = @ + 1]
    /\ sdEtcd' = IF i \in sdEtcd THEN sdEtcd \ {i} ELSE sdEtcd \cup {i}
    /\ sdStream' = IF sdStream.broken THEN sdStream
                   ELSE [sdStream EXCEPT !.events = Append(@, [id |-> i, create |-> i \notin sdEtcd])]
    /\ sdLost' = IF sdStream.broken /\ i \in sdEtcd THEN sdLost \cup {i} ELSE sdLost \ {i}
    /\ UNCHANGED <<sdServers, sdSeen, sdLeave, sdActor, sdClock, sdMissed>>

\* The stream breaks after the events already in it.
SubscriberBreaks ==
    /\ ~ sdStream.broken
    /\ sdBudget.breaks < SdMaxBreaks /\ sdBudget' = [sdBudget EXCEPT !.breaks = @ + 1]
    /\ sdStream' = [sdStream EXCEPT !.broken = TRUE]
    /\ UNCHANGED <<sdEtcd, sdServers, sdSeen, sdLeave, sdActor, sdClock, sdMissed, sdLost>>

ClientEnds(i) ==
    /\ sdServers[i] \in {"run", "cancel"}
    /\ \/ sdServers[i] = "cancel" /\ UNCHANGED <<sdBudget, sdMissed>>
       \/ /\ sdServers[i] = "run" /\ sdBudget.fails < SdMaxFails
          /\ sdBudget' = [sdBudget EXCEPT !.fails = @ + 1]
          /\ sdMissed' = sdMissed \cup {i}
    /\ sdServers' = [sdServers EXCEPT ![i] = "ended"]
    /\ UNCHANGED <<sdEtcd, sdStream, sdSeen, sdLeave, sdActor, sdClock, sdLost>>

-----------------------------------------------------------------------------
(* The task.  Instants it records are distinct: each advances the clock.   *)

\* connect_impl: a server in the map is only told its endpoint, even when its
\* client is stopping.
Connect(ids) ==
    /\ sdServers' = [i \in DOMAIN sdServers \cup ids |->
            IF i \in DOMAIN sdServers THEN sdServers[i] ELSE "run"]
    /\ sdMissed' = (sdMissed \ (ids \ DOMAIN sdServers))
            \cup {i \in ids \cap DOMAIN sdServers : sdServers[i] # "run"}

Saw(ids) == [i \in DOMAIN sdSeen \cup ids |-> IF i \in ids THEN sdClock ELSE sdSeen[i]]

\* update_last_seen
UpdateLastSeen(ids) ==
    LET seen == Saw(ids)
    IN [i \in {j \in DOMAIN seen : sdClock - seen[j] <= SdDisconnect} |-> seen[i]]

LeaveAtSooner == sdClock + SdDisconnect - 1

\* FixedDelayQueue::push
LeaveAt == sdClock + SdDisconnect

\* handle_subscriber_event
HandleEvent ==
    /\ sdActor.pc = "loop" /\ sdStream.events # <<>>
    /\ sdClock < SdMaxTime /\ sdClock' = sdClock + 1
    /\ sdStream' = [sdStream EXCEPT !.events = Tail(@)]
    /\ LET event == Head(sdStream.events)
       IN IF event.create
          THEN sdSeen' = Saw({event.id}) /\ Connect({event.id}) /\ UNCHANGED sdLeave
          ELSE /\ sdLeave' = Append(sdLeave, [id |-> event.id, at |-> LeaveAt])
               /\ UNCHANGED <<sdSeen, sdServers, sdMissed>>
    /\ UNCHANGED <<sdEtcd, sdActor, sdLost, sdBudget>>

\* reinit_subscriber: subscribe, and then, after a round trip, what was scanned
Resubscribe ==
    /\ sdActor.pc = "loop" /\ sdStream.broken /\ sdStream.events = <<>>
    /\ sdStream' = [broken |-> FALSE, events |-> <<>>]
    /\ sdActor' = [sdActor EXCEPT !.pc = "scan"]
    /\ UNCHANGED <<sdEtcd, sdServers, sdSeen, sdLeave, sdClock, sdMissed, sdLost, sdBudget>>

ReinitScan ==
    /\ sdActor.pc = "scan"
    /\ sdActor' = [sdActor EXCEPT !.pc = "scanned", !.scan = sdEtcd]
    /\ UNCHANGED <<sdEtcd, sdStream, sdServers, sdSeen, sdLeave, sdClock, sdMissed, sdLost, sdBudget>>

ReinitForgetful ==
    /\ sdActor.pc = "scanned" /\ sdClock < SdMaxTime /\ sdClock' = sdClock + 1
    /\ sdSeen' = UpdateLastSeen(sdActor.scan)
    /\ sdActor' = SdIdle
    /\ UNCHANGED <<sdEtcd, sdStream, sdServers, sdLeave, sdMissed, sdLost, sdBudget>>

ReinitConnect ==
    /\ sdActor.pc = "scanned" /\ sdClock < SdMaxTime /\ sdClock' = sdClock + 1
    /\ sdSeen' = UpdateLastSeen(sdActor.scan)
    /\ Connect(sdActor.scan)
    /\ sdActor' = SdIdle
    /\ UNCHANGED <<sdEtcd, sdStream, sdLeave, sdLost, sdBudget>>

\* will_disconnect.pop, and the scan that follows it
PopLeave ==
    /\ sdActor.pc = "loop" /\ sdLeave # <<>> /\ Head(sdLeave).at <= sdClock
    /\ sdActor' = [pc |-> "leave", id |-> {Head(sdLeave).id}, scan |-> {}]
    /\ sdLeave' = Tail(sdLeave)
    /\ UNCHANGED <<sdEtcd, sdStream, sdServers, sdSeen, sdClock, sdMissed, sdLost, sdBudget>>

LeaveScan ==
    /\ sdActor.pc = "leave"
    /\ sdActor' = [sdActor EXCEPT !.pc = "decide", !.scan = sdEtcd]
    /\ UNCHANGED <<sdEtcd, sdStream, sdServers, sdSeen, sdLeave, sdClock, sdMissed, sdLost, sdBudget>>

Disconnect ==
    /\ sdActor.pc = "decide" /\ sdClock < SdMaxTime /\ sdClock' = sdClock + 1
    /\ \E i \in sdActor.id :
        LET seen == UpdateLastSeen(sdActor.scan)
            gone == i \notin DOMAIN seen \/ sdClock - seen[i] > SdDisconnect
        IN /\ sdSeen' = seen
           /\ sdServers' = IF gone /\ i \in DOMAIN sdServers /\ sdServers[i] = "run"
                           THEN [sdServers EXCEPT ![i] = "cancel"] ELSE sdServers
    /\ sdActor' = SdIdle
    /\ UNCHANGED <<sdEtcd, sdStream, sdLeave, sdMissed, sdLost, sdBudget>>

\* ServerMap::handle_task
HandleTask(i) ==
    /\ sdActor.pc = "loop" /\ sdServers[i] = "ended"
    /\ sdServers' = [j \in DOMAIN sdServers \ {i} |-> sdServers[j]]
    /\ UNCHANGED <<sdEtcd, sdStream, sdSeen, sdLeave, sdActor, sdClock, sdMissed, sdLost, sdBudget>>

ServiceNext ==
    \/ SdTick \/ SubscriberBreaks \/ HandleEvent \/ Resubscribe \/ ReinitScan \/ ReinitConnect
    \/ PopLeave \/ LeaveScan \/ Disconnect
    \/ \E i \in SdIds : Registers(i)
    \/ \E i \in DOMAIN sdServers : ClientEnds(i) \/ HandleTask(i)

ServiceSpec == ServiceInit /\ [][ServiceNext]_serviceVars

-----------------------------------------------------------------------------

UpToDate == sdActor.pc = "loop" /\ ~ sdStream.broken /\ sdStream.events = <<>>

\* Once the task has caught up, a registered server is in the map, though it may
\* have registered while the subscription was broken; but one that was seen again
\* while its client was still stopping, or whose client failed, may be missing
\* until it is seen the next time (connect_impl only updates the endpoint).
RegisteredIsKnown == UpToDate => sdEtcd \subseteq DOMAIN sdServers \cup sdMissed

\* A server that disappeared is on its way out of the map: each has a delayed
\* disconnection still to come, and none is left behind by an earlier one that
\* found it seen.  One that disappeared while the subscription was broken is not:
\* reinit_subscriber connects the servers it scans and disconnects no other.
GoneIsLeaving ==
    UpToDate => \A i \in DOMAIN sdServers \ (sdEtcd \cup sdLost) :
                    sdServers[i] # "run" \/ \E n \in DOMAIN sdLeave : sdLeave[n].id = i

\* Nothing but a broken subscription keeps a server that disappeared in the map.
OnlyBreaksLose == sdBudget.breaks = 0 => sdLost = {}

\* The map of servers follows the directory in both directions, but for the servers
\* that leave while no subscription stands and those met while their client stops.
DirectoryIsTrue == RegisteredIsKnown /\ GoneIsLeaving /\ OnlyBreaksLose
=============================================================================
