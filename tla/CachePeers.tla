----------------------------- MODULE CachePeers -----------------------------
(* How ddcache servers move a blob among themselves                        *)
(* (ddcache/peer/src/lib.rs with find and all of client/service, the       *)
(* requests of client/raw/src/concurrent.rs and remove of                  *)
(* client/src/client.rs).  One key is followed: a server that misses it    *)
(* pulls it, a server that sees a peer start pushes it there and then      *)
(* cleans up what it is no longer a designated replica of, and a client    *)
(* removes it from all shards.  Storage guards appear as the states of the *)
(* blob (being written, present with readers); a removal waits for them,   *)
(* as BlobStorage checks in detail.                                        *)
EXTENDS Naturals, FiniteSets

CONSTANTS
    CpServers,
    CpReplicas,   \* num_replicas
    CpMaxTasks,   \* bounds the peer tasks ever spawned
    CpMaxFaults,  \* bounds failed transfers
    CpMaxStops,   \* bounds servers that drop out of a view
    CpClient      \* the servers in the map of the client that removes the key

ASSUME CachePeersAssumption == IsFiniteSet(CpServers) /\ CpReplicas \in Nat /\ CpClient \subseteq CpServers

VARIABLES
    cpRank,     \* the place of each server in the rendezvous order of the key
    cpView,     \* the server map of each server, itself included
    cpStore,    \* "none", "write" or "have", at each server
    cpReaders,  \* the readers of the blob at each server (tasks)
    cpTasks,    \* id -> [kind, at, peer, pc]
    cpNextTask,
    cpInbound,  \* the pushed blob a server is left with: "whole", or in "part", or "none"
    cpRemove,   \* servers the client's remove has still to reach
    cpFaults, cpStops

cachePeersVars ==
    <<cpRank, cpView, cpStore, cpReaders, cpTasks, cpNextTask, cpInbound, cpRemove, cpFaults, cpStops>>

\* No two servers have the same place.
CpRanks ==
    {rank \in [CpServers -> 1 .. Cardinality(CpServers)] :
        \A s, p \in CpServers : rank[s] = rank[p] => s = p}

CachePeersInit ==
    /\ cpRank \in CpRanks
    /\ cpView = [s \in CpServers |-> {s}]
    /\ \E s \in CpServers : cpStore = [t \in CpServers |-> IF t = s THEN "have" ELSE "none"]
    /\ cpReaders = [s \in CpServers |-> {}]
    /\ cpTasks = <<>> /\ cpNextTask = 1
    /\ cpInbound = [s \in CpServers |-> "none"]
    /\ cpRemove = CpClient
    /\ cpFaults = 0 /\ cpStops = 0

\* ServerMap::find: the first n servers of a view in rendezvous order.
Ahead(view, s) == {p \in view : cpRank[p] < cpRank[s]}

Find(view, n) == {s \in view : Cardinality(Ahead(view, s)) < n}

Designated(view, s) == s \in Find(view, CpReplicas)

PeerTask(kind, s, p, pc) == [kind |-> kind, at |-> s, peer |-> p, pc |-> pc]

Goto(id, pc) == cpTasks' = [cpTasks EXCEPT ![id].pc = pc]

Finish(id) == cpTasks' = [i \in DOMAIN cpTasks \ {id} |-> cpTasks[i]]

Spawn(kind, s, p) ==
    /\ cpNextTask <= CpMaxTasks
    /\ cpNextTask' = cpNextTask + 1
    /\ cpTasks' = [i \in DOMAIN cpTasks \cup {cpNextTask} |->
            IF i = cpNextTask THEN PeerTask(kind, s, p, "start") ELSE cpTasks[i]]

-----------------------------------------------------------------------------

\* connect_impl of a new server, Update::Start and handle_update
PeerStarts(s, p) ==
    /\ p \notin cpView[s]
    /\ cpView' = [cpView EXCEPT ![s] = @ \cup {p}]
    /\ Spawn("push", s, p)
    /\ UNCHANGED <<cpRank, cpStore, cpReaders, cpInbound, cpRemove, cpFaults, cpStops>>

\* handle_task of the service: the server is out of the map; Update::Stop
\* does nothing in the peer.
PeerStops(s, p) ==
    /\ p \in cpView[s] \ {s} /\ cpStops < CpMaxStops
    /\ cpStops' = cpStops + 1
    /\ cpView' = [cpView EXCEPT ![s] = @ \ {p}]
    /\ UNCHANGED <<cpRank, cpStore, cpReaders, cpTasks, cpNextTask, cpInbound, cpRemove, cpFaults>>

\* A read of the server misses: try_pull and handle_pull
ReadMiss(s) ==
    /\ cpStore[s] = "none"
    /\ Spawn("pull", s, s)
    /\ UNCHANGED <<cpRank, cpView, cpStore, cpReaders, cpInbound, cpRemove, cpFaults, cpStops>>

\* pull: find, and whether we are a designated replica
PullFind(id) ==
    LET s == cpTasks[id].at
    IN /\ cpTasks[id].kind = "pull" /\ cpTasks[id].pc = "start"
       /\ \/ /\ Designated(cpView[s], s)
             /\ \E p \in Find(cpView[s], CpReplicas + 1) \ {s} :
                    cpTasks' = [cpTasks EXCEPT ![id] = PeerTask("pull", s, p, "ask")]
          \/ /\ ~ Designated(cpView[s], s) \/ Find(cpView[s], CpReplicas + 1) = {s}
             /\ Finish(id)
       /\ UNCHANGED <<cpRank, cpView, cpStore, cpReaders, cpNextTask, cpInbound, cpRemove, cpFaults, cpStops>>

\* request_any: a server that has the blob leases it to us
PullAsk(id) ==
    LET p == cpTasks[id].peer
    IN /\ cpTasks[id].kind = "pull" /\ cpTasks[id].pc = "ask" /\ cpStore[p] # "write"
       /\ IF cpStore[p] = "have"
          THEN Goto(id, "write") /\ cpReaders' = [cpReaders EXCEPT ![p] = @ \cup {id}]
          ELSE Finish(id) /\ UNCHANGED cpReaders
       /\ UNCHANGED <<cpRank, cpView, cpStore, cpNextTask, cpInbound, cpRemove, cpFaults, cpStops>>

\* write_new; a blob that is there or being written cancels the lease
PullWrite(id) ==
    LET s == cpTasks[id].at
        p == cpTasks[id].peer
    IN /\ cpTasks[id].kind = "pull" /\ cpTasks[id].pc = "write"
       /\ IF cpStore[s] = "none"
          THEN Goto(id, "read") /\ cpStore' = [cpStore EXCEPT ![s] = "write"] /\ UNCHANGED cpReaders
          ELSE Finish(id) /\ cpReaders' = [cpReaders EXCEPT ![p] = @ \ {id}] /\ UNCHANGED cpStore
       /\ UNCHANGED <<cpRank, cpView, cpNextTask, cpInbound, cpRemove, cpFaults, cpStops>>

\* A transfer fails or succeeds.
Fault(failed) ==
    /\ failed => cpFaults < CpMaxFaults
    /\ cpFaults' = IF failed THEN cpFaults + 1 ELSE cpFaults

\* The peer has sent the last byte of a pull, and drops its reader.
PullSent(id) ==
    LET p == cpTasks[id].peer
    IN /\ cpTasks[id].kind = "pull" /\ cpTasks[id].pc = "read"
       /\ Goto(id, "sent")
       /\ cpReaders' = [cpReaders EXCEPT ![p] = @ \ {id}]
       /\ UNCHANGED <<cpRank, cpView, cpStore, cpNextTask, cpInbound, cpRemove, cpFaults, cpStops>>

\* blob.read and commit; an error drops the writer
PullRead(id, failed) ==
    LET t == cpTasks[id]
    IN /\ t.kind = "pull" /\ t.pc \in {"read", "sent"}
       /\ Fault(failed)
       /\ cpStore' = [cpStore EXCEPT ![t.at] = IF failed THEN "none" ELSE "have"]
       /\ cpReaders' = [cpReaders EXCEPT ![t.peer] = @ \ {id}]
       /\ Finish(id)
       /\ UNCHANGED <<cpRank, cpView, cpNextTask, cpInbound, cpRemove, cpStops>>

\* push: all, keys (blobs being written included) and the filter of designated
\* replicas, all from this moment's view
PushKeys(id) ==
    LET t == cpTasks[id]
    IN /\ t.kind = "push" /\ t.pc = "start"
       /\ Goto(id, IF /\ t.peer \in cpView[t.at]
                      /\ cpStore[t.at] # "none"
                      /\ Designated(cpView[t.at], t.peer)
                   THEN "peek" ELSE "clean")
       /\ UNCHANGED <<cpRank, cpView, cpStore, cpReaders, cpNextTask, cpInbound, cpRemove, cpFaults, cpStops>>

\* push_key: peek waits for a writer
PushPeek(id) ==
    LET s == cpTasks[id].at
    IN /\ cpTasks[id].kind = "push" /\ cpTasks[id].pc = "peek" /\ cpStore[s] # "write"
       /\ IF cpStore[s] = "have"
          THEN Goto(id, "ask") /\ cpReaders' = [cpReaders EXCEPT ![s] = @ \cup {id}]
          ELSE Goto(id, "clean") /\ UNCHANGED cpReaders
       /\ UNCHANGED <<cpRank, cpView, cpStore, cpNextTask, cpInbound, cpRemove, cpFaults, cpStops>>

\* client.push: write_new at the peer
PushAsk(id) ==
    LET t == cpTasks[id]
    IN /\ t.kind = "push" /\ t.pc = "ask"
       /\ IF cpStore[t.peer] = "none"
          THEN Goto(id, "send") /\ cpStore' = [cpStore EXCEPT ![t.peer] = "write"] /\ UNCHANGED cpReaders
          ELSE Goto(id, "clean") /\ cpReaders' = [cpReaders EXCEPT ![t.at] = @ \ {id}] /\ UNCHANGED cpStore
       /\ UNCHANGED <<cpRank, cpView, cpNextTask, cpInbound, cpRemove, cpFaults, cpStops>>

\* Mutant of PushSend: a push that fails leaves the writer at the peer to no one.
PushSendForgetting(id, failed) ==
    LET t == cpTasks[id]
    IN /\ t.kind = "push" /\ t.pc = "send"
       /\ Fault(failed)
       /\ cpReaders' = [cpReaders EXCEPT ![t.at] = @ \ {id}]
       /\ IF failed THEN Finish(id) ELSE Goto(id, "clean")
       /\ cpInbound' = [cpInbound EXCEPT ![t.peer] = IF failed THEN "none" ELSE "whole"]
       /\ UNCHANGED <<cpRank, cpView, cpStore, cpNextTask, cpRemove, cpStops>>

\* blob.write_file, which knows only what it has sent.  An error ends the task: no
\* cleanup follows.
PushSend(id, failed) ==
    LET t == cpTasks[id]
    IN /\ t.kind = "push" /\ t.pc = "send"
       /\ Fault(failed)
       /\ cpReaders' = [cpReaders EXCEPT ![t.at] = @ \ {id}]
       /\ IF failed THEN Finish(id) ELSE Goto(id, "clean")
       /\ cpInbound' = [cpInbound EXCEPT ![t.peer] = IF failed THEN "part" ELSE "whole"]
       /\ UNCHANGED <<cpRank, cpView, cpStore, cpNextTask, cpRemove, cpStops>>

\* The server the blob was pushed to commits it on its own, or drops the writer: of
\* a part of it, at its timeout, or because it fails.
Commit(s, failed) ==
    /\ cpInbound[s] # "none"
    /\ cpInbound[s] = "part" => failed
    /\ Fault(failed /\ cpInbound[s] = "whole")
    /\ cpInbound' = [cpInbound EXCEPT ![s] = "none"]
    /\ cpStore' = [cpStore EXCEPT ![s] = IF failed THEN "none" ELSE "have"]
    /\ UNCHANGED <<cpRank, cpView, cpReaders, cpTasks, cpNextTask, cpRemove, cpStops>>

\* Mutant of CleanupOf: one replica fewer is kept.
CleanupOffByOne(view, s) == s \notin Find(view, CpReplicas - 1) /\ cpStore[s] # "none"

\* cleanup: whether the key is one we hold and are no designated replica of
CleanupOf(view, s) == ~ Designated(view, s) /\ cpStore[s] # "none"

CleanupKeys(id) ==
    LET s == cpTasks[id].at
    IN /\ cpTasks[id].kind = "push" /\ cpTasks[id].pc = "clean"
       /\ IF CleanupOf(cpView[s], s) THEN Goto(id, "remove") ELSE Finish(id)
       /\ UNCHANGED <<cpRank, cpView, cpStore, cpReaders, cpNextTask, cpInbound, cpRemove, cpFaults, cpStops>>

\* storage.remove waits for the readers and the writer of the blob.
Removable(s) == cpReaders[s] = {} /\ cpStore[s] # "write"

CleanupRemove(id) ==
    LET s == cpTasks[id].at
    IN /\ cpTasks[id].kind = "push" /\ cpTasks[id].pc = "remove" /\ Removable(s)
       /\ cpStore' = [cpStore EXCEPT ![s] = "none"]
       /\ Finish(id)
       /\ UNCHANGED <<cpRank, cpView, cpReaders, cpNextTask, cpInbound, cpRemove, cpFaults, cpStops>>

\* Client::remove: one request to every server it knows, handled in any order.
ClientRemove(s) ==
    /\ s \in cpRemove /\ Removable(s)
    /\ cpRemove' = cpRemove \ {s}
    /\ cpStore' = [cpStore EXCEPT ![s] = "none"]
    /\ UNCHANGED <<cpRank, cpView, cpReaders, cpTasks, cpNextTask, cpInbound, cpFaults, cpStops>>

CachePeersNext ==
    \/ \E s, p \in CpServers : PeerStarts(s, p) \/ PeerStops(s, p)
    \/ \E s \in CpServers : ReadMiss(s) \/ ClientRemove(s)
    \/ \E s \in CpServers, failed \in BOOLEAN : Commit(s, failed)
    \/ \E id \in DOMAIN cpTasks :
        \/ PullFind(id) \/ PullAsk(id) \/ PullWrite(id) \/ PullSent(id)
        \/ PushKeys(id) \/ PushPeek(id) \/ PushAsk(id)
        \/ CleanupKeys(id) \/ CleanupRemove(id)
        \/ \E failed \in BOOLEAN : PullRead(id, failed) \/ PushSend(id, failed)

CachePeersSpec == CachePeersInit /\ [][CachePeersNext]_cachePeersVars

-----------------------------------------------------------------------------

\* The guards a task t holds at a server s: that of the blob it writes there, and
\* that of the blob it reads there.
WritesAt(t, s) ==
    \/ t.kind = "pull" /\ t.pc \in {"read", "sent"} /\ t.at = s
    \/ t.kind = "push" /\ t.pc = "send" /\ t.peer = s
ReadsAt(t, s) ==
    \/ t.kind = "pull" /\ t.pc \in {"write", "read"} /\ t.peer = s
    \/ t.kind = "push" /\ t.pc \in {"ask", "send"} /\ t.at = s

Writers(s) == {id \in DOMAIN cpTasks : WritesAt(cpTasks[id], s)}
Readers(s) == {id \in DOMAIN cpTasks : ReadsAt(cpTasks[id], s)}

\* A blob that is being written has one writer, whichever task or connection that
\* is now, so that nobody waits for a writer that is gone.
WriterIsKnown(s) ==
    /\ \A i, j \in Writers(s) : i = j
    /\ cpInbound[s] # "none" => Writers(s) = {}
    /\ cpStore[s] = "write" <=> Writers(s) # {} \/ cpInbound[s] # "none"

\* A transfer reads a blob that is still there, whoever removes it meanwhile; and
\* no reader outlives its task, which would keep a removal waiting for ever.
ReadersAreKnown(s) == cpReaders[s] = Readers(s) /\ (cpReaders[s] # {} => cpStore[s] = "have")

\* Only the client takes the blob from a designated replica: a cleanup that was
\* decided when other servers were known leaves it alone, and so does one decided
\* before servers left the view, if the replica is one among all servers.
ReplicasStay ==
    \A s \in CpServers :
        cpStore[s] = "have" /\ cpStore'[s] # "have" /\ cpRemove' = cpRemove =>
            /\ ~ Designated(CpServers, s)
            /\ cpStops = 0 => ~ Designated(cpView[s], s)

\* Blobs move between servers through guards that all have an owner, and do not
\* leave the replicas they belong to.
BlobsMoveSafely ==
    /\ [](\A s \in CpServers : WriterIsKnown(s) /\ ReadersAreKnown(s))
    /\ [][ReplicasStay]_cachePeersVars
=============================================================================
