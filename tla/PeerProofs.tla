----------------------------- MODULE PeerProofs -----------------------------
(* Proofs for the blobs that cache servers move among themselves: every     *)
(* guard has an owner, and no replica is taken from where it belongs, for   *)
(* any number of servers and replicas.                                      *)
EXTENDS CachePeers, FiniteSetTheorems, TLAPS

USE CachePeersAssumption

CpTask ==
    [kind : {"pull", "push"}, at : CpServers, peer : CpServers,
     pc : {"start", "ask", "write", "read", "sent", "peek", "send", "clean", "remove"}]

CpTypeOK ==
    /\ cpRank \in [CpServers -> Nat]
    /\ cpView \in [CpServers -> SUBSET CpServers] /\ \A s \in CpServers : s \in cpView[s]
    /\ cpStore \in [CpServers -> {"none", "write", "have"}]
    /\ cpReaders \in [CpServers -> SUBSET Nat]
    /\ cpNextTask \in Nat /\ \A id \in DOMAIN cpTasks : id \in Nat /\ id < cpNextTask
    /\ cpTasks \in [DOMAIN cpTasks -> CpTask]
    /\ cpInbound \in [CpServers -> {"none", "part", "whole"}]
    /\ cpStops \in Nat

GuardsKnown == \A s \in CpServers : WriterIsKnown(s) /\ ReadersAreKnown(s)

\* A task that is about to remove the blob is right to: its server was no designated
\* replica when it decided, and cannot have become one among all servers, nor in its
\* view, unless servers left it.
Stray(s) == ~ Designated(CpServers, s) /\ (cpStops = 0 => ~ Designated(cpView[s], s))
RemovesStrays ==
    \A id \in DOMAIN cpTasks, s \in CpServers :
        cpTasks[id].pc = "remove" /\ cpTasks[id].at = s => Stray(s)

CpInv == CpTypeOK /\ GuardsKnown /\ RemovesStrays

\* A replica among more servers is one among fewer.
LEMMA DesignatedAmongFewer ==
  ASSUME cpRank \in [CpServers -> Nat], NEW U \in SUBSET CpServers, NEW V \in SUBSET U,
         NEW s \in V, Designated(U, s)
  PROVE  Designated(V, s)
<1>1. Ahead(V, s) \subseteq Ahead(U, s) /\ Ahead(U, s) \subseteq CpServers
  BY Zenon DEF Ahead
<1>2. IsFiniteSet(Ahead(U, s))
  BY <1>1, FS_Subset, Zenon
<1>3. /\ IsFiniteSet(Ahead(V, s)) /\ Cardinality(Ahead(V, s)) <= Cardinality(Ahead(U, s))
  BY <1>1, <1>2, FS_Subset, Zenon
<1>4. Cardinality(Ahead(V, s)) \in Nat /\ Cardinality(Ahead(U, s)) \in Nat
  BY <1>2, <1>3, FS_CardinalityType, Zenon
<1>5. Cardinality(Ahead(U, s)) < CpReplicas
  BY Zenon DEF Designated, Find
<1>6. Cardinality(Ahead(V, s)) < CpReplicas
  BY <1>3, <1>4, <1>5, SMT
<1> QED BY <1>6, Zenon DEF Designated, Find

\* All tasks but one stay as they are.
Rest(id) ==
    /\ DOMAIN cpTasks' \ {id} = DOMAIN cpTasks \ {id}
    /\ \A i \in DOMAIN cpTasks \ {id} : cpTasks'[i] = cpTasks[i]
TasksTyped ==
    /\ \A id \in DOMAIN cpTasks : id \in Nat /\ id < cpNextTask
    /\ cpTasks \in [DOMAIN cpTasks -> CpTask]

\* A task that goes on changes only its own step.
LEMMA GotoIs ==
  ASSUME CpTypeOK, NEW id \in DOMAIN cpTasks, UNCHANGED cpNextTask,
         NEW pc \in {"start", "ask", "write", "read", "sent", "peek", "send", "clean", "remove"},
         Goto(id, pc)
  PROVE  /\ Rest(id) /\ TasksTyped' /\ id \in DOMAIN cpTasks'
         /\ cpTasks'[id].kind = cpTasks[id].kind /\ cpTasks'[id].at = cpTasks[id].at
         /\ cpTasks'[id].peer = cpTasks[id].peer /\ cpTasks'[id].pc = pc
<1>1. cpTasks[id] \in CpTask
  BY Zenon DEF CpTypeOK
<1>2. PICK r : r = [cpTasks[id] EXCEPT !.pc = pc]
  BY Zenon
<1>3. /\ r \in CpTask /\ r.kind = cpTasks[id].kind /\ r.at = cpTasks[id].at
      /\ r.peer = cpTasks[id].peer /\ r.pc = pc
  BY <1>1, <1>2, SMT DEF CpTask
<1>4. cpTasks' = [cpTasks EXCEPT ![id] = r]
  BY <1>2, Zenon DEF Goto
<1>5. /\ DOMAIN cpTasks' = DOMAIN cpTasks /\ cpTasks'[id] = r
      /\ \A i \in DOMAIN cpTasks \ {id} : cpTasks'[i] = cpTasks[i]
      /\ cpTasks' \in [DOMAIN cpTasks' -> CpTask]
  BY <1>3, <1>4, Zenon DEF CpTypeOK
<1> QED BY <1>3, <1>5, Zenon DEF Rest, TasksTyped, CpTypeOK

\* A task that ends is taken out and changes no other.
LEMMA FinishIs ==
  ASSUME CpTypeOK, NEW id \in DOMAIN cpTasks, UNCHANGED cpNextTask, Finish(id)
  PROVE  Rest(id) /\ TasksTyped' /\ id \notin DOMAIN cpTasks'
<1>1. /\ DOMAIN cpTasks' = DOMAIN cpTasks \ {id}
      /\ \A i \in DOMAIN cpTasks \ {id} : cpTasks'[i] = cpTasks[i]
      /\ cpTasks' \in [DOMAIN cpTasks' -> CpTask]
  BY Zenon DEF Finish, CpTypeOK
<1> QED BY <1>1, Zenon DEF Rest, TasksTyped, CpTypeOK

\* A task that is spawned is new and holds nothing.
LEMMA SpawnIs ==
  ASSUME CpTypeOK, NEW kind \in {"pull", "push"}, NEW s \in CpServers, NEW p \in CpServers,
         Spawn(kind, s, p)
  PROVE  /\ Rest(cpNextTask) /\ TasksTyped' /\ cpNextTask' \in Nat
         /\ cpNextTask \in DOMAIN cpTasks' \ DOMAIN cpTasks /\ cpTasks'[cpNextTask].pc = "start"
<1>1. PICK r : r = PeerTask(kind, s, p, "start")
  BY Zenon
<1>2. r \in CpTask /\ r.pc = "start"
  BY <1>1, SMT DEF CpTask, PeerTask
<1>3. cpTasks' = [i \in DOMAIN cpTasks \cup {cpNextTask} |-> IF i = cpNextTask THEN r ELSE cpTasks[i]]
  BY <1>1, Zenon DEF Spawn
<1>4. cpNextTask' \in Nat /\ cpNextTask < cpNextTask' /\ cpNextTask \in Nat /\ cpNextTask \notin DOMAIN cpTasks
  BY SMT DEF Spawn, CpTypeOK
<1>5. \A id \in DOMAIN cpTasks : id < cpNextTask'
  BY SMT DEF Spawn, CpTypeOK
<1>6. /\ DOMAIN cpTasks' = DOMAIN cpTasks \cup {cpNextTask} /\ cpTasks'[cpNextTask] = r
      /\ \A i \in DOMAIN cpTasks \ {cpNextTask} : cpTasks'[i] = cpTasks[i]
  BY <1>3, Zenon
<1>7. cpTasks' \in [DOMAIN cpTasks' -> CpTask]
  BY <1>2, <1>3, <1>6, Zenon DEF CpTypeOK
<1> QED BY <1>2, <1>4, <1>5, <1>6, <1>7, Zenon DEF Rest, TasksTyped, CpTypeOK

-----------------------------------------------------------------------------
\* The guards of the other tasks.
LEMMA OthersKeep ==
  ASSUME NEW id, Rest(id), NEW s
  PROVE  \A i : i # id => (i \in Writers(s)' <=> i \in Writers(s)) /\ (i \in Readers(s)' <=> i \in Readers(s))
BY Zenon DEF Rest, Writers, Readers

\* A task that neither takes nor gives up a guard.
SameGuards(id) ==
    \A s \in CpServers :
        (id \in Writers(s)' <=> id \in Writers(s)) /\ (id \in Readers(s)' <=> id \in Readers(s))

\* A step that keeps the guards of its task keeps who writes and who reads where.
LEMMA SetsStay ==
  ASSUME NEW id, Rest(id), SameGuards(id), NEW s \in CpServers
  PROVE  Writers(s)' = Writers(s) /\ Readers(s)' = Readers(s)
<1>1. \A i : (i \in Writers(s)' <=> i \in Writers(s)) /\ (i \in Readers(s)' <=> i \in Readers(s))
  BY OthersKeep, Zenon DEF SameGuards
<1>2. Writers(s)' = Writers(s)
  BY <1>1, Zenon
<1>3. Readers(s)' = Readers(s)
  BY <1>1, Zenon
<1> QED BY <1>2, <1>3, Zenon

\* So the stores and their guards still account for each other.
LEMMA KnownStay ==
  ASSUME GuardsKnown, NEW id, Rest(id), SameGuards(id), UNCHANGED <<cpStore, cpReaders, cpInbound>>
  PROVE  GuardsKnown'
<1> SUFFICES ASSUME NEW s \in CpServers PROVE WriterIsKnown(s)' /\ ReadersAreKnown(s)'
  BY Zenon DEF GuardsKnown
<1>1. Writers(s)' = Writers(s) /\ Readers(s)' = Readers(s)
  BY SetsStay, Zenon
<1>2. WriterIsKnown(s) /\ ReadersAreKnown(s)
  BY Zenon DEF GuardsKnown
<1> QED BY <1>1, <1>2, Zenon DEF WriterIsKnown, ReadersAreKnown

\* The tasks that are about to remove the blob, when one of them may have come to it.
LEMMA StraysStay ==
  ASSUME CpTypeOK, RemovesStrays, NEW id, Rest(id), UNCHANGED <<cpRank, cpView, cpStops>>,
         \A s \in CpServers :
             id \in DOMAIN cpTasks' /\ cpTasks'[id].pc = "remove" /\ cpTasks'[id].at = s => Stray(s)
  PROVE  RemovesStrays'
<1> SUFFICES ASSUME NEW i \in DOMAIN cpTasks', NEW s \in CpServers,
                    cpTasks'[i].pc = "remove", cpTasks'[i].at = s
             PROVE  Stray(s)'
  BY Zenon DEF RemovesStrays
<1>1. Stray(s)
  <2>1. CASE i = id
    BY <2>1, Zenon
  <2>2. CASE i # id
    BY <2>2, Zenon DEF Rest, RemovesStrays
  <2> QED BY <2>1, <2>2, Zenon
<1> QED BY <1>1, Zenon DEF Stray, Designated, Find, Ahead

\* A guard that a task holds, by where it is.
LEMMA GuardsOf ==
  ASSUME NEW id \in DOMAIN cpTasks, NEW s
  PROVE  /\ id \in Writers(s) <=> WritesAt(cpTasks[id], s)
         /\ id \in Readers(s) <=> ReadsAt(cpTasks[id], s)
BY Zenon DEF Writers, Readers

\* Who holds a guard after a step, read off the task itself.
LEMMA GuardsOfNext ==
  ASSUME NEW id \in DOMAIN cpTasks', NEW s
  PROVE  /\ id \in Writers(s)' <=> WritesAt(cpTasks'[id], s)
         /\ id \in Readers(s)' <=> ReadsAt(cpTasks'[id], s)
BY Zenon DEF Writers, Readers

\* A task that is not there holds nothing.
LEMMA NoGuards ==
  ASSUME NEW id, NEW s
  PROVE  /\ id \notin DOMAIN cpTasks => id \notin Writers(s) /\ id \notin Readers(s)
         /\ id \notin DOMAIN cpTasks' => id \notin Writers(s)' /\ id \notin Readers(s)'
BY Zenon DEF Writers, Readers

Idle == {"start", "peek", "clean", "remove"}

\* Places where a task has no guard.
LEMMA IdleHasNone ==
  ASSUME NEW t, t.pc \in Idle \/ (t.kind = "pull" /\ t.pc = "ask"), NEW s
  PROVE  ~ WritesAt(t, s) /\ ~ ReadsAt(t, s)
BY SMT DEF Idle, WritesAt, ReadsAt

-----------------------------------------------------------------------------
\* The map of servers changes; a new server gets a push task.
LEMMA PeerStartsInv ==
  ASSUME CpInv, NEW s \in CpServers, NEW p \in CpServers, PeerStarts(s, p)
  PROVE  CpInv'
<1>1. CpTypeOK /\ GuardsKnown /\ RemovesStrays
  BY Zenon DEF CpInv
<1>2. /\ Rest(cpNextTask) /\ TasksTyped' /\ cpNextTask' \in Nat
      /\ cpNextTask \in DOMAIN cpTasks' \ DOMAIN cpTasks /\ cpTasks'[cpNextTask].pc = "start"
  BY <1>1, SpawnIs, Zenon DEF PeerStarts
<1>3. UNCHANGED <<cpStore, cpReaders, cpInbound>> /\ UNCHANGED <<cpRank, cpStops>>
  BY Zenon DEF PeerStarts
<1>4. SameGuards(cpNextTask)
  BY <1>2, NoGuards, GuardsOfNext, IdleHasNone, Zenon DEF SameGuards, Idle
<1>5. GuardsKnown'
  BY <1>1, <1>2, <1>3, <1>4, KnownStay, Zenon
<1>6. /\ cpView' \in [CpServers -> SUBSET CpServers]
      /\ \A t \in CpServers : t \in cpView'[t] /\ cpView[t] \subseteq cpView'[t] /\ cpView[t] \in SUBSET CpServers
  BY <1>1, SMT DEF PeerStarts, CpTypeOK
<1>7. CpTypeOK'
  BY <1>1, <1>2, <1>3, <1>6, Zenon DEF CpTypeOK, TasksTyped
<1>8. RemovesStrays'
  <2> SUFFICES ASSUME NEW i \in DOMAIN cpTasks', NEW t \in CpServers,
                      cpTasks'[i].pc = "remove", cpTasks'[i].at = t
               PROVE  Stray(t)'
    BY Zenon DEF RemovesStrays
  <2>1. i # cpNextTask
    BY <1>2, SMT
  <2>2. i \in DOMAIN cpTasks /\ cpTasks'[i] = cpTasks[i]
    BY <1>2, <2>1, Zenon DEF Rest
  <2>3. Stray(t)
    BY <1>1, <2>2, Zenon DEF RemovesStrays
  <2>4. cpStops = 0 => ~ Designated(cpView'[t], t)
    <3>1. cpView'[t] \in SUBSET CpServers /\ cpView[t] \in SUBSET cpView'[t] /\ t \in cpView[t]
      BY <1>1, <1>6, Zenon DEF CpTypeOK
    <3>2. Designated(cpView'[t], t) => Designated(cpView[t], t)
      <4>1. cpRank \in [CpServers -> Nat]
        BY <1>1, Zenon DEF CpTypeOK
      <4> QED BY <3>1, <4>1, DesignatedAmongFewer, SMTT(30)
    <3> QED BY <2>3, <3>2, Zenon DEF Stray
  <2> QED BY <1>3, <2>3, <2>4, Zenon DEF Stray, Designated, Find, Ahead
<1> QED BY <1>5, <1>7, <1>8, Zenon DEF CpInv

\* A server that drops a peer from its view moves no blob.
LEMMA PeerStopsInv ==
  ASSUME CpInv, NEW s \in CpServers, NEW p \in CpServers, PeerStops(s, p)
  PROVE  CpInv'
<1>1. CpTypeOK /\ GuardsKnown /\ RemovesStrays
  BY Zenon DEF CpInv
<1>2. UNCHANGED <<cpStore, cpReaders, cpInbound, cpTasks, cpNextTask, cpRank>>
  BY Zenon DEF PeerStops
<1>3. cpStops' \in Nat /\ cpStops' # 0
  BY <1>1, SMT DEF PeerStops, CpTypeOK
<1>4. cpView' \in [CpServers -> SUBSET CpServers] /\ \A t \in CpServers : t \in cpView'[t]
  BY <1>1, SMT DEF PeerStops, CpTypeOK
<1>5. CpTypeOK'
  BY <1>1, <1>2, <1>3, <1>4, Zenon DEF CpTypeOK
<1>6. GuardsKnown'
  <2>1. \A t : Writers(t)' = Writers(t) /\ Readers(t)' = Readers(t)
    BY <1>2, Zenon DEF Writers, Readers
  <2> QED BY <1>1, <1>2, <2>1, Zenon DEF GuardsKnown, WriterIsKnown, ReadersAreKnown
<1>7. RemovesStrays'
  BY <1>1, <1>2, <1>3, Zenon DEF RemovesStrays, Stray, Designated, Find, Ahead
<1> QED BY <1>5, <1>6, <1>7, Zenon DEF CpInv

\* A read that misses only spawns a pull.
LEMMA ReadMissInv ==
  ASSUME CpInv, NEW s \in CpServers, ReadMiss(s)
  PROVE  CpInv'
<1>1. CpTypeOK /\ GuardsKnown /\ RemovesStrays
  BY Zenon DEF CpInv
<1>2. /\ Rest(cpNextTask) /\ TasksTyped' /\ cpNextTask' \in Nat
      /\ cpNextTask \in DOMAIN cpTasks' \ DOMAIN cpTasks /\ cpTasks'[cpNextTask].pc = "start"
  BY <1>1, SpawnIs, Zenon DEF ReadMiss
<1>3. UNCHANGED <<cpStore, cpReaders, cpInbound>> /\ UNCHANGED <<cpRank, cpView, cpStops>>
  BY Zenon DEF ReadMiss
<1>4. SameGuards(cpNextTask)
  BY <1>2, NoGuards, GuardsOfNext, IdleHasNone, Zenon DEF SameGuards, Idle
<1>5. GuardsKnown'
  BY <1>1, <1>2, <1>3, <1>4, KnownStay, Zenon
<1>6. CpTypeOK'
  BY <1>1, <1>2, <1>3, Zenon DEF CpTypeOK, TasksTyped
<1>7. cpTasks'[cpNextTask].pc # "remove"
  BY <1>2, SMT
<1>8. RemovesStrays'
  BY <1>1, <1>2, <1>3, <1>7, StraysStay, Zenon
<1> QED BY <1>5, <1>6, <1>8, Zenon DEF CpInv

\* A step of one task that leaves the blobs, their guards and the views alone.
Elsewhere == UNCHANGED <<cpStore, cpReaders, cpInbound>> /\ UNCHANGED <<cpRank, cpView, cpStops, cpNextTask>>

\* A step that takes and gives back no guard keeps the invariant.
LEMMA QuietStep ==
  ASSUME CpInv, NEW id \in DOMAIN cpTasks, Elsewhere, Rest(id), TasksTyped', SameGuards(id),
         \A s \in CpServers :
             id \in DOMAIN cpTasks' /\ cpTasks'[id].pc = "remove" /\ cpTasks'[id].at = s => Stray(s)
  PROVE  CpInv'
<1>1. CpTypeOK /\ GuardsKnown /\ RemovesStrays
  BY Zenon DEF CpInv
<1>2. UNCHANGED <<cpStore, cpReaders, cpInbound>> /\ UNCHANGED <<cpRank, cpView, cpStops>>
  BY Zenon DEF Elsewhere
<1>3. GuardsKnown'
  BY <1>1, <1>2, KnownStay, Zenon
<1>4. RemovesStrays'
  BY <1>1, <1>2, StraysStay, Zenon
<1>5. CpTypeOK'
  BY <1>1, Zenon DEF CpTypeOK, TasksTyped, Elsewhere
<1> QED BY <1>3, <1>4, <1>5, Zenon DEF CpInv

\* A task without guards that ends, or goes on without any.
LEMMA QuietFinish ==
  ASSUME CpInv, NEW id \in DOMAIN cpTasks, Elsewhere, Finish(id),
         \A s \in CpServers : ~ WritesAt(cpTasks[id], s) /\ ~ ReadsAt(cpTasks[id], s)
  PROVE  CpInv'
<1>1. Rest(id) /\ TasksTyped' /\ id \notin DOMAIN cpTasks'
  BY FinishIs, Zenon DEF CpInv, Elsewhere
<1>2. SameGuards(id)
  BY <1>1, GuardsOf, NoGuards, Zenon DEF SameGuards
<1> QED BY <1>1, <1>2, QuietStep, Zenon

\* The same, for a task that only goes on.
LEMMA QuietGoto ==
  ASSUME CpInv, NEW id \in DOMAIN cpTasks, Elsewhere, NEW pc \in Idle, Goto(id, pc),
         \A s \in CpServers : ~ WritesAt(cpTasks[id], s) /\ ~ ReadsAt(cpTasks[id], s),
         \A s \in CpServers : pc = "remove" /\ cpTasks[id].at = s => Stray(s)
  PROVE  CpInv'
<1>1. /\ Rest(id) /\ TasksTyped' /\ id \in DOMAIN cpTasks'
      /\ cpTasks'[id].at = cpTasks[id].at /\ cpTasks'[id].pc = pc
  BY GotoIs, Zenon DEF CpInv, Elsewhere, Idle
<1>2. SameGuards(id)
  BY <1>1, GuardsOf, GuardsOfNext, IdleHasNone, Zenon DEF SameGuards
<1> QED BY <1>1, <1>2, QuietStep, Zenon

\* A pull that looks for the blob takes no guard.
LEMMA PullFindInv ==
  ASSUME CpInv, NEW id \in DOMAIN cpTasks, PullFind(id)
  PROVE  CpInv'
<1>1. Elsewhere /\ cpTasks[id].pc \in Idle /\ cpTasks[id].kind = "pull" /\ cpTasks[id] \in CpTask
  BY Zenon DEF PullFind, Elsewhere, Idle, CpInv, CpTypeOK
<1>2. \A s \in CpServers : ~ WritesAt(cpTasks[id], s) /\ ~ ReadsAt(cpTasks[id], s)
  BY <1>1, IdleHasNone, Zenon
<1>3. CASE Finish(id)
  BY <1>1, <1>2, <1>3, QuietFinish, Zenon
<1>4. ASSUME NEW p \in CpServers, cpTasks' = [cpTasks EXCEPT ![id] = PeerTask("pull", cpTasks[id].at, p, "ask")]
      PROVE  CpInv'
  <2>1. PICK r : r = PeerTask("pull", cpTasks[id].at, p, "ask")
    BY Zenon
  <2>2. r \in CpTask /\ r.kind = "pull" /\ r.pc = "ask" /\ r.pc # "remove"
    <3>1. cpTasks[id].at \in CpServers
      BY <1>1, SMT DEF CpTask
    <3> QED BY <2>1, <3>1, SMT DEF CpTask, PeerTask
  <2>3. cpTasks' = [cpTasks EXCEPT ![id] = r]
    BY <1>4, <2>1, Zenon
  <2>4. /\ DOMAIN cpTasks' = DOMAIN cpTasks /\ cpTasks'[id] = r
        /\ \A i \in DOMAIN cpTasks \ {id} : cpTasks'[i] = cpTasks[i]
        /\ cpTasks' \in [DOMAIN cpTasks' -> CpTask]
    BY <2>2, <2>3, Zenon DEF CpInv, CpTypeOK
  <2>5. Rest(id) /\ TasksTyped'
    BY <1>1, <2>4, Zenon DEF Rest, TasksTyped, CpInv, CpTypeOK, Elsewhere
  <2>6. SameGuards(id)
    BY <1>2, <2>2, <2>4, GuardsOf, GuardsOfNext, IdleHasNone, Zenon DEF SameGuards
  <2> QED BY <1>1, <2>2, <2>4, <2>5, <2>6, QuietStep, Zenon
<1>5. \A p \in Find(cpView[cpTasks[id].at], CpReplicas + 1) : p \in CpServers
  <2>1. cpTasks[id].at \in CpServers
    BY <1>1, SMT DEF CpTask
  <2> QED BY <2>1, Zenon DEF Find, CpInv, CpTypeOK
<1> QED BY <1>3, <1>4, <1>5, Zenon DEF PullFind

\* A push that lists its keys takes no guard.
LEMMA PushKeysInv ==
  ASSUME CpInv, NEW id \in DOMAIN cpTasks, PushKeys(id)
  PROVE  CpInv'
<1>1. Elsewhere /\ cpTasks[id].pc \in Idle
  BY Zenon DEF PushKeys, Elsewhere, Idle
<1>2. \A s \in CpServers : ~ WritesAt(cpTasks[id], s) /\ ~ ReadsAt(cpTasks[id], s)
  BY <1>1, IdleHasNone, Zenon
<1>3. PICK pc \in {"peek", "clean"} : Goto(id, pc)
  BY Zenon DEF PushKeys
<1>4. pc \in Idle /\ pc # "remove"
  BY <1>3, SMT DEF Idle
<1> QED BY <1>1, <1>2, <1>3, <1>4, QuietGoto, Zenon

\* A cleanup that lists its keys takes no guard; it goes on to remove only a stray.
LEMMA CleanupKeysInv ==
  ASSUME CpInv, NEW id \in DOMAIN cpTasks, CleanupKeys(id)
  PROVE  CpInv'
<1>1. Elsewhere /\ cpTasks[id].pc \in Idle /\ cpTasks[id] \in CpTask
  BY Zenon DEF CleanupKeys, Elsewhere, Idle, CpInv, CpTypeOK
<1>2. \A s \in CpServers : ~ WritesAt(cpTasks[id], s) /\ ~ ReadsAt(cpTasks[id], s)
  BY <1>1, IdleHasNone, Zenon
<1>3. CASE Finish(id)
  BY <1>1, <1>2, <1>3, QuietFinish, Zenon
<1>4. ASSUME Goto(id, "remove"), CleanupOf(cpView[cpTasks[id].at], cpTasks[id].at)
      PROVE  CpInv'
  <2>1. PICK s : s = cpTasks[id].at /\ s \in CpServers
    BY <1>1, SMT DEF CpTask
  <2>2. ~ Designated(cpView[s], s)
    BY <1>4, <2>1, Zenon DEF CleanupOf
  <2>3. cpView[s] \in SUBSET CpServers /\ s \in cpView[s] /\ cpRank \in [CpServers -> Nat]
    BY <2>1, Zenon DEF CpInv, CpTypeOK
  <2>4. CpServers \in SUBSET CpServers
    BY Zenon
  <2>5. ~ Designated(CpServers, s)
    BY <2>2, <2>3, <2>4, DesignatedAmongFewer, SMTT(30)
  <2>6. Stray(s)
    BY <2>2, <2>5, Zenon DEF Stray
  <2>7. "remove" \in Idle
    BY Zenon DEF Idle
  <2> QED BY <1>1, <1>2, <1>4, <2>1, <2>6, <2>7, QuietGoto, Zenon
<1> QED BY <1>3, <1>4, Zenon DEF CleanupKeys

-----------------------------------------------------------------------------
(* Steps that take or give up guards, server by server. *)

\* The readers of the blob at s, when only task id may have come or gone.
LEMMA ReadersFollow ==
  ASSUME NEW id, Rest(id), NEW s, ReadersAreKnown(s),
         \/ cpReaders'[s] = cpReaders[s] \ {id} /\ id \notin Readers(s)'
         \/ cpReaders'[s] = cpReaders[s] \cup {id} /\ id \in Readers(s)'
         \/ cpReaders'[s] = cpReaders[s] /\ (id \in Readers(s)' <=> id \in Readers(s)),
         cpReaders'[s] # {} => cpStore'[s] = "have"
  PROVE  ReadersAreKnown(s)'
<1>1. \A i : i # id => (i \in Readers(s)' <=> i \in Readers(s))
  BY OthersKeep, Zenon
<1>2. cpReaders[s] = Readers(s)
  BY Zenon DEF ReadersAreKnown
<1>3. \A i : i \in cpReaders'[s] <=> i \in Readers(s)'
  BY <1>1, <1>2, Zenon
<1>4. cpReaders'[s] = Readers(s)'
  BY <1>3, Zenon
<1> QED BY <1>4, Zenon DEF ReadersAreKnown

\* The writer stays the same.
LEMMA WriterStays ==
  ASSUME NEW id, Rest(id), NEW s, WriterIsKnown(s), id \in Writers(s)' <=> id \in Writers(s),
         cpInbound'[s] = cpInbound[s], cpStore'[s] = "write" <=> cpStore[s] = "write"
  PROVE  WriterIsKnown(s)'
<1>1. \A i : i \in Writers(s)' <=> i \in Writers(s)
  BY OthersKeep, Zenon
<1>2. Writers(s)' = Writers(s)
  BY <1>1, Zenon
<1> QED BY <1>2, Zenon DEF WriterIsKnown

\* The task becomes the writer.
LEMMA WriterComes ==
  ASSUME NEW id, Rest(id), NEW s, WriterIsKnown(s), id \in Writers(s)',
         cpStore[s] # "write", cpStore'[s] = "write", cpInbound'[s] = cpInbound[s]
  PROVE  WriterIsKnown(s)'
<1>1. Writers(s) = {} /\ cpInbound[s] = "none"
  BY Zenon DEF WriterIsKnown
<1>2. \A i \in Writers(s)' : i = id
  BY <1>1, OthersKeep, Zenon
<1> QED BY <1>1, <1>2, Zenon DEF WriterIsKnown

\* The writer leaves with the blob written or dropped, or leaves it to the server.
LEMMA WriterGoes ==
  ASSUME NEW id, Rest(id), NEW s, WriterIsKnown(s), id \in Writers(s), id \notin Writers(s)',
         \/ cpStore'[s] # "write" /\ cpInbound'[s] = cpInbound[s]
         \/ cpStore'[s] = "write" /\ cpInbound'[s] # "none"
  PROVE  WriterIsKnown(s)'
<1>1. \A i : i \notin Writers(s)'
  BY OthersKeep, Zenon DEF WriterIsKnown
<1>2. cpInbound[s] = "none"
  BY Zenon DEF WriterIsKnown
<1>3. Writers(s)' = {}
  BY <1>1, Zenon
<1> QED BY <1>2, <1>3, Zenon DEF WriterIsKnown

\* What a step of one task leaves to show: the guards at each server.
LEMMA GuardStep ==
  ASSUME CpInv, NEW id \in DOMAIN cpTasks, Rest(id), TasksTyped',
         UNCHANGED <<cpRank, cpView, cpStops, cpNextTask>>,
         cpStore' \in [CpServers -> {"none", "write", "have"}],
         cpReaders' \in [CpServers -> SUBSET Nat],
         cpInbound' \in [CpServers -> {"none", "part", "whole"}],
         id \in DOMAIN cpTasks' => cpTasks'[id].pc # "remove",
         \A s \in CpServers : WriterIsKnown(s)' /\ ReadersAreKnown(s)'
  PROVE  CpInv'
<1>1. RemovesStrays'
  BY StraysStay, Zenon DEF CpInv
<1>2. CpTypeOK'
  BY Zenon DEF CpInv, CpTypeOK, TasksTyped
<1>3. GuardsKnown'
  BY Zenon DEF GuardsKnown
<1> QED BY <1>1, <1>2, <1>3, Zenon DEF CpInv

\* The blob at server s becomes x, and the others stay.
BlobBecomes(s, x) == cpStore' = [cpStore EXCEPT ![s] = x]

\* What the stores are after one of them changed.
LEMMA BlobIs ==
  ASSUME CpTypeOK, NEW s \in CpServers, NEW x \in {"none", "write", "have"}, BlobBecomes(s, x)
  PROVE  /\ cpStore' \in [CpServers -> {"none", "write", "have"}] /\ cpStore'[s] = x
         /\ \A t \in CpServers \ {s} : cpStore'[t] = cpStore[t]
BY Zenon DEF CpTypeOK, BlobBecomes

\* Task id joins or leaves the readers of the blob at s.
Joins(id, s) == cpReaders' = [cpReaders EXCEPT ![s] = @ \cup {id}]
Leaves(id, s) == cpReaders' = [cpReaders EXCEPT ![s] = @ \ {id}]

\* What the readers are after one came.
LEMMA JoinsIs ==
  ASSUME CpTypeOK, NEW id \in DOMAIN cpTasks, NEW s \in CpServers, Joins(id, s)
  PROVE  /\ cpReaders' \in [CpServers -> SUBSET Nat] /\ cpReaders'[s] = cpReaders[s] \cup {id}
         /\ \A t \in CpServers \ {s} : cpReaders'[t] = cpReaders[t]
<1>1. id \in Nat
  BY Zenon DEF CpTypeOK
<1> QED BY <1>1, SMT DEF CpTypeOK, Joins

\* What the readers are after one left.
LEMMA LeavesIs ==
  ASSUME CpTypeOK, NEW id, NEW s \in CpServers, Leaves(id, s)
  PROVE  /\ cpReaders' \in [CpServers -> SUBSET Nat] /\ cpReaders'[s] = cpReaders[s] \ {id}
         /\ \A t \in CpServers \ {s} : cpReaders'[t] = cpReaders[t]
BY SMT DEF CpTypeOK, Leaves

\* A task that takes the read guard of a stored blob keeps the invariant.
LEMMA ReaderComes ==
  ASSUME CpInv, NEW id \in DOMAIN cpTasks, NEW s \in CpServers, cpStore[s] = "have", Joins(id, s),
         Rest(id), TasksTyped', id \in DOMAIN cpTasks' => cpTasks'[id].pc # "remove",
         UNCHANGED <<cpRank, cpView, cpStops, cpNextTask>>, UNCHANGED <<cpStore, cpInbound>>,
         \A t \in CpServers :
             /\ id \in Writers(t)' <=> id \in Writers(t)
             /\ id \in Readers(t)' <=> t = s
             /\ id \notin Readers(t)
  PROVE  CpInv'
<1>1. CpTypeOK /\ GuardsKnown
  BY Zenon DEF CpInv
<1>2. /\ cpReaders' \in [CpServers -> SUBSET Nat] /\ cpReaders'[s] = cpReaders[s] \cup {id}
      /\ \A t \in CpServers \ {s} : cpReaders'[t] = cpReaders[t]
  BY <1>1, JoinsIs, Zenon
<1>3. ASSUME NEW t \in CpServers PROVE WriterIsKnown(t)' /\ ReadersAreKnown(t)'
  <2>1. WriterIsKnown(t) /\ ReadersAreKnown(t)
    BY <1>1, Zenon DEF GuardsKnown
  <2>2. WriterIsKnown(t)'
    BY <2>1, WriterStays, Zenon
  <2>3. cpReaders'[t] # {} => cpStore'[t] = "have"
    BY <1>2, <2>1, Zenon DEF ReadersAreKnown
  <2>4. ReadersAreKnown(t)'
    BY <1>2, <2>1, <2>3, ReadersFollow, Zenon
  <2> QED BY <2>2, <2>4, Zenon
<1>4. /\ cpStore' \in [CpServers -> {"none", "write", "have"}]
      /\ cpInbound' \in [CpServers -> {"none", "part", "whole"}]
  BY <1>1, Zenon DEF CpTypeOK
<1> QED BY <1>2, <1>3, <1>4, GuardStep, Zenon

\* A task that gives back its read guard keeps the invariant.
LEMMA ReaderGoes ==
  ASSUME CpInv, NEW id \in DOMAIN cpTasks, NEW s \in CpServers, Leaves(id, s),
         Rest(id), TasksTyped', id \in DOMAIN cpTasks' => cpTasks'[id].pc # "remove",
         UNCHANGED <<cpRank, cpView, cpStops, cpNextTask>>, UNCHANGED <<cpStore, cpInbound>>,
         \A t \in CpServers :
             /\ id \in Writers(t)' <=> id \in Writers(t)
             /\ id \in Readers(t) => t = s
             /\ id \notin Readers(t)'
  PROVE  CpInv'
<1>1. CpTypeOK /\ GuardsKnown
  BY Zenon DEF CpInv
<1>2. /\ cpReaders' \in [CpServers -> SUBSET Nat] /\ cpReaders'[s] = cpReaders[s] \ {id}
      /\ \A t \in CpServers \ {s} : cpReaders'[t] = cpReaders[t]
  BY <1>1, LeavesIs, Zenon
<1>3. ASSUME NEW t \in CpServers PROVE WriterIsKnown(t)' /\ ReadersAreKnown(t)'
  <2>1. WriterIsKnown(t) /\ ReadersAreKnown(t)
    BY <1>1, Zenon DEF GuardsKnown
  <2>2. WriterIsKnown(t)'
    BY <2>1, WriterStays, Zenon
  <2>3. cpReaders'[t] # {} => cpStore'[t] = "have"
    BY <1>2, <2>1, Zenon DEF ReadersAreKnown
  <2>4. ReadersAreKnown(t)'
    BY <1>2, <2>1, <2>3, ReadersFollow, Zenon
  <2> QED BY <2>2, <2>4, Zenon
<1>4. /\ cpStore' \in [CpServers -> {"none", "write", "have"}]
      /\ cpInbound' \in [CpServers -> {"none", "part", "whole"}]
  BY <1>1, Zenon DEF CpTypeOK
<1> QED BY <1>2, <1>3, <1>4, GuardStep, Zenon

\* write_new at s, by a task that goes on reading elsewhere.
LEMMA WriteBegins ==
  ASSUME CpInv, NEW id \in DOMAIN cpTasks, NEW s \in CpServers, cpStore[s] = "none",
         BlobBecomes(s, "write"),
         Rest(id), TasksTyped', id \in DOMAIN cpTasks' => cpTasks'[id].pc # "remove",
         UNCHANGED <<cpRank, cpView, cpStops, cpNextTask>>, UNCHANGED <<cpReaders, cpInbound>>,
         \A t \in CpServers :
             /\ id \notin Writers(t) /\ (id \in Writers(t)' <=> t = s)
             /\ id \in Readers(t)' <=> id \in Readers(t)
  PROVE  CpInv'
<1>1. CpTypeOK /\ GuardsKnown
  BY Zenon DEF CpInv
<1>2. /\ cpStore' \in [CpServers -> {"none", "write", "have"}] /\ cpStore'[s] = "write"
      /\ \A t \in CpServers \ {s} : cpStore'[t] = cpStore[t]
  BY <1>1, BlobIs, Zenon
<1>3. ASSUME NEW t \in CpServers PROVE WriterIsKnown(t)' /\ ReadersAreKnown(t)'
  <2>1. WriterIsKnown(t) /\ ReadersAreKnown(t)
    BY <1>1, Zenon DEF GuardsKnown
  <2>2. WriterIsKnown(t)'
    <3>1. CASE t = s
      <4>1. cpStore[t] # "write" /\ cpStore'[t] = "write"
        BY <1>2, <3>1, SMT
      <4> QED BY <2>1, <3>1, <4>1, WriterComes, Zenon
    <3>2. CASE t # s
      BY <1>2, <2>1, <3>2, WriterStays, Zenon
    <3> QED BY <3>1, <3>2, Zenon
  <2>3. cpReaders'[t] # {} => cpStore'[t] = "have"
    <3>1. cpReaders[t] # {} => t # s
      BY <2>1, SMT DEF ReadersAreKnown
    <3> QED BY <1>2, <2>1, <3>1, Zenon DEF ReadersAreKnown
  <2>4. ReadersAreKnown(t)'
    BY <2>1, <2>3, ReadersFollow, Zenon
  <2> QED BY <2>2, <2>4, Zenon
<1>4. /\ cpReaders' \in [CpServers -> SUBSET Nat]
      /\ cpInbound' \in [CpServers -> {"none", "part", "whole"}]
  BY <1>1, Zenon DEF CpTypeOK
<1> QED BY <1>2, <1>3, <1>4, GuardStep, Zenon

\* The writer of s, which reads at p if anywhere, gives up its guards: the blob is
\* written or dropped, or left to the server.
WriteIsOver(s) ==
    /\ cpStore' \in [CpServers -> {"none", "write", "have"}]
    /\ cpInbound' \in [CpServers -> {"none", "part", "whole"}]
    /\ \A t \in CpServers \ {s} : cpStore'[t] = cpStore[t] /\ cpInbound'[t] = cpInbound[t]
    /\ \/ cpStore'[s] # "write" /\ cpInbound'[s] = cpInbound[s]
       \/ cpStore'[s] = "write" /\ cpInbound'[s] # "none"

GivesUp(id, s, p) ==
    \A t \in CpServers :
        /\ id \in Writers(t) <=> t = s
        /\ id \in Readers(t) => t = p
        /\ id \notin Writers(t)' /\ id \notin Readers(t)'

\* A writer that commits or drops its guard keeps the invariant.
LEMMA WriteEnds ==
  ASSUME CpInv, NEW id \in DOMAIN cpTasks, NEW s \in CpServers, NEW p \in CpServers, Leaves(id, p),
         Rest(id), TasksTyped', id \in DOMAIN cpTasks' => cpTasks'[id].pc # "remove",
         UNCHANGED <<cpRank, cpView, cpStops, cpNextTask>>, WriteIsOver(s), GivesUp(id, s, p)
  PROVE  CpInv'
<1>1. CpTypeOK /\ GuardsKnown
  BY Zenon DEF CpInv
<1>2. /\ cpReaders' \in [CpServers -> SUBSET Nat] /\ cpReaders'[p] = cpReaders[p] \ {id}
      /\ \A t \in CpServers \ {p} : cpReaders'[t] = cpReaders[t]
  BY <1>1, LeavesIs, Zenon
<1>3. cpStore[s] = "write"
  BY <1>1, Zenon DEF GuardsKnown, WriterIsKnown, GivesUp
<1>4. ASSUME NEW t \in CpServers PROVE WriterIsKnown(t)' /\ ReadersAreKnown(t)'
  <2>1. WriterIsKnown(t) /\ ReadersAreKnown(t)
    BY <1>1, Zenon DEF GuardsKnown
  <2>2. WriterIsKnown(t)'
    <3>1. CASE t = s
      BY <2>1, <3>1, WriterGoes, Zenon DEF WriteIsOver, GivesUp
    <3>2. CASE t # s
      BY <2>1, <3>2, WriterStays, Zenon DEF WriteIsOver, GivesUp
    <3> QED BY <3>1, <3>2, Zenon
  <2>3. cpReaders'[t] # {} => cpStore'[t] = "have"
    <3>1. cpReaders[t] # {} => cpStore[t] = "have" /\ t # s
      BY <1>3, <2>1, SMT DEF ReadersAreKnown
    <3> QED BY <1>2, <3>1, Zenon DEF WriteIsOver
  <2>4. ReadersAreKnown(t)'
    BY <1>2, <2>1, <2>3, ReadersFollow, Zenon DEF GivesUp
  <2> QED BY <2>2, <2>4, Zenon
<1> QED BY <1>2, <1>4, GuardStep, Zenon DEF WriteIsOver

-----------------------------------------------------------------------------
\* The parts of a task.
LEMMA TaskIs ==
  ASSUME CpInv, NEW id \in DOMAIN cpTasks
  PROVE  CpTypeOK /\ cpTasks[id].at \in CpServers /\ cpTasks[id].peer \in CpServers
<1>1. CpTypeOK /\ cpTasks[id] \in CpTask
  BY Zenon DEF CpInv, CpTypeOK
<1> QED BY <1>1, SMT DEF CpTask

\* A pull that is answered with a blob holds its read guard at the peer.
LEMMA PullAskInv ==
  ASSUME CpInv, NEW id \in DOMAIN cpTasks, PullAsk(id)
  PROVE  CpInv'
<1>1. PICK p \in CpServers : p = cpTasks[id].peer
  BY TaskIs, Zenon
<1>2. CpTypeOK /\ cpTasks[id].kind = "pull" /\ cpTasks[id].pc = "ask"
  BY TaskIs, Zenon DEF PullAsk
<1>3. UNCHANGED <<cpRank, cpView, cpStops, cpNextTask>> /\ UNCHANGED <<cpStore, cpInbound>>
  BY Zenon DEF PullAsk
<1>4. \A s : ~ WritesAt(cpTasks[id], s) /\ ~ ReadsAt(cpTasks[id], s)
  BY <1>2, IdleHasNone, Zenon
<1>5. CASE Finish(id) /\ UNCHANGED cpReaders
  <2>1. Elsewhere
    BY <1>3, <1>5, Zenon DEF Elsewhere
  <2> QED BY <1>4, <1>5, <2>1, QuietFinish, Zenon
<1>6. CASE Goto(id, "write") /\ Joins(id, p) /\ cpStore[p] = "have"
  <2>1. /\ Rest(id) /\ TasksTyped' /\ id \in DOMAIN cpTasks'
        /\ cpTasks'[id].kind = "pull" /\ cpTasks'[id].peer = p /\ cpTasks'[id].pc = "write"
    BY <1>1, <1>2, <1>3, <1>6, GotoIs, Zenon
  <2>2. \A s : ~ WritesAt(cpTasks'[id], s) /\ (ReadsAt(cpTasks'[id], s) <=> s = p)
    BY <2>1, SMT DEF WritesAt, ReadsAt
  <2>3. \A s \in CpServers :
          /\ id \in Writers(s)' <=> id \in Writers(s)
          /\ id \in Readers(s)' <=> s = p
          /\ id \notin Readers(s)
    BY <1>4, <2>1, <2>2, GuardsOf, GuardsOfNext, Zenon
  <2>4. cpTasks'[id].pc # "remove"
    BY <2>1, SMT
  <2> QED BY <1>3, <1>6, <2>1, <2>3, <2>4, ReaderComes, Zenon
<1> QED BY <1>1, <1>5, <1>6, Zenon DEF PullAsk, Joins

\* A push that has the blob holds its read guard.
LEMMA PushPeekInv ==
  ASSUME CpInv, NEW id \in DOMAIN cpTasks, PushPeek(id)
  PROVE  CpInv'
<1>1. PICK p \in CpServers : p = cpTasks[id].at
  BY TaskIs, Zenon
<1>2. CpTypeOK /\ cpTasks[id].kind = "push" /\ cpTasks[id].pc = "peek" /\ cpTasks[id].pc \in Idle
  BY TaskIs, Zenon DEF PushPeek, Idle
<1>3. UNCHANGED <<cpRank, cpView, cpStops, cpNextTask>> /\ UNCHANGED <<cpStore, cpInbound>>
  BY Zenon DEF PushPeek
<1>4. \A s : ~ WritesAt(cpTasks[id], s) /\ ~ ReadsAt(cpTasks[id], s)
  BY <1>2, IdleHasNone, Zenon
<1>5. CASE Goto(id, "clean") /\ UNCHANGED cpReaders
  <2>1. Elsewhere
    BY <1>3, <1>5, Zenon DEF Elsewhere
  <2>2. "clean" \in Idle /\ "clean" # "remove"
    BY SMT DEF Idle
  <2> QED BY <1>4, <1>5, <2>1, <2>2, QuietGoto, Zenon
<1>6. CASE Goto(id, "ask") /\ Joins(id, p) /\ cpStore[p] = "have"
  <2>1. /\ Rest(id) /\ TasksTyped' /\ id \in DOMAIN cpTasks'
        /\ cpTasks'[id].kind = "push" /\ cpTasks'[id].at = p /\ cpTasks'[id].pc = "ask"
    BY <1>1, <1>2, <1>3, <1>6, GotoIs, Zenon
  <2>2. \A s : ~ WritesAt(cpTasks'[id], s) /\ (ReadsAt(cpTasks'[id], s) <=> s = p)
    BY <2>1, SMT DEF WritesAt, ReadsAt
  <2>3. \A s \in CpServers :
          /\ id \in Writers(s)' <=> id \in Writers(s)
          /\ id \in Readers(s)' <=> s = p
          /\ id \notin Readers(s)
    BY <1>4, <2>1, <2>2, GuardsOf, GuardsOfNext, Zenon
  <2>4. cpTasks'[id].pc # "remove"
    BY <2>1, SMT
  <2> QED BY <1>3, <1>6, <2>1, <2>3, <2>4, ReaderComes, Zenon
<1> QED BY <1>1, <1>5, <1>6, Zenon DEF PushPeek, Joins

\* A pull takes the write guard, or gives back the read guard at the peer.
LEMMA PullWriteInv ==
  ASSUME CpInv, NEW id \in DOMAIN cpTasks, PullWrite(id)
  PROVE  CpInv'
<1>1. PICK p \in CpServers, q \in CpServers : p = cpTasks[id].peer /\ q = cpTasks[id].at
  BY TaskIs, Zenon
<1>2. CpTypeOK /\ cpTasks[id].kind = "pull" /\ cpTasks[id].pc = "write"
  BY TaskIs, Zenon DEF PullWrite
<1>3. UNCHANGED <<cpRank, cpView, cpStops, cpNextTask>> /\ UNCHANGED cpInbound
  BY Zenon DEF PullWrite
<1>4. \A s : ~ WritesAt(cpTasks[id], s) /\ (ReadsAt(cpTasks[id], s) <=> s = p)
  BY <1>1, <1>2, SMT DEF WritesAt, ReadsAt
<1>5. CASE Finish(id) /\ Leaves(id, p) /\ UNCHANGED cpStore
  <2>1. Rest(id) /\ TasksTyped' /\ id \notin DOMAIN cpTasks'
    BY <1>2, <1>3, <1>5, FinishIs, Zenon
  <2>2. \A s \in CpServers :
          /\ id \in Writers(s)' <=> id \in Writers(s)
          /\ id \in Readers(s) => s = p
          /\ id \notin Readers(s)'
    BY <1>4, <2>1, GuardsOf, NoGuards, Zenon
  <2> QED BY <1>3, <1>5, <2>1, <2>2, ReaderGoes, Zenon
<1>6. CASE Goto(id, "read") /\ cpStore[q] = "none" /\ BlobBecomes(q, "write") /\ UNCHANGED cpReaders
  <2>1. /\ Rest(id) /\ TasksTyped' /\ id \in DOMAIN cpTasks' /\ cpTasks'[id].at = q
        /\ cpTasks'[id].kind = "pull" /\ cpTasks'[id].peer = p /\ cpTasks'[id].pc = "read"
    BY <1>1, <1>2, <1>3, <1>6, GotoIs, Zenon
  <2>2. \A s : (WritesAt(cpTasks'[id], s) <=> s = q) /\ (ReadsAt(cpTasks'[id], s) <=> s = p)
    BY <2>1, SMT DEF WritesAt, ReadsAt
  <2>3. \A s \in CpServers :
          /\ id \notin Writers(s) /\ (id \in Writers(s)' <=> s = q)
          /\ id \in Readers(s)' <=> id \in Readers(s)
    BY <1>4, <2>1, <2>2, GuardsOf, GuardsOfNext, Zenon
  <2>4. cpTasks'[id].pc # "remove"
    BY <2>1, SMT
  <2> QED BY <1>3, <1>6, <2>1, <2>3, <2>4, WriteBegins, Zenon
<1> QED BY <1>1, <1>5, <1>6, Zenon DEF PullWrite, Leaves, BlobBecomes

\* A push is given the write guard at the peer, or gives its read guard back.
LEMMA PushAskInv ==
  ASSUME CpInv, NEW id \in DOMAIN cpTasks, PushAsk(id)
  PROVE  CpInv'
<1>1. PICK p \in CpServers, q \in CpServers : p = cpTasks[id].peer /\ q = cpTasks[id].at
  BY TaskIs, Zenon
<1>2. CpTypeOK /\ cpTasks[id].kind = "push" /\ cpTasks[id].pc = "ask"
  BY TaskIs, Zenon DEF PushAsk
<1>3. UNCHANGED <<cpRank, cpView, cpStops, cpNextTask>> /\ UNCHANGED cpInbound
  BY Zenon DEF PushAsk
<1>4. \A s : ~ WritesAt(cpTasks[id], s) /\ (ReadsAt(cpTasks[id], s) <=> s = q)
  BY <1>1, <1>2, SMT DEF WritesAt, ReadsAt
<1>5. CASE Goto(id, "clean") /\ Leaves(id, q) /\ UNCHANGED cpStore
  <2>1. Rest(id) /\ TasksTyped' /\ id \in DOMAIN cpTasks' /\ cpTasks'[id].pc = "clean"
    BY <1>2, <1>3, <1>5, GotoIs, Zenon
  <2>2. \A s : ~ WritesAt(cpTasks'[id], s) /\ ~ ReadsAt(cpTasks'[id], s)
    BY <2>1, IdleHasNone, Zenon DEF Idle
  <2>3. \A s \in CpServers :
          /\ id \in Writers(s)' <=> id \in Writers(s)
          /\ id \in Readers(s) => s = q
          /\ id \notin Readers(s)'
    BY <1>4, <2>1, <2>2, GuardsOf, GuardsOfNext, Zenon
  <2>4. cpTasks'[id].pc # "remove"
    BY <2>1, SMT
  <2> QED BY <1>3, <1>5, <2>1, <2>3, <2>4, ReaderGoes, Zenon
<1>6. CASE Goto(id, "send") /\ cpStore[p] = "none" /\ BlobBecomes(p, "write") /\ UNCHANGED cpReaders
  <2>1. /\ Rest(id) /\ TasksTyped' /\ id \in DOMAIN cpTasks' /\ cpTasks'[id].at = q
        /\ cpTasks'[id].kind = "push" /\ cpTasks'[id].peer = p /\ cpTasks'[id].pc = "send"
    BY <1>1, <1>2, <1>3, <1>6, GotoIs, Zenon
  <2>2. \A s : (WritesAt(cpTasks'[id], s) <=> s = p) /\ (ReadsAt(cpTasks'[id], s) <=> s = q)
    BY <2>1, SMT DEF WritesAt, ReadsAt
  <2>3. \A s \in CpServers :
          /\ id \notin Writers(s) /\ (id \in Writers(s)' <=> s = p)
          /\ id \in Readers(s)' <=> id \in Readers(s)
    BY <1>4, <2>1, <2>2, GuardsOf, GuardsOfNext, Zenon
  <2>4. cpTasks'[id].pc # "remove"
    BY <2>1, SMT
  <2> QED BY <1>3, <1>6, <2>1, <2>3, <2>4, WriteBegins, Zenon
<1> QED BY <1>1, <1>5, <1>6, Zenon DEF PushAsk, Leaves, BlobBecomes

\* The peer of a pull gives its read guard back when it has sent the blob.
LEMMA PullSentInv ==
  ASSUME CpInv, NEW id \in DOMAIN cpTasks, PullSent(id)
  PROVE  CpInv'
<1>1. PICK p \in CpServers, q \in CpServers : p = cpTasks[id].peer /\ q = cpTasks[id].at
  BY TaskIs, Zenon
<1>2. CpTypeOK /\ cpTasks[id].kind = "pull" /\ cpTasks[id].pc = "read"
  BY TaskIs, Zenon DEF PullSent
<1>3. UNCHANGED <<cpRank, cpView, cpStops, cpNextTask>> /\ UNCHANGED <<cpStore, cpInbound>>
  BY Zenon DEF PullSent
<1>4. Goto(id, "sent") /\ Leaves(id, p)
  BY <1>1, Zenon DEF PullSent, Leaves
<1>5. \A s : (WritesAt(cpTasks[id], s) <=> s = q) /\ (ReadsAt(cpTasks[id], s) <=> s = p)
  BY <1>1, <1>2, SMT DEF WritesAt, ReadsAt
<1>6. /\ Rest(id) /\ TasksTyped' /\ id \in DOMAIN cpTasks' /\ cpTasks'[id].at = q
      /\ cpTasks'[id].kind = "pull" /\ cpTasks'[id].pc = "sent"
  BY <1>1, <1>2, <1>3, <1>4, GotoIs, Zenon
<1>7. \A s : (WritesAt(cpTasks'[id], s) <=> s = q) /\ ~ ReadsAt(cpTasks'[id], s)
  BY <1>6, SMT DEF WritesAt, ReadsAt
<1>8. \A s \in CpServers :
        /\ id \in Writers(s)' <=> id \in Writers(s)
        /\ id \in Readers(s) => s = p
        /\ id \notin Readers(s)'
  BY <1>5, <1>6, <1>7, GuardsOf, GuardsOfNext, Zenon
<1>9. cpTasks'[id].pc # "remove"
  BY <1>6, SMT
<1> QED BY <1>3, <1>4, <1>6, <1>8, <1>9, ReaderGoes, Zenon

\* A pull commits what it read, or removes what it began.
LEMMA PullReadInv ==
  ASSUME CpInv, NEW id \in DOMAIN cpTasks, NEW failed \in BOOLEAN, PullRead(id, failed)
  PROVE  CpInv'
<1>1. PICK p \in CpServers, q \in CpServers : p = cpTasks[id].peer /\ q = cpTasks[id].at
  BY TaskIs, Zenon
<1>2. CpTypeOK /\ cpTasks[id].kind = "pull" /\ cpTasks[id].pc \in {"read", "sent"}
  BY TaskIs, Zenon DEF PullRead
<1>3. UNCHANGED <<cpRank, cpView, cpStops, cpNextTask>> /\ UNCHANGED cpInbound
  BY Zenon DEF PullRead
<1>4. Finish(id) /\ Leaves(id, p)
  BY <1>1, Zenon DEF PullRead, Leaves
<1>5. PICK x \in {"none", "have"} : BlobBecomes(q, x)
  BY <1>1, Zenon DEF PullRead, BlobBecomes
<1>6. x \in {"none", "write", "have"} /\ x # "write"
  BY <1>5, SMT
<1>7. /\ cpStore' \in [CpServers -> {"none", "write", "have"}] /\ cpStore'[q] = x
      /\ \A t \in CpServers \ {q} : cpStore'[t] = cpStore[t]
  BY <1>2, <1>5, <1>6, BlobIs, Zenon
<1>8. \A s : (WritesAt(cpTasks[id], s) <=> s = q) /\ (ReadsAt(cpTasks[id], s) => s = p)
  BY <1>1, <1>2, SMT DEF WritesAt, ReadsAt
<1>9. Rest(id) /\ TasksTyped' /\ id \notin DOMAIN cpTasks'
  BY <1>2, <1>3, <1>4, FinishIs, Zenon
<1>10. GivesUp(id, q, p)
  BY <1>8, <1>9, GuardsOf, NoGuards, Zenon DEF GivesUp
<1>11. WriteIsOver(q)
  BY <1>2, <1>3, <1>6, <1>7, Zenon DEF CpTypeOK, WriteIsOver
<1> QED BY <1>3, <1>4, <1>9, <1>10, <1>11, WriteEnds, Zenon

\* A push sends the blob and gives its read guard back.
LEMMA PushSendInv ==
  ASSUME CpInv, NEW id \in DOMAIN cpTasks, NEW failed \in BOOLEAN, PushSend(id, failed)
  PROVE  CpInv'
<1>1. PICK p \in CpServers, q \in CpServers : p = cpTasks[id].peer /\ q = cpTasks[id].at
  BY TaskIs, Zenon
<1>2. CpTypeOK /\ cpTasks[id].kind = "push" /\ cpTasks[id].pc = "send"
  BY TaskIs, Zenon DEF PushSend
<1>3. UNCHANGED <<cpRank, cpView, cpStops, cpNextTask>> /\ UNCHANGED cpStore
  BY Zenon DEF PushSend
<1>4. Leaves(id, q) /\ (Finish(id) \/ Goto(id, "clean"))
  BY <1>1, Zenon DEF PushSend, Leaves
<1>5. PICK y \in {"part", "whole"} : cpInbound' = [cpInbound EXCEPT ![p] = y]
  BY <1>1, Zenon DEF PushSend
<1>6. y \in {"none", "part", "whole"} /\ y # "none"
  BY <1>5, SMT
<1>7. /\ cpInbound' \in [CpServers -> {"none", "part", "whole"}] /\ cpInbound'[p] = y
      /\ \A t \in CpServers \ {p} : cpInbound'[t] = cpInbound[t]
  BY <1>2, <1>5, <1>6, Zenon DEF CpTypeOK
<1>8. \A s : (WritesAt(cpTasks[id], s) <=> s = p) /\ (ReadsAt(cpTasks[id], s) <=> s = q)
  BY <1>1, <1>2, SMT DEF WritesAt, ReadsAt
<1>9. /\ Rest(id) /\ TasksTyped'
      /\ id \in DOMAIN cpTasks' => cpTasks'[id].pc = "clean"
  <2>1. CASE Finish(id)
    BY <1>2, <1>3, <2>1, FinishIs, Zenon
  <2>2. CASE Goto(id, "clean")
    BY <1>2, <1>3, <2>2, GotoIs, Zenon
  <2> QED BY <1>4, <2>1, <2>2, Zenon
<1>10. \A s \in CpServers :
         /\ id \in Writers(s) <=> s = p
         /\ id \in Readers(s) => s = q
  BY <1>8, GuardsOf, Zenon
<1>11. \A s \in CpServers : id \notin Writers(s)' /\ id \notin Readers(s)'
  <2>1. CASE id \in DOMAIN cpTasks'
    BY <1>9, <2>1, GuardsOfNext, IdleHasNone, Zenon DEF Idle
  <2>2. CASE id \notin DOMAIN cpTasks'
    BY <2>2, NoGuards, Zenon
  <2> QED BY <2>1, <2>2, Zenon
<1>12. cpStore[p] = "write" /\ cpStore' \in [CpServers -> {"none", "write", "have"}]
  BY <1>1, <1>2, <1>3, <1>10, Zenon DEF CpInv, GuardsKnown, WriterIsKnown, CpTypeOK
<1>13. cpStore'[p] = "write" /\ cpInbound'[p] # "none"
  BY <1>3, <1>6, <1>7, <1>12, Zenon
<1>14. id \in DOMAIN cpTasks' => cpTasks'[id].pc # "remove"
  BY <1>9, SMT
<1>15. WriteIsOver(p)
  BY <1>3, <1>7, <1>12, <1>13, Zenon DEF WriteIsOver
<1>16. GivesUp(id, p, q)
  BY <1>10, <1>11, Zenon DEF GivesUp
<1> QED BY <1>3, <1>4, <1>9, <1>14, <1>15, <1>16, WriteEnds, Zenon

\* A cleanup removes only a blob that no one reads or writes.
LEMMA CleanupRemoveInv ==
  ASSUME CpInv, NEW id \in DOMAIN cpTasks, CleanupRemove(id)
  PROVE  CpInv'
<1>1. PICK q \in CpServers : q = cpTasks[id].at
  BY TaskIs, Zenon
<1>2. CpTypeOK /\ GuardsKnown /\ cpTasks[id].pc \in Idle
  BY Zenon DEF CpInv, CleanupRemove, Idle
<1>3. /\ UNCHANGED <<cpRank, cpView, cpStops, cpNextTask>> /\ UNCHANGED <<cpReaders, cpInbound>>
      /\ Finish(id) /\ BlobBecomes(q, "none") /\ cpReaders[q] = {} /\ cpStore[q] # "write"
  BY <1>1, Zenon DEF CleanupRemove, BlobBecomes, Removable
<1>4. Rest(id) /\ TasksTyped' /\ id \notin DOMAIN cpTasks'
  BY <1>2, <1>3, FinishIs, Zenon
<1>5. SameGuards(id)
  BY <1>2, <1>4, GuardsOf, NoGuards, IdleHasNone, Zenon DEF SameGuards
<1>6. /\ cpStore' \in [CpServers -> {"none", "write", "have"}] /\ cpStore'[q] = "none"
      /\ \A t \in CpServers \ {q} : cpStore'[t] = cpStore[t]
  BY <1>2, <1>3, BlobIs, Zenon
<1>7. ASSUME NEW t \in CpServers PROVE WriterIsKnown(t)' /\ ReadersAreKnown(t)'
  <2>1. WriterIsKnown(t) /\ ReadersAreKnown(t)
    BY <1>2, Zenon DEF GuardsKnown
  <2>2. cpStore'[t] = "write" <=> cpStore[t] = "write"
    BY <1>3, <1>6, SMT
  <2>3. cpReaders'[t] # {} => cpStore'[t] = "have"
    BY <1>3, <1>6, <2>1, Zenon DEF ReadersAreKnown
  <2>4. WriterIsKnown(t)'
    BY <1>3, <1>4, <1>5, <2>1, <2>2, WriterStays, Zenon DEF SameGuards
  <2>5. ReadersAreKnown(t)'
    BY <1>3, <1>4, <1>5, <2>1, <2>3, ReadersFollow, Zenon DEF SameGuards
  <2> QED BY <2>4, <2>5, Zenon
<1>8. /\ cpReaders' \in [CpServers -> SUBSET Nat]
      /\ cpInbound' \in [CpServers -> {"none", "part", "whole"}]
  BY <1>2, <1>3, Zenon DEF CpTypeOK
<1> QED BY <1>3, <1>4, <1>6, <1>7, <1>8, GuardStep, Zenon

\* What the server does, or the client, while the tasks stay where they are.
LEMMA ServerStep ==
  ASSUME CpInv, NEW s \in CpServers, NEW x \in {"none", "have"}, BlobBecomes(s, x),
         UNCHANGED <<cpRank, cpView, cpStops, cpNextTask, cpTasks, cpReaders>>, cpReaders[s] = {},
         cpInbound' \in [CpServers -> {"none", "part", "whole"}],
         \A t \in CpServers \ {s} : cpInbound'[t] = cpInbound[t],
         cpInbound'[s] = "none", Writers(s) = {}
  PROVE  CpInv'
<1>1. CpTypeOK /\ GuardsKnown /\ RemovesStrays
  BY Zenon DEF CpInv
<1>2. x \in {"none", "write", "have"} /\ x # "write"
  BY SMT
<1>3. /\ cpStore' \in [CpServers -> {"none", "write", "have"}] /\ cpStore'[s] = x
      /\ \A t \in CpServers \ {s} : cpStore'[t] = cpStore[t]
  BY <1>1, <1>2, BlobIs, Zenon
<1>4. \A t : Writers(t)' = Writers(t) /\ Readers(t)' = Readers(t)
  BY Zenon DEF Writers, Readers
<1>5. ASSUME NEW t \in CpServers PROVE WriterIsKnown(t)' /\ ReadersAreKnown(t)'
  <2>1. WriterIsKnown(t) /\ ReadersAreKnown(t)
    BY <1>1, Zenon DEF GuardsKnown
  <2>2. CASE t = s
    BY <1>2, <1>3, <1>4, <2>1, <2>2, Zenon DEF WriterIsKnown, ReadersAreKnown
  <2>3. CASE t # s
    BY <1>3, <1>4, <2>1, <2>3, Zenon DEF WriterIsKnown, ReadersAreKnown
  <2> QED BY <2>2, <2>3, Zenon
<1>6. RemovesStrays'
  BY <1>1, Zenon DEF RemovesStrays, Stray, Designated, Find, Ahead
<1>7. CpTypeOK'
  BY <1>1, <1>3, Zenon DEF CpTypeOK
<1>8. GuardsKnown'
  BY <1>5, Zenon DEF GuardsKnown
<1> QED BY <1>6, <1>7, <1>8, Zenon DEF CpInv

\* A push that arrived is committed, or dropped, by the server that receives it.
LEMMA CommitInv ==
  ASSUME CpInv, NEW s \in CpServers, NEW failed \in BOOLEAN, Commit(s, failed)
  PROVE  CpInv'
<1>1. CpTypeOK /\ WriterIsKnown(s) /\ ReadersAreKnown(s)
  BY Zenon DEF CpInv, GuardsKnown
<1>2. cpInbound[s] # "none" /\ Writers(s) = {} /\ cpStore[s] = "write"
  BY <1>1, Zenon DEF Commit, WriterIsKnown
<1>3. cpReaders[s] = {}
  BY <1>1, <1>2, SMT DEF ReadersAreKnown
<1>4. /\ cpInbound' \in [CpServers -> {"none", "part", "whole"}] /\ cpInbound'[s] = "none"
      /\ \A t \in CpServers \ {s} : cpInbound'[t] = cpInbound[t]
  BY <1>1, Zenon DEF Commit, CpTypeOK
<1>5. PICK x \in {"none", "have"} : BlobBecomes(s, x)
  BY Zenon DEF Commit, BlobBecomes
<1>6. UNCHANGED <<cpRank, cpView, cpStops, cpNextTask, cpTasks, cpReaders>>
  BY Zenon DEF Commit
<1> QED BY <1>2, <1>3, <1>4, <1>5, <1>6, ServerStep, Zenon

\* A client removes only a blob that no one reads or writes.
LEMMA ClientRemoveInv ==
  ASSUME CpInv, NEW s \in CpServers, ClientRemove(s)
  PROVE  CpInv'
<1>1. CpTypeOK /\ WriterIsKnown(s) /\ ReadersAreKnown(s)
  BY Zenon DEF CpInv, GuardsKnown
<1>2. cpReaders[s] = {} /\ cpStore[s] # "write" /\ BlobBecomes(s, "none") /\ UNCHANGED cpInbound
  BY Zenon DEF ClientRemove, Removable, BlobBecomes
<1>3. cpInbound[s] = "none" /\ Writers(s) = {}
  BY <1>1, <1>2, Zenon DEF WriterIsKnown
<1>4. UNCHANGED <<cpRank, cpView, cpStops, cpNextTask, cpTasks, cpReaders>>
  BY Zenon DEF ClientRemove
<1>5. /\ cpInbound' \in [CpServers -> {"none", "part", "whole"}] /\ cpInbound'[s] = "none"
      /\ \A t \in CpServers \ {s} : cpInbound'[t] = cpInbound[t]
  BY <1>1, <1>2, <1>3, Zenon DEF CpTypeOK
<1> QED BY <1>2, <1>3, <1>4, <1>5, ServerStep, Zenon

-----------------------------------------------------------------------------
\* No guard is held when the servers start.
LEMMA CpInitInv == CachePeersInit => CpInv
<1> SUFFICES ASSUME CachePeersInit PROVE CpInv
  BY Zenon
<1>1. DOMAIN cpTasks = {} /\ cpTasks \in [DOMAIN cpTasks -> CpTask]
  BY SMT DEF CachePeersInit
<1>2. PICK q \in CpServers : cpStore = [t \in CpServers |-> IF t = q THEN "have" ELSE "none"]
  BY Zenon DEF CachePeersInit
<1>3. /\ cpStore \in [CpServers -> {"none", "write", "have"}]
      /\ \A t \in CpServers : cpStore[t] # "write"
  BY <1>2, SMT
<1>4. Cardinality(CpServers) \in Nat
  BY FS_CardinalityType, Zenon
<1>5. cpRank \in [CpServers -> Nat]
  <2>1. cpRank \in [CpServers -> 1 .. Cardinality(CpServers)]
    BY Zenon DEF CachePeersInit, CpRanks
  <2>2. 1 .. Cardinality(CpServers) \subseteq Nat
    BY <1>4, SMT
  <2> QED BY <2>1, <2>2, Zenon
<1>6. CpTypeOK
  <2>1. cpView \in [CpServers -> SUBSET CpServers] /\ \A s \in CpServers : s \in cpView[s]
    BY SMT DEF CachePeersInit
  <2>2. /\ cpReaders \in [CpServers -> SUBSET Nat] /\ cpNextTask \in Nat /\ cpStops \in Nat
        /\ cpInbound \in [CpServers -> {"none", "part", "whole"}]
    BY SMT DEF CachePeersInit
  <2> QED BY <1>1, <1>3, <1>5, <2>1, <2>2, Zenon DEF CpTypeOK
<1>7. \A s : Writers(s) = {} /\ Readers(s) = {}
  BY <1>1, Zenon DEF Writers, Readers
<1>8. \A s \in CpServers : cpReaders[s] = {} /\ cpInbound[s] = "none"
  BY Zenon DEF CachePeersInit
<1>9. GuardsKnown
  BY <1>3, <1>7, <1>8, Zenon DEF GuardsKnown, WriterIsKnown, ReadersAreKnown
<1>10. RemovesStrays
  BY <1>1, Zenon DEF RemovesStrays
<1> QED BY <1>6, <1>9, <1>10, Zenon DEF CpInv

\* Every step keeps the invariant.
LEMMA CpNextInv == CpInv /\ [CachePeersNext]_cachePeersVars => CpInv'
<1> SUFFICES ASSUME CpInv, [CachePeersNext]_cachePeersVars PROVE CpInv'
  BY Zenon
<1>1. CASE UNCHANGED cachePeersVars
  <2>1. UNCHANGED <<cpRank, cpView, cpStore, cpReaders, cpTasks, cpNextTask, cpInbound, cpStops>>
    BY <1>1, Zenon DEF cachePeersVars
  <2>2. \A t : Writers(t)' = Writers(t) /\ Readers(t)' = Readers(t)
    BY <2>1, Zenon DEF Writers, Readers
  <2>3. GuardsKnown'
    BY <2>1, <2>2, Zenon DEF CpInv, GuardsKnown, WriterIsKnown, ReadersAreKnown
  <2>4. RemovesStrays'
    BY <2>1, Zenon DEF CpInv, RemovesStrays, Stray, Designated, Find, Ahead
  <2>5. CpTypeOK'
    BY <2>1, Zenon DEF CpInv, CpTypeOK
  <2> QED BY <2>3, <2>4, <2>5, Zenon DEF CpInv
<1>2. ASSUME NEW s \in CpServers, NEW p \in CpServers, PeerStarts(s, p) \/ PeerStops(s, p)
      PROVE  CpInv'
  BY <1>2, PeerStartsInv, PeerStopsInv, Zenon
<1>3. ASSUME NEW s \in CpServers, ReadMiss(s) \/ ClientRemove(s) PROVE CpInv'
  BY <1>3, ReadMissInv, ClientRemoveInv, Zenon
<1>4. ASSUME NEW s \in CpServers, NEW failed \in BOOLEAN, Commit(s, failed) PROVE CpInv'
  BY <1>4, CommitInv, Zenon
<1>5. ASSUME NEW id \in DOMAIN cpTasks,
             \/ PullFind(id) \/ PullAsk(id) \/ PullWrite(id) \/ PullSent(id)
             \/ PushKeys(id) \/ PushPeek(id) \/ PushAsk(id)
             \/ CleanupKeys(id) \/ CleanupRemove(id)
      PROVE  CpInv'
  BY <1>5, PullFindInv, PullAskInv, PullWriteInv, PullSentInv, PushKeysInv, PushPeekInv,
     PushAskInv, CleanupKeysInv, CleanupRemoveInv, Zenon
<1>6. ASSUME NEW id \in DOMAIN cpTasks, NEW failed \in BOOLEAN, PullRead(id, failed) \/ PushSend(id, failed)
      PROVE  CpInv'
  BY <1>6, PullReadInv, PushSendInv, Zenon
<1> QED BY <1>1, <1>2, <1>3, <1>4, <1>5, <1>6, Zenon DEF CachePeersNext

\* The only steps that take the blob from a server that has it are the client's and
\* those of a task that is about to remove it.
LEMMA ReplicasKept == CpInv /\ [CachePeersNext]_cachePeersVars => [ReplicasStay]_cachePeersVars
<1> SUFFICES ASSUME CpInv, CachePeersNext, NEW s \in CpServers, cpStore[s] = "have",
                    cpStore'[s] # "have", cpRemove' = cpRemove
             PROVE  Stray(s)
  BY Zenon DEF ReplicasStay, Stray
<1>0. CpTypeOK /\ WriterIsKnown(s) /\ RemovesStrays /\ cpStore[s] # "write" /\ cpStore[s] # "none"
  <2>1. cpStore[s] # "write" /\ cpStore[s] # "none"
    BY SMT
  <2> QED BY <2>1, Zenon DEF CpInv, GuardsKnown
<1>1. \A t \in CpServers : \A x : BlobBecomes(t, x) => t = s
  BY <1>0, Zenon DEF BlobBecomes, CpTypeOK
<1>2. cpStore' # cpStore
  BY Zenon
<1>3. ASSUME NEW t \in CpServers, NEW p \in CpServers, PeerStarts(t, p) \/ PeerStops(t, p)
      PROVE  FALSE
  BY <1>2, <1>3, Zenon DEF PeerStarts, PeerStops
<1>4. ASSUME NEW t \in CpServers, ReadMiss(t) \/ ClientRemove(t) PROVE FALSE
  BY <1>2, <1>4, Zenon DEF ReadMiss, ClientRemove
<1>5. ASSUME NEW t \in CpServers, NEW failed \in BOOLEAN, Commit(t, failed) PROVE FALSE
  <2>1. t = s
    BY <1>1, <1>5, Zenon DEF Commit, BlobBecomes
  <2> QED BY <1>0, <1>5, <2>1, Zenon DEF Commit, WriterIsKnown
<1>6. ASSUME NEW id \in DOMAIN cpTasks,
             \/ PullFind(id) \/ PullAsk(id) \/ PullSent(id) \/ PushKeys(id) \/ PushPeek(id) \/ CleanupKeys(id)
      PROVE  FALSE
  BY <1>2, <1>6, Zenon DEF PullFind, PullAsk, PullSent, PushKeys, PushPeek, CleanupKeys
<1>7. ASSUME NEW id \in DOMAIN cpTasks, PullWrite(id) \/ PushAsk(id) PROVE FALSE
  <2>1. PICK t \in CpServers : cpStore[t] = "none" /\ BlobBecomes(t, "write")
    BY <1>2, <1>7, TaskIs, Zenon DEF PullWrite, PushAsk, BlobBecomes
  <2> QED BY <1>0, <1>1, <2>1, Zenon
<1>8. ASSUME NEW id \in DOMAIN cpTasks, NEW failed \in BOOLEAN, PullRead(id, failed) \/ PushSend(id, failed)
      PROVE  FALSE
  <2>1. PullRead(id, failed)
    BY <1>2, <1>8, Zenon DEF PushSend
  <2>2. cpTasks[id].at = s
    BY <1>1, <2>1, TaskIs, Zenon DEF PullRead, BlobBecomes
  <2>3. WritesAt(cpTasks[id], s)
    BY <2>1, <2>2, Zenon DEF PullRead, WritesAt
  <2> QED BY <1>0, <2>3, GuardsOf, Zenon DEF WriterIsKnown
<1>9. ASSUME NEW id \in DOMAIN cpTasks, CleanupRemove(id) PROVE Stray(s)
  <2>1. cpTasks[id].at = s
    BY <1>1, <1>9, TaskIs, Zenon DEF CleanupRemove, BlobBecomes
  <2> QED BY <1>0, <1>9, <2>1, Zenon DEF CleanupRemove, RemovesStrays
<1> QED BY <1>3, <1>4, <1>5, <1>6, <1>7, <1>8, <1>9, Zenon DEF CachePeersNext

\* Through any joins, leaves, pulls, pushes, cleanups and failures, every guard of the
\* blob has the owner that will give it up, and only the client takes the blob from a
\* server that belongs to its replicas (ddcache/peer/src/lib.rs, blob_server.rs).
THEOREM ReplicasAreKept == CachePeersSpec => BlobsMoveSafely
<1>1. CpInv => \A s \in CpServers : WriterIsKnown(s) /\ ReadersAreKnown(s)
  BY Zenon DEF CpInv, GuardsKnown
<1> QED BY <1>1, CpInitInv, CpNextInv, ReplicasKept, PTL DEF CachePeersSpec, BlobsMoveSafely
=============================================================================
