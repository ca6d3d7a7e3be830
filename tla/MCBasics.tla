------------------------------ MODULE MCBasics ------------------------------
(* The building blocks of g1 for TLC.  They share no state, so a behaviour *)
(* exercises one of them, the focus chosen at the start.                   *)
EXTENDS Broadcast, ReadyQueue, Mpmc, JoinTasks, Collections, LruCache

CONSTANT Focuses
VARIABLE focus

MCInit ==
    /\ focus \in Focuses
    /\ BroadcastInit /\ ReadyQueueInit /\ MpmcInit /\ JoinInit /\ OrderedMapInit /\ LruInit
    /\ BiTableInit /\ BiGraphInit

vars == <<broadcastVars, readyQueueVars, mpmcVars, joinVars, orderedMapVars, lruVars,
          biTableVars, biGraphVars, focus>>

MCNext ==
    /\ UNCHANGED focus
    /\ \/ focus = "broadcast" /\ BroadcastNext
       \/ focus # "broadcast" /\ UNCHANGED broadcastVars
    /\ \/ focus = "ready_queue" /\ ReadyQueueNext
       \/ focus # "ready_queue" /\ UNCHANGED readyQueueVars
    /\ \/ focus = "mpmc" /\ MpmcNext
       \/ focus # "mpmc" /\ UNCHANGED mpmcVars
    /\ \/ focus = "join" /\ JoinTasksNext
       \/ focus # "join" /\ UNCHANGED joinVars
    /\ \/ focus = "vec_list" /\ VecListNext /\ UNCHANGED <<omIndex, omRef>>
       \/ focus = "ordered_map" /\ OrderedMapNext
       \/ focus \notin {"vec_list", "ordered_map"} /\ UNCHANGED orderedMapVars
    /\ \/ focus = "lru" /\ LruNext
       \/ focus # "lru" /\ UNCHANGED lruVars
    /\ \/ focus = "bi_table" /\ BiTableNext
       \/ focus # "bi_table" /\ UNCHANGED biTableVars
    /\ \/ focus = "bi_graph" /\ BiGraphNext
       \/ focus # "bi_graph" /\ UNCHANGED biGraphVars

MCSpec == MCInit /\ [][MCNext]_vars

\* The futures differ only in their names, and so do the tasks that call pop_ready.
MCSymmetry == Permutations(RqFutures) \cup Permutations(RqPop)

\* VecList alone is the sequence it stands for (vec_list.rs), and under an
\* ordered map the dictionary (ordered.rs).
VecListIsSequence == focus = "vec_list" => ListIsSequence
OrderedMapIsDictionary == focus = "ordered_map" => MapIsDictionary

\* The linked list in a vector, and the ordered map on top of it, are exact while
\* their nodes are freed and used again; so are the two-way tables and graphs.
CollectionsAreExact ==
    /\ VecListIsSequence /\ FreeListIsRest /\ OrderedMapIsDictionary
    /\ TableIsPermutation /\ GraphIsRelation
=============================================================================
