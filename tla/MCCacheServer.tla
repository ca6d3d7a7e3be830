---------------------------- MODULE MCCacheServer ----------------------------
(* Instances of CacheServer for TLC. *)
EXTENDS CacheServer, TLC

CONSTANTS k1, h1, Modes

MCHashOf == k1 :> h1
MCTasks == Requests \cup {Evictor, Expirer}
MCFresh == [size |-> 0, expire |-> FALSE]
MCMetadata == [size : {0, 1}, expire : BOOLEAN]
SomeMetadata == MCMetadata \ {[size |-> 0, expire |-> TRUE]}
MCSizeOf == [m \in Metadata |-> m.size]

Symmetry == Permutations(Requests)

-----------------------------------------------------------------------------
(* A behaviour has many requests for plain blobs, or fewer for blobs of all *)
(* kinds and a shutdown: mode bounds what comes from outside the server.    *)

VARIABLE mode

Mode(requests, metadata, stops) == [requests |-> requests, metadata |-> metadata, stops |-> stops]
SafeModes == {Mode(3, {MCFresh}, FALSE), Mode(2, SomeMetadata, TRUE)}
LiveModes == {Mode(2, {MCFresh}, TRUE), Mode(1, MCMetadata, TRUE)}
AnyMode == {Mode(Cardinality(Requests), Metadata, TRUE)}

MCInit == Init /\ mode \in Modes

MCNext ==
  /\ Next /\ UNCHANGED mode
  /\ task' = task \/ Cardinality({r \in Requests : task'[r] # "new"}) <= mode.requests
  /\ cell' = cell \/ \A h \in Hashes : cell'[h] # Absent => cell'[h].meta \in mode.metadata
  /\ mode.stops \/ (server' = "running" /\ serving')
  /\ pending' = pending \/ \A t \in Tasks : pending'[t] \in mode.metadata

MCSpec == MCInit /\ [][MCNext]_<<vars, mode>>
MCFairSpec == MCSpec /\ Fairness
=============================================================================
