------------------------------ MODULE MCBlobMap ------------------------------
(* Instances of BlobMap for TLC: two colliding keys and one of its own hash. *)
EXTENDS BlobMapProofs, TLC

CONSTANTS k1, k2, k3, h1, h2, fresh, small, large, Modes

MCKeys == {k1, k2, k3}
MCHashes == {h1, h2}
MCHashOf == k1 :> h1 @@ k2 :> h1 @@ k3 :> h2
MCMetadata == {fresh, small, large}
MCSizeOf == fresh :> 0 @@ small :> 1 @@ large :> 3

OneHashKeys == {k1, k2}
OneHashHashes == {h1}
OneHashHashOf == k1 :> h1 @@ k2 :> h1
OneSize == {fresh, small}
OneSizeOf == fresh :> 0 @@ small :> 1

Symmetry == Permutations(Tasks) \cup Permutations(Arcs)

-----------------------------------------------------------------------------
(* A behaviour has three tasks on one hash, or at most two at a time on both: *)
(* mode bounds who calls, and leaves the map alone.                           *)

VARIABLE mode

MapModes == {[tasks |-> 3, keys |-> OneHashKeys], [tasks |-> 2, keys |-> MCKeys]}
AnyMode == {[tasks |-> Cardinality(Tasks), keys |-> Keys]}

MCInit == Init /\ mode \in Modes /\ \A h \in Mapped : map[h].key \in mode.keys

MCNext ==
  /\ Next /\ UNCHANGED mode
  /\ Cardinality({t \in Tasks : pc'[t] # "idle"}) <= mode.tasks
  /\ \A t \in Tasks : key'[t] \in mode.keys \cup {NoKey}

MCSpec == MCInit /\ [][MCNext]_<<vars, mode>>
=============================================================================
