---------------------------- MODULE MCBlobStorage ----------------------------
(* Instances of BlobStorage for TLC. *)
EXTENDS BlobStorage, TLC

CONSTANTS k1, k2, k3, h1, h2

OneHashKeys == {k1, k2}
OneHashOf == k1 :> h1 @@ k2 :> h1
AllKeys == {k1, k2, k3}
AllHashOf == k1 :> h1 @@ k2 :> h1 @@ k3 :> h2
MCMetadata == [size : 0 .. MaxLen, expire : Times \cup {Never}]
MCFresh == [size |-> 0, expire |-> Never]
MCSizeOf == [m \in MCMetadata |-> m.size]

Symmetry == Permutations(Tasks)
=============================================================================
