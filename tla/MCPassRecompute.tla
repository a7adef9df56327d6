--------------------------- MODULE MCPassRecompute ---------------------------
(* Instances of PassRecompute for TLC.                                       *)
EXTENDS PassRecompute, TLC

CONSTANTS r1, r2, iss

ReplicaSymmetry == Permutations(Replicas)

=============================================================================
