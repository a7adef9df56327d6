----------------------------- MODULE MCReplica -----------------------------
(* Instances of Replica for TLC.                                             *)
EXTENDS Replica, TLC

CONSTANTS outbox, jobs, q1, q2, q3

=============================================================================
