---------------------------- MODULE MCJobWorker ----------------------------
(* Instances of JobWorker for TLC.                                           *)
EXTENDS JobWorker, TLC

CONSTANTS w1, w2, w3, tle, other

\* The seeded job and one more, whose handler may be missing from this build.
OneJob     == {tle}
TwoJobs    == {tle, other}

EveryFour  == [j \in Jobs |-> 4]
EveryFive  == [j \in Jobs |-> 5]
EveryTwo   == [j \in Jobs |-> 2]

WorkerSymmetry == Permutations(Workers)

=============================================================================
