---------------------------- MODULE MCTleIngest ----------------------------
(* Instances of TleIngest for TLC.                                           *)
EXTENDS TleIngest, TLC

CONSTANTS i1, i2, iss, noaa

\* The second TLE of a satellite keeps the second line of the first.
SecondKeepsLine == [v \in 1 .. MaxVersion |-> IF v = 2 THEN 1 ELSE v]

IngesterSymmetry == Permutations(Ingesters)

=============================================================================
