----------------------------- MODULE MCPassScan -----------------------------
(* Instances of PassScan for TLC.                                            *)
EXTENDS PassScan, TLC

=============================================================================
