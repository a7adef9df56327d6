---------------------------- MODULE MCStationApi ----------------------------
(* Instances of StationApi for TLC.                                          *)
EXTENDS StationApi, TLC

CONSTANTS p1, p2, p3, athens, berlin

=============================================================================
