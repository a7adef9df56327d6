--------------------------- MODULE MCOutboxWorker ---------------------------
(* Instances of OutboxWorker for TLC.                                        *)
EXTENDS OutboxWorker, TLC

CONSTANTS w1, w2, e1, e2, h1, h2

OwnName == [h \in Handlers |-> h]

\* The refreshed event has two handlers, the other one or none.
TwoAndNone == [e \in Events |-> IF e = e1 THEN <<h1, h2>> ELSE <<>>]
TwoAndOne  == [e \in Events |-> IF e = e1 THEN <<h1, h2>> ELSE <<h2>>]
OneEach    == [e \in Events |-> <<h1>>]

WorkerSymmetry == Permutations(Workers)

=============================================================================
