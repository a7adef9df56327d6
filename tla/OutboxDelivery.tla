--------------------------- MODULE OutboxDelivery ---------------------------
(***************************************************************************)
(* What the outbox of apsis promises to those who publish (ADR 0001): an   *)
(* event is delivered at least once to every handler of its type, or is    *)
(* given up for an operator to look at, and either verdict is final.  No   *)
(* worker, lock, retry or dispatch is visible here.                        *)
(***************************************************************************)
CONSTANTS
  Events,
  Duty          \* Duty[e]: the handlers that e is published for

VARIABLES
  state,        \* "none", "open", "delivered" or "dead"
  done          \* the handlers that have taken effect, for each event

vars == <<state, done>>

Init ==
  /\ state = [e \in Events |-> "none"]
  /\ done  = [e \in Events |-> {}]

Become(e, from, to) ==
  /\ state[e] = from
  /\ state' = [state EXCEPT ![e] = to]
  /\ UNCHANGED done

Publish(e) == Become(e, "none", "open")

\* A handler may take effect again, and even after the verdict, when a worker
\* that has lost its claim is still at it; but never before the publication
\* nor for an event of another type.
TakeEffect(e, h) ==
  /\ state[e] # "none"
  /\ done' = [done EXCEPT ![e] = @ \cup {h}]
  /\ UNCHANGED state

Close(e) == done[e] = Duty[e] /\ Become(e, "open", "delivered")

GiveUp(e) == Become(e, "open", "dead")

Next ==
  \E e \in Events :
    Publish(e) \/ Close(e) \/ GiveUp(e) \/ \E h \in Duty[e] : TakeEffect(e, h)

Spec == Init /\ [][Next]_vars

=============================================================================
