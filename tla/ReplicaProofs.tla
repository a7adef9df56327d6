--------------------------- MODULE ReplicaProofs ---------------------------
(***************************************************************************)
(* What Replica guarantees for any number of requests and any size of the  *)
(* connection pool: it is never overdrawn and never deadlocked, and the    *)
(* shutdown leaves nobody behind, also where the closing of the LISTEN     *)
(* connection fails.                                                       *)
(***************************************************************************)
EXTENDS Replica, FiniteSetTheorems, TLAPS

\* A task holds the connections that its place calls for.
HoldsItsShare(t) ==
  /\ task[t].at \in {"off", "idle", "backoff", "close"} => task[t].held = 0
  /\ At(t, "want")   => task[t].held < Sessions(t)
  /\ At(t, "work")   => task[t].held \in 1 .. Sessions(t)
  /\ At(t, "finish") => task[t].held = 1

\* Requests neither rest between two turns nor are they cancelled.
RequestsComeAndGo == \A r \in Requests : task[r].at \in {"off", "want", "work"}

\* What the phase of the lifespan says of the tasks.
Idles(t) == task[t] = Off

\* Where the shutdown stands: each worker in its turn, and nobody afterwards.
PhaseInv ==
  /\ main \in {"boot", "dispose", "exited"} => \A t \in Tasks : Idles(t)
  /\ main \in {"serving", "draining"} =>
       \A w \in Workers : ~At(w, "unwind")
  /\ main \in {"stopJobs", "stopOutbox"} => \A r \in Requests : Idles(r)
  /\ main = "stopJobs" => task[Jobs].at \in {"off", "unwind"} /\ ~At(Outbox, "unwind")
  /\ main = "stopOutbox" => Idles(Jobs) /\ task[Outbox].at \in {"off", "unwind", "close"}

\* Everything the properties need.
ReplicaInv ==
  /\ TypeOK
  /\ \A t \in Tasks : HoldsItsShare(t)
  /\ RequestsComeAndGo
  /\ PhaseInv

-----------------------------------------------------------------------------
(* The pool.                                                                *)

\* The connections that are checked out can be counted.
LEMMA PoolCounts ==
  /\ IsFiniteSet(Tasks) /\ IsFiniteSet(Connections) /\ Used \in Nat
<1>1. IsFiniteSet({Outbox} \cup {Jobs} \cup Requests)
  BY ReplicaParameters, FS_Singleton, FS_Union
<1>2. IsFiniteSet(Tasks)
  <2>1. Tasks = {Outbox} \cup {Jobs} \cup Requests
    BY DEF Tasks, Workers
  <2> QED
    BY <1>1, <2>1
<1>3. IsFiniteSet({1, 2})
  <2>1. {1, 2} = {1} \cup {2}
    OBVIOUS
  <2>2. IsFiniteSet({1}) /\ IsFiniteSet({2})
    BY FS_Singleton
  <2> QED
    BY <2>1, <2>2, FS_Union
<1>4. IsFiniteSet(Tasks \X {1, 2})
  BY <1>2, <1>3, FS_Product
<1>5. Connections \in SUBSET (Tasks \X {1, 2})
  BY DEF Connections
<1>6. IsFiniteSet(Connections)
  BY <1>4, <1>5, FS_Subset
<1> QED
  BY <1>2, <1>6, FS_CardinalityType DEF Used

\* A task that gets no connection makes none unavailable.
LEMMA PoolShrinks ==
  ASSUME TypeOK, \A t \in Tasks : task'[t].held <= task[t].held,
         \A t \in Tasks : task'[t].held \in Int
  PROVE  Used' \in Nat /\ Used' <= Used
<1>1. Connections' \in SUBSET Connections
  BY DEF TypeOK, Connections
<1>2. IsFiniteSet(Connections')
  BY <1>1, PoolCounts, FS_Subset
<1>3. Used' = Cardinality(Connections')
  BY DEF Used
<1>4. Cardinality(Connections') <= Cardinality(Connections)
  BY <1>1, PoolCounts, FS_Subset
<1> QED
  BY <1>2, <1>3, <1>4, FS_CardinalityType DEF Used

\* A task that gets one takes exactly one.
LEMMA PoolGrants ==
  ASSUME TypeOK, NEW t \in Tasks, task[t].held \in {0, 1},
         task'[t].held = task[t].held + 1, \A u \in Tasks \ {t} : task'[u] = task[u]
  PROVE  Used' = Used + 1
<1> DEFINE c == <<t, task[t].held + 1>>
<1>1. Connections' = Connections \cup {c} /\ c \notin Connections
  BY DEF TypeOK, Connections
<1>2. Cardinality(Connections \cup {c}) = Cardinality(Connections) + 1
  BY <1>1, PoolCounts, FS_AddElement
<1> QED
  BY <1>1, <1>2 DEF Used

-----------------------------------------------------------------------------
(* The steps.                                                               *)

\* The parameters and the types, in the form the steps need.
LEMMA Basics ==
  ASSUME ReplicaInv
  PROVE  /\ \A t \in Tasks : /\ task[t] \in [at : Places, held : 0 .. 2]
                             /\ HoldsItsShare(t) /\ Sessions(t) \in {1, 2}
                             /\ (Sessions(t) = 2 <=> t = Outbox)
                             /\ task[t] = [at |-> task[t].at, held |-> task[t].held]
         /\ Workers \subseteq Tasks /\ Requests \subseteq Tasks /\ Workers \cap Requests = {}
         /\ Tasks = Workers \cup Requests
         /\ Used <= capacity /\ capacity \in Nat /\ Used \in Nat
BY PoolCounts, ReplicaParameters DEF ReplicaInv, TypeOK, Sessions, Workers, Tasks

\* A task is in another place: what it must satisfy to leave everything in order.
LEMMA PlaceKeeps ==
  ASSUME ReplicaInv, NEW t \in Tasks, NEW l \in Places, NEW k \in 0 .. 2,
         task' = [task EXCEPT ![t] = [at |-> l, held |-> k]],
         listening' \in BOOLEAN, UNCHANGED <<capacity, main, ready, database, faults>>,
         Used' <= capacity, HoldsItsShare(t)',
         t \in Requests => l \in {"off", "want", "work"},
         l \in {"off", "idle"} => k = 0,
         main \notin {"boot", "dispose", "exited"},
         main \in {"serving", "draining"} /\ t \in Workers => l # "unwind",
         main \in {"stopJobs", "stopOutbox"} => t \in Workers,
         main = "stopJobs" => (t = Jobs => l \in {"off", "unwind"}) /\ (t = Outbox => l # "unwind"),
         main = "stopOutbox" => t = Outbox /\ l \in {"off", "unwind", "close"}
  PROVE  ReplicaInv'
<1>1. /\ task'[t] = [at |-> l, held |-> k] /\ \A u \in Tasks \ {t} : task'[u] = task[u]
      /\ UNCHANGED <<capacity, main, ready, database, faults>>
      /\ task' \in [Tasks -> [at : Places, held : 0 .. 2]]
  BY DEF ReplicaInv, TypeOK
<1>2. TypeOK'
  <2>1. \A u \in Tasks : task'[u].at \in {"off", "idle"} => task'[u].held = 0
    BY <1>1 DEF ReplicaInv, TypeOK
  <2> QED
    BY <1>1, <2>1 DEF ReplicaInv, TypeOK
<1>3. \A u \in Tasks : HoldsItsShare(u)'
  BY <1>1 DEF ReplicaInv, HoldsItsShare, At, Sessions
<1>4. RequestsComeAndGo'
  BY <1>1, Basics DEF ReplicaInv, RequestsComeAndGo
<1>5. PhaseInv'
  BY <1>1, Basics, ReplicaParameters DEF ReplicaInv, PhaseInv, Idles, At, Off, Workers
<1> QED
  BY <1>2, <1>3, <1>4, <1>5 DEF ReplicaInv

\* So it is with a task that moves on.
LEMMA MoveKeeps ==
  ASSUME ReplicaInv, NEW t \in Tasks, NEW l \in Places, NEW k \in 0 .. 2,
         Moves(t, l, k),
         Used' <= capacity, HoldsItsShare(t)',
         t \in Requests => l \in {"off", "want", "work"},
         l \in {"off", "idle"} => k = 0,
         main \notin {"boot", "dispose", "exited"},
         main \in {"serving", "draining"} /\ t \in Workers => l # "unwind",
         main \in {"stopJobs", "stopOutbox"} => t \in Workers,
         main = "stopJobs" => (t = Jobs => l \in {"off", "unwind"}) /\ (t = Outbox => l # "unwind"),
         main = "stopOutbox" => t = Outbox /\ l \in {"off", "unwind", "close"}
  PROVE  ReplicaInv'
<1>1. listening \in BOOLEAN
  BY DEF ReplicaInv, TypeOK
<1>2. /\ task' = [task EXCEPT ![t] = [at |-> l, held |-> k]]
      /\ listening' \in BOOLEAN /\ UNCHANGED <<capacity, main, ready, database, faults>>
  BY <1>1 DEF Moves
<1> QED
  BY <1>2, PlaceKeeps

\* A task that is neither off nor cancelled is one the phase lets work.
LEMMA WhoWorks ==
  ASSUME ReplicaInv, NEW t \in Tasks, task[t].at \in {"idle", "want", "work", "finish", "backoff"}
  PROVE  /\ main \notin {"boot", "dispose", "exited", "stopOutbox"}
         /\ main = "stopJobs" => t = Outbox /\ t \in Workers /\ t # Jobs
<1>1. main \in Phases
  BY DEF ReplicaInv, TypeOK
<1>2. Off.at = "off"
  BY DEF Off
<1>3. task[t].at \notin {"off", "unwind"} /\ task[t] # Off
  BY <1>2
<1> QED
  BY <1>1, <1>3, ReplicaParameters DEF ReplicaInv, PhaseInv, Idles, Tasks, Workers

\* Every step of a task keeps the invariant.
LEMMA TaskKeeps ==
  ASSUME ReplicaInv, NEW t \in Tasks, Step(t) PROVE ReplicaInv'
<1>1. /\ task[t] \in [at : Places, held : 0 .. 2] /\ HoldsItsShare(t)
      /\ Sessions(t) \in {1, 2} /\ (Sessions(t) = 2 <=> t = Outbox)
      /\ Used <= capacity /\ capacity \in Nat /\ Used \in Nat
      /\ Requests \cap Workers = {} /\ Outbox \in Workers /\ Tasks = Workers \cup Requests
  BY Basics DEF Workers
<1>2. ASSUME NEW l \in Places, NEW k \in 0 .. 2, Moves(t, l, k), k <= task[t].held PROVE Used' <= capacity
  <2>1. \A u \in Tasks : task'[u].held <= task[u].held /\ task'[u].held \in Int
    BY <1>2 DEF Moves, ReplicaInv, TypeOK
  <2> QED
    BY <1>1, <1>2, <2>1, PoolShrinks DEF Moves, ReplicaInv
<1>3. {"off", "idle", "want", "work", "finish", "backoff"} \subseteq Places
  BY DEF Places
<1>4. CASE Acquire(t)
  <2> DEFINE k == task[t].held + 1
  <2>1. At(t, "want") /\ task[t].held \in {0, 1} /\ k \in 1 .. 2 /\ k <= Sessions(t)
    BY <1>1, <1>4 DEF Acquire, HoldsItsShare
  <2>2. Moves(t, "work", k) /\ Used < capacity
    BY <1>4 DEF Acquire
  <2>3. task'[t] = [at |-> "work", held |-> k] /\ \A u \in Tasks \ {t} : task'[u] = task[u]
    BY <2>2 DEF Moves, ReplicaInv, TypeOK
  <2>4. Used' <= capacity
    <3>1. Used' = Used + 1
      BY <2>1, <2>3, PoolGrants DEF ReplicaInv
    <3> QED
      BY <1>1, <2>2, <3>1
  <2>5. HoldsItsShare(t)'
    BY <2>1, <2>3 DEF HoldsItsShare, At, Sessions
  <2> HIDE DEF k
  <2> QED
    BY <1>3, <2>1, <2>2, <2>4, <2>5, WhoWorks, MoveKeeps DEF At
<1>5. ASSUME NEW l \in {Rest(t), Failed(t)}, Moves(t, l, 0), task[t].at \in {"want", "work", "finish"}
      PROVE  ReplicaInv'
  <2>1. /\ l \in {"idle", "off", "backoff"}
        /\ t \in Requests => l = "off"
    BY <1>1, <1>5 DEF Rest, Failed
  <2>2. task'[t] = [at |-> l, held |-> 0]
    BY <1>5 DEF Moves, ReplicaInv, TypeOK
  <2>3. HoldsItsShare(t)'
    BY <2>1, <2>2 DEF HoldsItsShare, At
  <2>4. Used' <= capacity
    BY <1>1, <1>2, <1>3, <1>5, <2>1
  <2>5. /\ main \notin {"boot", "dispose", "exited", "stopOutbox"}
        /\ main = "stopJobs" => t = Outbox /\ t \in Workers /\ t # Jobs
    BY <1>5, WhoWorks
  <2> QED
    BY <1>3, <1>5, <2>1, <2>3, <2>4, <2>5, MoveKeeps
<1>6. ASSUME NEW k \in {1}, Moves(t, "finish", k), t = Outbox, task[t].at \in {"want", "work"}, k <= task[t].held
      PROVE  ReplicaInv'
  <2>1. task'[t] = [at |-> "finish", held |-> 1]
    BY <1>6 DEF Moves, ReplicaInv, TypeOK
  <2>2. HoldsItsShare(t)'
    BY <2>1 DEF HoldsItsShare, At
  <2>3. Used' <= capacity
    BY <1>2, <1>3, <1>6
  <2> QED
    BY <1>1, <1>3, <1>6, <2>2, <2>3, WhoWorks, MoveKeeps DEF At
<1>7. CASE GiveUp(t)
  <2>1. task[t].at = "want"
    BY <1>7 DEF GiveUp, At
  <2>2. CASE task[t].held = 1
    BY <1>1, <1>6, <1>7, <2>1, <2>2 DEF GiveUp, HoldsItsShare, At
  <2>3. CASE task[t].held # 1
    BY <1>5, <1>7, <2>1, <2>3 DEF GiveUp
  <2> QED
    BY <2>2, <2>3
<1>8. CASE OpenInner(t)
  <2>1. /\ task[t].at = "work" /\ task[t].held < Sessions(t) /\ task[t].held \in 0 .. 2
        /\ Moves(t, "want", task[t].held)
    BY <1>1, <1>8 DEF OpenInner, At
  <2>2. task'[t] = [at |-> "want", held |-> task[t].held]
    BY <2>1 DEF Moves, ReplicaInv, TypeOK
  <2>3. HoldsItsShare(t)'
    BY <2>1, <2>2 DEF HoldsItsShare, At, Sessions
  <2>4. Used' <= capacity
    BY <1>2, <1>3, <2>1
  <2> QED
    BY <1>3, <2>1, <2>3, <2>4, WhoWorks, MoveKeeps DEF At
<1>9. CASE CloseInner(t)
  <2>1. task[t].at = "work" /\ task[t].held = 2 /\ Moves(t, "finish", 1)
    BY <1>9 DEF CloseInner, At
  <2>2. t = Outbox
    BY <1>1, <2>1 DEF HoldsItsShare, At
  <2> QED
    BY <1>6, <2>1, <2>2
<1>10. CASE CloseOuter(t)
  <2>1. task[t].at \in {"work", "finish"} /\ \E l \in {Rest(t), Failed(t)} : Moves(t, l, 0)
    BY <1>10 DEF CloseOuter, At
  <2> QED
    BY <1>5, <2>1
<1> QED
  BY <1>4, <1>7, <1>8, <1>9, <1>10 DEF Step

\* So does the beginning of a turn, of a request, and the end of a cancelled task.
LEMMA TurnKeeps ==
  ASSUME ReplicaInv, NEW t \in Tasks,
         (t \in Workers /\ (Poll(t) \/ Unwind(t))) \/ (t \in Requests /\ Arrive(t))
  PROVE  ReplicaInv'
<1>1. /\ task[t] \in [at : Places, held : 0 .. 2] /\ HoldsItsShare(t) /\ Sessions(t) \in {1, 2}
      /\ Used <= capacity /\ capacity \in Nat /\ Used \in Nat
      /\ Requests \cap Workers = {} /\ Workers = {Outbox, Jobs}
  BY Basics DEF Workers
<1>2. {"off", "want", "close"} \subseteq Places /\ 0 \in 0 .. 2
  BY DEF Places
<1>3. ASSUME NEW l \in {"off", "want", "close"}, Moves(t, l, 0) PROVE Used' <= capacity /\ HoldsItsShare(t)'
  <2>1. \A u \in Tasks : task'[u].held <= task[u].held /\ task'[u].held \in Int
    BY <1>3 DEF Moves, ReplicaInv, TypeOK
  <2>2. Used' <= capacity
    BY <1>1, <1>3, <2>1, PoolShrinks DEF Moves, ReplicaInv
  <2>3. task'[t] = [at |-> l, held |-> 0]
    BY <1>3 DEF Moves, ReplicaInv, TypeOK
  <2>4. HoldsItsShare(t)'
    BY <1>1, <2>3 DEF HoldsItsShare, At, Sessions
  <2> QED
    BY <2>2, <2>4
<1>4. CASE t \in Workers /\ Poll(t)
  <2>1. task[t].at = "idle" /\ Moves(t, "want", 0)
    BY <1>4 DEF Poll, At
  <2> QED
    BY <1>1, <1>2, <1>3, <1>4, <2>1, WhoWorks, MoveKeeps DEF At
<1>5. CASE t \in Requests /\ Arrive(t)
  <2>1. main = "serving" /\ Moves(t, "want", 0)
    BY <1>5 DEF Arrive
  <2> QED
    BY <1>1, <1>2, <1>3, <1>5, <2>1, MoveKeeps
<1>6. CASE t \in Workers /\ Unwind(t)
  <2>1. task[t].at = "unwind" /\ \E l \in {"off", "close"} : Moves(t, l, 0) /\ (l = "close" => t = Outbox)
    BY <1>6 DEF Unwind, At
  <2>2. \/ main = "stopJobs" /\ t = Jobs
        \/ main = "stopOutbox" /\ t = Outbox
    <3>1. main \in Phases /\ Off.at = "off"
      BY DEF ReplicaInv, TypeOK, Off
    <3> QED
      BY <1>1, <1>6, <2>1, <3>1, Basics DEF ReplicaInv, PhaseInv, Idles, At, Phases
  <2>3. PICK l \in {"off", "close"} : Moves(t, l, 0) /\ (l = "close" => t = Outbox)
    BY <2>1
  <2> QED
    BY <1>1, <1>2, <1>3, <1>6, <2>2, <2>3, ReplicaParameters, MoveKeeps
<1> QED
  BY <1>4, <1>5, <1>6

\* Where the outbox task is when it has to do with its LISTEN connection.
LEMMA WhoListens ==
  ASSUME ReplicaInv, task[Outbox].at \in {"idle", "backoff", "close"}
  PROVE  /\ task[Outbox].held = 0 /\ main \notin {"boot", "dispose", "exited"}
         /\ main = "stopOutbox" => task[Outbox].at = "close"
<1>1. Outbox \in Tasks /\ main \in Phases /\ Off.at = "off"
  BY DEF Tasks, Workers, ReplicaInv, TypeOK, Off
<1>2. HoldsItsShare(Outbox)
  BY <1>1 DEF ReplicaInv
<1>3. task[Outbox] # Off
  BY <1>1
<1> QED
  BY <1>1, <1>2, <1>3 DEF ReplicaInv, PhaseInv, Idles, HoldsItsShare

\* Opening, losing and closing the LISTEN connection keeps the invariant.
LEMMA ListenerKeeps ==
  ASSUME ReplicaInv, Listener PROVE ReplicaInv'
<1>1. /\ task[Outbox] \in [at : Places, held : 0 .. 2] /\ Outbox \in Tasks /\ Outbox \in Workers
      /\ Outbox \notin Requests /\ Outbox # Jobs /\ task \in [Tasks -> [at : Places, held : 0 .. 2]]
      /\ main \in Phases /\ ready \in BOOLEAN /\ listening \in BOOLEAN
  BY Basics, ReplicaParameters DEF Workers, ReplicaInv, TypeOK
<1>2. {"off", "idle", "close"} \subseteq Places
  BY DEF Places
\* Each of them leaves the hands of the outbox task empty.
<1>3. ASSUME NEW l \in {"off", "idle", "close"}, task[Outbox].held = 0,
             task' = [task EXCEPT ![Outbox] = [at |-> l, held |-> 0]], capacity' = capacity
      PROVE  /\ Used' <= capacity /\ HoldsItsShare(Outbox)' /\ task'[Outbox] = [at |-> l, held |-> 0]
             /\ \A u \in Tasks : u # Outbox => task'[u] = task[u]
  <2>1. task'[Outbox] = [at |-> l, held |-> 0] /\ \A u \in Tasks : u # Outbox => task'[u] = task[u]
    BY <1>1, <1>3
  <2>2. \A u \in Tasks : task'[u].held <= task[u].held /\ task'[u].held \in Int
    BY <1>1, <1>3, <2>1 DEF ReplicaInv, TypeOK
  <2>3. Used' <= capacity
    BY <2>2, Basics, PoolShrinks DEF ReplicaInv
  <2>4. HoldsItsShare(Outbox)'
    BY <2>1 DEF HoldsItsShare, At
  <2> QED
    BY <2>1, <2>3, <2>4
<1>4. ASSUME NEW l \in {"off", "idle", "close"}, NEW b \in BOOLEAN, Listens(l, b)
      PROVE  /\ task[Outbox].held = 0 => task' = [task EXCEPT ![Outbox] = [at |-> l, held |-> 0]]
             /\ listening' \in BOOLEAN /\ UNCHANGED <<capacity, ready, database, faults>>
  <2>1. task' = [task EXCEPT ![Outbox] = [task[Outbox] EXCEPT !.at = l]]
    BY <1>1, <1>4 DEF Listens
  <2>2. task[Outbox].held = 0 => [task[Outbox] EXCEPT !.at = l] = [at |-> l, held |-> 0]
    BY <1>1
  <2> QED
    BY <1>4, <2>1, <2>2 DEF Listens
\* A step that leaves the lifespan where it is.
<1>5. ASSUME NEW l \in {"off", "idle", "close"}, UNCHANGED <<capacity, main, ready, database, faults>>,
             listening' \in BOOLEAN, task' = [task EXCEPT ![Outbox] = [at |-> l, held |-> 0]],
             task[Outbox].at \in {"idle", "backoff", "close"},
             main = "stopOutbox" => l # "idle"
      PROVE  ReplicaInv'
  <2>1. /\ task[Outbox].held = 0 /\ main \notin {"boot", "dispose", "exited"}
    BY <1>5, WhoListens
  <2>2. Used' <= capacity /\ HoldsItsShare(Outbox)'
    BY <1>3, <1>5, <2>1
  <2>3. main \in {"stopJobs", "stopOutbox"} => Outbox \in Workers
    BY <1>1
  <2> QED
    BY <1>1, <1>2, <1>5, <2>1, <2>2, <2>3, PlaceKeeps
<1>6. CASE Connect
  <2>1. task[Outbox].at = "idle" /\ Listens("idle", TRUE) /\ UNCHANGED main
    BY <1>6 DEF Connect, At
  <2>2. task[Outbox].held = 0 /\ main # "stopOutbox"
    BY <2>1, WhoListens
  <2> QED
    BY <1>4, <1>5, <2>1, <2>2
<1>7. CASE HeartbeatFails \/ BackoffEnds
  <2>1. task[Outbox].at \in {"idle", "backoff"} /\ Moves(Outbox, "close", 0)
    BY <1>7 DEF HeartbeatFails, BackoffEnds, At
  <2> QED
    BY <1>1, <1>5, <2>1 DEF Moves
<1>8. CASE CloseListener
  <2> DEFINE l == IF main = "stopOutbox" THEN "off" ELSE "idle"
  <2>1. task[Outbox].at = "close" /\ Listens(l, FALSE) /\ UNCHANGED main
    BY <1>8 DEF CloseListener, At
  <2>2. task[Outbox].held = 0
    BY <2>1, WhoListens
  <2>3. l \in {"off", "idle", "close"} /\ (main = "stopOutbox" => l # "idle")
    OBVIOUS
  <2> HIDE DEF l
  <2> QED
    BY <1>4, <1>5, <2>1, <2>2, <2>3
<1>9. CASE CloseFails
  <2>1. /\ task[Outbox].at = "close" /\ Listens("off", FALSE)
        /\ main' = IF main = "stopOutbox" THEN "exited" ELSE main
    BY <1>9 DEF CloseFails, At
  <2>2. task[Outbox].held = 0
    BY <2>1, WhoListens
  <2>3. /\ task' = [task EXCEPT ![Outbox] = [at |-> "off", held |-> 0]]
        /\ listening' \in BOOLEAN /\ UNCHANGED <<capacity, ready, database, faults>>
    BY <1>4, <2>1, <2>2
  <2>4. CASE main # "stopOutbox"
    BY <1>5, <2>1, <2>3, <2>4
  <2>5. CASE main = "stopOutbox"
    <3>1. /\ Used' <= capacity /\ HoldsItsShare(Outbox)' /\ task'[Outbox] = Off
          /\ \A u \in Tasks : u # Outbox => task'[u] = task[u]
      BY <1>3, <2>2, <2>3 DEF Off
    <3>2. \A u \in Tasks : task'[u] = Off
      BY <1>1, <2>5, <3>1 DEF ReplicaInv, PhaseInv, Idles, Tasks, Workers
    <3>3. /\ Off \in [at : Places, held : 0 .. 2] /\ Off.at = "off" /\ Off.held = 0
      BY <1>2 DEF Off
    <3>4. TypeOK'
      <4>1. task' \in [Tasks -> [at : Places, held : 0 .. 2]]
        BY <1>1, <2>3, <3>2, <3>3
      <4>2. main' \in Phases
        BY <2>1, <2>5 DEF Phases
      <4> QED
        BY <2>3, <3>1, <3>2, <3>3, <4>1, <4>2 DEF ReplicaInv, TypeOK
    <3>5. \A u \in Tasks : HoldsItsShare(u)'
      BY <3>2, <3>3 DEF HoldsItsShare, At
    <3>6. RequestsComeAndGo'
      BY <3>2, <3>3 DEF RequestsComeAndGo, Tasks
    <3>7. PhaseInv'
      BY <2>1, <2>5, <3>2 DEF PhaseInv, Idles
    <3> QED
      BY <3>4, <3>5, <3>6, <3>7 DEF ReplicaInv
  <2> QED
    BY <2>4, <2>5
<1> QED
  BY <1>6, <1>7, <1>8, <1>9 DEF Listener

\* A step of the lifespan takes no connection: what is left to show is where
\* the tasks stand afterwards.
LEMMA LifespanKeeps ==
  ASSUME ReplicaInv, Lifespan \/ Signal \/ Restart \/ Crash PROVE ReplicaInv'
<1>1. /\ \A t \in Tasks : task[t] \in [at : Places, held : 0 .. 2] /\ HoldsItsShare(t)
      /\ Used <= capacity /\ capacity \in Nat /\ Used \in Nat
      /\ Tasks = {Outbox, Jobs} \cup Requests /\ Workers = {Outbox, Jobs}
      /\ Outbox \notin Requests /\ Jobs \notin Requests /\ Outbox # Jobs
  BY Basics, ReplicaParameters DEF Workers
<1>2. TypeOK /\ RequestsComeAndGo /\ PhaseInv /\ task \in [Tasks -> [at : Places, held : 0 .. 2]]
  BY DEF ReplicaInv, TypeOK
<1>3. /\ Off \in [at : Places, held : 0 .. 2] /\ Off.at = "off" /\ Off.held = 0
      /\ {"idle", "unwind", "off"} \subseteq Places
  BY DEF Off, Places
\* Of a step that empties the hands of the tasks or leaves them, the types follow.
<1>4. ASSUME task' \in [Tasks -> [at : Places, held : 0 .. 2]], main' \in Phases, ready' \in BOOLEAN,
             faults' \in 0 .. MaxFaults, listening' \in BOOLEAN,
             UNCHANGED <<capacity, database>>,
             \A t \in Tasks : \/ task'[t] = task[t]
                              \/ task'[t].at = "unwind" /\ task'[t].held = task[t].held
                              \/ task'[t].at \in {"off", "idle"} /\ task'[t].held = 0,
             \A r \in Requests : task'[r].at \in {"off", "want", "work"},
             PhaseInv'
      PROVE  ReplicaInv'
  <2>1. \A t \in Tasks : task'[t].held <= task[t].held /\ task'[t].held \in Int
    BY <1>1, <1>4
  <2>2. Used' <= capacity
    BY <1>1, <1>2, <2>1, PoolShrinks
  <2>3. \A t \in Tasks : HoldsItsShare(t)'
    BY <1>1, <1>4 DEF HoldsItsShare, At, Sessions
  <2>4. \A t \in Tasks : task'[t].at \in {"off", "idle"} => task'[t].held = 0
    BY <2>3 DEF HoldsItsShare, At
  <2>5. TypeOK'
    BY <1>2, <1>4, <2>2, <2>4 DEF TypeOK
  <2> QED
    BY <1>4, <2>3, <2>5 DEF ReplicaInv, RequestsComeAndGo
<1>5. CASE Boot
  <2>1. main = "boot" /\ \A t \in Tasks : task[t] = Off
    BY <1>2, <1>5 DEF Boot, PhaseInv, Idles
  <2>2. /\ main' = "serving" /\ UNCHANGED <<capacity, listening, database, faults>> /\ ready' = database
        /\ task' = IF database THEN Started ELSE task
    BY <1>5 DEF Boot, Goes, CheckDatabase
  <2>3. /\ Started \in [Tasks -> [at : Places, held : 0 .. 2]]
        /\ \A t \in Tasks : Started[t].held = 0 /\ Started[t].at = IF t \in Workers THEN "idle" ELSE "off"
    BY <1>1, <1>3 DEF Started
  <2>4. PhaseInv'
    BY <1>1, <1>2, <1>3, <2>1, <2>2, <2>3 DEF PhaseInv, At, TypeOK
  <2> QED
    BY <1>1, <1>2, <1>3, <1>4, <2>1, <2>2, <2>3, <2>4 DEF TypeOK, Phases
<1>6. CASE StopJobs
  <2>1. /\ main = "draining" /\ main' = "stopJobs" /\ UNCHANGED <<capacity, database, faults, ready>>
        /\ listening' \in BOOLEAN /\ \A r \in Requests : task[r].at = "off"
    BY <1>6 DEF StopJobs, Goes, At, Cancel
  <2>2. /\ \A t \in Tasks \ {Jobs} : task'[t] = task[t]
        /\ task' \in [Tasks -> [at : Places, held : 0 .. 2]]
        /\ \/ task[Jobs].at = "off" /\ task'[Jobs] = task[Jobs]
           \/ task'[Jobs].at = "unwind" /\ task'[Jobs].held = task[Jobs].held
    BY <1>1, <1>2, <1>3, <1>6 DEF StopJobs, Cancel, At
  <2>3. \A r \in Requests : task[r] = Off
    BY <1>1, <2>1, Basics DEF HoldsItsShare, At, Off
  <2>4. PhaseInv'
    BY <1>1, <1>2, <2>1, <2>2, <2>3 DEF PhaseInv, At, Idles, Off
  <2> QED
    BY <1>1, <1>2, <1>4, <2>1, <2>2, <2>4 DEF TypeOK, Phases
<1>7. CASE StopOutbox
  <2>1. /\ main = "stopJobs" /\ main' = "stopOutbox" /\ UNCHANGED <<capacity, database, faults, ready>>
        /\ listening' \in BOOLEAN /\ task[Jobs].at = "off"
    BY <1>7 DEF StopOutbox, Goes, At, Cancel
  <2>2. /\ \A t \in Tasks \ {Outbox} : task'[t] = task[t]
        /\ task' \in [Tasks -> [at : Places, held : 0 .. 2]]
        /\ \/ task[Outbox].at = "off" /\ task'[Outbox] = task[Outbox]
           \/ task'[Outbox].at = "unwind" /\ task'[Outbox].held = task[Outbox].held
    BY <1>1, <1>2, <1>3, <1>7 DEF StopOutbox, Cancel, At
  <2>3. task[Jobs] = Off
    BY <1>1, <2>1, Basics DEF HoldsItsShare, At, Off
  <2>4. PhaseInv'
    BY <1>1, <1>2, <2>1, <2>2, <2>3 DEF PhaseInv, At, Idles, Off
  <2> QED
    BY <1>1, <1>2, <1>4, <2>1, <2>2, <2>4 DEF TypeOK, Phases, RequestsComeAndGo
<1>8. CASE Unready
  <2>1. /\ main = "stopOutbox" /\ main' = "dispose" /\ ready' = FALSE
        /\ UNCHANGED <<capacity, listening, database, faults, task>> /\ task[Outbox].at = "off"
    BY <1>8 DEF Unready, Goes, At
  <2>2. \A t \in Tasks : task[t] = Off
    BY <1>1, <1>2, <2>1, Basics DEF PhaseInv, Idles, HoldsItsShare, At, Off
  <2>3. PhaseInv'
    BY <2>1, <2>2 DEF PhaseInv, Idles, Off
  <2> QED
    BY <1>2, <1>4, <2>1, <2>3 DEF TypeOK, Phases, RequestsComeAndGo
<1>9. CASE Dispose \/ Restart \/ Signal
  <2>1. /\ UNCHANGED <<capacity, listening, database, faults, task>> /\ ready' \in BOOLEAN
        /\ <<main, main'>> \in {<<"dispose", "exited">>, <<"exited", "boot">>, <<"serving", "draining">>}
    BY <1>2, <1>9 DEF Dispose, Restart, Signal, Goes, TypeOK
  <2>2. PhaseInv'
    BY <1>2, <2>1 DEF PhaseInv, Idles, Off, At
  <2> QED
    BY <1>2, <1>4, <2>1, <2>2 DEF TypeOK, Phases, RequestsComeAndGo
<1>10. CASE Crash
  <2>1. /\ main' = "exited" /\ ready' = FALSE /\ listening' = FALSE /\ task' = [t \in Tasks |-> Off]
        /\ UNCHANGED <<capacity, database>> /\ faults' = faults + 1 /\ faults < MaxFaults
    BY <1>10 DEF Crash, CountFault
  <2>2. faults' \in 0 .. MaxFaults
    BY <1>2, <2>1, ReplicaParameters DEF TypeOK
  <2>3. PhaseInv'
    BY <2>1 DEF PhaseInv, Idles, Off
  <2> QED
    BY <1>1, <1>3, <1>4, <2>1, <2>2, <2>3 DEF Phases
<1> QED
  BY <1>5, <1>6, <1>7, <1>8, <1>9, <1>10 DEF Lifespan

-----------------------------------------------------------------------------
(* The invariant.                                                           *)

LEMMA ReplicaInit == Init => ReplicaInv
<1> SUFFICES ASSUME Init PROVE ReplicaInv
  OBVIOUS
<1>1. Off \in [at : Places, held : 0 .. 2] /\ Off.at = "off" /\ Off.held = 0
  BY DEF Off, Places
<1>2. \A t \in Tasks : task[t] = Off
  BY DEF Init
<1>3. Connections = {}
  BY <1>1, <1>2 DEF Connections
<1>4. Used = 0
  BY <1>3, FS_EmptySet DEF Used
<1>5. capacity \in Nat \ {0} /\ capacity \in Capacities /\ 0 \in 0 .. MaxFaults
  BY ReplicaParameters DEF Init
<1>6. TypeOK
  <2>1. task \in [Tasks -> [at : Places, held : 0 .. 2]]
    <3>1. task = [t \in Tasks |-> Off]
      BY DEF Init
    <3> QED
      BY <1>1, <3>1
  <2>2. Used <= capacity
    BY <1>4, <1>5
  <2>3. main \in Phases /\ ready \in BOOLEAN /\ listening \in BOOLEAN /\ database \in BOOLEAN /\ faults \in 0 .. MaxFaults
    BY <1>5 DEF Init, Phases
  <2>4. \A t \in Tasks : task[t].held = 0
    BY <1>1, <1>2
  <2> QED
    BY <1>5, <2>1, <2>2, <2>3, <2>4 DEF TypeOK
<1>7. \A t \in Tasks : HoldsItsShare(t)
  BY <1>1, <1>2 DEF HoldsItsShare, At
<1>8. RequestsComeAndGo
  BY <1>1, <1>2 DEF RequestsComeAndGo, Tasks
<1>9. PhaseInv
  BY <1>2 DEF Init, PhaseInv, Idles
<1> QED
  BY <1>6, <1>7, <1>8, <1>9 DEF ReplicaInv

LEMMA ReplicaStep == ReplicaInv /\ [Next]_vars => ReplicaInv'
<1> SUFFICES ASSUME ReplicaInv, [Next]_vars PROVE ReplicaInv'
  OBVIOUS
<1>1. ASSUME UNCHANGED <<capacity, main, ready, listening, task>>, database' \in BOOLEAN, faults' \in 0 .. MaxFaults
      PROVE  ReplicaInv'
  <2>1. Used' = Used
    BY <1>1 DEF Used, Connections
  <2>2. TypeOK'
    BY <1>1, <2>1 DEF ReplicaInv, TypeOK
  <2> QED
    BY <1>1, <2>2 DEF ReplicaInv, HoldsItsShare, RequestsComeAndGo, PhaseInv, Idles, At, Sessions
<1>2. CASE DatabaseDown \/ DatabaseUp
  <2>1. faults' \in 0 .. MaxFaults
    BY <1>2, ReplicaParameters DEF DatabaseDown, DatabaseUp, CountFault, ReplicaInv, TypeOK
  <2> QED
    BY <1>1, <1>2, <2>1 DEF DatabaseDown, DatabaseUp
<1>3. CASE UNCHANGED vars
  BY <1>1, <1>3 DEF vars, ReplicaInv, TypeOK
<1> QED
  BY <1>2, <1>3, TaskKeeps, TurnKeeps, ListenerKeeps, LifespanKeeps, Basics DEF Next

\* ReplicaInv is an invariant of the process.
LEMMA ReplicaInvariant == Spec => []ReplicaInv
BY ReplicaInit, ReplicaStep, PTL DEF Spec

\* The pool is never overdrawn (db.py:12), and whoever rests holds nothing.
THEOREM TypeCorrect == Spec => []TypeOK
<1>1. ReplicaInv => TypeOK
  BY DEF ReplicaInv
<1> QED
  BY <1>1, ReplicaInvariant, PTL

\* However many requests there are and however large the pool is, some holder of
\* a full pool of two or more is not waiting for it: only the outbox task waits
\* while it holds a connection, and it holds one.
THEOREM PoolNeverDeadlocks == Spec => []NoPoolDeadlock
<1>1. ASSUME ReplicaInv PROVE NoPoolDeadlock
  <2> SUFFICES ASSUME capacity >= 2, Used = capacity, \A t \in Tasks : task[t].held > 0 => At(t, "want")
               PROVE  FALSE
    BY DEF NoPoolDeadlock
  <2>1. Connections \subseteq {<<Outbox, 1>>}
    <3>1. ASSUME NEW c \in Connections PROVE c = <<Outbox, 1>>
      <4>1. c \in Tasks \X {1, 2} /\ c[2] <= task[c[1]].held
        BY <3>1 DEF Connections
      <4>2. task[c[1]].held > 0 /\ task[c[1]].held \in 0 .. 2
        <5>1. c[1] \in Tasks /\ c[2] \in {1, 2}
          BY <4>1
        <5>2. task[c[1]] \in [at : Places, held : 0 .. 2]
          BY <1>1, <5>1, Basics
        <5>3. task[c[1]].held \in 0 .. 2
          BY <5>2
        <5> QED
          BY <4>1, <5>1, <5>3
      <4>3. task[c[1]].held < Sessions(c[1]) /\ Sessions(c[1]) \in {1, 2} /\ (Sessions(c[1]) = 2 <=> c[1] = Outbox)
        BY <1>1, <4>1, <4>2, Basics DEF HoldsItsShare
      <4> QED
        BY <4>1, <4>2, <4>3
    <3> QED
      BY <3>1
  <2>2. IsFiniteSet({<<Outbox, 1>>}) /\ Cardinality({<<Outbox, 1>>}) = 1
    BY FS_Singleton
  <2>3. Used <= 1
    BY <2>1, <2>2, FS_Subset DEF Used
  <2> QED
    BY <1>1, <2>3, Basics
<1> QED
  BY <1>1, ReplicaInvariant, PTL

\* When the engine is disposed of, every task is over and holds nothing.
THEOREM ShutdownLeavesNobody == Spec => []NobodyIsLeftBehind
<1>1. ReplicaInv => NobodyIsLeftBehind
  BY DEF ReplicaInv, PhaseInv, NobodyIsLeftBehind, Idles
<1> QED
  BY <1>1, ReplicaInvariant, PTL

=============================================================================
