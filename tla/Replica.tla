------------------------------ MODULE Replica ------------------------------
(***************************************************************************)
(* One process of apsis: the lifespan that checks the database, starts the *)
(* two workers and stops them again (app/main.py, core/startup.py), and    *)
(* the pool of database connections that they share with the requests      *)
(* (core/db.py).                                                           *)
(*                                                                         *)
(* What the tasks do is the matter of the other modules; here a task only  *)
(* takes and gives back connections.  The outbox worker alone keeps one    *)
(* (the row lock) while its handler asks for another.  It also has a       *)
(* LISTEN connection that is not of the pool: whatever ends its loop, that *)
(* connection is closed in a finally, and an error of the close ends the   *)
(* task (core/events/worker.py).                                           *)
(***************************************************************************)
EXTENDS Integers, FiniteSets

CONSTANTS
  Outbox, Jobs, \* the tasks of the two workers
  Requests,     \* requests in progress at a time
  Capacities,   \* DB_POOL_SIZE + DB_MAX_OVERFLOW, as deployed
  MaxFaults     \* bound: database outages and crashes

ASSUME ReplicaParameters ==
  /\ Outbox # Jobs /\ {Outbox, Jobs} \cap Requests = {}
  /\ IsFiniteSet(Requests)
  /\ Capacities \subseteq Nat \ {0}
  /\ MaxFaults \in Nat

VARIABLES
  capacity,     \* the most connections the pool opens
  main,         \* where the lifespan stands
  ready,        \* app.state.ready
  task,         \* where each task stands and how many connections it holds
  listening,    \* whether the outbox worker has a LISTEN connection to close
  database,     \* whether the database can be reached
  faults        \* faults so far

vars == <<capacity, main, ready, task, listening, database, faults>>

Workers == {Outbox, Jobs}
Tasks   == Workers \cup Requests

Phases == {"boot", "serving", "draining", "stopJobs", "stopOutbox", "dispose", "exited"}
Places == {"off", "idle", "want", "work", "finish", "backoff", "close", "unwind"}

Off == [at |-> "off", held |-> 0]

\* The connections that are checked out, each known by its task and depth.
Connections == {c \in Tasks \X {1, 2} : c[2] <= task[c[1]].held}

Used == Cardinality(Connections)

TypeOK ==
  /\ capacity \in Capacities
  /\ main \in Phases
  /\ ready \in BOOLEAN /\ listening \in BOOLEAN /\ database \in BOOLEAN
  /\ task \in [Tasks -> [at : Places, held : 0 .. 2]]
  /\ faults \in 0 .. MaxFaults
  /\ Used <= capacity
  /\ \A t \in Tasks : task[t].at \in {"off", "idle"} => task[t].held = 0

Init ==
  /\ capacity \in Capacities
  /\ main = "boot"
  /\ ready = FALSE
  /\ task = [t \in Tasks |-> Off]
  /\ listening = FALSE
  /\ database \in BOOLEAN
  /\ faults = 0

-----------------------------------------------------------------------------
(* The connections.                                                         *)

At(t, l) == task[t].at = l

Moves(t, l, held) ==
  /\ task' = [task EXCEPT ![t] = [at |-> l, held |-> held]]
  /\ UNCHANGED <<capacity, main, ready, listening, database, faults>>

\* Where a task is when its session is closed: a worker goes on with its loop,
\* a request is over.
Rest(t) == IF t \in Workers THEN "idle" ELSE "off"

\* Where it is when an exception has closed the session: the outbox worker waits
\* and connects anew, the job worker logs and goes on, a request is over.
Failed(t) == IF t = Outbox THEN "backoff" ELSE Rest(t)

\* The definitions named Wrong... are deliberate mistakes: what the process would
\* be with one plausible bug.  No specification uses them; each shows that a
\* property is able to tell the bug from the code.

\* Every repository of a request opens a session of its own.
WrongSessions(t) == IF t = Jobs THEN 1 ELSE 2

\* The sessions a task opens inside one another.  get_session is cached, so the
\* repositories of a request share one; the job worker closes each before the
\* next; the handler of an event opens its own inside the outbox worker's.
Sessions(t) == IF t = Outbox THEN 2 ELSE 1

\* The poll interval is over; the outbox worker has found its LISTEN connection
\* alive.
Poll(w) ==
  /\ At(w, "idle")
  /\ w = Outbox => listening /\ database
  /\ Moves(w, "want", 0)

\* A request, or a readiness probe that finds the flag set; the probe of an
\* unready process is answered 503 without a connection.
Arrive(r) == main = "serving" /\ At(r, "off") /\ Moves(r, "want", 0)

Acquire(t) ==
  /\ At(t, "want")
  /\ database
  /\ Used < capacity
  /\ Moves(t, "work", task[t].held + 1)

\* Nothing but the free connection ends the wait of an event's handler.
WrongGiveUp(t) ==
  /\ At(t, "want")
  /\ Used = capacity \/ ~database
  /\ task[t].held = 0
  /\ Moves(t, Failed(t), 0)

\* pool_timeout, or no connection can be made.  The dispatcher turns the
\* exception of a handler (or its own timeout) into a failed result; another
\* task ends its turn.
GiveUp(t) ==
  /\ At(t, "want")
  /\ Used = capacity \/ ~database
  /\ IF task[t].held = 1 THEN Moves(t, "finish", 1) ELSE Moves(t, Failed(t), 0)

\* The handler of the event asks for a connection of its own.
OpenInner(t) ==
  /\ At(t, "work")
  /\ task[t].held < Sessions(t)
  /\ Moves(t, "want", task[t].held)

\* The handler has committed, or failed, and the verdict is to be written.
CloseInner(t) ==
  /\ At(t, "work")
  /\ task[t].held = 2
  /\ Moves(t, "finish", 1)

\* The session is left without being closed.
WrongCloseOuter(t) ==
  /\ At(t, "finish") \/ (At(t, "work") /\ task[t].held = 1)
  /\ Moves(t, Rest(t), task[t].held)

\* The session is committed and closed: no event was due, or its verdict is
\* written; the statement of the job worker; the commit after the response.
\* An exception closes it as well.
CloseOuter(t) ==
  /\ At(t, "finish") \/ (At(t, "work") /\ task[t].held = 1)
  /\ \E l \in {Rest(t), Failed(t)} : Moves(t, l, 0)

-----------------------------------------------------------------------------
(* The LISTEN connection of the outbox worker.                              *)

Listens(l, open) ==
  /\ task' = [task EXCEPT ![Outbox].at = l]
  /\ listening' = open
  /\ UNCHANGED <<capacity, ready, database, faults>>

\* Until it has a connection the worker tries again after each delay.
Connect ==
  /\ At(Outbox, "idle") /\ ~listening
  /\ database
  /\ Listens("idle", TRUE)
  /\ UNCHANGED main

\* The heartbeat before a batch fails: an outage, over or not, or the server has
\* broken the connection.
HeartbeatFails ==
  /\ At(Outbox, "idle") /\ listening
  /\ Moves(Outbox, "close", 0)

\* The delay after an exception is over.
BackoffEnds ==
  /\ At(Outbox, "backoff")
  /\ Moves(Outbox, "close", 0)

\* The finally: the connection is closed, unless it has been closed from outside;
\* a cancelled task ends here, another connects anew.
CloseListener ==
  /\ At(Outbox, "close")
  /\ Listens(IF main = "stopOutbox" THEN "off" ELSE "idle", FALSE)
  /\ UNCHANGED main

\* conn.close() raises: the task has ended for good.  Nobody learns of it but
\* stop(), if it awaits the task just now; its error ends the lifespan, and with
\* it the process, before the flag is cleared and the engine disposed of.
CloseFails ==
  /\ At(Outbox, "close")
  /\ Listens("off", FALSE)
  /\ main' = IF main = "stopOutbox" THEN "exited" ELSE main

-----------------------------------------------------------------------------
(* The lifespan.                                                            *)

Goes(l) ==
  /\ main' = l
  /\ UNCHANGED <<capacity, database, faults>>

Started == [t \in Tasks |-> IF t \in Workers THEN [at |-> "idle", held |-> 0] ELSE Off]

\* check_database: one attempt, whatever goes wrong with it.
CheckDatabase == database

\* The process serves without a database too, but then without workers.
Boot ==
  /\ main = "boot"
  /\ ready' = CheckDatabase
  /\ task' = IF CheckDatabase THEN Started ELSE task
  /\ Goes("serving")
  /\ UNCHANGED listening

\* SIGTERM: uvicorn accepts no more and waits for the requests in progress,
\* their commits included.
Signal ==
  /\ main = "serving"
  /\ Goes("draining")
  /\ UNCHANGED <<ready, task, listening>>

\* stop() of the worker does not cancel, and its loop does not look.
WrongCancel(w) == UNCHANGED <<task, listening>>

\* A worker that has been started, and has not ended, is cancelled where it
\* awaits; a close of the LISTEN connection is broken off and not repeated.
Cancel(w) ==
  /\ task' = IF At(w, "off") THEN task ELSE [task EXCEPT ![w].at = "unwind"]
  /\ listening' = (listening /\ ~(w = Outbox /\ At(w, "close")))

\* Its sessions are rolled back and closed, after a computation in a thread, and
\* the task ends; that of the outbox worker has its finally to run.
Unwind(w) ==
  /\ At(w, "unwind")
  /\ IF w = Outbox /\ listening THEN Moves(w, "close", 0) ELSE Moves(w, "off", 0)

StopJobs ==
  /\ main = "draining"
  /\ \A r \in Requests : At(r, "off")
  /\ Cancel(Jobs)
  /\ Goes("stopJobs")
  /\ UNCHANGED ready

\* stop() has awaited the task.
StopOutbox ==
  /\ main = "stopJobs"
  /\ At(Jobs, "off")
  /\ Cancel(Outbox)
  /\ Goes("stopOutbox")
  /\ UNCHANGED ready

\* The task is cancelled and not awaited.
WrongUnready ==
  /\ main = "stopOutbox"
  /\ ready' = FALSE
  /\ Goes("dispose")
  /\ UNCHANGED <<task, listening>>

Unready ==
  /\ main = "stopOutbox"
  /\ At(Outbox, "off")
  /\ ready' = FALSE
  /\ Goes("dispose")
  /\ UNCHANGED <<task, listening>>

Dispose ==
  /\ main = "dispose"
  /\ Goes("exited")
  /\ UNCHANGED <<ready, task, listening>>

\* The container is started again; a new process has no flag yet.
Restart ==
  /\ main = "exited"
  /\ ready' = FALSE
  /\ Goes("boot")
  /\ UNCHANGED <<task, listening>>

-----------------------------------------------------------------------------
(* The environment.                                                         *)

CountFault ==
  /\ faults < MaxFaults
  /\ faults' = faults + 1

DatabaseDown ==
  /\ database
  /\ database' = FALSE
  /\ CountFault
  /\ UNCHANGED <<capacity, main, ready, task, listening>>

DatabaseUp ==
  /\ ~database
  /\ database' = TRUE
  /\ UNCHANGED <<capacity, main, ready, task, listening, faults>>

Crash ==
  /\ main # "exited"
  /\ CountFault
  /\ main' = "exited"
  /\ ready' = FALSE
  /\ task' = [t \in Tasks |-> Off]
  /\ listening' = FALSE
  /\ UNCHANGED <<capacity, database>>

-----------------------------------------------------------------------------
Step(t) ==
  \/ Acquire(t)
  \/ GiveUp(t)
  \/ OpenInner(t)
  \/ CloseInner(t)
  \/ CloseOuter(t)

Listener ==
  \/ Connect
  \/ HeartbeatFails
  \/ BackoffEnds
  \/ CloseListener
  \/ CloseFails

Lifespan ==
  \/ Boot
  \/ StopJobs
  \/ StopOutbox
  \/ Unready
  \/ Dispose

Next ==
  \/ \E t \in Tasks : Step(t)
  \/ \E w \in Workers : Poll(w) \/ Unwind(w)
  \/ \E r \in Requests : Arrive(r)
  \/ Listener \/ Lifespan \/ Signal \/ Restart
  \/ DatabaseDown \/ DatabaseUp \/ Crash

Spec == Init /\ [][Next]_vars

\* The event loop starves no task and the waits for connections are limited, but
\* the code sets no limit to a statement, a rollback or the closing of a
\* connection: only what can reach the database gets on.  The database need not
\* come back, nor need anybody stop or restart anything.
FairSpec ==
  /\ Spec
  /\ \A t \in Tasks : WF_vars(database /\ Step(t))
  /\ \A w \in Workers : WF_vars(database /\ (Poll(w) \/ Unwind(w)))
  /\ WF_vars(database /\ Listener)
  /\ WF_vars(database /\ Lifespan)

-----------------------------------------------------------------------------
(* Properties.                                                              *)

\* The pool (db.py:12) is never used up by tasks that each hold a connection
\* and wait for another: with room for two connections some holder goes on, so
\* only a pool of one needs pool_timeout to get out.
NoPoolDeadlock ==
  capacity >= 2 /\ Used = capacity =>
    \E t \in Tasks : task[t].held > 0 /\ ~At(t, "want")

\* main.py:38-41: when the engine is disposed of, nobody holds a connection or
\* is about to ask for one.
NobodyIsLeftBehind ==
  main \in {"dispose", "exited"} => \A t \in Tasks : task[t] = Off

\* The row lock of an event is let go of however full the pool is: the wait of
\* its handler for a second connection ends.  Only a database that is never
\* reached again can keep it.
DispatchesEnd == task[Outbox].held > 0 ~> (task[Outbox].held = 0 \/ []~database)

\* SIGTERM ends the process, whatever its tasks are waiting for and wherever the
\* outbox worker is in closing its LISTEN connection, unless the database is
\* never reached again.
ShutdownCompletes == main = "draining" ~> (main = "exited" \/ []~database)

=============================================================================
