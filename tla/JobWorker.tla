----------------------------- MODULE JobWorker -----------------------------
(***************************************************************************)
(* The recurring-job scheduler of apsis: the table scheduled_jobs and the  *)
(* JobWorker loops that poll it, one per replica (core/jobs/worker.py,     *)
(* core/jobs/models.py).  A worker's cycle is four kinds of transaction:   *)
(* recover the rows whose lease has run out, select the due candidates,    *)
(* and, for each candidate, claim it and reschedule it, with the handler   *)
(* running in between under no transaction.                                *)
(*                                                                         *)
(* Every transaction is one action, because each is one SQL statement and  *)
(* its commit.  Time is discrete and relative: a row holds what is left of *)
(* its lease and the time to its next run instead of two instants.         *)
(***************************************************************************)
EXTENDS Integers, Sequences, FiniteSets

CONSTANTS
  Workers,      \* the replicas' job workers
  Jobs,         \* the rows of scheduled_jobs
  Registered,   \* the jobs whose name has a handler in job_registry
  Interval,     \* interval_seconds of each row
  Lease,        \* settings.JOB_LEASE_SECONDS
  Timeout,      \* settings.JOB_HANDLER_TIMEOUT_SECONDS
  Overrun,      \* the longest a cancelled handler takes to unwind
  Lag,          \* the longest from computing a statement's timestamps to
                \* its commit (waiting for a pooled connection, the network)
  BatchSize,    \* BATCH_SIZE
  MaxFaults,    \* bound: crashes, stops and database errors in a behaviour
  NoWorker,     \* claimed_by IS NULL
  NoJob         \* the worker is between two jobs

ASSUME JobParameters ==
  /\ Registered \subseteq Jobs
  /\ Interval \in [Jobs -> Nat]
  /\ Lease \in Nat /\ Timeout \in Nat /\ Overrun \in Nat /\ Lag \in Nat
  /\ BatchSize \in Nat /\ MaxFaults \in Nat
  /\ NoWorker \notin Workers
  /\ NoJob \notin Jobs

\* Settings.validate_lease_invariant: the program refuses to start without it.
ValidLease == Lease >= 2 * Timeout

ASSUME LeaseInvariant == ValidLease

\* What the deployment must add to the validated invariant: the lease also
\* outlasts a late claim and the unwinding of a cancelled handler ...
PromptWrites == Lag + Timeout + Overrun <= Lease

\* ... and no job recurs faster than a run of it may last.
IntervalsOutlastRuns ==
  \A j \in Jobs : Interval[j] > Lag + Timeout + Overrun

VARIABLES
  status,       \* scheduled_jobs.status: "PENDING" or "RUNNING"
  claimedBy,    \* scheduled_jobs.claimed_by
  leaseLeft,    \* lease_until - now, or NoLease, or Expired
  nextIn,       \* next_run_at - now, counted down to -Lag
  pc,           \* where each worker's loop stands
  todo,         \* candidate_ids still to be executed
  job,          \* the row _execute_job is working on
  stampAge,     \* age of the timestamps of the statement in flight
  runLeft,      \* how long the running handler may still last
  faults        \* faults so far

table  == <<status, claimedBy, leaseLeft, nextIn>>
loop   == <<pc, todo, job, stampAge, runLeft>>
vars   == <<status, claimedBy, leaseLeft, nextIn,
            pc, todo, job, stampAge, runLeft, faults>>

NoLease == -2     \* lease_until IS NULL
Expired == -1     \* lease_until < now

MaxRun == Timeout + Overrun

Locations ==
  {"down", "recover", "select", "loop", "claim", "run", "reschedule", "sleep"}

TableOK ==
  /\ status    \in [Jobs -> {"PENDING", "RUNNING"}]
  /\ claimedBy \in [Jobs -> Workers \cup {NoWorker}]
  /\ leaseLeft \in [Jobs -> NoLease .. Lease]
  /\ nextIn    \in [Jobs -> Int]
  /\ \A j \in Jobs : nextIn[j] \in (-Lag) .. Interval[j]

LoopOK ==
  /\ pc        \in [Workers -> Locations]
  /\ todo      \in [Workers -> Seq(Jobs)]
  /\ job       \in [Workers -> Jobs \cup {NoJob}]
  /\ stampAge  \in [Workers -> 0 .. Lag]
  /\ runLeft   \in [Workers -> 0 .. MaxRun]
  /\ \A w \in Workers :
       pc[w] \in {"claim", "run", "reschedule"} => job[w] \in Jobs

\* The scheduled_jobs columns hold what models.py declares, and a worker that
\* is executing a candidate knows which.
TypeOK ==
  /\ TableOK
  /\ LoopOK
  /\ faults \in 0 .. MaxFaults

-----------------------------------------------------------------------------
(* The seed migration inserts a PENDING row due at once; a row left RUNNING *)
(* without a lease by an older release is the case the IS NULL filter of    *)
(* _recover_stale_jobs exists for.                                          *)

Init ==
  /\ status    \in [Jobs -> {"PENDING", "RUNNING"}]
  /\ claimedBy = [j \in Jobs |-> NoWorker]
  /\ leaseLeft = [j \in Jobs |-> NoLease]
  /\ nextIn    = [j \in Jobs |-> 0]
  /\ pc        = [w \in Workers |-> "down"]
  /\ todo      = [w \in Workers |-> <<>>]
  /\ job       = [w \in Workers |-> NoJob]
  /\ stampAge  = [w \in Workers |-> 0]
  /\ runLeft   = [w \in Workers |-> 0]
  /\ faults    = 0

-----------------------------------------------------------------------------
(* What each statement of the worker reads and writes.                      *)

\* The definitions named Wrong... are deliberate mistakes: what the worker would
\* be with one plausible bug.  No specification uses them; each shows that a
\* property is able to tell the bug from the code.

\* Recovery by status alone; recovery without the IS NULL case.
WrongStaleAny(j)   == status[j] = "RUNNING"
WrongStaleNull(j)  == status[j] = "RUNNING" /\ leaseLeft[j] = Expired

\* WHERE status = 'RUNNING' AND (lease_until IS NULL OR lease_until < now)
Stale(j) == status[j] = "RUNNING" /\ leaseLeft[j] < 0

\* WHERE status = 'PENDING' AND next_run_at <= now, now being age old
DueAt(j, age) == status[j] = "PENDING" /\ nextIn[j] <= -age

\* The claim is cleared but the row is left RUNNING.
WrongRecoverRows ==
  /\ claimedBy' = [j \in Jobs |-> IF Stale(j) THEN NoWorker ELSE claimedBy[j]]
  /\ leaseLeft' = [j \in Jobs |-> IF Stale(j) THEN NoLease ELSE leaseLeft[j]]
  /\ UNCHANGED <<status, nextIn>>

RecoverRows ==
  /\ status'    = [j \in Jobs |-> IF Stale(j) THEN "PENDING" ELSE status[j]]
  /\ claimedBy' = [j \in Jobs |-> IF Stale(j) THEN NoWorker ELSE claimedBy[j]]
  /\ leaseLeft' = [j \in Jobs |-> IF Stale(j) THEN NoLease ELSE leaseLeft[j]]
  /\ UNCHANGED nextIn

\* ORDER BY next_run_at LIMIT BATCH_SIZE: the due rows, oldest first, and
\* none left out that is older than one kept or while the batch has room.
Batch(s) ==
  LET kept == {s[i] : i \in DOMAIN s}
      left == {j \in Jobs : DueAt(j, 0)} \ kept
  IN  /\ \A i, k \in DOMAIN s : i < k =>
           s[i] # s[k] /\ nextIn[s[i]] <= nextIn[s[k]]
      /\ left # {} => Len(s) = BatchSize
      /\ \A i \in DOMAIN s, j \in left : nextIn[s[i]] <= nextIn[j]

Batches ==
  {s \in UNION {[1 .. n -> {j \in Jobs : DueAt(j, 0)}] : n \in 0 .. BatchSize} :
     Batch(s)}

\* Writes a claim whose lease has left ticks to go.
GrantLease(w, j, left) ==
  /\ status'    = [status EXCEPT ![j] = "RUNNING"]
  /\ claimedBy' = [claimedBy EXCEPT ![j] = w]
  /\ leaseLeft' = [leaseLeft EXCEPT ![j] = IF left >= 0 THEN left ELSE Expired]
  /\ UNCHANGED nextIn

\* The claim trusts the candidate list; it looks at the status only; it
\* stamps the handler's timeout instead of the lease.
WrongClaimBlind(w, j, age) == GrantLease(w, j, Lease - age)
WrongClaimUndue(w, j, age) == status[j] = "PENDING" /\ GrantLease(w, j, Lease - age)
WrongClaimShort(w, j, age) == DueAt(j, age) /\ GrantLease(w, j, Timeout - age)

\* The claim stamps lease_until before it asks for a connection, so the
\* lease it grants is already age old when the row is committed.
ClaimRow(w, j, age) == DueAt(j, age) /\ GrantLease(w, j, Lease - age)

\* A finished run is marked as an outbox event would be.
WrongRescheduleRow(j, age) ==
  /\ status' = [status EXCEPT ![j] = "PROCESSED"]
  /\ claimedBy' = [claimedBy EXCEPT ![j] = NoWorker]
  /\ leaseLeft' = [leaseLeft EXCEPT ![j] = NoLease]
  /\ nextIn'    = [nextIn EXCEPT ![j] = Interval[j]]

\* WHERE id = job_id and nothing else: whoever holds the row by now.
RescheduleRow(j, age) ==
  /\ status'    = [status EXCEPT ![j] = "PENDING"]
  /\ claimedBy' = [claimedBy EXCEPT ![j] = NoWorker]
  /\ leaseLeft' = [leaseLeft EXCEPT ![j] = NoLease]
  /\ nextIn'    = [nextIn EXCEPT ![j] =
                     IF Interval[j] - age > -Lag THEN Interval[j] - age ELSE -Lag]

-----------------------------------------------------------------------------
(* The worker's loop.                                                       *)

Goto(w, l) == pc' = [pc EXCEPT ![w] = l]

\* An exception leaves the cycle, drops the rest of the batch and waits for
\* the next poll; a process that ends loses the same state.
Abandon(w, l) ==
  /\ Goto(w, l)
  /\ todo' = [todo EXCEPT ![w] = <<>>]
  /\ job'  = [job EXCEPT ![w] = NoJob]
  /\ stampAge' = [stampAge EXCEPT ![w] = 0]
  /\ runLeft'  = [runLeft EXCEPT ![w] = 0]

CountFault ==
  /\ faults < MaxFaults
  /\ faults' = faults + 1

Start(w) ==
  /\ pc[w] = "down"
  /\ Goto(w, "recover")
  /\ UNCHANGED <<table, todo, job, stampAge, runLeft, faults>>

Recover(w) ==
  /\ pc[w] = "recover"
  /\ RecoverRows
  /\ Goto(w, "select")
  /\ UNCHANGED <<todo, job, stampAge, runLeft, faults>>

SelectDue(w) ==
  /\ pc[w] = "select"
  /\ \E s \in Batches : todo' = [todo EXCEPT ![w] = s]
  /\ Goto(w, "loop")
  /\ UNCHANGED <<table, job, stampAge, runLeft, faults>>

NextCandidate(w) ==
  /\ pc[w] = "loop"
  /\ todo[w] # <<>>
  /\ job'  = [job EXCEPT ![w] = Head(todo[w])]
  /\ todo' = [todo EXCEPT ![w] = Tail(todo[w])]
  /\ Goto(w, "claim")
  /\ UNCHANGED <<table, stampAge, runLeft, faults>>

BatchDone(w) ==
  /\ pc[w] = "loop"
  /\ todo[w] = <<>>
  /\ Goto(w, "sleep")
  /\ UNCHANGED <<table, todo, job, stampAge, runLeft, faults>>

\* Phases 1 and 2: the row is claimed and its handler, if any, is started.
Claim(w) ==
  /\ pc[w] = "claim"
  /\ ClaimRow(w, job[w], stampAge[w])
  /\ IF job[w] \in Registered
       THEN Goto(w, "run") /\ runLeft' = [runLeft EXCEPT ![w] = MaxRun]
       ELSE Goto(w, "reschedule") /\ UNCHANGED runLeft
  /\ stampAge' = [stampAge EXCEPT ![w] = 0]
  /\ UNCHANGED <<todo, job, faults>>

\* rowcount = 0: another worker took the row after the candidates were read.
ClaimLost(w) ==
  /\ pc[w] = "claim"
  /\ ~DueAt(job[w], stampAge[w])
  /\ Goto(w, "loop")
  /\ job' = [job EXCEPT ![w] = NoJob]
  /\ stampAge' = [stampAge EXCEPT ![w] = 0]
  /\ UNCHANGED <<table, todo, runLeft, faults>>

\* The handler returns, raises or is cut off by wait_for: the row is
\* rescheduled in the same way in all three cases.
HandlerEnds(w) ==
  /\ pc[w] = "run"
  /\ Goto(w, "reschedule")
  /\ runLeft' = [runLeft EXCEPT ![w] = 0]
  /\ UNCHANGED <<table, todo, job, stampAge, faults>>

Reschedule(w) ==
  /\ pc[w] = "reschedule"
  /\ RescheduleRow(job[w], stampAge[w])
  /\ Goto(w, "loop")
  /\ job' = [job EXCEPT ![w] = NoJob]
  /\ stampAge' = [stampAge EXCEPT ![w] = 0]
  /\ UNCHANGED <<todo, runLeft, faults>>

\* The wait on the shutdown event times out after the poll interval.
Wake(w) ==
  /\ pc[w] = "sleep"
  /\ Goto(w, "recover")
  /\ UNCHANGED <<table, todo, job, stampAge, runLeft, faults>>

-----------------------------------------------------------------------------
(* Faults.                                                                  *)

\* A statement fails and its transaction is rolled back.
DbError(w) ==
  /\ pc[w] \in {"recover", "select", "claim", "reschedule"}
  /\ CountFault
  /\ Abandon(w, "sleep")
  /\ UNCHANGED table

\* The commit is applied but its acknowledgement is lost.
CommitUnacked(w) ==
  /\ \/ pc[w] = "recover" /\ RecoverRows
     \/ pc[w] = "claim" /\ ClaimRow(w, job[w], stampAge[w])
     \/ pc[w] = "reschedule" /\ RescheduleRow(job[w], stampAge[w])
  /\ CountFault
  /\ Abandon(w, "sleep")

\* The process dies, or stop() cancels the task at any await: CancelledError
\* is no Exception, so not even a running handler gets to phase 3.
Crash(w) ==
  /\ pc[w] # "down"
  /\ CountFault
  /\ Abandon(w, "down")
  /\ UNCHANGED table

-----------------------------------------------------------------------------
(* The clock.  It waits for whatever must happen before its next tick: the  *)
(* end of a handler at its deadline, a statement that has used up its lag.  *)

Urgent(w) ==
  \/ pc[w] = "run" /\ runLeft[w] = 0
  \/ pc[w] \in {"claim", "reschedule"} /\ stampAge[w] = Lag

Tick ==
  /\ \A w \in Workers : ~Urgent(w)
  /\ leaseLeft' = [j \in Jobs |->
       IF leaseLeft[j] >= 0 THEN leaseLeft[j] - 1 ELSE leaseLeft[j]]
  /\ nextIn' = [j \in Jobs |->
       IF nextIn[j] > -Lag THEN nextIn[j] - 1 ELSE nextIn[j]]
  /\ stampAge' = [w \in Workers |->
       IF pc[w] \in {"claim", "reschedule"} THEN stampAge[w] + 1 ELSE stampAge[w]]
  /\ runLeft' = [w \in Workers |->
       IF pc[w] = "run" THEN runLeft[w] - 1 ELSE runLeft[w]]
  /\ UNCHANGED <<status, claimedBy, pc, todo, job, faults>>

-----------------------------------------------------------------------------
\* What a worker does of its own accord.
Work(w) ==
  \/ Recover(w)
  \/ SelectDue(w)
  \/ NextCandidate(w)
  \/ BatchDone(w)
  \/ Claim(w)
  \/ ClaimLost(w)
  \/ HandlerEnds(w)
  \/ Reschedule(w)
  \/ Wake(w)

Next ==
  \/ Tick
  \/ \E w \in Workers :
       Work(w) \/ Start(w) \/ DbError(w) \/ CommitUnacked(w) \/ Crash(w)

Spec == Init /\ [][Next]_vars

\* A started worker's task is never starved by the event loop and time
\* passes; nothing promises that a replica is started (again).
FairSpec ==
  /\ Spec
  /\ WF_vars(Tick)
  /\ \A w \in Workers : WF_vars(Work(w))

-----------------------------------------------------------------------------
(* Safety.                                                                  *)

RunsJob(w, j) == pc[w] = "run" /\ job[w] = j

\* "Both workers may run in several replicas at once and must not process
\* the same row twice": no two handlers of one job ever run at the same time,
\* although phase 3 (worker.py:148) takes a row away from whoever holds it.
OneRunPerJob ==
  \A j \in Jobs : \A v, w \in Workers : RunsJob(v, j) /\ RunsJob(w, j) => v = w

\* "A slow-but-alive handler is never reclaimed mid-run": while a handler
\* runs, the recovery of another replica would not take its row.
LiveRunNotStale ==
  \A w \in Workers : pc[w] = "run" => ~Stale(job[w])

\* Phase 3 updates WHERE id alone (worker.py:150).  Unless it comes later than
\* the lease allows for, it never takes the row from a worker that has claimed
\* it since: the row is still its own, or has been given back by a late
\* reschedule of an earlier run.
RescheduleIsOwn ==
  \A w \in Workers :
    pc[w] = "reschedule" /\ Lag + MaxRun + stampAge[w] <= Lease =>
      claimedBy[job[w]] \in {w, NoWorker}

\* A handler that runs on its own claim runs for a job that was due: the
\* candidate list may be long stale by the time its last job is reached, and
\* a job another replica has just run must not run again at once.
RunWasDue ==
  \A w \in Workers : pc[w] = "run" /\ claimedBy[job[w]] = w => nextIn[job[w]] <= 0

-----------------------------------------------------------------------------
(* Liveness.                                                                *)

SomeWorkerStaysUp == \E w \in Workers : <>[](pc[w] # "down")

\* The zombie of a crashed replica, of a lost acknowledgement or of an older
\* release does not hold its row for ever.
NoZombies ==
  SomeWorkerStaysUp => \A j \in Jobs : status[j] = "RUNNING" ~> status[j] = "PENDING"

\* Every registered job keeps being run, whatever the (finitely many) faults.
JobsKeepRunning ==
  SomeWorkerStaysUp => \A j \in Registered : []<>(\E w \in Workers : RunsJob(w, j))

=============================================================================
