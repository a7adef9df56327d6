-------------------------- MODULE JobWorkerProofs --------------------------
(***************************************************************************)
(* What the lease protocol of JobWorker guarantees for every number of     *)
(* replicas and jobs and every setting of its durations.                   *)
(***************************************************************************)
EXTENDS JobWorker, TLAPS

(* What the three writing statements leave behind.                          *)

\* Recovery keeps the types.
LEMMA RecoverTyped ==
  ASSUME TableOK, RecoverRows PROVE TableOK'
BY JobParameters DEF TableOK, RecoverRows, Stale, NoLease

\* A claim keeps the types.
LEMMA ClaimTyped ==
  ASSUME TableOK, NEW w \in Workers, NEW j \in Jobs, NEW age \in 0 .. Lag,
         ClaimRow(w, j, age)
  PROVE  TableOK'
<1>1. (IF Lease - age >= 0 THEN Lease - age ELSE Expired) \in NoLease .. Lease
  BY JobParameters DEF NoLease, Expired
<1> QED
  BY <1>1 DEF TableOK, ClaimRow, GrantLease

\* A reschedule keeps the types.
LEMMA RescheduleTyped ==
  ASSUME TableOK, NEW j \in Jobs, NEW age \in 0 .. Lag, RescheduleRow(j, age)
  PROVE  TableOK'
<1> DEFINE next == IF Interval[j] - age > -Lag THEN Interval[j] - age ELSE -Lag
<1>1. next \in (-Lag) .. Interval[j]
  BY JobParameters
<1>2. nextIn' = [nextIn EXCEPT ![j] = next]
  BY DEF RescheduleRow
<1> HIDE DEF next
<1>3. nextIn' \in [Jobs -> Int] /\ \A i \in Jobs : nextIn'[i] \in (-Lag) .. Interval[i]
  BY <1>1, <1>2 DEF TableOK
<1>4. NoLease \in NoLease .. Lease
  BY JobParameters DEF NoLease
<1> QED
  BY <1>3, <1>4 DEF TableOK, RescheduleRow

\* Giving up what is in hand keeps the types.
LEMMA AbandonTyped ==
  ASSUME LoopOK, NEW w \in Workers, NEW l \in {"down", "sleep"}, Abandon(w, l)
  PROVE  LoopOK'
BY JobParameters DEF LoopOK, Abandon, Goto, Locations, MaxRun

\* Every step keeps the types.
LEMMA StepTyped ==
  ASSUME TypeOK, [Next]_vars PROVE TypeOK'
<1>1. CASE Tick
  <2>1. TableOK'
    BY <1>1, JobParameters DEF Tick, TypeOK, TableOK, NoLease
  <2>2. LoopOK'
    BY <1>1, JobParameters DEF Tick, Urgent, TypeOK, LoopOK, MaxRun
  <2> QED
    BY <1>1, <2>1, <2>2 DEF Tick, TypeOK
<1>2. ASSUME NEW w \in Workers, Start(w) PROVE TypeOK'
  BY <1>2 DEF Start, Goto, table, TypeOK, TableOK, LoopOK, Locations
<1>3. ASSUME NEW w \in Workers, Recover(w) PROVE TypeOK'
  <2>1. TableOK'
    BY <1>3, RecoverTyped DEF Recover, TypeOK, LoopOK
  <2>2. LoopOK'
    BY <1>3 DEF Recover, TypeOK, LoopOK, Locations, Goto
  <2> QED
    BY <1>3, <2>1, <2>2 DEF Recover, TypeOK
<1>4. ASSUME NEW w \in Workers, SelectDue(w) PROVE TypeOK'
  <2>1. PICK s \in Batches : todo' = [todo EXCEPT ![w] = s]
    BY <1>4 DEF SelectDue
  <2>2. PICK n \in 0 .. BatchSize : s \in [1 .. n -> Jobs]
    BY <2>1 DEF Batches
  <2>3. s \in Seq(Jobs)
    BY <2>2, JobParameters
  <2> QED
    BY <1>4, <2>1, <2>3 DEF SelectDue, Goto, table, TypeOK, TableOK, LoopOK, Locations
<1>5. ASSUME NEW w \in Workers, NextCandidate(w) PROVE TypeOK'
  <2>1. todo[w] \in Seq(Jobs) /\ todo[w] # <<>>
    BY <1>5 DEF NextCandidate, TypeOK, LoopOK
  <2>2. Head(todo[w]) \in Jobs /\ Tail(todo[w]) \in Seq(Jobs)
    BY <2>1
  <2> QED
    BY <1>5, <2>2 DEF NextCandidate, Goto, table, TypeOK, TableOK, LoopOK, Locations
<1>6. ASSUME NEW w \in Workers, BatchDone(w) PROVE TypeOK'
  BY <1>6 DEF BatchDone, Goto, table, TypeOK, TableOK, LoopOK, Locations
<1>7. ASSUME NEW w \in Workers, Claim(w) PROVE TypeOK'
  <2>1. TableOK'
    BY <1>7, ClaimTyped DEF Claim, TypeOK, LoopOK
  <2>2. runLeft' \in [Workers -> 0 .. MaxRun]
    <3>1. MaxRun \in 0 .. MaxRun
      BY JobParameters DEF MaxRun
    <3> QED
      BY <1>7, <3>1 DEF Claim, TypeOK, LoopOK
  <2>3. \E l \in {"run", "reschedule"} : Goto(w, l)
    BY <1>7 DEF Claim
  <2>4. LoopOK'
    BY <1>7, <2>2, <2>3, JobParameters DEF Claim, TypeOK, LoopOK, Goto, Locations
  <2> QED
    BY <1>7, <2>1, <2>4 DEF Claim, TypeOK
<1>8. ASSUME NEW w \in Workers, ClaimLost(w) PROVE TypeOK'
  BY <1>8, JobParameters DEF ClaimLost, Goto, table, TypeOK, TableOK, LoopOK, Locations
<1>9. ASSUME NEW w \in Workers, HandlerEnds(w) PROVE TypeOK'
  BY <1>9, JobParameters DEF HandlerEnds, Goto, table, MaxRun, TypeOK, TableOK, LoopOK, Locations
<1>10. ASSUME NEW w \in Workers, Reschedule(w) PROVE TypeOK'
  <2>1. TableOK'
    BY <1>10, RescheduleTyped DEF Reschedule, TypeOK, LoopOK
  <2>2. LoopOK'
    BY <1>10, JobParameters DEF Reschedule, TypeOK, LoopOK, Locations, Goto
  <2> QED
    BY <1>10, <2>1, <2>2 DEF Reschedule, TypeOK
<1>11. ASSUME NEW w \in Workers, Wake(w) PROVE TypeOK'
  BY <1>11 DEF Wake, Goto, table, TypeOK, TableOK, LoopOK, Locations
<1>12. ASSUME NEW w \in Workers, DbError(w) PROVE TypeOK'
  <2>1. TableOK'
    BY <1>12 DEF DbError, TypeOK, LoopOK, TableOK, table
  <2>2. LoopOK'
    BY <1>12, AbandonTyped DEF DbError, TypeOK
  <2>3. faults' \in 0 .. MaxFaults
    BY <1>12, JobParameters DEF DbError, TypeOK, CountFault
  <2> QED
    BY <2>1, <2>2, <2>3 DEF TypeOK
<1>13. ASSUME NEW w \in Workers, CommitUnacked(w) PROVE TypeOK'
  <2>1. TableOK'
    BY <1>13, RecoverTyped, ClaimTyped, RescheduleTyped DEF CommitUnacked, TypeOK, LoopOK
  <2>2. LoopOK'
    BY <1>13, AbandonTyped DEF CommitUnacked, TypeOK
  <2>3. faults' \in 0 .. MaxFaults
    BY <1>13, JobParameters DEF CommitUnacked, TypeOK, CountFault
  <2> QED
    BY <2>1, <2>2, <2>3 DEF TypeOK
<1>14. ASSUME NEW w \in Workers, Crash(w) PROVE TypeOK'
  <2>1. TableOK'
    BY <1>14 DEF Crash, TypeOK, LoopOK, TableOK, table
  <2>2. LoopOK'
    BY <1>14, AbandonTyped DEF Crash, TypeOK
  <2>3. faults' \in 0 .. MaxFaults
    BY <1>14, JobParameters DEF Crash, TypeOK, CountFault
  <2> QED
    BY <2>1, <2>2, <2>3 DEF TypeOK
<1>15. CASE UNCHANGED vars
  BY <1>15 DEF vars, TypeOK, TableOK, LoopOK
<1> QED
  BY <1>1, <1>2, <1>3, <1>4, <1>5, <1>6, <1>7, <1>8, <1>9, <1>10, <1>11,
     <1>12, <1>13, <1>14, <1>15 DEF Next, Work

\* The rows and the workers' locals keep their types, whatever the settings.
THEOREM TypeCorrect == Spec => []TypeOK
<1>1. Init => TypeOK
  BY JobParameters DEF Init, TypeOK, TableOK, LoopOK, Locations, NoLease, MaxRun
<1>2. TypeOK /\ [Next]_vars => TypeOK'
  BY StepTyped
<1> QED
  BY <1>1, <1>2, PTL DEF Spec

-----------------------------------------------------------------------------
(* The steps of the worker, sorted by what they do to the rows.             *)

KeepsRuns ==
  \A v \in Workers : pc'[v] = "run" =>
    pc[v] = "run" /\ job'[v] = job[v] /\ runLeft'[v] = runLeft[v]

\* w may have begun a run of the job it was claiming; the others go on.
BeginsRun(w) ==
  \A v \in Workers : pc'[v] = "run" =>
    /\ job'[v] = job[v]
    /\ \/ pc[v] = "run" /\ runLeft'[v] = runLeft[v]
       \/ v = w /\ runLeft'[v] = MaxRun

\* The kinds of step, sorted by what they do to the rows.
LEMMA StepEffect ==
  ASSUME TypeOK, [Next]_vars
  PROVE  \/ Tick
         \/ UNCHANGED table /\ KeepsRuns
         \/ RecoverRows /\ KeepsRuns
         \/ \E w \in Workers : /\ pc[w] = "claim"
                               /\ ClaimRow(w, job[w], stampAge[w])
                               /\ BeginsRun(w)
         \/ \E w \in Workers : /\ pc[w] = "reschedule"
                               /\ RescheduleRow(job[w], stampAge[w])
                               /\ KeepsRuns
<1> USE DEF TypeOK, LoopOK, KeepsRuns, Goto
<1>1. ASSUME NEW w \in Workers, NEW l \in {"down", "sleep"}, Abandon(w, l)
      PROVE  KeepsRuns
  BY <1>1 DEF Abandon
<1>2. ASSUME NEW w \in Workers,
             \/ Start(w) \/ SelectDue(w) \/ NextCandidate(w) \/ BatchDone(w)
             \/ ClaimLost(w) \/ HandlerEnds(w) \/ Wake(w)
      PROVE  UNCHANGED table /\ KeepsRuns
  BY <1>2 DEF Start, SelectDue, NextCandidate, BatchDone, ClaimLost,
              HandlerEnds, Wake, table
<1>3. ASSUME NEW w \in Workers, Recover(w)
      PROVE  RecoverRows /\ KeepsRuns
  BY <1>3 DEF Recover
<1>4. ASSUME NEW w \in Workers, Claim(w)
      PROVE  BeginsRun(w)
  BY <1>4 DEF Claim, BeginsRun
<1>5. ASSUME NEW w \in Workers, Reschedule(w)
      PROVE  KeepsRuns
  BY <1>5 DEF Reschedule
<1>6. ASSUME NEW w \in Workers, DbError(w) \/ Crash(w)
      PROVE  UNCHANGED table /\ KeepsRuns
  BY <1>6, <1>1 DEF DbError, Crash
<1>7. ASSUME NEW w \in Workers, CommitUnacked(w)
      PROVE  /\ KeepsRuns /\ BeginsRun(w)
             /\ \/ RecoverRows
                \/ pc[w] = "claim" /\ ClaimRow(w, job[w], stampAge[w])
                \/ pc[w] = "reschedule" /\ RescheduleRow(job[w], stampAge[w])
  BY <1>7, <1>1 DEF CommitUnacked, BeginsRun
<1>8. CASE UNCHANGED vars
  BY <1>8 DEF vars, table
<1> QED
  BY <1>2, <1>3, <1>4, <1>5, <1>6, <1>7, <1>8
     DEF Next, Work, Recover, Claim, Reschedule

-----------------------------------------------------------------------------
(* While a handler runs, its lease outlives it.  This needs the claim to be *)
(* prompt, and nothing about how often the jobs recur: a row taken from the *)
(* runner by a late reschedule is PENDING, and is claimed again only with a *)
(* lease that is longer than any run.                                       *)

LeaseOutlivesRun ==
  \A w \in Workers :
    pc[w] = "run" /\ status[job[w]] = "RUNNING" => leaseLeft[job[w]] >= runLeft[w]

\* Every step keeps LeaseOutlivesRun.
LEMMA LeaseOutlivesRunStep ==
  ASSUME PromptWrites, TypeOK, LeaseOutlivesRun, [Next]_vars
  PROVE  LeaseOutlivesRun'
<1> SUFFICES ASSUME NEW v \in Workers, pc'[v] = "run", status'[job'[v]] = "RUNNING"
             PROVE  leaseLeft'[job'[v]] >= runLeft'[v]
  BY DEF LeaseOutlivesRun
<1> USE JobParameters DEF TypeOK, TableOK, LoopOK, LeaseOutlivesRun
<1>1. CASE Tick
  BY <1>1 DEF Tick, Urgent
<1>2. CASE UNCHANGED table /\ KeepsRuns
  BY <1>2 DEF table, KeepsRuns
<1>3. CASE RecoverRows /\ KeepsRuns
  BY <1>3 DEF RecoverRows, Stale, KeepsRuns
<1>4. ASSUME NEW w \in Workers, pc[w] = "claim",
             ClaimRow(w, job[w], stampAge[w]), BeginsRun(w)
      PROVE  leaseLeft'[job'[v]] >= runLeft'[v]
  <2>1. MaxRun \in Nat /\ runLeft[v] \in 0 .. MaxRun /\ stampAge[w] \in 0 .. Lag
    BY DEF MaxRun
  <2>2. runLeft'[v] \in 0 .. MaxRun
    <3>1. MaxRun \in 0 .. MaxRun
      BY <2>1
    <3> QED
      BY <1>4, <2>1, <3>1 DEF BeginsRun
  <2>3. Lease - stampAge[w] >= MaxRun
    BY <2>1 DEF PromptWrites, MaxRun
  <2>4. leaseLeft' = [leaseLeft EXCEPT ![job[w]] = Lease - stampAge[w]]
    <3>1. (IF Lease - stampAge[w] >= 0 THEN Lease - stampAge[w] ELSE Expired)
            = Lease - stampAge[w]
      BY <2>1, <2>3
    <3> QED
      BY <1>4, <3>1 DEF ClaimRow, GrantLease
  <2>5. job'[v] = job[v] /\ job[v] \in Jobs
    BY <1>4 DEF BeginsRun
  <2>6. CASE job[v] = job[w]
    BY <2>1, <2>2, <2>3, <2>4, <2>5, <2>6
  <2>7. CASE job[v] # job[w]
    <3>1. pc[v] = "run" /\ runLeft'[v] = runLeft[v]
      BY <1>4, <2>7 DEF BeginsRun
    <3>2. status[job[v]] = "RUNNING"
      BY <1>4, <2>5, <2>7 DEF ClaimRow, GrantLease
    <3> QED
      BY <2>4, <2>5, <2>7, <3>1, <3>2
  <2> QED
    BY <2>6, <2>7
<1>5. ASSUME NEW w \in Workers, RescheduleRow(job[w], stampAge[w]), KeepsRuns
      PROVE  leaseLeft'[job'[v]] >= runLeft'[v]
  BY <1>5 DEF RescheduleRow, KeepsRuns
<1> QED
  BY <1>1, <1>2, <1>3, <1>4, <1>5, StepEffect

\* A claim granted in time outlasts the handler run on it (worker.py:107,137),
\* so the recovery of another replica (worker.py:66) never takes the row of a
\* live handler.
THEOREM LiveRunSafe == PromptWrites /\ Spec => []LiveRunNotStale
<1>1. Init => LeaseOutlivesRun
  BY DEF Init, LeaseOutlivesRun
<1>2. TypeOK /\ LeaseOutlivesRun => LiveRunNotStale
  BY JobParameters DEF TypeOK, TableOK, LoopOK, LeaseOutlivesRun, LiveRunNotStale, Stale
<1>3. PromptWrites /\ TypeOK /\ LeaseOutlivesRun /\ [Next]_vars => LeaseOutlivesRun'
  BY LeaseOutlivesRunStep
<1>4. PromptWrites /\ Spec => []PromptWrites
  <2>1. PromptWrites => PromptWrites'
    BY DEF PromptWrites
  <2> QED
    BY <2>1, PTL
<1> QED
  BY <1>1, <1>2, <1>3, <1>4, TypeCorrect, PTL DEF Spec

-----------------------------------------------------------------------------
(* Mutual exclusion of the runs of a job.  A runner may lose its row while  *)
(* it runs: another worker, whose claim expired before it could reschedule, *)
(* sets the row back to PENDING.  What protects the runner then is not the  *)
(* lease but next_run_at, which that reschedule moved past the run's end.   *)

RunIsProtected ==
  \A w \in Workers : pc[w] = "run" =>
    /\ status[job[w]] = "RUNNING" => claimedBy[job[w]] = w
    /\ status[job[w]] = "PENDING" => nextIn[job[w]] > runLeft[w]

\* Every step keeps RunIsProtected.
LEMMA RunIsProtectedStep ==
  ASSUME IntervalsOutlastRuns, TypeOK, LeaseOutlivesRun, RunIsProtected, [Next]_vars
  PROVE  RunIsProtected'
<1> SUFFICES ASSUME NEW v \in Workers, pc'[v] = "run"
             PROVE  /\ status'[job'[v]] = "RUNNING" => claimedBy'[job'[v]] = v
                    /\ status'[job'[v]] = "PENDING" => nextIn'[job'[v]] > runLeft'[v]
  BY DEF RunIsProtected
<1> USE JobParameters DEF TypeOK, TableOK, LoopOK, RunIsProtected
<1>1. CASE Tick
  BY <1>1 DEF Tick, Urgent
<1>2. CASE UNCHANGED table /\ KeepsRuns
  BY <1>2 DEF table, KeepsRuns
<1>3. CASE RecoverRows /\ KeepsRuns
  BY <1>3 DEF RecoverRows, Stale, KeepsRuns, LeaseOutlivesRun
<1>4. ASSUME NEW w \in Workers, pc[w] = "claim",
             ClaimRow(w, job[w], stampAge[w]), BeginsRun(w)
      PROVE  /\ status'[job'[v]] = "RUNNING" => claimedBy'[job'[v]] = v
             /\ status'[job'[v]] = "PENDING" => nextIn'[job'[v]] > runLeft'[v]
  <2>1. job'[v] = job[v] /\ job[v] \in Jobs /\ job[w] \in Jobs
    BY <1>4 DEF BeginsRun
  <2>2. status[job[w]] = "PENDING" /\ nextIn[job[w]] <= 0
    BY <1>4, <2>1 DEF ClaimRow, DueAt
  <2>3. CASE job[v] = job[w]
    <3>1. v = w
      BY <1>4, <2>1, <2>2, <2>3 DEF BeginsRun
    <3> QED
      BY <1>4, <2>1, <3>1 DEF ClaimRow, GrantLease
  <2>4. CASE job[v] # job[w]
    BY <1>4, <2>1, <2>4 DEF BeginsRun, ClaimRow, GrantLease
  <2> QED
    BY <2>3, <2>4
<1>5. ASSUME NEW w \in Workers, pc[w] = "reschedule",
             RescheduleRow(job[w], stampAge[w]), KeepsRuns
      PROVE  /\ status'[job'[v]] = "RUNNING" => claimedBy'[job'[v]] = v
             /\ status'[job'[v]] = "PENDING" => nextIn'[job'[v]] > runLeft'[v]
  <2>1. job'[v] = job[v] /\ job[v] \in Jobs /\ job[w] \in Jobs
    BY <1>5 DEF KeepsRuns
  <2>2. CASE job[v] = job[w]
    <3>1. nextIn'[job[w]] >= Interval[job[w]] - Lag
      BY <1>5, <2>1 DEF RescheduleRow
    <3>2. Interval[job[w]] - Lag > runLeft'[v]
      <4>1. runLeft'[v] \in 0 .. MaxRun
        BY <1>5 DEF KeepsRuns
      <4>2. Interval[job[w]] > Lag + Timeout + Overrun /\ Interval[job[w]] \in Nat
        BY <2>1 DEF IntervalsOutlastRuns
      <4> HIDE DEF TypeOK, TableOK, LoopOK, RunIsProtected
      <4> QED
        BY <4>1, <4>2 DEF MaxRun
    <3>3. status'[job[w]] = "PENDING" /\ nextIn'[job[w]] \in Int
      BY <1>5, <2>1 DEF RescheduleRow
    <3>4. nextIn'[job[w]] > runLeft'[v]
      <4>1. runLeft'[v] \in Int /\ Interval[job[w]] - Lag \in Int
        BY SMTT(30), <1>5, <2>1 DEF KeepsRuns, MaxRun
      <4> QED
        BY <3>1, <3>2, <3>3, <4>1
    <3> QED
      BY <2>1, <2>2, <3>3, <3>4
  <2>3. CASE job[v] # job[w]
    BY <1>5, <2>1, <2>3 DEF KeepsRuns, RescheduleRow
  <2> QED
    BY <2>2, <2>3
<1> QED
  BY <1>1, <1>2, <1>3, <1>4, <1>5, StepEffect

\* Every step keeps OneRunPerJob.
LEMMA OneRunPerJobStep ==
  ASSUME TypeOK, RunIsProtected, OneRunPerJob, [Next]_vars
  PROVE  OneRunPerJob'
<1> SUFFICES ASSUME NEW u \in Workers, NEW v \in Workers,
                    pc'[u] = "run", pc'[v] = "run", job'[u] = job'[v]
             PROVE  u = v
  BY DEF OneRunPerJob, RunsJob
<1> USE JobParameters DEF TypeOK, TableOK, LoopOK, OneRunPerJob, RunsJob
<1>1. CASE Tick
  BY <1>1 DEF Tick
<1>2. CASE KeepsRuns
  BY <1>2 DEF KeepsRuns
<1>3. ASSUME NEW w \in Workers, pc[w] = "claim",
             ClaimRow(w, job[w], stampAge[w]), BeginsRun(w)
      PROVE  u = v
  <2>1. status[job[w]] = "PENDING" /\ nextIn[job[w]] <= 0
    BY SMTT(30), <1>3 DEF ClaimRow, DueAt
  <2>2. ASSUME NEW x \in Workers, pc[x] = "run" PROVE job[x] # job[w]
    BY SMTT(30), <2>1, <2>2 DEF RunIsProtected
  <2>3. job[u] = job[v]
    BY <1>3 DEF BeginsRun
  <2>4. CASE pc[u] = "run" /\ pc[v] = "run"
    BY <2>3, <2>4
  <2>5. CASE ~(pc[u] = "run" /\ pc[v] = "run")
    <3>1. (pc[u] = "run" \/ u = w) /\ (pc[v] = "run" \/ v = w)
      BY <1>3 DEF BeginsRun
    <3> QED
      BY <2>2, <2>3, <2>5, <3>1
  <2> QED
    BY <2>4, <2>5
<1> QED
  BY <1>1, <1>2, <1>3, StepEffect

\* No two replicas run a job's handler at the same time (ADR 0002, "must not
\* process the same row twice"), even when a reschedule comes so late that it
\* takes the row from its next owner (worker.py:148).
THEOREM MutualExclusion ==
  PromptWrites /\ IntervalsOutlastRuns /\ Spec => []OneRunPerJob
<1> DEFINE Safe == LeaseOutlivesRun /\ RunIsProtected /\ OneRunPerJob
           Bounds == PromptWrites /\ IntervalsOutlastRuns
<1>1. Init => Safe
  BY DEF Init, LeaseOutlivesRun, RunIsProtected, OneRunPerJob, RunsJob
<1>2. Bounds /\ TypeOK /\ Safe /\ [Next]_vars => Safe'
  BY LeaseOutlivesRunStep, RunIsProtectedStep, OneRunPerJobStep
<1>3. Bounds => Bounds'
  BY DEF PromptWrites, IntervalsOutlastRuns
<1>4. Safe => OneRunPerJob
  OBVIOUS
<1> HIDE DEF Safe
<1> QED
  BY <1>1, <1>2, <1>3, <1>4, TypeCorrect, PTL DEF Spec

-----------------------------------------------------------------------------
(* Runs of due jobs.                                                        *)

\* Every step keeps RunWasDue.
LEMMA RunWasDueStep ==
  ASSUME TypeOK, RunWasDue, [Next]_vars
  PROVE  RunWasDue'
<1> SUFFICES ASSUME NEW v \in Workers, pc'[v] = "run", claimedBy'[job'[v]] = v
             PROVE  nextIn'[job'[v]] <= 0
  BY DEF RunWasDue
<1> USE JobParameters DEF TypeOK, TableOK, LoopOK, RunWasDue
<1>1. CASE Tick
  BY <1>1 DEF Tick
<1>2. CASE UNCHANGED table /\ KeepsRuns
  BY <1>2 DEF table, KeepsRuns
<1>3. CASE RecoverRows /\ KeepsRuns
  BY <1>3 DEF RecoverRows, KeepsRuns
<1>4. ASSUME NEW w \in Workers, pc[w] = "claim",
             ClaimRow(w, job[w], stampAge[w]), BeginsRun(w)
      PROVE  nextIn'[job'[v]] <= 0
  <2>1. job'[v] = job[v] /\ job[v] \in Jobs /\ job[w] \in Jobs
    BY <1>4 DEF BeginsRun
  <2>2. nextIn' = nextIn /\ claimedBy' = [claimedBy EXCEPT ![job[w]] = w]
    BY <1>4 DEF ClaimRow, GrantLease
  <2>3. CASE v = w
    BY <1>4, <2>1, <2>2, <2>3 DEF ClaimRow, DueAt
  <2>4. CASE v # w
    BY <1>4, <2>1, <2>2, <2>4 DEF BeginsRun
  <2> QED
    BY <2>3, <2>4
<1>5. ASSUME NEW w \in Workers, pc[w] = "reschedule",
             RescheduleRow(job[w], stampAge[w]), KeepsRuns
      PROVE  nextIn'[job'[v]] <= 0
  BY <1>5 DEF RescheduleRow, KeepsRuns
<1> QED
  BY <1>1, <1>2, <1>3, <1>4, <1>5, StepEffect

\* A handler that runs on its own claim runs for a job that was due, however
\* stale the candidate list its worker works through (worker.py:99,111) and
\* whatever the settings.
THEOREM OnlyDueJobsRun == Spec => []RunWasDue
<1>1. Init => RunWasDue
  BY DEF Init, RunWasDue
<1>2. TypeOK /\ RunWasDue /\ [Next]_vars => RunWasDue'
  BY RunWasDueStep
<1> QED
  BY <1>1, <1>2, TypeCorrect, PTL DEF Spec

-----------------------------------------------------------------------------
(* Reschedules that come in time.  Slack is what the lease leaves beyond a  *)
(* late claim and a run; a worker that has claimed a row may count on it    *)
(* for the rest of the run and Slack, and counts Slack down while its       *)
(* reschedule is on the way.                                                *)

IntervalsOutlastLeases == \A j \in Jobs : Interval[j] > Lease

Slack == Lease - Lag - MaxRun

Holds(w) == pc[w] \in {"run", "reschedule"}

Remaining(w) ==
  IF pc[w] = "run" THEN runLeft[w] + Slack ELSE Slack - stampAge[w]

\* While time remains, the row is its holder's and will not be recovered, or
\* it has been given back and will not be due.
HoldIsProtected ==
  /\ \A j \in Jobs : status[j] = "PENDING" => claimedBy[j] = NoWorker
  /\ \A w \in Workers : Holds(w) /\ Remaining(w) >= 0 =>
       /\ status[job[w]] = "RUNNING" =>
            claimedBy[job[w]] = w /\ leaseLeft[job[w]] >= Remaining(w)
       /\ status[job[w]] = "PENDING" => nextIn[job[w]] > Remaining(w)

KeepsHolds ==
  \A v \in Workers : Holds(v)' =>
    Holds(v) /\ job'[v] = job[v] /\ Remaining(v)' <= Remaining(v)

BeginsHold(w) ==
  \A v \in Workers : Holds(v)' =>
    /\ job'[v] = job[v]
    /\ \/ Holds(v) /\ Remaining(v)' <= Remaining(v)
       \/ v = w /\ Remaining(v)' <= MaxRun + Slack

\* What a step does to the claims with time remaining.
LEMMA HoldEffect ==
  ASSUME TypeOK, [Next]_vars
  PROVE  \/ Tick
         \/ UNCHANGED table /\ KeepsHolds
         \/ RecoverRows /\ KeepsHolds
         \/ \E w \in Workers : /\ pc[w] = "claim"
                               /\ ClaimRow(w, job[w], stampAge[w])
                               /\ BeginsHold(w)
         \/ \E w \in Workers : /\ pc[w] = "reschedule"
                               /\ RescheduleRow(job[w], stampAge[w])
                               /\ KeepsHolds
<1> USE DEF TypeOK, LoopOK, KeepsHolds, Goto, Holds
<1>0. MaxRun \in Nat /\ Slack \in Int
  BY JobParameters DEF MaxRun, Slack
<1>1. ASSUME NEW w \in Workers, NEW l \in {"down", "sleep"}, Abandon(w, l)
      PROVE  KeepsHolds
  BY <1>0, <1>1 DEF Abandon, Remaining
<1>2. ASSUME NEW w \in Workers,
             \/ Start(w) \/ SelectDue(w) \/ NextCandidate(w) \/ BatchDone(w)
             \/ ClaimLost(w) \/ HandlerEnds(w) \/ Wake(w)
      PROVE  UNCHANGED table /\ KeepsHolds
  <2>1. CASE Start(w) \/ SelectDue(w) \/ NextCandidate(w) \/ BatchDone(w) \/ Wake(w)
    BY <1>0, <2>1
       DEF Start, SelectDue, NextCandidate, BatchDone, Wake, table, Remaining
  <2>2. CASE ClaimLost(w)
    BY <1>0, <2>2 DEF ClaimLost, table, Remaining
  <2>3. CASE HandlerEnds(w)
    <3> SUFFICES ASSUME NEW v \in Workers, Holds(v)'
                 PROVE  Holds(v) /\ job'[v] = job[v] /\ Remaining(v)' <= Remaining(v)
      BY <2>3 DEF HandlerEnds, table
    <3>1. Holds(v) /\ job'[v] = job[v] /\ stampAge'[v] = stampAge[v]
      BY <2>3 DEF HandlerEnds
    <3>2. CASE v = w
      BY <1>0, <2>3, <3>1, <3>2, JobParameters DEF HandlerEnds, Remaining
    <3>3. CASE v # w
      BY <1>0, <2>3, <3>1, <3>3 DEF HandlerEnds, Remaining
    <3> QED
      BY <3>2, <3>3
  <2> QED
    BY <1>2, <2>1, <2>2, <2>3
<1>3. ASSUME NEW w \in Workers, Recover(w)
      PROVE  RecoverRows /\ KeepsHolds
  BY <1>0, <1>3 DEF Recover, Remaining
<1>4. ASSUME NEW w \in Workers, Claim(w)
      PROVE  BeginsHold(w)
  <2> SUFFICES ASSUME NEW v \in Workers, Holds(v)'
               PROVE  /\ job'[v] = job[v]
                      /\ \/ Holds(v) /\ Remaining(v)' <= Remaining(v)
                         \/ v = w /\ Remaining(v)' <= MaxRun + Slack
    BY DEF BeginsHold
  <2>1. CASE v = w
    <3>1. stampAge'[w] = 0 /\ job'[w] = job[w]
      BY <1>4 DEF Claim
    <3>2. pc'[w] = "run" => runLeft'[w] = MaxRun
      BY <1>4 DEF Claim
    <3> QED
      BY <1>0, <2>1, <3>1, <3>2 DEF Remaining
  <2>2. CASE v # w
    <3>1. pc'[v] = pc[v] /\ stampAge'[v] = stampAge[v] /\ runLeft'[v] = runLeft[v]
      BY <1>4, <2>2 DEF Claim
    <3> QED
      BY <1>0, <1>4, <3>1 DEF Claim, Remaining
  <2> QED
    BY <2>1, <2>2
<1>5. ASSUME NEW w \in Workers, Reschedule(w)
      PROVE  KeepsHolds
  BY <1>0, <1>5 DEF Reschedule, Remaining
<1>6. ASSUME NEW w \in Workers, DbError(w) \/ Crash(w)
      PROVE  UNCHANGED table /\ KeepsHolds
  BY <1>6, <1>1 DEF DbError, Crash
<1>7. ASSUME NEW w \in Workers, CommitUnacked(w)
      PROVE  /\ KeepsHolds /\ BeginsHold(w)
             /\ \/ RecoverRows
                \/ pc[w] = "claim" /\ ClaimRow(w, job[w], stampAge[w])
                \/ pc[w] = "reschedule" /\ RescheduleRow(job[w], stampAge[w])
  BY <1>7, <1>1 DEF CommitUnacked, BeginsHold
<1>8. CASE UNCHANGED vars
  BY <1>0, <1>8 DEF vars, table, Remaining
<1> QED
  BY <1>2, <1>3, <1>4, <1>5, <1>6, <1>7, <1>8
     DEF Next, Work, Recover, Claim, Reschedule

\* An interval longer than the lease, judged by a late clock, still outlasts a run and its slack.
LEMMA IntervalOutlastsHold ==
  ASSUME IntervalsOutlastLeases, NEW j \in Jobs
  PROVE  Interval[j] - Lag \in Int /\ Interval[j] - Lag > MaxRun + Slack
<1>1. Interval[j] > Lease /\ Interval[j] \in Nat
  BY JobParameters DEF IntervalsOutlastLeases
<1> QED
  BY <1>1, JobParameters DEF Slack, MaxRun

\* The order of the four integers at the end of a late reschedule.
LEMMA LaterThan ==
  ASSUME NEW next \in Int, NEW least \in Int, NEW most \in Int, NEW rest \in Int,
         next >= least, least > most, most >= rest
  PROVE  next > rest
OBVIOUS

\* Every step keeps HoldIsProtected.
LEMMA HoldIsProtectedStep ==
  ASSUME PromptWrites, IntervalsOutlastLeases, TypeOK, HoldIsProtected, [Next]_vars
  PROVE  HoldIsProtected'
<1> USE JobParameters DEF TypeOK, TableOK, LoopOK, HoldIsProtected
<1>0. /\ MaxRun \in Nat /\ Slack \in Nat
      /\ \A w \in Workers : Remaining(w) \in Int /\ Remaining(w) <= MaxRun + Slack
  BY DEF MaxRun, Slack, PromptWrites, Remaining
<1>1. \A j \in Jobs : status'[j] = "PENDING" => claimedBy'[j] = NoWorker
  BY SMTT(30), StepEffect DEF Tick, table, RecoverRows, ClaimRow, GrantLease, RescheduleRow
<1> SUFFICES ASSUME NEW v \in Workers, Holds(v)', Remaining(v)' >= 0
             PROVE  /\ status'[job'[v]] = "RUNNING" =>
                         claimedBy'[job'[v]] = v /\ leaseLeft'[job'[v]] >= Remaining(v)'
                    /\ status'[job'[v]] = "PENDING" => nextIn'[job'[v]] > Remaining(v)'
  BY <1>1
<1>2. Remaining(v)' \in Int
  <2>1. TypeOK'
    BY StepTyped
  <2> QED
    BY <1>0, <2>1 DEF Remaining, Holds
<1>3. CASE Tick
  <2>1. Holds(v) /\ job'[v] = job[v] /\ job[v] \in Jobs /\ Remaining(v)' = Remaining(v) - 1
    BY <1>0, <1>3 DEF Tick, Holds, Remaining
  <2> DEFINE j == job[v]
  <2>2. /\ status'[j] = status[j] /\ claimedBy'[j] = claimedBy[j]
        /\ leaseLeft'[j] >= leaseLeft[j] - 1 /\ leaseLeft'[j] \in Int
        /\ nextIn'[j] >= nextIn[j] - 1 /\ nextIn'[j] \in Int
    BY <1>3, <2>1 DEF Tick, NoLease
  <2>3. /\ leaseLeft[j] \in Int /\ nextIn[j] \in Int
        /\ Remaining(v) >= 0 /\ Remaining(v) \in Int
    BY <1>0, <2>1
  <2>4. /\ status[j] = "RUNNING" => claimedBy[j] = v /\ leaseLeft[j] >= Remaining(v)
        /\ status[j] = "PENDING" => nextIn[j] > Remaining(v)
    BY <2>1, <2>3
  <2> HIDE JobParameters DEF TypeOK, TableOK, LoopOK, HoldIsProtected, j
  <2> QED
    BY <2>1, <2>2, <2>3, <2>4 DEF j
<1>4. ASSUME KeepsHolds
      PROVE  /\ job'[v] = job[v] /\ job[v] \in Jobs
             /\ Holds(v) /\ Remaining(v)' <= Remaining(v) /\ Remaining(v) >= 0
  BY <1>0, <1>2, <1>4 DEF KeepsHolds, Holds
<1>5. CASE UNCHANGED table /\ KeepsHolds
  <2>1. nextIn[job[v]] \in Int /\ leaseLeft[job[v]] \in Int
    BY <1>4, <1>5 DEF NoLease
  <2> QED
    BY <1>0, <1>2, <1>4, <1>5, <2>1 DEF table
<1>6. CASE RecoverRows /\ KeepsHolds
  <2>1. nextIn[job[v]] \in Int /\ leaseLeft[job[v]] \in Int
    BY <1>4, <1>6 DEF NoLease
  <2>2. ~Stale(job[v])
    BY <1>0, <1>4, <1>6, <2>1 DEF Stale
  <2>3. /\ status'[job[v]] = status[job[v]] /\ claimedBy'[job[v]] = claimedBy[job[v]]
        /\ leaseLeft'[job[v]] = leaseLeft[job[v]] /\ nextIn'[job[v]] = nextIn[job[v]]
    BY <1>4, <1>6, <2>2 DEF RecoverRows
  <2> QED
    BY <1>0, <1>2, <1>4, <1>6, <2>1, <2>3
<1>7. ASSUME NEW w \in Workers, pc[w] = "claim",
             ClaimRow(w, job[w], stampAge[w]), BeginsHold(w)
      PROVE  /\ status'[job'[v]] = "RUNNING" =>
                  claimedBy'[job'[v]] = v /\ leaseLeft'[job'[v]] >= Remaining(v)'
             /\ status'[job'[v]] = "PENDING" => nextIn'[job'[v]] > Remaining(v)'
  <2>1. job'[v] = job[v] /\ job[w] \in Jobs
    BY <1>7 DEF BeginsHold
  <2>2. status[job[w]] = "PENDING" /\ nextIn[job[w]] <= 0
    BY <1>7, <2>1 DEF ClaimRow, DueAt
  <2>3. status'[job[w]] = "RUNNING" /\ claimedBy'[job[w]] = w
    BY <1>7, <2>1 DEF ClaimRow, GrantLease
  <2>4. leaseLeft'[job[w]] >= MaxRun + Slack
    <3>1. Lease - stampAge[w] >= MaxRun + Slack
      BY <1>0 DEF Slack
    <3> QED
      BY <1>0, <1>7, <2>1, <3>1 DEF ClaimRow, GrantLease
  <2>5. CASE v = w
    <3>1. Remaining(v)' <= MaxRun + Slack
      BY <1>0, <1>2, <1>7 DEF BeginsHold
    <3>2. leaseLeft'[job[w]] \in Int
      BY <1>7, <2>1 DEF ClaimRow, GrantLease, Expired
    <3> QED
      BY <1>0, <1>2, <2>1, <2>3, <2>4, <2>5, <3>1, <3>2
  <2>6. CASE v # w
    <3>1. Holds(v) /\ Remaining(v)' <= Remaining(v) /\ Remaining(v) >= 0 /\ job[v] \in Jobs
      BY SMTT(30), <1>0, <1>2, <1>7, <2>6 DEF BeginsHold, Holds
    <3>2. job[v] # job[w]
      BY <1>0, <2>2, <3>1
    <3>3. nextIn[job[v]] \in Int /\ leaseLeft[job[v]] \in Int
      BY <3>1 DEF NoLease
    <3>4. /\ status'[job[v]] = status[job[v]] /\ claimedBy'[job[v]] = claimedBy[job[v]]
          /\ leaseLeft'[job[v]] = leaseLeft[job[v]] /\ nextIn'[job[v]] = nextIn[job[v]]
      BY <1>7, <2>1, <3>1, <3>2 DEF ClaimRow, GrantLease
    <3>5. /\ status[job[v]] = "RUNNING" =>
               claimedBy[job[v]] = v /\ leaseLeft[job[v]] >= Remaining(v)
          /\ status[job[v]] = "PENDING" => nextIn[job[v]] > Remaining(v)
      BY <3>1
    <3>6. Remaining(v) \in Int
      BY <1>0
    <3> HIDE JobParameters DEF TypeOK, TableOK, LoopOK, HoldIsProtected
    <3> QED
      BY <1>2, <2>1, <3>1, <3>3, <3>4, <3>5, <3>6
  <2> QED
    BY <2>5, <2>6
<1>8. ASSUME NEW w \in Workers, pc[w] = "reschedule",
             RescheduleRow(job[w], stampAge[w]), KeepsHolds
      PROVE  /\ status'[job'[v]] = "RUNNING" =>
                  claimedBy'[job'[v]] = v /\ leaseLeft'[job'[v]] >= Remaining(v)'
             /\ status'[job'[v]] = "PENDING" => nextIn'[job'[v]] > Remaining(v)'
  <2>1. /\ job'[v] = job[v] /\ job[v] \in Jobs /\ job[w] \in Jobs
        /\ Holds(v) /\ Remaining(v)' <= Remaining(v) /\ Remaining(v) >= 0
    BY <1>8, <1>4
  <2>2. CASE job[v] = job[w]
    <3>1. status'[job[w]] = "PENDING"
      BY <1>8, <2>1 DEF RescheduleRow
    <3>2. nextIn'[job[w]] >= Interval[job[w]] - Lag /\ nextIn'[job[w]] \in Int
      BY SMTT(30), <1>8, <2>1 DEF RescheduleRow
    <3> HIDE JobParameters DEF TypeOK, TableOK, LoopOK, HoldIsProtected
    <3>3. Interval[job[w]] - Lag > MaxRun + Slack /\ Interval[job[w]] - Lag \in Int
      BY <2>1, IntervalOutlastsHold
    <3>4. MaxRun + Slack \in Int /\ MaxRun + Slack >= Remaining(v)'
      <4>1. Remaining(v)' <= Remaining(v)
        BY <2>1
      <4>2. Remaining(v) \in Int /\ Remaining(v) <= MaxRun + Slack
        BY <1>0
      <4> QED
        BY <1>0, <1>2, <4>1, <4>2
    <3>5. nextIn'[job[w]] > Remaining(v)'
      BY <1>2, <3>2, <3>3, <3>4, LaterThan
    <3> QED
      BY <2>1, <2>2, <3>1, <3>5
  <2>3. CASE job[v] # job[w]
    <3>1. /\ status'[job[v]] = status[job[v]] /\ claimedBy'[job[v]] = claimedBy[job[v]]
          /\ leaseLeft'[job[v]] = leaseLeft[job[v]] /\ nextIn'[job[v]] = nextIn[job[v]]
      BY <1>8, <2>1, <2>3 DEF RescheduleRow
    <3>2. /\ status[job[v]] = "RUNNING" =>
               claimedBy[job[v]] = v /\ leaseLeft[job[v]] >= Remaining(v)
          /\ status[job[v]] = "PENDING" => nextIn[job[v]] > Remaining(v)
      BY <2>1
    <3>3. nextIn[job[v]] \in Int /\ leaseLeft[job[v]] \in Int /\ Remaining(v) \in Int
      BY <1>0, <2>1 DEF NoLease
    <3> HIDE JobParameters DEF TypeOK, TableOK, LoopOK, HoldIsProtected
    <3> QED
      BY <1>2, <2>1, <3>1, <3>2, <3>3
  <2> QED
    BY <2>2, <2>3
<1> QED
  BY <1>3, <1>5, <1>6, <1>7, <1>8, HoldEffect

\* A reschedule that comes in time updates WHERE id alone (worker.py:150) and
\* still takes the row from nobody, if the lease covers a late claim and a run,
\* and jobs recur less often than leases last.
THEOREM TimelyRescheduleIsOwn ==
  PromptWrites /\ IntervalsOutlastLeases /\ Spec => []RescheduleIsOwn
<1> DEFINE Bounds == PromptWrites /\ IntervalsOutlastLeases
<1>1. Init => HoldIsProtected
  BY DEF Init, HoldIsProtected, Holds
<1>2. Bounds /\ TypeOK /\ HoldIsProtected /\ [Next]_vars => HoldIsProtected'
  BY HoldIsProtectedStep
<1>3. Bounds => Bounds'
  BY DEF PromptWrites, IntervalsOutlastLeases
<1>4. TypeOK /\ HoldIsProtected => RescheduleIsOwn
  <2> SUFFICES ASSUME TypeOK, HoldIsProtected, NEW w \in Workers,
                      pc[w] = "reschedule", Lag + MaxRun + stampAge[w] <= Lease
               PROVE  claimedBy[job[w]] \in {w, NoWorker}
    BY DEF RescheduleIsOwn
  <2>1. Holds(w) /\ Remaining(w) >= 0 /\ job[w] \in Jobs
    BY JobParameters DEF Holds, Remaining, Slack, MaxRun, TypeOK, LoopOK
  <2>2. status[job[w]] \in {"PENDING", "RUNNING"}
    BY <2>1 DEF TypeOK, TableOK
  <2> QED
    BY <2>1, <2>2 DEF HoldIsProtected
<1> QED
  BY <1>1, <1>2, <1>3, <1>4, TypeCorrect, PTL DEF Spec

=============================================================================
