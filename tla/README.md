# A TLA+ verification of apsis

apsis predicts satellite passes over ground stations on nothing but PostgreSQL:
a table-driven job scheduler ingests two-line elements (TLEs), a transactional
outbox announces the changed satellites, and an event handler recomputes their
passes. This directory models that machinery, model-checks it with TLC and
proves the central theorems with TLAPS. Source paths below are relative to
`src/app/` unless they start with `docs/` or `migrations/`.

## 1. Inventory of the system

| Part | Source | State it keeps | Operations |
|---|---|---|---|
| Job scheduler | `core/jobs/` | `scheduled_jobs` rows: status, claim, lease, next run; each worker's position and candidate list | recover stale rows, select due ids, claim, run the handler, reschedule, start, stop |
| Outbox | `core/events/` | `outbox_events` rows: status, retry count, schedule, handler state; row locks; each worker's event in hand | publish, connect, poll, claim with SKIP LOCKED, dispatch, verdict, backoff, dead-letter |
| TLE ingest | `core/jobs/handlers/`, `tracking/use_cases/ingest_tles.py` | `satellites` rows | fetch a group, upsert by NORAD id, publish `tle.refreshed` in the same transaction |
| CelesTrak client | `core/celestrak/` | none | map HTTP answers to errors, split the body into records |
| Pass recomputation | `tracking/event_handlers/`, `tracking/use_cases/compute_passes.py` | `pass_predictions` rows | per station: compute, delete, insert; one commit |
| Pass scan | `tracking/services/` | none (pure) | pair rise, culminate and set events; sample the track |
| HTTP API | `tracking/api/`, `tracking/use_cases/` | `ground_stations` rows | register a station, list stations, page through satellites, read the passes of a station |
| Sessions and pool | `core/db.py`, `core/repo.py` | pooled connections | open, commit or roll back a session; wait for a connection, time out |
| Error mapping | `core/exceptions/` | none | turn domain errors, `IntegrityError` and the rest into statuses |
| Lifecycle | `main.py`, `core/startup.py`, `api/v1/health.py` | readiness, worker tasks | one database check at boot, start and stop of the workers, disposal of the engine |
| Migrations | `migrations/` | the schema | the constraints the others rely on |
| Deployment | compose files, Dockerfile, backup script | none | run, restart, back up |

How they interact. The job worker of any replica runs `tle_refresh`; its
transaction writes satellites and outbox rows together. The outbox worker of any
replica locks one event and runs its handlers, each in a session of its own, so
a handler's effect and the event's verdict are two transactions. The handler
reads satellites and stations and rewrites predictions, concurrently with the
next ingest, with API requests and possibly with another run of itself. All
shared state is in PostgreSQL; a replica keeps only its loop's locals.

What is hard here, and what would make each part correct:

* *Scheduler*: replicas interleave at every statement; a claim outlives its
  worker; statements may commit late or without an acknowledgement. Correct if a
  job never runs twice at a time, a live run is never reclaimed, a job does not
  run before it is due, and no job is stuck.
* *Outbox*: the lock dies with the session while the handlers' effects live on.
  Correct if a closed event has been delivered, repetitions are caused by faults
  alone, dead-lettering is exact, and every event is closed in the end.
* *Recomputation*: READ COMMITTED transactions with a read-compute-replace
  pattern, in which each station reads the satellite anew. Correct if the last
  TLE wins, a pair holds the passes of one run, stations known to the system are
  covered, and runs deadlock over the rows of one pair at most.
* *Ingest*: check-then-insert and check-then-update against an overlapping run,
  a group that fails in the middle, a row and its event written by two
  statements. Correct if a change and its event are committed together, nothing is announced without a change, and every satellite
  catches up with its source.
* *Pass scan*: windows that cut passes off, several culminations. Correct if
  exactly the complete passes are found.
* *API*: the name of a station is checked before it is inserted, a request
  commits only after its response, and a read takes several statements. Correct
  if a name is given once, a conflict is real, an error leaves nothing behind,
  readers miss nothing, and every request ends.
* *Pool and lifecycle*: the outbox worker holds a connection while its handler
  waits for another, the database may be gone at any time, the tasks share an
  engine that the shutdown disposes of, and closing the LISTEN connection may
  hang or raise. Correct if the pool never locks up and the shutdown ends and
  leaves nobody behind.

`PROJECT.json` lists every component with its status and every hazard with the
line where it bites and the properties that watch it.

## 2. The modules

| Module | What it is |
|---|---|
| `JobWorker` | the scheduler: `scheduled_jobs` and the loops of any number of replicas |
| `JobWorkerProofs` | its theorems and their proofs |
| `OutboxDelivery` | what the outbox promises to publishers: at-least-once delivery with a final verdict |
| `OutboxWorker` | the outbox: producers, workers, dispatcher; implements `OutboxDelivery` |
| `OutboxProofs` | its theorems and their proofs |
| `TleIngest` | the handler `tle_refresh`: fetch, upsert, announce |
| `TleIngestProofs` | its theorems and their proofs |
| `PassRecompute` | TLE refreshes, the recomputation transactions, redelivery |
| `PassRecomputeProofs` | its theorems and their proofs |
| `PassScan` | the scan of a window's events and the sampling of the track |
| `PassScanProofs` | its theorems and their proofs |
| `StationApi` | the requests: registration, passes of a station, pages of satellites |
| `StationApiProofs` | its theorems and their proofs |
| `Replica` | one process: lifespan, tasks, connection pool, LISTEN connection, database outages |
| `ReplicaProofs` | its theorems and their proofs |
| `MC...` | the instances of each for TLC |

`JobWorker` runs handlers without looking into them; `TleIngest` is the one it
runs. `TleIngest` commits events; `OutboxWorker` drains them, again without
looking into the handlers; `PassRecompute` is the handler, over an outbox
reduced to ownership and retries. Each of the four assumes of its neighbour only
what the neighbour's properties say: `TleIngest` allows the overlapping runs
that `JobWorker` cannot always exclude, `PassRecompute` the redelivery and lost
ownership that `OutboxWorker` shows. `StationApi` sees the ingest and the
recomputation as the commits they make; `Replica` sees the workers and the
requests of one process as tasks that take and give back connections.

Definitions named `Wrong...` are deliberate mistakes (a dropped guard, a swapped
order, a missing reset). No specification uses them. Putting one in the place of
the definition after it makes the property it is paired with in `PROJECT.json`
fail, which shows that the property can tell that bug from the code.

### 2.1 JobWorker

Each SQL statement with its commit is one action: `Recover` (worker.py:66),
`SelectDue` (87), `Claim`/`ClaimLost` (106), `Reschedule` (146). Between the
last two a handler runs (`HandlerEnds`). `NextCandidate` and `BatchDone` are the
loop over the candidate ids, `Wake` the end of the poll wait. Other workers and
the clock may come between any two of them.

Time is relative. `leaseLeft[j]` is `lease_until - now` (`NoLease` for NULL,
`Expired` for anything in the past), `nextIn[j]` is `next_run_at - now`. The
worker computes the timestamps of a statement before the statement gets its
connection; `stampAge[w]` is how old they are, so a late claim grants a shorter
lease and decides "due" with an old clock, as the code does. `Lag` bounds that
age, `Overrun` the unwinding of a handler that `wait_for` has cancelled.
`nextIn` counts down to `-Lag` only: older than that no statement can tell the
difference, except in the order of candidates overdue for longer, which the
model leaves open. The clocks of the replicas are taken to be one clock.

Faults, at most `MaxFaults`: `DbError` (rolled back), `CommitUnacked` (applied,
but the worker sees an exception) and `Crash` (also `stop()`: `CancelledError`
is not an `Exception`, so phase 3 is skipped). The row's `claimed_by` is written
by the code and read by no statement; the model keeps it to state who owns a
row. `last_error`, `run_count` and the other columns nobody reads are left out.

### 2.2 OutboxWorker

`Publish` is the commit of a domain transaction. A worker goes through
`Connect`, `PollTimeout` (with the heartbeat), and for at most `BatchSize`
events `Claim`, one `SkipHandler` or `RunHandler` per handler, `Commit`. The row
lock is `lock[e]`. `hand[w]` is what the ORM loaded under the lock (the retry
count and the completed handlers) and how far the dispatch has come; the verdict
is computed from it. The backoff is a nondeterministic choice in the interval
that `min(2**n + uniform(0, Jitter), cap)` can yield. `dueIn` counts down to
`-MaxAge`, so events overdue for longer are taken in any order; the code's order
is one of them.

Faults: `HandlerFailsLate` (the effect is committed, the dispatch sees a
failure), `SessionLost` (the lock is gone, the worker goes on), `DbError`,
`CommitUnacked`, `Crash` (which leaves the lock to the server as `Orphan` until
`ReleaseOrphan`). `runs` is a history variable that counts how often a handler
took effect.

`OutboxDelivery` is the abstract view: an event is published, its handlers take
effect, any number of times, and it is closed as delivered, only when all of
them have, or as dead. Neither verdict is taken back. The mapping reads the
event's state from `status` and the handlers that have taken effect from `runs`
(`ImplementsDelivery`).

### 2.3 PassRecompute

One action per statement of the handler's transaction: `ListStations`, then per
station `ReadSatellite`, `StartDelete`, a `DeleteRow` for each row, an `Insert`
for each pass, and at the end `Commit`; `Close` is the outbox verdict in its own
transaction. The satellite is read anew for each station (`TleRead`): the entity
is a local of `ComputePassesUseCase.execute`, SQLAlchemy's identity map refers to
it weakly, and under READ COMMITTED the SELECT sees what an ingest has committed
since the station before. One run may so insert passes of two TLEs.

A DELETE sees the rows committed when it starts and goes through them in the
order of its scan, which is any; it waits for another transaction that has
deleted one, and passes over a row that is gone. An INSERT waits for a
transaction that has inserted or deleted a row of the same unique key
(satellite, station, aos_at), and raises if such a row is then committed
(`InsertClashes`). `WaitsFor` has both kinds of wait. Runs that wait in a cycle
stay there until PostgreSQL aborts one (`DeadlockVictim`). The foreign keys of
an insert take key-share locks, which do not conflict with an ingest's UPDATE or
with each other, so they are no waits.

A row is a satellite, a station, its aos (one of `Instants`), the TLE version it
was computed from and the number of the run. Which passes a station gets is any
nonempty set of instants, since the search for them starts at a different instant
in each run; a station that does not see the satellite at all is left out of the
model. `task[r]` is all that a replica's run knows. Stations are numbered in the
order of their names, which is the order of `list_all` and of the loop:
`First(todo)` is the next one, `station` the one at hand. Passes are inserted in
the order of their aos.

The outbox is reduced to what matters here: a pending event, an owner that may
lose it (`LoseEvent`), failures that leave it pending (`Fail`) or give it up
(`FailForGood`). An ingest is its committed effect (`Refresh`).

With two replicas, runs of one satellite may meet, and what they then leave
behind need not be right (finding 4). `alone` and `crossed` are history: a run
is alone if no other run of its satellite was open between its claim and its
commit, and a satellite is crossed while its last committed run was not. The
properties say what is left of convergence: a run that is alone repairs
everything (`FreshUnlessCrossed`, `OneRunPerPair`). With one replica no
run meets another, and the handler converges as documented
(`OneReplicaConverges`).

### 2.4 TleIngest

A run goes through `Begin`, `FetchGroup`, then per record `SkipUnchanged`, or
`ReadChanged` and `Upsert`, and `Commit`. `wrote[w]` holds the rows a run has
written and not committed, which are also the rows it has locked: another writer
of one of them waits (`WaitsFor`), clashes on the unique `norad_id`
(`InsertClashes`) or is a `DeadlockVictim`, since nothing fixes the order in
which CelesTrak lists a group. The event of a record is a statement of its own
in the same transaction (`Publish`): between it and `Upsert` the run may be
aborted, and `published[w]`, the events that `Commit` makes visible, lags behind
`wrote[w]`. A TLE is its two lines, a row of `satellites`
a TLE or `NoRow`; `Upserted` writes only the columns that differ from what was
read, as SQLAlchemy does. A group is taken to list a satellite once.
`RateLimited` is the clean return after a 403, `Abort` everything else that ends
a run early: other answers, a malformed record, a database error, the timeout,
the end of the process. A commit whose acknowledgement is lost has the effect of
`Commit` for this module.

### 2.5 PassScan

The state is that of the loop in `compute_passes`: the event at hand, `aos_at`,
`peak_time` and the list of passes. Each branch of its if/elif chain is an
action. The events come from skyfield and are any sequence in which rises and
sets alternate and the satellite culminates while it is up; a rise directly
followed by a set is included, as the code provides for it. A window is built
from the order in which its kinds of event come (`Orders`) and the instants at
which they do (`Instants`). An instant is an integer, one microsecond in the
code, and `SampleInstants` rounds as `timedelta` does.

### 2.6 StationApi

A POST goes through `Arrive` or `RejectBody`, `CheckName`, `Insert`, `Refresh`,
`Respond` and `Commit`, or from any failure through `Rollback`. The order of the
last two is the framework's: the code after the `yield` of `get_session` runs
when the response is out, but an exception reaches it before its handler
answers. `Insert` waits for the uncommitted row of another request with the same
name, as the unique index makes it. A GET is one statement per action:
`AskPasses` is the look-up of the station, `Statements` the order of the two
reads after it, and `ReadPage` one request for a page. `heap` says when each
satellite was last written, the order in which a table scan would find them; a
page does not depend on it because the query orders by id. The ids are numbered
in that order, and a page holds the satellites whose `Rank` is among the next
`PageSize`. `Ingest` and `Recompute` are the commits of the background. Faults:
`StatementFails`, `CommitFails` (after the response: `lost`), `Crash`.

### 2.7 Replica

`main` is the lifespan: `Boot` with its one check of the database, `Signal`,
then the requests drain, `StopJobs`, `StopOutbox`, `Unready`, `Dispose`, each
awaiting what the code awaits. A task is `idle` (in its wait), wants a
connection, works with it, or is cancelled (`unwind`). Only the outbox worker
opens a session inside another (`Sessions`): the row lock is held while the
handler asks for its own. `Connections` is the set of those checked out, `Used`
their number. `GiveUp` is the end of a wait for a connection, by
`pool_timeout`, by a refused connection or by the handler's own timeout: the
dispatcher makes a failed result of it and goes on to the verdict, everybody
else ends the turn. `DatabaseDown`, `DatabaseUp` and `Crash` come at any time.

The outbox worker has its LISTEN connection besides (`listening`): it needs one
to work (`Connect`), checks it before each batch (`HeartbeatFails`), and closes it
in the `finally` of its loop (place `close`), after a failed heartbeat, after the
delay that follows an exception (`BackoffEnds`) and when it is cancelled
(`Unwind`). The close ends (`CloseListener`), or raises (`CloseFails`), or, as long
as the database cannot be reached, does neither. An error of the close is the end
of the task: while requests are served nobody learns of it and `ready` stays TRUE
without an outbox worker; if `stop()` is awaiting the task, the error ends the
lifespan before the flag is cleared and the engine disposed of. A task that is
done is not cancelled any more, and a cancelled close is not repeated (`Cancel`).
The repository promises of readiness only that it checks the database
(README.md:139), so the dead outbox task is a hazard that `PROJECT.json` lists
and not a finding.

## 3. What the runs check

| Run | Instance | Shows |
|---|---|---|
| `JobWorker_safe` | 2 workers, 2 jobs (one without a handler), Lease 4, Timeout 1, Overrun 1, Lag 2, Interval 5, 2 faults, fair | `TypeOK`, `OneRunPerJob`, `LiveRunNotStale`, `RescheduleIsOwn`, `RunWasDue`, `NoZombies`, `JobsKeepRunning`. The lease is the least that satisfies `PromptWrites`; a reschedule may come after it has run out, so rows do change owner under a run, and the runs still exclude each other |
| `JobWorker_fast` | Interval 2, Timeout 2, Lag 2 | finding: `OneRunPerJob` fails |
| `JobWorker_slow` | Lease = 2 * Timeout, Lag 3 | finding: `LiveRunNotStale` fails |
| `OutboxWorker_safe` | 2 workers, 2 events (one with two handlers, one with none), MaxRetries 2, batches of one, 2 faults, fair | `TypeOK`, `RepetitionsAreFaults`, `DeadLetterIsExact`, `LockedRowIsAsRead`, `ImplementsDelivery`, `EventsAreClosed` |
| `OutboxWorker_notify` | 1 worker, 1 event | finding: `NotifyWakes` fails |
| `PassRecompute_safe` | 2 replicas, 1 satellite, 2 stations, 2 instants of a pass, 2 TLE versions, 3 runs, 1 fault | `TypeOK`, `FreshUnlessCrossed`, `OneRunPerPair`, `StationsCovered`, `DeadlocksAreLocal` |
| `PassRecompute_stale` | 2 replicas, 1 satellite, 1 station, 1 instant, no fault | finding: `NoStalePasses` fails |
| `TleIngest_safe` | 2 ingesters, 2 satellites, 3 TLEs each, 1 overlapping run, 1 failure, fair | `TypeOK`, `GroupIsComplete`, `LinesBelongTogether`, `ChangesAreAnnounced`, `UnchangedIsSilent`, `IngestCatchesUp` |
| `PassScan_complete` | every window over 7 instants, 4 samples | `FindsCompletePasses` (and in order), `TrackSpansPass` |
| `PassScan_peak` | windows over 4 instants, 2 elevations | finding: `PeakIsHighest` fails |
| `StationApi_safe` | 2 registrations of one name, 3 satellites, pages of one, 3 writes, 1 fault, fair | `TypeOK`, `OneStationPerName`, `ConflictIsReal`, `StoredWasAccepted`, `PassesNameTheirSatellites`, `PagingMissesNone`, `RequestsEnd` |
| `Replica_safe` | 2 workers and 3 requests, pools of 1, 2 and 3 connections, 2 faults, fair | `TypeOK`, `NoPoolDeadlock`, `NobodyIsLeftBehind`, `DispatchesEnd`, `ShutdownCompletes` |

Why these bounds are enough to be interesting. Two workers suffice for a row to
be reclaimed, claimed by the other worker, taken back by the late reschedule of
the first and claimed again; a second job makes candidate lists go stale. One
tick stands for as much time as one likes, so the durations matter only by their
order and sums: the instance sits on the boundary of `PromptWrites` (2+1+1 = 4),
and of `IntervalsOutlastRuns` (5 > 4), and a reschedule may end two ticks after
its lease. `MaxRetries` 2 has a retry and a dead letter. Two TLE versions, three
runs and a fault allow a stale run, an overtaking one, a redelivery of either and
a run alone that repairs them, and a refresh between the two stations of a run;
satellites do not share rows or events, so one is enough. Two stations are needed
for waits across stations, and two instants for two runs that hold each other's
keys or rows at one station: with them 4.3 million states are reached. Three TLEs, the
second of which keeps the second line of the first, make every kind of
difference between a row and a record; one overlapping run suffices for each
clash of two transactions. Seven instants hold two complete passes and one cut
off. Two registrations are all it takes to race, wait and take over from one
that is rolled back; three satellites in pages of one let a row be inserted or
moved before, at and behind the reader. A pool of one is too small for the
outbox worker, one of two holds it and its handler exactly, and with three the
three requests can still fill it. Deadlock is not checked in `PassRecompute`,
where the system rests when its bounds are used up and every event is closed
(runs that wait for each other are not at rest, since `DeadlockVictim` aborts one,
and which of them may are the subject of `DeadlocksAreLocal`), in `StationApi`, which rests
when its requests are answered and its writes are used up (a request that waits
for ever would violate `RequestsEnd`), nor in `PassScan`, whose loop ends.

### Findings

1. `JobWorker_fast`: phase 3 updates `WHERE id` alone (worker.py:148-150). A
   reschedule that comes after its lease has run out sets a row that another
   worker has claimed back to PENDING. As long as jobs recur slowly this does no
   harm (that is the theorem `MutualExclusion`); a job whose interval is shorter
   than a run may then run twice at a time, against docs/adr/0002:8-9.
2. `JobWorker_slow`: docs/adr/0002:30-31 says the validated invariant keeps a
   slow-but-alive handler from being reclaimed. The lease is stamped before the
   connection is obtained (worker.py:107), which may take `DB_POOL_TIMEOUT`, so
   `Lease >= 2 * Timeout` is not enough in general. With the default settings
   (120, 55, 30) it is.
3. `OutboxWorker_notify`: README.md:30 says that the worker is woken by
   LISTEN/NOTIFY; `_on_notify` only logs and the wait ends by timeout alone.
4. `PassRecompute_stale`: with two replicas the delete-and-reinsert of
   `recompute_passes` does not converge, against recompute_passes.py:19-21. A run
   that read an old TLE can overwrite newer passes, and no event is left that
   would correct them. A run that meets no other repairs them
   (`FreshUnlessCrossed`).
5. `PassScan_peak`: a pass is documented to carry its maximum elevation, but
   each culmination overwrites the one before (passes.py:75-76). It matters only
   for satellites that culminate more than once in a pass.

`GroupIsComplete`, `LinesBelongTogether` and `UnchangedIsSilent` of `TleIngest`
are claimed as long as no two runs have overlapped (`overlaps = 0`), which is
what `JobWorker` promises under `MutualExclusion`. `ChangesAreAnnounced` and
`IngestCatchesUp` hold with overlapping runs too.

## 4. Fairness

`JobWorker!FairSpec` and `OutboxWorker!FairSpec` assume weak fairness of each
worker's own steps (an asyncio task that can run is run, and every statement
ends), of the clock, and in the outbox of the server releasing locks of dead
clients. Nothing is assumed of `Start`: a replica that is down may stay down,
and the liveness properties are conditional on some worker staying up
(`SomeWorkerStaysUp`); an outbox task that has ended in its `finally` (section 2.7)
is one that is down. No handler is assumed to succeed. Faults are finite in
number, without which no progress could be promised. `TleIngest!FairSpec`
assumes that the handler keeps being run, which is `JobsKeepRunning`, and that
its statements end; failures and overlapping runs are finite in number.

`StationApi!FairSpec` assumes that a request that has arrived is served; no
client is assumed to ask. `Replica!FairSpec` assumes that the event loop starves
no task, that the wait for a connection is limited (`DB_POOL_TIMEOUT`, and the
timeout of a handler), and that the lifespan goes on, but all of it only while
the database can be reached: no timeout of the code bounds a statement, a
rollback or the close of the LISTEN connection (core/events/worker.py:92-94),
and how long they hang on a connection that has been cut is up to the kernel.
The database need not come back, so `DispatchesEnd` and `ShutdownCompletes` name
the exception: what they promise comes about unless the database is unreachable
from then on (`[]~database`). Nobody has to stop or restart the process. `PassRecompute` and
`PassScan` state no liveness: that events are handled in the end is
`EventsAreClosed` of the outbox.

## 5. What is proved

### The scheduler

`JobWorkerProofs` proves for every number of workers and jobs and every value of
the durations, batch size and fault bound:

* `TypeCorrect`: `Spec => []TypeOK`.
* `LiveRunSafe`: `PromptWrites /\ Spec => []LiveRunNotStale`.
* `MutualExclusion`:
  `PromptWrites /\ IntervalsOutlastRuns /\ Spec => []OneRunPerJob`.
* `OnlyDueJobsRun`: `Spec => []RunWasDue`.
* `TimelyRescheduleIsOwn`:
  `PromptWrites /\ IntervalsOutlastLeases /\ Spec => []RescheduleIsOwn`.

These are all the safety properties of the module.

Assumptions. `JobParameters` types the constants. `LeaseInvariant` is the check
of `Settings.validate_lease_invariant`. `PromptWrites` (`Lag + Timeout + Overrun
<= Lease`) and `IntervalsOutlastRuns` (each interval exceeds `Lag + Timeout +
Overrun`), or `IntervalsOutlastLeases` (each interval exceeds the lease, as that
of the seeded job does by far), are hypotheses of the theorems, not of the
module, because the code does not check them; the runs `JobWorker_slow` and
`JobWorker_fast` show what happens without them.

The argument. `OneRunPerJob` is not inductive, since nothing in it says why a
second claim cannot succeed. `LeaseOutlivesRun` says that a runner's RUNNING row
has a lease at least as long as the run may still last, which a prompt claim
establishes and a tick keeps; so recovery does not take it. `RunIsProtected`
covers both cases of the row: RUNNING, and then it is the runner's own claim; or
PENDING, after a late reschedule by an earlier owner, and then its next run is
later than the end of the run. In neither case can it be claimed. `StepEffect`
sorts the fifteen kinds of step by what they do to the rows, so that each
invariance proof has five cases. `RunWasDue` is
inductive as it stands. `RescheduleIsOwn` needs to know how much of the lease is
left once the handler has ended: `Remaining` is what is left of the run and of
the slack of the lease, and `HoldIsProtected` says of claims with time remaining
what `LeaseOutlivesRun` and `RunIsProtected` say of runs.

### The outbox

`OutboxProofs` proves for every number of workers, events and handlers, all
registrations, limits and any number of faults:

* `TypeCorrect`: `Spec => []TypeOK`.
* `LockedRowSafe`: `Spec => []LockedRowIsAsRead`.
* `DeadLetterSafe`: `UniqueNames /\ Spec => []DeadLetterIsExact`.
* `OutboxImplementsDelivery`: `UniqueNames /\ Spec => ImplementsDelivery`.
* `RepetitionsArePaid`: `UniqueNames /\ Spec => []RepetitionsAreFaults`.

Assumptions. `OutboxParameters` types the constants. `UniqueNames` (no two
handlers of one event share a `__name__`) is a hypothesis of the last three,
because the code identifies a handler by its name and checks nothing; the one
handler that is registered cannot clash.

The argument. `TypeOK` is not inductive: a verdict writes the retry count of the
row as it was read, plus one, and only the lock makes that at most `MaxRetries`.
`RowInv` adds `LockedRowIsAsRead`, `RetriesLeft` (whatever is not FAILED has a
retry left) and `BatchHasRoom`. By `StepEffect` a step is of one of five kinds:
it loses or lets go of something (`Quiet`), publishes, claims, goes on to the
next handler (`Progress`) or writes a verdict under the lock (`Conclusion`). For
`DeadLetterIsExact` and the refinement, `DispatchSound` says what a dispatch in
progress knows: every handler named in its records has taken effect; if it has
not failed, each handler it has passed is named; if it has, one is not, and
stays so, since a later success adds only its own name. It holds of workers that
have lost their lock too, which is why their leftovers do no harm. A verdict
then closes the event only when all its handlers have taken effect.

`RepetitionsAreFaults` bounds the runs of a handler by the faults so far, and is
not inductive, since a worker that has lost its lock may still run a handler
that another has run or will run. `Paid` counts for each event and handler the
runs there have been, the workers that may add one without the lock (`Ghosts`)
and the one that the row, or the dispatch under the lock, still allows
(`Open`): together at most one more than the faults. A step that would add to
this sum is a fault: one that takes the lock of a worker turns what was open
into a ghost and opens the row again; a handler that fails after its effect, or
a verdict that is not committed, leaves open what has been done. A run under the
lock closes what was open, because its name is recorded, and the claim opens
nothing because it reads what the verdict before it wrote.

### The ingest

`TleIngestProofs` proves for every number of processes, satellites, versions,
overlaps and faults:

* `TypeCorrect`: `Spec => []TypeOK`.
* `ChangesAreHeard`: `Spec => ChangesAreAnnounced`.
* `SilenceMeansUnchanged`: `Spec => UnchangedIsSilent`.
* `GroupsAreComplete`: `Spec => []GroupIsComplete`.
* `LinesAreOfOneTle`: `Spec => []LinesBelongTogether`.

Assumptions. `IngestParameters` types the constants: finitely many satellites,
and `NoRow` is no TLE.

The argument. `RunInv` holds of every run whatever runs beside it: it has written
nothing before it has fetched, what it has fetched was served, one TLE for a
satellite, a row it has found has not vanished, and it has published the event
of every row it has written, except between the two flushes of a record
(`Publishes`); so a commit makes no row visible without its event. `AloneInv` holds as long as
runs exclude each other: a run knows that what it has read is still there, that
each record it has passed is stored or written, and that each row it has
written differs from the stored one. From these a commit changes every
row it announces, and the row is one of the TLEs that were served.

### The recomputation

`PassRecomputeProofs` proves for every number of replicas, satellites,
stations, instants, versions, runs and faults:

* `TypeCorrect`: `Spec => []TypeOK`.
* `DeadlocksOverOnePair`: `Spec => []DeadlocksAreLocal`, for every set of replicas.
* `RunsReplaceEachOther`: `Spec => []OneRunPerPair`.
* `PassesAreFresh`: `Spec => []FreshUnlessCrossed`.
* `StationsAreCovered`: `Spec => []StationsCovered`.
* `OneReplicaConverges`: `OneReplica /\ Spec => []NoStalePasses`.

Assumptions. `RecomputeParameters` types the constants; the stations are
numbered because `list_all` orders them by their names, which are unique.
`OneReplica` is a hypothesis of the last theorem only: the deployment may run
several processes, and then `PassRecompute_stale` shows the opposite.

The argument. A deadlock is possible: two DELETEs of one pair may meet its rows in
different orders, and two runs may each have inserted a key the other is to
insert. `DeadlocksOverOnePair` says that it needs no more than one pair, so that
runs at different stations never add to it: `RunOrder` says that a run has
written rows of earlier stations and of the one it is at only, hence whoever
waits does so for a run of the same satellite at the same station or further on
(`WaitsForLater`). Of a deadlocked set, those with the fewest stations after them
wait for each other. For the rest, `RunShape` says that the TLE a run has read
is not older than that of its event, whatever is refreshed between its reads,
so the rows of the run that answers the last event are of the stored TLE.
`RunCovers` and `RunReplaces` say what a run owes its satellite: each station that
was known when the TLE last changed is still to be done, at hand or inserted; each
committed row is still to be deleted, unless another run has met it. `Meet` says that two open runs of one
satellite both know of each other, so that the rows of a run that is alone
cannot change under it. `Answers` is the conclusion for the committed rows: once
the last event of a satellite has been answered, they are of the stored TLE,
unless crossed, and cover the known stations.

### The pass scan

`PassScanProofs` proves for every window and every number of samples:

* `PassesAreComplete`: `Spec => []FindsCompletePasses`.
* `TracksSpanPasses`: `Spec => []TrackSpansPass`.
* `SamplesSpread`: the instants of a track of at least two samples begin and end
  with the pass and lie in the order of time, as evenly as rounding allows.

Assumptions. `ScanParameters`: at least two samples, without which `compute_passes`
raises an error, and `None` is neither an instant nor an event.

The argument. The passes found so far are the complete ones among the events read
so far. The loop keeps this because `AtHand` ties `aos_at` and `peak_time` to the
events: while `aos_at` is set, the last event that is not a culmination is the
rise it holds, and `peak_time` is the event just read. `SamplesSpread` is
arithmetic: a rounded quotient is within half a unit of the fraction.

### The HTTP API

`StationApiProofs` proves for every number of requests, names and satellites and
every size of a page:

* `TypeCorrect`: `Spec => []TypeOK`.
* `NamesAreUnique`: `Spec => []OneStationPerName`.
* `ConflictsAreReal`: `Spec => []ConflictIsReal`.
* `StationsWereAccepted`: `Spec => []StoredWasAccepted`.
* `PassesAreJoined`: `Spec => []PassesNameTheirSatellites`.
* `PagingIsComplete`: `Spec => []PagingMissesNone`.

Assumptions. `ApiParameters`: finitely many satellites, pages of at least one.

The argument. `PostInv` says of a registration that its uncommitted row is the
only one of its name and that no station has the name (`RowIsNew`), and that
what a client has been told is true of the row or of the station (`AnswerIsTrue`).
A step of a request is of one of five kinds (it goes on, inserts, responds,
commits or is rolled back), so the invariance proof has five cases. `ReadInv`:
the predictions that a reader has found refer to satellites that are stored and
never deleted. `PageInv`: a satellite that was there at the first page and has not
been shown has a rank of at least the next offset. Rows are inserted before and
behind the reader, but none is removed, so ranks only grow; the lemmas about
ranks in finite sets of numbers say by how much.

### The process

`ReplicaProofs` proves for every number of requests and every pool:

* `TypeCorrect`: `Spec => []TypeOK`; it includes that the pool is never overdrawn.
* `PoolNeverDeadlocks`: `Spec => []NoPoolDeadlock`.
* `ShutdownLeavesNobody`: `Spec => []NobodyIsLeftBehind`.

Assumptions. `ReplicaParameters`: finitely many requests, a pool of at least one
connection.

The argument. `HoldsItsShare` says how many connections a task holds at each
place; a task that waits and holds one can only be the outbox worker with its
first, so a pool of two is not full of waiting holders. `PhaseInv` goes through
the phases of the lifespan: who may run in each. The outbox task may have ended
in any of them, which disturbs no promise to the others; where its end takes the
lifespan with it (`CloseFails` in `stopOutbox`), it was the last task.

## 6. What is only model-checked

Every invariant and every action property of the runs that pass is also proved.
TLC alone checks

* liveness (`NoZombies`, `JobsKeepRunning`, `EventsAreClosed`, `IngestCatchesUp`,
  `RequestsEnd`, `DispatchesEnd`, `ShutdownCompletes`), which rests on fairness
  and `ENABLED`, out of reach of the prover;
* the five findings, which are counterexamples.

The inductive invariants hold on the instances of section 3 too, where TLC can
check them directly.

## 7. Plan

Done: all modules of section 2 with their runs, the refinement, and the
proofs of every safety property. Left:

1. `Pipeline`: scheduler, ingest, outbox and recomputation composed, with the
   end-to-end property that a changed TLE reaches the predictions.
2. The grouping of the body's lines into records; handler registries that differ
   between replicas in `OutboxWorker`.

### Not modelled

* Orbit propagation and geometry: numerical code of skyfield and PostGIS. The
  models take their results as inputs.
* What a client sees after the answer: a 201 whose commit is still under way or
  has failed is modelled (`lost`), but nothing is claimed of a read that follows
  it, and nothing of the `total` of a page, which is counted by a statement of
  its own.
* The check of the time zone at the start, CORS, the bodies of errors, response
  schemas, logging.
* `asyncpg`: when `conn.close()` raises in the outbox worker's `finally`; the
  model lets it raise at any time.
* Migrations beyond the constraints and defaults that the modules rely on;
  deployment and backups, which run outside of the program.
