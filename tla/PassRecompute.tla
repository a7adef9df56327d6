---------------------------- MODULE PassRecompute ----------------------------
(***************************************************************************)
(* The tracking pipeline of apsis behind the outbox: the refresh of a TLE  *)
(* publishes tle.refreshed (use_cases/ingest_tles.py), and the handler     *)
(* recompute_passes (event_handlers/recompute_passes.py) replaces the      *)
(* predictions of the satellite over every ground station                  *)
(* (use_cases/compute_passes.py, repos/pass_prediction.py).                *)
(*                                                                         *)
(* The handler runs in one READ COMMITTED transaction, one statement per   *)
(* action.  A DELETE sees the rows committed when it starts, goes through  *)
(* them one by one, waits for the transactions that have deleted one, and  *)
(* never sees what those have inserted meanwhile.  An INSERT waits for the *)
(* transactions that have inserted or deleted a row of the same key.       *)
(*                                                                         *)
(* The outbox is reduced to what OutboxWorker shows of it: a locked event  *)
(* has one owner until the session is lost, an event stays pending until a *)
(* dispatch of it succeeds or it is given up.                              *)
(***************************************************************************)
EXTENDS Integers, FiniteSets

CONSTANTS
  Replicas,     \* the processes that drain the outbox
  Satellites,
  Stations,     \* the ground stations that ever exist, numbered in the order
                \* of their names, which are unique
  Instants,     \* the aos_at of passes that are told apart, in their order
  MaxVersion,   \* bound: TLE versions of a satellite
  MaxRuns,      \* bound: runs of the handler
  MaxFaults,    \* bound: failed runs, crashes and lost sessions
  NoEvent

ASSUME RecomputeParameters ==
  /\ Stations \subseteq Nat \ {0} /\ IsFiniteSet(Stations)
  /\ Instants \subseteq Nat /\ IsFiniteSet(Instants)
  /\ MaxVersion \in Nat /\ MaxRuns \in Nat /\ MaxFaults \in Nat
  /\ NoEvent \notin Satellites \X (1 .. MaxVersion)

VARIABLES
  version,      \* the version of the TLE each satellite's row holds
  stations,     \* committed ground_stations
  known,        \* stations when the satellite's TLE last changed
  pending,      \* outbox events to be processed: <<satellite, version>>
  dead,         \* events given up as FAILED
  passes,       \* committed pass_predictions
  task,         \* what each replica does: where it stands, the event and
                \* whether its row lock is still held, the number of the run
                \* and whether no other run of the satellite has met it, the
                \* station at hand and those it has still to do, the TLE read
                \* for it and the passes found and not yet inserted, the rows
                \* its DELETE has still to go through, and the rows it has
                \* deleted and inserted
  crossed,      \* satellites whose last committed run has met another
  runs,         \* runs so far
  faults        \* faults so far

vars == <<version, stations, known, pending, dead, passes, task, crossed, runs, faults>>

EventSet  == Satellites \X (1 .. MaxVersion)
PassSet   == [sat : Satellites, station : Stations, aos : Instants,
              tle : 0 .. MaxVersion, run : 1 .. MaxRuns]
Locations == {"idle", "list", "read", "delete", "deleting", "insert", "commit", "close"}
Tasks     == [at : Locations, event : EventSet \cup {NoEvent}, owns : BOOLEAN,
              run : 0 .. MaxRuns, alone : BOOLEAN,
              station : Stations \cup {0}, todo : SUBSET Stations,
              tle : 0 .. MaxVersion, found : SUBSET Instants, seen : SUBSET PassSet,
              deleted : SUBSET PassSet, inserted : SUBSET PassSet]

TypeOK ==
  /\ version  \in [Satellites -> 0 .. MaxVersion]
  /\ stations \subseteq Stations
  /\ known    \in [Satellites -> SUBSET Stations]
  /\ pending  \subseteq EventSet
  /\ dead     \subseteq EventSet
  /\ passes   \subseteq PassSet
  /\ DOMAIN task = Replicas
  /\ \A r \in Replicas : task[r] \in Tasks
  /\ crossed  \subseteq Satellites
  /\ runs     \in 0 .. MaxRuns
  /\ faults   \in 0 .. MaxFaults

Idle == [at |-> "idle", event |-> NoEvent, owns |-> FALSE, run |-> 0, alone |-> TRUE,
         station |-> 0, todo |-> {}, tle |-> 0, found |-> {}, seen |-> {},
         deleted |-> {}, inserted |-> {}]

Init ==
  /\ version  = [s \in Satellites |-> 0]
  /\ stations = {}
  /\ known    = [s \in Satellites |-> {}]
  /\ pending  = {}
  /\ dead     = {}
  /\ passes   = {}
  /\ task     = [r \in Replicas |-> Idle]
  /\ crossed  = {}
  /\ runs     = 0
  /\ faults   = 0

-----------------------------------------------------------------------------
(* The other transactions of the system.                                    *)

\* The ingest finds a TLE that differs from the stored one, or a satellite it
\* does not know, and commits the upsert together with the event.
Refresh(s) ==
  /\ version[s] < MaxVersion
  /\ version' = [version EXCEPT ![s] = version[s] + 1]
  /\ known'   = [known EXCEPT ![s] = stations]
  /\ pending' = pending \cup {<<s, version[s] + 1>>}
  /\ UNCHANGED <<stations, dead, passes, task, crossed, runs, faults>>

\* Registering a station publishes nothing.
Register(g) ==
  /\ g \notin stations
  /\ stations' = stations \cup {g}
  /\ UNCHANGED <<version, known, pending, dead, passes, task, crossed, runs, faults>>

-----------------------------------------------------------------------------
(* The handler, in the process of replica r.                                *)

At(r, l) == task[r].at = l

Sat(r) == task[r].event[1]

Station(r) == task[r].station

\* A step that changes nothing but the run's own transaction.
Private(r, t) ==
  /\ task' = [task EXCEPT ![r] = t]
  /\ UNCHANGED <<version, stations, known, pending, dead, passes, crossed, runs, faults>>

\* The other runs of s whose transactions are open.
Company(r, s) ==
  {o \in Replicas \ {r} : ~At(o, "idle") /\ ~At(o, "close") /\ Sat(o) = s}

\* The dispatch of an event begins; the runs it meets are not alone any more.
Started(r, e) ==
  [Idle EXCEPT !.at = "list", !.event = e, !.owns = TRUE, !.run = runs + 1,
               !.alone = Company(r, e[1]) = {}]

Claim(r) ==
  /\ At(r, "idle")
  /\ runs < MaxRuns
  /\ runs' = runs + 1
  /\ \E e \in pending :
       /\ \A o \in Replicas : ~(task[o].owns /\ task[o].event = e)
       /\ task' = [o \in Replicas |->
                     IF o = r THEN Started(r, e)
                     ELSE IF o \in Company(r, e[1]) THEN [task[o] EXCEPT !.alone = FALSE]
                     ELSE task[o]]
  /\ UNCHANGED <<version, stations, known, pending, dead, passes, crossed, faults>>

\* The definitions named Wrong... are deliberate mistakes: what the handler
\* would be with one plausible bug.  No specification uses them; each shows that
\* a property is able to tell the bug from the code.

\* list_all without ORDER BY.
WrongFirst(S) == S

\* The least of a set, if there is one: list_all orders the stations by name, and
\* the passes of a station are found in the order of time.
First(S) == {x \in S : \A y \in S : x <= y}

\* Where the loop over the stations goes on.
NextStation(todo) == IF todo = {} THEN "commit" ELSE "read"

\* list_all of the ground stations that are committed by now.
ListStations(r) ==
  /\ At(r, "list")
  /\ Private(r, [task[r] EXCEPT !.at = NextStation(stations), !.todo = stations])

\* The TLE comes with the event instead of from the satellite's row.
WrongTleRead(r) == task[r].event[2]

\* The satellite's row as it is committed by now.  No reference to the object
\* outlives the call for a station, so the session, whose identity map is weak,
\* does not give the next station the elements of this one.
TleRead(r) == version[Sat(r)]

\* The next station: get_by_id of the satellite, and the passes of its TLE,
\* which depend on the instant at which the run began to look for them.
ReadSatellite(r) ==
  /\ At(r, "read")
  /\ \E g \in First(task[r].todo), found \in (SUBSET Instants) \ {{}} :
       Private(r, [task[r] EXCEPT !.at = "delete", !.station = g, !.todo = task[r].todo \ {g},
                                  !.tle = TleRead(r), !.found = found])

\* Only the predictions of the TLE that is being replaced are deleted.
WrongRowsOf(s, g) ==
  {p \in passes : p.sat = s /\ p.station = g /\ p.tle + 1 = version[s]}

\* The committed rows of the pair that are still there.
RowsOf(s, g) == {p \in passes : p.sat = s /\ p.station = g}

\* Whether the DELETE has gone through what it saw.
Deleting(seen) == IF seen = {} THEN "insert" ELSE "deleting"

\* The DELETE starts: it sees what is committed now.
StartDelete(r) ==
  /\ At(r, "delete")
  /\ LET seen == RowsOf(Sat(r), Station(r))
     IN  Private(r, [task[r] EXCEPT !.at = Deleting(seen), !.seen = seen])

\* A row that nobody else has deleted, in whatever order the scan meets them.
\* One that is not there any more is passed over.
DeleteRow(r) ==
  /\ At(r, "deleting")
  /\ \E p \in task[r].seen :
       /\ \A o \in Replicas \ {r} : p \notin task[o].deleted
       /\ Private(r, [task[r] EXCEPT !.at = Deleting(task[r].seen \ {p}),
                                     !.seen = task[r].seen \ {p},
                                     !.deleted = task[r].deleted \cup ({p} \cap passes)])

\* The two ids are swapped.
WrongNewPass(r, aos) ==
  [sat |-> Station(r), station |-> Sat(r), aos |-> aos, tle |-> task[r].tle,
   run |-> task[r].run]

NewPass(r, aos) ==
  [sat |-> Sat(r), station |-> Station(r), aos |-> aos, tle |-> task[r].tle,
   run |-> task[r].run]

\* The unique key (satellite_id, ground_station_id, aos_at) of the next row.
HasKey(p, r) ==
  p.sat = Sat(r) /\ p.station = Station(r) /\ p.aos \in First(task[r].found)

\* The rows that make a run wait for another: a DELETE meets one that the other
\* has deleted, an INSERT one of the same key that the other has inserted or
\* deleted.
WaitsFor(r, o) ==
  /\ r # o
  /\ \/ At(r, "deleting") /\ task[r].seen \cap task[o].deleted # {}
     \/ /\ At(r, "insert")
        /\ \E p \in task[o].deleted \cup task[o].inserted : HasKey(p, r)

\* The INSERT that waits for nobody.
MayInsert(r) == At(r, "insert") /\ \A o \in Replicas : ~WaitsFor(r, o)

Taken(r) == \E p \in passes \ task[r].deleted : HasKey(p, r)

\* The commit is inside the loop over the stations, and so is the return.
WrongAfterInsert(r, found) == IF found # {} THEN "insert" ELSE "commit"

\* Where the run goes on when found has still to be inserted.
AfterInsert(r, found) == IF found # {} THEN "insert" ELSE NextStation(task[r].todo)

Insert(r) ==
  /\ MayInsert(r) /\ ~Taken(r)
  /\ \E aos \in First(task[r].found) :
       LET found == task[r].found \ {aos}
       IN  Private(r, [task[r] EXCEPT !.at = AfterInsert(r, found), !.found = found,
                                      !.inserted = task[r].inserted \cup {NewPass(r, aos)}])

Commit(r) ==
  /\ At(r, "commit")
  /\ passes' = (passes \ task[r].deleted) \cup task[r].inserted
  /\ crossed' = IF task[r].alone THEN crossed \ {Sat(r)} ELSE crossed \cup {Sat(r)}
  /\ task' = [task EXCEPT ![r] = [task[r] EXCEPT !.at = "close", !.deleted = {},
                                                !.inserted = {}]]
  /\ UNCHANGED <<version, stations, known, pending, dead, runs, faults>>

-----------------------------------------------------------------------------
(* The end of a dispatch, and what may cut it short.                        *)

\* The session of the handler ends: what it has not committed is rolled back.
LetGo(r) == task' = [task EXCEPT ![r] = Idle]

\* The worker commits PROCESSED, or finds that its session is lost.
Close(r) ==
  /\ At(r, "close")
  /\ pending' = IF task[r].owns THEN pending \ {task[r].event} ELSE pending
  /\ LetGo(r)
  /\ UNCHANGED <<version, stations, known, dead, passes, crossed, runs, faults>>

CountFault ==
  /\ faults < MaxFaults
  /\ faults' = faults + 1

\* The process dies or the handler fails at any point, its own commit or the
\* commit of the verdict included: the event is retried.
Fail(r) ==
  /\ ~At(r, "idle")
  /\ CountFault
  /\ LetGo(r)
  /\ UNCHANGED <<version, stations, known, pending, dead, passes, crossed, runs>>

\* The handler fails for the last time.
FailForGood(r) ==
  /\ ~At(r, "idle") /\ task[r].owns
  /\ CountFault
  /\ pending' = pending \ {task[r].event}
  /\ dead' = dead \cup {task[r].event}
  /\ LetGo(r)
  /\ UNCHANGED <<version, stations, known, passes, crossed, runs>>

\* Another run has committed a row of the same key since the DELETE saw the
\* table: the unique constraint makes the INSERT raise.
InsertClashes(r) == MayInsert(r) /\ Taken(r) /\ Private(r, Idle)

\* The runs of S wait for each other in a circle, or in several that are linked:
\* wherever S is parted, somebody waits across.
Cyclic(S) ==
  \A T \in (SUBSET S) \ {{}, S} : \E o \in T, q \in S \ T : WaitsFor(o, q)

\* PostgreSQL aborts a transaction of a cycle of waiting ones.
DeadlockVictim(r) ==
  /\ \E S \in SUBSET Replicas : r \in S /\ S # {r} /\ Cyclic(S)
  /\ Private(r, Idle)

\* The outbox worker's session is lost while the handler runs in its own.
LoseEvent(r) ==
  /\ task[r].owns
  /\ CountFault
  /\ task' = [task EXCEPT ![r] = [task[r] EXCEPT !.owns = FALSE]]
  /\ UNCHANGED <<version, stations, known, pending, dead, passes, crossed, runs>>

-----------------------------------------------------------------------------
Handle(r) ==
  \/ Claim(r)
  \/ ListStations(r)
  \/ ReadSatellite(r)
  \/ StartDelete(r)
  \/ DeleteRow(r)
  \/ Insert(r)
  \/ InsertClashes(r)
  \/ DeadlockVictim(r)
  \/ Commit(r)
  \/ Close(r)

Next ==
  \/ \E s \in Satellites : Refresh(s)
  \/ \E g \in Stations : Register(g)
  \/ \E r \in Replicas : Handle(r) \/ Fail(r) \/ FailForGood(r) \/ LoseEvent(r)

Spec == Init /\ [][Next]_vars

-----------------------------------------------------------------------------
(* Properties.                                                              *)

\* All events of s are closed, the last one successfully, and no handler
\* works on it.
Settled(s) ==
  /\ \A e \in pending : e[1] # s
  /\ <<s, version[s]>> \notin dead
  /\ \A r \in Replicas : ~At(r, "idle") => Sat(r) # s

Fresh(s) == \A p \in passes : p.sat = s => p.tle = version[s]

\* recompute_passes.py:19, "running the handler again converges to the same
\* state": once the events of a satellite are processed, no prediction of it
\* comes from an older TLE than the one stored.
NoStalePasses == \A s \in Satellites : Settled(s) => Fresh(s)

\* The same for the satellites whose last committed run has met no other: a
\* recomputation that runs alone repairs whatever crossed runs, retries and
\* redeliveries of recompute_passes have left behind.
FreshUnlessCrossed ==
  \A s \in Satellites \ crossed : Settled(s) => Fresh(s)

\* compute_passes.py:17, "deletes the previous predictions of the pair and
\* reinserts the new ones": after a recomputation that has met no other, a pair
\* has the passes of one run only, whatever was there before.
OneRunPerPair ==
  \A p, q \in passes :
    p.sat = q.sat /\ p.station = q.station /\ p.sat \notin crossed => p.run = q.run

\* Every station that was registered when the TLE last changed has passes
\* computed, whichever replicas handled the events and in which order.
StationsCovered ==
  \A s \in Satellites : Settled(s) =>
    \A g \in known[s] : RowsOf(s, g) # {}

\* Each of these runs waits for one of them.
Deadlocked(S) == S # {} /\ \A r \in S : \E o \in S : WaitsFor(r, o)

\* Recomputations that wait for each other do so over one pair only: each takes
\* the stations in the order of list_all (ground_station.py:14-16), so that runs at
\* different stations never deadlock, however many there are.
DeadlocksAreLocal ==
  \A S \in SUBSET Replicas : Deadlocked(S) =>
    \E r \in S : Deadlocked({o \in S : Sat(o) = Sat(r) /\ Station(o) = Station(r)})

=============================================================================
