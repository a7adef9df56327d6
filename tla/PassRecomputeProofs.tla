------------------------ MODULE PassRecomputeProofs ------------------------
(***************************************************************************)
(* What PassRecompute guarantees for any number of replicas, satellites,   *)
(* stations, instants, versions and runs: recomputations that wait for     *)
(* each other do so over one pair, one that meets no other leaves the      *)
(* passes of its run only, computed from the TLE that is stored, and every *)
(* station known when the TLE changed has passes once its events are       *)
(* closed.                                                                 *)
(***************************************************************************)
EXTENDS PassRecompute, FiniteSetTheorems, WellFoundedInduction, TLAPS

\* The transaction of the handler is open, it works on one station.
Open(r)   == task[r].at \notin {"idle", "close"}
AtHand(r) == task[r].at \in {"delete", "deleting", "insert"}

Current(s) == <<s, version[s]>>

\* A run handles an event there was, and has read no older TLE than that of the
\* event.
RunShape(r) ==
  /\ ~At(r, "idle") => task[r].event \in EventSet /\ task[r].event[2] <= version[Sat(r)]
  /\ ~At(r, "idle") => task[r].run \in 1 .. MaxRuns
  /\ At(r, "list") => task[r].deleted = {} /\ task[r].inserted = {}
  /\ AtHand(r) => task[r].event[2] <= task[r].tle /\ task[r].tle <= version[Sat(r)]
  /\ At(r, "commit") => task[r].todo = {}

\* The rows a run has written.
Written(r) == task[r].deleted \cup task[r].inserted

\* The stations come one after the other, and the rows are of those before and
\* of the one at hand.
RunOrder(r) ==
  /\ task[r].todo \subseteq stations
  /\ AtHand(r) => task[r].station \in stations /\ \A g \in task[r].todo : task[r].station < g
  /\ At(r, "deleting") => \A p \in task[r].seen : p.sat = Sat(r) /\ p.station = task[r].station
  /\ Open(r) => \A p \in Written(r) :
       /\ p.sat = Sat(r)
       /\ \A g \in task[r].todo : p.station < g
       /\ AtHand(r) => p.station <= task[r].station

\* What it inserts is its own, and replaces what it deletes.
RunWrites(r) ==
  Open(r) =>
    /\ \A p \in task[r].inserted : /\ p.station \in stations /\ p.run = task[r].run
                                   /\ task[r].event[2] <= p.tle /\ p.tle <= version[Sat(r)]
    /\ \A p \in task[r].deleted :
         \/ (At(r, "deleting") \/ At(r, "insert")) /\ p.station = task[r].station
         \/ \E q \in task[r].inserted : q.station = p.station

\* A station that was known when the TLE last changed is not left out by a run
\* that handles that change.
RunCovers(r) ==
  Open(r) /\ ~At(r, "list") /\ task[r].event = Current(Sat(r)) =>
    \A g \in known[Sat(r)] :
      \/ g \in task[r].todo
      \/ AtHand(r) /\ g = task[r].station
      \/ \E q \in task[r].inserted : q.station = g

\* No row of the satellite escapes a run that meets no other.
RunReplaces(r) ==
  Open(r) /\ ~At(r, "list") /\ task[r].alone =>
    \A p \in passes : p.sat = Sat(r) =>
      \/ p \in task[r].deleted
      \/ p.station \in task[r].todo
      \/ At(r, "delete") /\ p.station = task[r].station
      \/ At(r, "deleting") /\ p \in task[r].seen

\* Runs of a satellite that are in progress together know of it.
Meet == \A r, o \in Replicas :
  r # o /\ Open(r) /\ Open(o) /\ Sat(r) = Sat(o) => task[r].alone = FALSE

\* Nothing is ahead of the satellite's row or of the stations.
Behind ==
  /\ \A p \in passes : p.station \in stations /\ p.tle <= version[p.sat]
  /\ \A e \in pending \cup dead : e[2] <= version[e[1]]
  /\ \A s \in Satellites : known[s] \subseteq stations /\ (version[s] = 0 => known[s] = {})

\* Without a crossing, all passes of a satellite are of one run.
OneRun == \A p, q \in passes : p.sat = q.sat /\ p.sat \notin crossed => p.run = q.run

\* The last change of the TLE has been answered by a run that committed.
Answered(s) ==
  \/ Current(s) \notin pending \cup dead
  \/ \E r \in Replicas : At(r, "close") /\ task[r].event = Current(s)

\* Nothing a run has read or computed is older than the stored TLE, unless it
\* has met another.
FreshRun(r) ==
  task[r].alone =>
    /\ AtHand(r) => task[r].tle = version[Sat(r)]
    /\ \A q \in task[r].inserted : q.tle = version[Sat(r)]

\* The rows are of the stored TLE, and so is what the runs in progress will
\* make of them.
FreshNow(s) ==
  /\ s \in crossed \/ Fresh(s)
  /\ \A r \in Replicas : Open(r) /\ Sat(r) = s => FreshRun(r)

Covered(s) == \A g \in known[s] : \E p \in passes : p.sat = s /\ p.station = g

Answers == \A s \in Satellites : Answered(s) => FreshNow(s) /\ Covered(s)

RunInv == \A r \in Replicas : RunShape(r) /\ RunOrder(r) /\ RunWrites(r) /\ RunCovers(r) /\ RunReplaces(r)

RecomputeInv == TypeOK /\ RunInv /\ Meet /\ Behind /\ OneRun /\ Answers

-----------------------------------------------------------------------------
(* The record of a run.                                                     *)

Events   == EventSet \cup {NoEvent}
Numbers  == 0 .. MaxRuns
Versions == 0 .. MaxVersion
Hands    == Stations \cup {0}
Lists    == SUBSET Stations
Rows     == SUBSET PassSet
Finds    == SUBSET Instants

\* The types of its fields, by name.
LEMMA TasksByField ==
  Tasks = [at : Locations, event : Events, owns : BOOLEAN, run : Numbers, alone : BOOLEAN,
           station : Hands, todo : Lists, tle : Versions, found : Finds, seen : Rows,
           deleted : Rows, inserted : Rows]
BY DEF Tasks, Events, Numbers, Versions, Hands, Lists, Rows, Finds

LEMMA FieldTypes ==
  ASSUME NEW t \in Tasks
  PROVE  /\ t.at \in Locations /\ t.event \in Events /\ t.owns \in BOOLEAN
         /\ t.run \in Numbers /\ t.alone \in BOOLEAN /\ t.tle \in Versions
         /\ t.station \in Hands /\ t.todo \in Lists /\ t.found \in Finds /\ t.seen \in Rows
         /\ t.deleted \in Rows /\ t.inserted \in Rows
BY TasksByField

LEMMA IdleFields ==
  /\ Idle \in Tasks /\ Idle.at = "idle" /\ Idle.event = NoEvent /\ Idle.owns = FALSE
  /\ Idle.run = 0 /\ Idle.alone = TRUE /\ Idle.tle = 0 /\ Idle.station = 0 /\ Idle.todo = {}
  /\ Idle.found = {} /\ Idle.seen = {} /\ Idle.deleted = {} /\ Idle.inserted = {}
<1>1. "idle" \in Locations /\ NoEvent \in Events /\ 0 \in Numbers /\ 0 \in Versions
      /\ 0 \in Hands /\ {} \in Lists /\ {} \in Rows /\ {} \in Finds
  BY RecomputeParameters DEF Locations, Events, Numbers, Versions, Hands, Lists, Rows, Finds
<1> QED
  BY <1>1, TasksByField DEF Idle

-----------------------------------------------------------------------------
(* What a step leaves alone.                                                *)

\* The state in which all the tables are as they were.
SameTables == UNCHANGED <<version, stations, known, passes, crossed>>

\* A run that a step does not touch.
LEMMA OthersStay ==
  ASSUME RunInv, NEW o \in Replicas, task'[o] = task[o],
         UNCHANGED <<version, stations, known, passes>>
  PROVE  RunShape(o)' /\ RunOrder(o)' /\ RunWrites(o)' /\ RunCovers(o)' /\ RunReplaces(o)'
<1>1. RunShape(o) /\ RunOrder(o) /\ RunWrites(o) /\ RunCovers(o) /\ RunReplaces(o)
  BY DEF RunInv
<1>2. RunShape(o)'
  BY <1>1 DEF RunShape, At, Sat, AtHand
<1>3. RunOrder(o)'
  BY <1>1 DEF RunOrder, At, Sat, Open, AtHand, Written
<1>4. RunWrites(o)'
  BY <1>1 DEF RunWrites, At, Sat, Open
<1>5. RunCovers(o)'
  BY <1>1 DEF RunCovers, At, Sat, Open, AtHand, Current
<1>6. RunReplaces(o)'
  BY <1>1 DEF RunReplaces, At, Sat, Open
<1> QED
  BY <1>2, <1>3, <1>4, <1>5, <1>6

\* The types, in the form the steps need.
LEMMA Basics ==
  ASSUME TypeOK
  PROVE  /\ DOMAIN task = Replicas /\ \A r \in Replicas : task[r] \in Tasks
         /\ \A s \in Satellites : /\ version[s] \in Versions /\ version[s] \in Nat
                                  /\ known[s] \in Lists
         /\ \A e \in EventSet : e[1] \in Satellites /\ e[2] \in 1 .. MaxVersion /\ e = <<e[1], e[2]>>
         /\ \A p \in PassSet : /\ p.sat \in Satellites /\ p.station \in Stations
                               /\ p.tle \in Nat /\ p.run \in Nat
         /\ \A g \in Stations : g \in Nat /\ g # 0
         /\ NoEvent \notin EventSet /\ stations \in Lists /\ passes \in Rows
BY RecomputeParameters DEF TypeOK, EventSet, PassSet, Versions, Lists, Rows

\* A step in the open transaction of a run.
LEMMA PrivateKeeps ==
  ASSUME RecomputeInv, NEW r \in Replicas, NEW t \in Tasks, Private(r, t),
         Open(r), t.at \notin {"idle", "close"},
         t.event = task[r].event, t.alone = task[r].alone,
         RunShape(r)', RunOrder(r)', RunWrites(r)', RunCovers(r)', RunReplaces(r)',
         FreshRun(r) => FreshRun(r)'
  PROVE  RecomputeInv'
<1>1. TypeOK /\ RunInv /\ Meet /\ Behind /\ OneRun /\ Answers
  BY DEF RecomputeInv
<1>2. /\ task' = [task EXCEPT ![r] = t]
      /\ UNCHANGED <<version, stations, known, pending, dead, passes, crossed, runs, faults>>
  BY DEF Private
<1>3. task'[r] = t /\ \A o \in Replicas \ {r} : task'[o] = task[o]
  BY <1>1, <1>2 DEF TypeOK
<1>4. TypeOK'
  BY <1>1, <1>2, <1>3 DEF TypeOK
<1>5. RunInv'
  BY <1>1, <1>2, <1>3, OthersStay DEF RunInv
<1>6. Meet'
  <2>1. \A o \in Replicas : /\ Open(o)' <=> Open(o)
                            /\ Sat(o)' = Sat(o) /\ task'[o].alone = task[o].alone
    BY <1>3 DEF Open, Sat
  <2> QED
    BY <1>1, <2>1 DEF Meet
<1>7. Behind' /\ OneRun'
  BY <1>1, <1>2 DEF Behind, OneRun
<1>8. Answers'
  <2> SUFFICES ASSUME NEW s \in Satellites, Answered(s)' PROVE FreshNow(s)' /\ Covered(s)'
    BY DEF Answers
  <2>1. Current(s)' = Current(s)
    BY <1>2 DEF Current
  <2>2. \A o \in Replicas : At(o, "close")' /\ task'[o].event = Current(s)
                              => At(o, "close") /\ task[o].event = Current(s)
    BY <1>3 DEF At
  <2>3. Answered(s)
    BY <1>2, <2>1, <2>2 DEF Answered
  <2>4. FreshNow(s) /\ Covered(s)
    BY <1>1, <2>3 DEF Answers
  <2>5. Covered(s)'
    BY <1>2, <2>4 DEF Covered
  <2>6. s \in crossed' \/ Fresh(s)'
    BY <1>2, <2>4 DEF FreshNow, Fresh
  <2>7. ASSUME NEW o \in Replicas, Open(o)', Sat(o)' = s
        PROVE  FreshRun(o)'
    <3>1. CASE o # r
      <4>1. Open(o) /\ Sat(o) = s
        BY <1>3, <2>7, <3>1 DEF Open, Sat
      <4> QED
        BY <1>2, <1>3, <2>4, <3>1, <4>1 DEF FreshNow, FreshRun, AtHand, Sat
    <3>2. CASE o = r
      <4>1. Sat(r) = s
        BY <1>3, <2>7, <3>2 DEF Sat
      <4> QED
        BY <2>4, <3>2, <4>1 DEF FreshNow
    <3> QED
      BY <3>1, <3>2
  <2> QED
    BY <2>5, <2>6, <2>7 DEF FreshNow
<1> QED
  BY <1>4, <1>5, <1>6, <1>7, <1>8 DEF RecomputeInv

\* A dispatch is over, with or without a commit before; the event may be closed.
LEMMA LeaveKeeps ==
  ASSUME RecomputeInv, NEW r \in Replicas, LetGo(r), SameTables, UNCHANGED runs,
         faults' \in 0 .. MaxFaults, pending' \subseteq pending,
         dead' \subseteq EventSet, \A e \in dead' : e[2] <= version[e[1]],
         \A s \in Satellites : Answered(s)' => Answered(s)
  PROVE  RecomputeInv'
<1>1. TypeOK /\ RunInv /\ Meet /\ Behind /\ OneRun /\ Answers
  BY DEF RecomputeInv
<1>2. task' = [task EXCEPT ![r] = Idle] /\ UNCHANGED <<version, stations, known, passes, crossed>>
  BY DEF LetGo, SameTables
<1>3. task'[r] = Idle /\ \A o \in Replicas \ {r} : task'[o] = task[o]
  BY <1>1, <1>2 DEF TypeOK
<1>4. TypeOK'
  BY <1>1, <1>2, <1>3, IdleFields DEF TypeOK
<1>5. RunInv'
  <2>1. RunShape(r)' /\ RunWrites(r)' /\ RunCovers(r)' /\ RunReplaces(r)' /\ RunOrder(r)'
    BY <1>3, IdleFields DEF RunShape, RunOrder, RunWrites, RunCovers, RunReplaces, At, Open,
                            AtHand
  <2> QED
    BY <1>1, <1>2, <1>3, <2>1, OthersStay DEF RunInv
<1>6. \A o \in Replicas : Open(o)' => o # r
  BY <1>3, IdleFields DEF Open
<1>7. Meet'
  <2> SUFFICES ASSUME NEW p \in Replicas, NEW o \in Replicas, p # o, Open(p)', Open(o)',
                      Sat(p)' = Sat(o)'
               PROVE  task'[p].alone = FALSE
    BY DEF Meet
  <2>1. task'[p] = task[p] /\ task'[o] = task[o]
    BY <1>3, <1>6
  <2> QED
    BY <1>1, <2>1 DEF Meet, Open, Sat
<1>8. Behind' /\ OneRun'
  BY <1>1, <1>2 DEF Behind, OneRun
<1>9. Answers'
  <2> SUFFICES ASSUME NEW s \in Satellites, Answered(s)' PROVE FreshNow(s)' /\ Covered(s)'
    BY DEF Answers
  <2>1. FreshNow(s) /\ Covered(s)
    BY <1>1 DEF Answers
  <2>2. Covered(s)'
    BY <1>2, <2>1 DEF Covered
  <2>3. s \in crossed' \/ Fresh(s)'
    BY <1>2, <2>1 DEF FreshNow, Fresh
  <2>4. ASSUME NEW o \in Replicas, Open(o)', Sat(o)' = s
        PROVE  FreshRun(o)'
    <3>1. task'[o] = task[o]
      BY <1>3, <1>6, <2>4
    <3>2. Open(o) /\ Sat(o) = s
      BY <2>4, <3>1 DEF Open, Sat
    <3> QED
      BY <1>2, <2>1, <3>1, <3>2 DEF FreshNow, FreshRun, AtHand, Sat
  <2> QED
    BY <2>2, <2>3, <2>4 DEF FreshNow
<1> QED
  BY <1>4, <1>5, <1>7, <1>8, <1>9 DEF RecomputeInv

-----------------------------------------------------------------------------
(* The statements of a run.                                                 *)

\* What the invariant says of a run in progress.
LEMMA RunFacts ==
  ASSUME RecomputeInv, NEW r \in Replicas
  PROVE  /\ TypeOK /\ task[r] \in Tasks
         /\ RunShape(r) /\ RunOrder(r) /\ RunWrites(r) /\ RunCovers(r) /\ RunReplaces(r)
         /\ Open(r) => /\ task[r].event \in EventSet /\ Sat(r) \in Satellites
                       /\ version[Sat(r)] \in Versions /\ known[Sat(r)] \subseteq stations
                       /\ task[r].event[2] <= version[Sat(r)]
                       /\ task[r].run \in 1 .. MaxRuns
         /\ stations \in Lists /\ passes \in Rows
         /\ \A p \in passes : p.station \in stations
         /\ \A g \in Stations : g \in Nat /\ g # 0
<1>1. TypeOK /\ RunInv /\ Behind
  BY DEF RecomputeInv
<1>2. Open(r) => ~At(r, "idle")
  BY DEF Open, At
<1>3. RunShape(r)
  BY <1>1 DEF RunInv
<1>4. Open(r) => task[r].event \in EventSet /\ task[r].event[2] <= version[Sat(r)]
                 /\ task[r].run \in 1 .. MaxRuns
  BY <1>2, <1>3 DEF RunShape
<1>5. Open(r) => Sat(r) \in Satellites
  BY <1>1, <1>4, Basics DEF Sat
<1> QED
  BY <1>1, <1>3, <1>4, <1>5, Basics DEF RunInv, Behind

LEMMA ListKeeps ==
  ASSUME RecomputeInv, NEW r \in Replicas, ListStations(r)
  PROVE  RecomputeInv'
<1> DEFINE l == NextStation(stations)
           t == [task[r] EXCEPT !.at = l, !.todo = stations]
<1>1. At(r, "list") /\ Private(r, t)
  BY DEF ListStations
<1>2. Open(r) /\ ~AtHand(r) /\ task[r] \in Tasks
  BY <1>1, RunFacts DEF Open, AtHand, At
<1>3. l \in Locations /\ l \in {"commit", "read"} /\ (l = "commit" => stations = {}) /\ stations \in Lists
  BY RunFacts DEF Locations, NextStation
<1> HIDE DEF l
<1>4. t \in Tasks
  BY <1>2, <1>3, TasksByField
<1>5. /\ t.at = l /\ t.todo = stations /\ t.event = task[r].event /\ t.run = task[r].run
      /\ t.alone = task[r].alone /\ t.deleted = task[r].deleted /\ t.inserted = task[r].inserted
  BY <1>2, TasksByField
<1> HIDE DEF t
<1>6. task'[r] = t /\ UNCHANGED <<version, stations, known, passes>>
  BY <1>1, RunFacts, Basics DEF Private
<1>7. task[r].deleted = {} /\ task[r].inserted = {}
  BY <1>1, RunFacts DEF RunShape
<1>8. ~AtHand(r)' /\ ~At(r, "deleting")' /\ ~At(r, "insert")' /\ ~At(r, "idle")' /\ ~At(r, "list")'
  BY <1>3, <1>5, <1>6 DEF AtHand, At
<1>9. RunShape(r)'
  BY <1>2, <1>3, <1>5, <1>6, <1>8, RunFacts DEF RunShape, At, Sat
<1>10. RunOrder(r)' /\ RunWrites(r)'
  BY <1>5, <1>6, <1>7, <1>8 DEF RunOrder, RunWrites, Written
<1>11. RunCovers(r)'
  BY <1>2, <1>5, <1>6, RunFacts DEF RunCovers, Sat
<1>12. RunReplaces(r)'
  BY <1>5, <1>6, RunFacts DEF RunReplaces
<1>13. FreshRun(r)'
  BY <1>5, <1>6, <1>7, <1>8 DEF FreshRun
<1>14. t.at \notin {"idle", "close"}
  BY <1>3, <1>5
<1> QED
  BY <1>1, <1>2, <1>4, <1>5, <1>9, <1>10, <1>11, <1>12, <1>13, <1>14, PrivateKeeps

LEMMA ReadKeeps ==
  ASSUME RecomputeInv, NEW r \in Replicas, ReadSatellite(r)
  PROVE  RecomputeInv'
<1>1. PICK g \in First(task[r].todo), fd \in (SUBSET Instants) \ {{}} :
        Private(r, [task[r] EXCEPT !.at = "delete", !.station = g, !.todo = task[r].todo \ {g},
                                   !.tle = TleRead(r), !.found = fd])
  BY DEF ReadSatellite
<1> DEFINE d == task[r].todo \ {g}
           v == TleRead(r)
           t == [task[r] EXCEPT !.at = "delete", !.station = g, !.todo = d, !.tle = v, !.found = fd]
<1>2. At(r, "read") /\ Private(r, t)
  BY <1>1 DEF ReadSatellite
<1>3. Open(r) /\ ~AtHand(r) /\ task[r] \in Tasks
  BY <1>2, RunFacts DEF Open, AtHand, At
<1>4. task[r].todo \in Lists /\ task[r].todo \subseteq stations /\ g \in task[r].todo
      /\ \A h \in task[r].todo : g <= h
  BY <1>3, FieldTypes, RunFacts DEF First, RunOrder
<1>5. g \in Stations /\ g \in Nat /\ g \in stations /\ \A h \in task[r].todo : h \in Nat
  BY <1>4, RunFacts DEF Lists
<1>6. "delete" \in Locations /\ g \in Hands /\ d \in Lists /\ fd \in Finds
      /\ d \subseteq stations /\ \A h \in d : g < h
  BY <1>4, <1>5, RunFacts DEF Locations, Hands, Lists, Finds
<1>7. v = version[Sat(r)] /\ v \in Versions /\ v <= v
  BY <1>3, RunFacts DEF TleRead, Versions
<1>8. \A h \in task[r].todo : h = g \/ h \in d
  OBVIOUS
<1>9. \A h \in d : h \in task[r].todo
  OBVIOUS
<1> HIDE DEF d, v
<1>10. t \in Tasks
  BY <1>3, <1>6, <1>7, TasksByField
<1>11. /\ t.at = "delete" /\ t.tle = v /\ t.todo = d /\ t.event = task[r].event
       /\ t.run = task[r].run /\ t.alone = task[r].alone /\ t.station = g
       /\ t.deleted = task[r].deleted /\ t.inserted = task[r].inserted
  BY <1>3, TasksByField
<1> HIDE DEF t
<1>12. task'[r] = t /\ UNCHANGED <<version, stations, known, passes>>
  BY <1>2, RunFacts, Basics DEF Private
<1>13. Sat(r)' = Sat(r) /\ Written(r)' = Written(r)
  BY <1>11, <1>12 DEF Sat, Written
<1>14. RunShape(r)'
  BY <1>3, <1>7, <1>11, <1>12, <1>13, RunFacts DEF RunShape, At
<1>15. RunOrder(r)'
  <2>1. \A p \in Written(r) : p.sat = Sat(r) /\ \A h \in task[r].todo : p.station < h
    BY <1>3, RunFacts DEF RunOrder
  <2>2. \A p \in Written(r) : p.station \in Nat
    BY <1>3, FieldTypes, RunFacts, Basics DEF Written, Rows
  <2>3. \A p \in Written(r) : p.station <= g /\ \A h \in d : p.station < h
    BY <1>4, <1>5, <1>9, <2>1, <2>2
  <2> QED
    BY <1>5, <1>6, <1>11, <1>12, <1>13, <2>1, <2>3 DEF RunOrder, At
<1>16. RunWrites(r)'
  BY <1>2, <1>3, <1>11, <1>12, <1>13, RunFacts DEF RunWrites, At
<1>17. RunCovers(r)'
  <2>1. task[r].event = Current(Sat(r)) => \A h \in known[Sat(r)] :
          h = g \/ h \in d \/ \E q \in task[r].inserted : q.station = h
    BY <1>2, <1>3, <1>8, RunFacts DEF RunCovers, At
  <2>2. AtHand(r)' /\ task'[r].station = g /\ task'[r].todo = d
    BY <1>11, <1>12 DEF AtHand
  <2> QED
    BY <1>11, <1>12, <1>13, <2>1, <2>2 DEF RunCovers, Current
<1>18. RunReplaces(r)'
  BY <1>2, <1>3, <1>8, <1>11, <1>12, <1>13, RunFacts DEF RunReplaces, At
<1>19. FreshRun(r) => FreshRun(r)'
  BY <1>7, <1>11, <1>12, <1>13 DEF FreshRun
<1> QED
  BY <1>2, <1>3, <1>10, <1>11, <1>14, <1>15, <1>16, <1>17, <1>18, <1>19, PrivateKeeps

LEMMA StartDeleteKeeps ==
  ASSUME RecomputeInv, NEW r \in Replicas, StartDelete(r)
  PROVE  RecomputeInv'
<1> DEFINE S == RowsOf(Sat(r), Station(r))
           l == Deleting(S)
           t == [task[r] EXCEPT !.at = l, !.seen = S]
<1>1. At(r, "delete") /\ Private(r, t)
  BY DEF StartDelete
<1>2. Open(r) /\ AtHand(r) /\ ~At(r, "deleting") /\ ~At(r, "insert") /\ ~At(r, "list") /\ task[r] \in Tasks
  BY <1>1, RunFacts DEF Open, AtHand, At
<1>3. /\ l \in Locations /\ l \in {"insert", "deleting"} /\ (l = "insert" => S = {})
      /\ S \in Rows
  BY RunFacts DEF Locations, Deleting, Rows, RowsOf
<1>4. /\ \A p \in passes : p.sat = Sat(r) /\ p.station = task[r].station => p \in S
      /\ \A p \in S : p.sat = Sat(r) /\ p.station = task[r].station
  BY DEF RowsOf, Station
<1> HIDE DEF S, l
<1>5. t \in Tasks
  BY <1>2, <1>3, TasksByField
<1>6. /\ t.at = l /\ t.tle = task[r].tle /\ t.todo = task[r].todo /\ t.event = task[r].event
      /\ t.run = task[r].run /\ t.alone = task[r].alone /\ t.station = task[r].station
      /\ t.seen = S /\ t.deleted = task[r].deleted /\ t.inserted = task[r].inserted
  BY <1>2, TasksByField
<1> HIDE DEF t
<1>7. task'[r] = t /\ UNCHANGED <<version, stations, known, passes>>
  BY <1>1, RunFacts, Basics DEF Private
<1>8. Sat(r)' = Sat(r) /\ Written(r)' = Written(r) /\ AtHand(r)' /\ ~At(r, "list")' /\ ~At(r, "idle")'
      /\ ~At(r, "commit")' /\ ~At(r, "delete")'
  BY <1>3, <1>6, <1>7 DEF Sat, Written, AtHand, At
<1>9. RunShape(r)'
  BY <1>2, <1>6, <1>7, <1>8, RunFacts DEF RunShape
<1>10. RunOrder(r)'
  BY <1>2, <1>4, <1>6, <1>7, <1>8, RunFacts DEF RunOrder
<1>11. RunWrites(r)'
  BY <1>2, <1>6, <1>7, <1>8, RunFacts DEF RunWrites
<1>12. RunCovers(r)'
  BY <1>2, <1>6, <1>7, <1>8, RunFacts DEF RunCovers, Current
<1>13. RunReplaces(r)'
  <2> SUFFICES ASSUME task[r].alone, NEW p \in passes, p.sat = Sat(r)
               PROVE  \/ p \in task[r].deleted
                      \/ p.station \in task[r].todo
                      \/ l = "deleting" /\ p \in S
    BY <1>6, <1>7, <1>8 DEF RunReplaces, At
  <2>1. p \in task[r].deleted \/ p.station \in task[r].todo \/ p \in S
    BY <1>2, <1>4, RunFacts DEF RunReplaces
  <2> QED
    BY <1>3, <2>1
<1>14. FreshRun(r) => FreshRun(r)'
  BY <1>2, <1>6, <1>7, <1>8 DEF FreshRun
<1>15. t.at \notin {"idle", "close"}
  BY <1>3, <1>6
<1> QED
  BY <1>1, <1>2, <1>5, <1>6, <1>9, <1>10, <1>11, <1>12, <1>13, <1>14, <1>15, PrivateKeeps

LEMMA DeleteRowKeeps ==
  ASSUME RecomputeInv, NEW r \in Replicas, DeleteRow(r)
  PROVE  RecomputeInv'
<1>1. PICK x \in task[r].seen :
        Private(r, [task[r] EXCEPT !.at = Deleting(task[r].seen \ {x}), !.seen = task[r].seen \ {x},
                                   !.deleted = task[r].deleted \cup ({x} \cap passes)])
  BY DEF DeleteRow
<1> DEFINE S == task[r].seen \ {x}
           l == Deleting(S)
           D == task[r].deleted \cup ({x} \cap passes)
           t == [task[r] EXCEPT !.at = l, !.seen = S, !.deleted = D]
<1>2. At(r, "deleting") /\ Private(r, t)
  BY <1>1 DEF DeleteRow
<1>3. Open(r) /\ AtHand(r) /\ ~At(r, "insert") /\ ~At(r, "list") /\ ~At(r, "delete") /\ task[r] \in Tasks
  BY <1>2, RunFacts DEF Open, AtHand, At
<1>4. task[r].seen \in Rows /\ task[r].deleted \in Rows
  BY <1>3, FieldTypes
<1>5. /\ l \in Locations /\ l \in {"insert", "deleting"} /\ (l = "insert" => S = {})
      /\ S \in Rows /\ D \in Rows
  BY <1>4 DEF Locations, Deleting, Rows
<1>6. \A p \in task[r].seen : p.sat = Sat(r) /\ p.station = task[r].station
  BY <1>2, RunFacts DEF RunOrder
<1>7. /\ \A p \in S : p \in task[r].seen
      /\ \A p \in D : p \in task[r].deleted \/ p \in task[r].seen
      /\ \A p \in passes : p \in task[r].seen => p \in D \/ p \in S
      /\ \A p \in task[r].deleted : p \in D
  OBVIOUS
<1> HIDE DEF S, l, D
<1>8. t \in Tasks
  BY <1>3, <1>5, TasksByField
<1>9. /\ t.at = l /\ t.tle = task[r].tle /\ t.todo = task[r].todo /\ t.event = task[r].event
      /\ t.run = task[r].run /\ t.alone = task[r].alone /\ t.station = task[r].station
      /\ t.seen = S /\ t.deleted = D /\ t.inserted = task[r].inserted
  BY <1>3, TasksByField
<1> HIDE DEF t
<1>10. task'[r] = t /\ UNCHANGED <<version, stations, known, passes>>
  BY <1>2, RunFacts, Basics DEF Private
<1>11. Sat(r)' = Sat(r) /\ AtHand(r)' /\ ~At(r, "list")' /\ ~At(r, "idle")' /\ ~At(r, "commit")'
       /\ (At(r, "deleting")' \/ At(r, "insert")') /\ ~At(r, "delete")'
  BY <1>5, <1>9, <1>10 DEF Sat, AtHand, At
<1>12. RunShape(r)'
  BY <1>3, <1>9, <1>10, <1>11, RunFacts DEF RunShape
<1>13. RunOrder(r)'
  <2>1. task[r].station \in stations /\ task[r].todo \subseteq stations
        /\ \A g \in task[r].todo : task[r].station < g
    BY <1>3, RunFacts DEF RunOrder
  <2>2. task[r].station \in Nat
    BY <2>1, RunFacts DEF Lists
  <2>3. \A p \in task[r].deleted \cup task[r].inserted :
          /\ p.sat = Sat(r) /\ p.station <= task[r].station
          /\ \A g \in task[r].todo : p.station < g
    BY <1>3, RunFacts DEF RunOrder, Written
  <2>4. \A p \in D \cup task[r].inserted :
          /\ p.sat = Sat(r) /\ p.station <= task[r].station
          /\ \A g \in task[r].todo : p.station < g
    BY <1>6, <1>7, <2>1, <2>2, <2>3
  <2>5. Written(r)' = D \cup task[r].inserted
    BY <1>9, <1>10 DEF Written
  <2> QED
    BY <1>6, <1>7, <1>9, <1>10, <1>11, <2>1, <2>4, <2>5 DEF RunOrder
<1>14. RunWrites(r)'
  <2>1. \A p \in D : p.station = task[r].station \/ \E q \in task[r].inserted : q.station = p.station
    BY <1>3, <1>6, <1>7, RunFacts DEF RunWrites
  <2> QED
    BY <1>3, <1>9, <1>10, <1>11, <2>1, RunFacts DEF RunWrites
<1>15. RunCovers(r)'
  BY <1>3, <1>9, <1>10, <1>11, RunFacts DEF RunCovers, Current
<1>16. RunReplaces(r)'
  <2> SUFFICES ASSUME task[r].alone, NEW p \in passes, p.sat = Sat(r)
               PROVE  \/ p \in D
                      \/ p.station \in task[r].todo
                      \/ l = "deleting" /\ p \in S
    BY <1>9, <1>10, <1>11 DEF RunReplaces, At
  <2>1. p \in task[r].deleted \/ p.station \in task[r].todo \/ p \in task[r].seen
    BY <1>3, RunFacts DEF RunReplaces
  <2> QED
    BY <1>5, <1>7, <2>1
<1>17. FreshRun(r) => FreshRun(r)'
  BY <1>3, <1>9, <1>10, <1>11 DEF FreshRun
<1>18. t.at \notin {"idle", "close"}
  BY <1>5, <1>9
<1> QED
  BY <1>2, <1>3, <1>8, <1>9, <1>12, <1>13, <1>14, <1>15, <1>16, <1>17, <1>18, PrivateKeeps

LEMMA InsertKeeps ==
  ASSUME RecomputeInv, NEW r \in Replicas, Insert(r)
  PROVE  RecomputeInv'
<1>1. PICK aos \in First(task[r].found) :
        Private(r, [task[r] EXCEPT !.at = AfterInsert(r, task[r].found \ {aos}),
                                   !.found = task[r].found \ {aos},
                                   !.inserted = task[r].inserted \cup {NewPass(r, aos)}])
  BY DEF Insert
<1> DEFINE fd == task[r].found \ {aos}
           l == AfterInsert(r, fd)
           p0 == NewPass(r, aos)
           I == task[r].inserted \cup {p0}
           t == [task[r] EXCEPT !.at = l, !.found = fd, !.inserted = I]
<1>2. At(r, "insert") /\ Private(r, t)
  BY <1>1 DEF Insert, MayInsert
<1>3. Open(r) /\ AtHand(r) /\ ~At(r, "deleting") /\ ~At(r, "list") /\ ~At(r, "delete") /\ task[r] \in Tasks
  BY <1>2, RunFacts DEF Open, AtHand, At
<1>4. l \in Locations /\ l \in {"insert", "commit", "read"} /\ (l = "commit" => task[r].todo = {})
  BY DEF Locations, AfterInsert, NextStation
<1>5. task[r].station \in stations /\ task[r].station \in Stations
  BY <1>3, RunFacts DEF RunOrder, Lists
<1>6. task[r].found \in SUBSET Instants /\ fd \in Finds /\ aos \in Instants
  BY <1>3, FieldTypes DEF Finds, First
<1>7. p0 \in PassSet /\ p0.sat = Sat(r) /\ p0.station = task[r].station /\ p0.tle = task[r].tle
      /\ p0.run = task[r].run
  <2>1. Sat(r) \in Satellites /\ task[r].run \in 1 .. MaxRuns /\ task[r].tle \in 0 .. MaxVersion
    BY <1>3, FieldTypes, RunFacts DEF Versions
  <2> QED
    BY <1>5, <1>6, <2>1 DEF NewPass, Station, PassSet
<1>8. I \in Rows
  BY <1>3, <1>7, FieldTypes DEF Rows
<1>9. p0 \in I /\ (\A q \in task[r].inserted : q \in I) /\ \A q \in I : q \in task[r].inserted \/ q = p0
  OBVIOUS
<1> HIDE DEF l, p0, I, fd
<1>10. t \in Tasks
  BY <1>3, <1>4, <1>6, <1>8, TasksByField
<1>11. /\ t.at = l /\ t.tle = task[r].tle /\ t.todo = task[r].todo /\ t.event = task[r].event
       /\ t.run = task[r].run /\ t.alone = task[r].alone /\ t.station = task[r].station
       /\ t.deleted = task[r].deleted /\ t.inserted = I
  BY <1>3, TasksByField
<1> HIDE DEF t
<1>12. task'[r] = t /\ UNCHANGED <<version, stations, known, passes>>
  BY <1>2, RunFacts, Basics DEF Private
<1>13. Sat(r)' = Sat(r) /\ ~At(r, "idle")' /\ ~At(r, "list")' /\ ~At(r, "deleting")'
  BY <1>4, <1>11, <1>12 DEF Sat, At
<1>14. RunShape(r)'
  <2>1. At(r, "commit")' => task'[r].todo = {}
    BY <1>4, <1>11, <1>12 DEF At
  <2> QED
    BY <1>3, <1>11, <1>12, <1>13, <2>1, RunFacts DEF RunShape
<1>15. RunOrder(r)'
  <2>1. task[r].todo \subseteq stations /\ \A g \in task[r].todo : task[r].station < g
    BY <1>3, RunFacts DEF RunOrder
  <2>2. task[r].station \in Nat
    BY <1>5, RunFacts
  <2>3. \A p \in task[r].deleted \cup task[r].inserted :
          /\ p.sat = Sat(r) /\ p.station <= task[r].station
          /\ \A g \in task[r].todo : p.station < g
    BY <1>3, RunFacts DEF RunOrder, Written
  <2>4. \A p \in task[r].deleted \cup I :
          /\ p.sat = Sat(r) /\ p.station <= task[r].station
          /\ \A g \in task[r].todo : p.station < g
    BY <1>7, <1>9, <2>1, <2>2, <2>3
  <2>5. Written(r)' = task[r].deleted \cup I
    BY <1>11, <1>12 DEF Written
  <2> QED
    BY <1>5, <1>11, <1>12, <1>13, <2>1, <2>4, <2>5 DEF RunOrder
<1>16. RunWrites(r)'
  <2>1. \A q \in I : /\ q.station \in stations /\ q.run = task[r].run
                     /\ task[r].event[2] <= q.tle /\ q.tle <= version[Sat(r)]
    BY <1>3, <1>5, <1>7, <1>9, RunFacts DEF RunWrites, RunShape
  <2>2. \A p \in task[r].deleted : \E q \in I : q.station = p.station
    BY <1>3, <1>7, <1>9, RunFacts DEF RunWrites
  <2> QED
    BY <1>11, <1>12, <1>13, <2>1, <2>2 DEF RunWrites
<1>17. RunCovers(r)'
  <2>1. task[r].event = Current(Sat(r)) => \A g \in known[Sat(r)] :
          g \in task[r].todo \/ \E q \in I : q.station = g
    BY <1>3, <1>7, <1>9, RunFacts DEF RunCovers
  <2> QED
    BY <1>11, <1>12, <1>13, <2>1 DEF RunCovers, Current
<1>18. RunReplaces(r)'
  BY <1>3, <1>11, <1>12, <1>13, RunFacts DEF RunReplaces
<1>19. FreshRun(r) => FreshRun(r)'
  BY <1>3, <1>7, <1>9, <1>11, <1>12, <1>13 DEF FreshRun
<1>20. t.at \notin {"idle", "close"}
  BY <1>4, <1>11
<1> QED
  BY <1>2, <1>3, <1>10, <1>11, <1>14, <1>15, <1>16, <1>17, <1>18, <1>19, <1>20, PrivateKeeps

-----------------------------------------------------------------------------
(* The beginning and the end of a dispatch.                                 *)

LEMMA ClaimKeeps ==
  ASSUME RecomputeInv, NEW r \in Replicas, Claim(r)
  PROVE  RecomputeInv'
<1>1. TypeOK /\ RunInv /\ Meet /\ Behind /\ OneRun /\ Answers
  BY DEF RecomputeInv
<1>2. PICK e \in pending :
        task' = [o \in Replicas |->
                  IF o = r THEN Started(r, e)
                  ELSE IF o \in Company(r, e[1]) THEN [task[o] EXCEPT !.alone = FALSE]
                  ELSE task[o]]
  BY DEF Claim
<1>3. /\ At(r, "idle") /\ runs < MaxRuns /\ runs' = runs + 1
      /\ UNCHANGED <<version, stations, known, pending, dead, passes, crossed, faults>>
  BY DEF Claim
<1> DEFINE c == Company(r, e[1]) = {}
           n == runs + 1
           t == [Idle EXCEPT !.at = "list", !.event = e, !.owns = TRUE, !.run = n, !.alone = c]
<1>4. e \in EventSet /\ e[1] \in Satellites /\ e[2] <= version[e[1]] /\ e \in Events
  BY <1>1, Basics DEF TypeOK, Behind, Events
<1>5. n \in 1 .. MaxRuns /\ n \in Numbers /\ "list" \in Locations /\ c \in BOOLEAN
  BY <1>1, <1>3, RecomputeParameters DEF TypeOK, Numbers, Locations
<1>6. c <=> \A o \in Replicas : ~(o \in Company(r, e[1]))
  BY DEF Company
<1> HIDE DEF c, n
<1>7. t \in Tasks
  BY <1>4, <1>5, IdleFields, TasksByField
<1>8. /\ t.at = "list" /\ t.event = e /\ t.run = n /\ t.alone = c /\ t.todo = {}
      /\ t.deleted = {} /\ t.inserted = {}
  BY IdleFields, TasksByField
<1>9. Started(r, e) = t
  BY DEF Started, c, n
<1> HIDE DEF t
<1>10. task'[r] = t
  BY <1>2, <1>9
<1>11. ASSUME NEW o \in Replicas, o # r
       PROVE  /\ task'[o] \in Tasks
              /\ task'[o].at = task[o].at /\ task'[o].event = task[o].event
              /\ task'[o].run = task[o].run /\ task'[o].tle = task[o].tle
              /\ task'[o].todo = task[o].todo /\ task'[o].seen = task[o].seen
              /\ task'[o].station = task[o].station
              /\ task'[o].deleted = task[o].deleted /\ task'[o].inserted = task[o].inserted
              /\ task'[o].alone => task[o].alone
              /\ o \in Company(r, e[1]) => task'[o].alone = FALSE
  <2>1. task[o] \in Tasks
    BY <1>1, Basics
  <2>2. CASE o \in Company(r, e[1])
    <3> DEFINE u == [task[o] EXCEPT !.alone = FALSE]
    <3>1. task'[o] = u
      BY <1>2, <1>11, <2>2
    <3>2. u \in Tasks
      BY <2>1, TasksByField
    <3>3. /\ u.at = task[o].at /\ u.event = task[o].event /\ u.run = task[o].run
          /\ u.tle = task[o].tle /\ u.todo = task[o].todo /\ u.seen = task[o].seen
          /\ u.station = task[o].station
          /\ u.deleted = task[o].deleted /\ u.inserted = task[o].inserted /\ u.alone = FALSE
      BY <2>1, TasksByField
    <3> HIDE DEF u
    <3> QED
      BY <3>1, <3>2, <3>3
  <2>3. CASE o \notin Company(r, e[1])
    BY <1>2, <1>11, <2>1, <2>3
  <2> QED
    BY <2>2, <2>3
<1>12. TypeOK'
  <2>1. runs' \in 0 .. MaxRuns
    BY <1>3, <1>5 DEF n
  <2>2. DOMAIN task' = Replicas /\ \A o \in Replicas : task'[o] \in Tasks
    BY <1>2, <1>7, <1>10, <1>11
  <2> QED
    BY <1>1, <1>3, <2>1, <2>2 DEF TypeOK
<1>13. RunInv'
  <2> SUFFICES ASSUME NEW o \in Replicas
               PROVE  RunShape(o)' /\ RunOrder(o)' /\ RunWrites(o)' /\ RunCovers(o)' /\ RunReplaces(o)'
    BY DEF RunInv
  <2>1. CASE o = r
    <3>1. RunShape(r)'
      BY <1>3, <1>4, <1>5, <1>8, <1>10 DEF RunShape, At, AtHand, Sat
    <3>2. RunOrder(r)' /\ RunWrites(r)' /\ RunCovers(r)' /\ RunReplaces(r)'
      BY <1>8, <1>10 DEF RunOrder, RunWrites, RunCovers, RunReplaces, At, AtHand, Written
    <3> QED
      BY <2>1, <3>1, <3>2
  <2>2. CASE o # r
    <3>1. RunShape(o) /\ RunOrder(o) /\ RunWrites(o) /\ RunCovers(o) /\ RunReplaces(o)
      BY <1>1 DEF RunInv
    <3>2. /\ task'[o].at = task[o].at /\ task'[o].event = task[o].event
          /\ task'[o].run = task[o].run /\ task'[o].tle = task[o].tle
          /\ task'[o].todo = task[o].todo /\ task'[o].seen = task[o].seen
          /\ task'[o].station = task[o].station
          /\ task'[o].deleted = task[o].deleted /\ task'[o].inserted = task[o].inserted
          /\ task'[o].alone => task[o].alone
          /\ UNCHANGED <<version, stations, known, passes>>
      BY <1>3, <1>11, <2>2
    <3>3. /\ Sat(o)' = Sat(o) /\ (AtHand(o)' <=> AtHand(o)) /\ Written(o)' = Written(o)
          /\ (Open(o)' <=> Open(o)) /\ \A l : At(o, l)' <=> At(o, l)
      BY <3>2 DEF At, Sat, AtHand, Open, Written
    <3>4. RunShape(o)'
      BY <3>1, <3>2, <3>3 DEF RunShape, At
    <3>5. RunOrder(o)'
      BY <3>1, <3>2, <3>3 DEF RunOrder, At
    <3>6. RunWrites(o)'
      BY <3>1, <3>2, <3>3 DEF RunWrites, At
    <3>7. RunCovers(o)'
      BY <3>1, <3>2, <3>3 DEF RunCovers, Current, At
    <3>8. RunReplaces(o)'
      BY <3>1, <3>2, <3>3 DEF RunReplaces, At
    <3> QED
      BY <3>4, <3>5, <3>6, <3>7, <3>8
  <2> QED
    BY <2>1, <2>2
<1>14. Meet'
  <2> SUFFICES ASSUME NEW p \in Replicas, NEW o \in Replicas, p # o, Open(p)', Open(o)',
                      Sat(p)' = Sat(o)'
               PROVE  task'[p].alone = FALSE
    BY DEF Meet
  <2>1. \A q \in Replicas \ {r} : (Open(q)' <=> Open(q)) /\ Sat(q)' = Sat(q)
    BY <1>11 DEF Open, Sat
  <2>2. \A q \in Replicas \ {r} : Open(q) /\ Sat(q) = e[1] => q \in Company(r, e[1])
    BY DEF Company, Open, At
  <2>3. Sat(r)' = e[1]
    BY <1>8, <1>10 DEF Sat
  <2>4. CASE p = r
    <3>1. o \in Company(r, e[1])
      BY <2>1, <2>2, <2>3, <2>4
    <3>2. ~c
      BY <1>6, <3>1
    <3> QED
      BY <1>5, <1>8, <1>10, <2>4, <3>2
  <2>5. CASE o = r
    <3>1. p \in Company(r, e[1])
      BY <2>1, <2>2, <2>3, <2>5
    <3> QED
      BY <1>11, <2>5, <3>1
  <2>6. CASE p # r /\ o # r
    <3>1. task[p].alone = FALSE
      BY <1>1, <2>1, <2>6 DEF Meet
    <3>2. task'[p].alone \in BOOLEAN
      BY <1>11, <2>6, FieldTypes
    <3> QED
      BY <1>11, <2>6, <3>1, <3>2
  <2> QED
    BY <2>4, <2>5, <2>6
<1>15. Behind' /\ OneRun'
  BY <1>1, <1>3 DEF Behind, OneRun
<1>16. Answers'
  <2> SUFFICES ASSUME NEW s \in Satellites, Answered(s)' PROVE FreshNow(s)' /\ Covered(s)'
    BY DEF Answers
  <2>1. \A o \in Replicas : At(o, "close")' => o # r
    BY <1>8, <1>10 DEF At
  <2>2. \A o \in Replicas : At(o, "close")' /\ task'[o].event = Current(s)'
                              => At(o, "close") /\ task[o].event = Current(s)
    BY <1>3, <1>11, <2>1 DEF At, Current
  <2>3. Answered(s)
    BY <1>3, <2>2 DEF Answered, Current
  <2>4. FreshNow(s) /\ Covered(s)
    BY <1>1, <2>3 DEF Answers
  <2>5. Covered(s)'
    BY <1>3, <2>4 DEF Covered
  <2>6. s \in crossed' \/ Fresh(s)'
    BY <1>3, <2>4 DEF FreshNow, Fresh
  <2>7. ASSUME NEW o \in Replicas, Open(o)', Sat(o)' = s
        PROVE  FreshRun(o)'
    <3>1. CASE o = r
      BY <1>8, <1>10, <3>1 DEF FreshRun, AtHand
    <3>2. CASE o # r
      <4>1. Open(o) /\ Sat(o) = s
        BY <1>11, <2>7, <3>2 DEF Open, Sat
      <4> QED
        <5>1. FreshRun(o)
          BY <2>4, <4>1 DEF FreshNow
        <5>2. /\ task'[o].alone => task[o].alone
              /\ task'[o].at = task[o].at /\ task'[o].tle = task[o].tle
              /\ task'[o].inserted = task[o].inserted /\ task'[o].event = task[o].event
          BY <1>11, <3>2
        <5> QED
          BY <1>3, <5>1, <5>2 DEF FreshRun, AtHand, Sat
    <3> QED
      BY <3>1, <3>2
  <2> QED
    BY <2>5, <2>6, <2>7 DEF FreshNow
<1> QED
  BY <1>12, <1>13, <1>14, <1>15, <1>16 DEF RecomputeInv

\* The event whose lock is lost stays what it was to the run.
LEMMA LoseKeeps ==
  ASSUME RecomputeInv, NEW r \in Replicas, LoseEvent(r)
  PROVE  RecomputeInv'
<1> DEFINE t == [task[r] EXCEPT !.owns = FALSE]
<1>1. TypeOK /\ RunInv /\ Meet /\ Behind /\ OneRun /\ Answers /\ task[r] \in Tasks
  BY RunFacts DEF RecomputeInv
<1>2. /\ task' = [task EXCEPT ![r] = t] /\ faults < MaxFaults /\ faults' = faults + 1
      /\ UNCHANGED <<version, stations, known, pending, dead, passes, crossed, runs>>
  BY DEF LoseEvent, CountFault
<1>3. t \in Tasks
  BY <1>1, TasksByField
<1>4. /\ t.at = task[r].at /\ t.event = task[r].event /\ t.run = task[r].run
      /\ t.tle = task[r].tle /\ t.todo = task[r].todo /\ t.seen = task[r].seen
      /\ t.station = task[r].station /\ t.alone = task[r].alone
      /\ t.deleted = task[r].deleted /\ t.inserted = task[r].inserted
  BY <1>1, TasksByField
<1> HIDE DEF t
<1>5. task'[r] = t /\ DOMAIN task' = Replicas /\ \A o \in Replicas \ {r} : task'[o] = task[o]
  BY <1>1, <1>2 DEF TypeOK
<1>6. \A o \in Replicas :
        /\ task'[o] \in Tasks
        /\ task'[o].at = task[o].at /\ task'[o].event = task[o].event
        /\ task'[o].run = task[o].run /\ task'[o].tle = task[o].tle
        /\ task'[o].todo = task[o].todo /\ task'[o].seen = task[o].seen
        /\ task'[o].station = task[o].station /\ task'[o].alone = task[o].alone
        /\ task'[o].deleted = task[o].deleted /\ task'[o].inserted = task[o].inserted
  BY <1>1, <1>3, <1>4, <1>5 DEF TypeOK
<1>7. TypeOK'
  <2>1. faults' \in 0 .. MaxFaults
    BY <1>1, <1>2, RecomputeParameters DEF TypeOK
  <2> QED
    BY <1>1, <1>2, <1>5, <1>6, <2>1 DEF TypeOK
<1>8. RunInv'
  <2> SUFFICES ASSUME NEW o \in Replicas
               PROVE  RunShape(o)' /\ RunOrder(o)' /\ RunWrites(o)' /\ RunCovers(o)' /\ RunReplaces(o)'
    BY DEF RunInv
  <2>1. RunShape(o) /\ RunOrder(o) /\ RunWrites(o) /\ RunCovers(o) /\ RunReplaces(o)
    BY <1>1 DEF RunInv
  <2>2. RunShape(o)' /\ RunOrder(o)' /\ RunWrites(o)'
    BY <1>2, <1>6, <2>1 DEF RunShape, RunOrder, RunWrites, At, Sat, Open, AtHand, Written
  <2>3. RunCovers(o)' /\ RunReplaces(o)'
    BY <1>2, <1>6, <2>1 DEF RunCovers, RunReplaces, At, Sat, Open, AtHand, Current
  <2> QED
    BY <2>2, <2>3
<1>9. Meet' /\ Behind' /\ OneRun'
  BY <1>1, <1>2, <1>6 DEF Meet, Behind, OneRun, Open, Sat
<1>10. \A s \in Satellites : Answered(s)' => Answered(s)
  BY <1>2, <1>6 DEF Answered, At, Current
<1>11. \A s \in Satellites : FreshNow(s) => FreshNow(s)'
  BY <1>2, <1>6 DEF FreshNow, FreshRun, Fresh, Open, AtHand, Sat
<1>12. \A s \in Satellites : Covered(s) => Covered(s)'
  BY <1>2 DEF Covered
<1>13. Answers'
  BY <1>1, <1>10, <1>11, <1>12 DEF Answers
<1> QED
  BY <1>7, <1>8, <1>9, <1>13 DEF RecomputeInv

-----------------------------------------------------------------------------
(* The commit, and the transactions of others.                              *)

\* What a run commits: for each pair it has worked on, its own row.
LEMMA CommitKeeps ==
  ASSUME RecomputeInv, NEW r \in Replicas, Commit(r)
  PROVE  RecomputeInv'
<1>1. TypeOK /\ RunInv /\ Meet /\ Behind /\ OneRun /\ Answers /\ task[r] \in Tasks
  BY RunFacts DEF RecomputeInv
<1> DEFINE D == task[r].deleted
           I == task[r].inserted
           x == Sat(r)
           t == [task[r] EXCEPT !.at = "close", !.deleted = {}, !.inserted = {}]
<1>2. /\ At(r, "commit") /\ task' = [task EXCEPT ![r] = t]
      /\ passes' = (passes \ D) \cup I
      /\ crossed' = IF task[r].alone THEN crossed \ {x} ELSE crossed \cup {x}
      /\ UNCHANGED <<version, stations, known, pending, dead, runs, faults>>
  BY DEF Commit
<1>3. /\ Open(r) /\ ~AtHand(r) /\ ~At(r, "list")
      /\ ~At(r, "insert") /\ ~At(r, "deleting") /\ ~At(r, "delete")
  BY <1>2 DEF Open, AtHand, At
<1>4. /\ x \in Satellites /\ task[r].event \in EventSet /\ task[r].event[2] <= version[x]
      /\ task[r].run \in 1 .. MaxRuns /\ task[r].event[2] \in Nat
      /\ version[x] \in Nat /\ task[r].event = <<x, task[r].event[2]>>
  BY <1>1, <1>3, FieldTypes, RunFacts, Basics DEF RunShape, Versions, Sat
<1>5. \A p \in I : /\ p.sat = x /\ p.station \in stations /\ p.run = task[r].run
                   /\ task[r].event[2] <= p.tle /\ p.tle <= version[x] /\ p.tle \in Nat
  <2>1. \A p \in I : p.sat = x
    BY <1>3, RunFacts DEF RunOrder, Written
  <2>2. \A p \in I : p.tle \in Nat
    BY <1>1, FieldTypes, Basics DEF Rows
  <2> QED
    BY <1>3, <2>1, <2>2, RunFacts DEF RunWrites
<1>6. \A p \in D : p.sat = x /\ \E q \in I : q.station = p.station
  <2>1. \A p \in D : p.sat = x
    BY <1>3, RunFacts DEF RunOrder, Written
  <2> QED
    BY <1>3, <2>1, RunFacts DEF RunWrites
<1>7. t \in Tasks
  <2>1. "close" \in Locations /\ {} \in Rows
    BY DEF Locations, Rows
  <2> QED
    BY <1>1, <2>1, TasksByField
<1>8. t.at = "close" /\ t.event = task[r].event /\ t.run = task[r].run /\ t.alone = task[r].alone
      /\ t.todo = task[r].todo /\ t.deleted = {} /\ t.inserted = {}
  BY <1>1, TasksByField
<1>9. \A p \in passes' : (p \in passes /\ p \notin D) \/ p \in I
  BY <1>2
<1>10. \A p \in passes : p \in D \/ p \in passes'
  BY <1>2
<1>11. \A p \in I : p \in passes'
  BY <1>2
<1>12. task[r].todo = {}
  BY <1>2, RunFacts DEF RunShape
<1>13. task[r].alone => \A p \in passes : p.sat = x => p \in D
  BY <1>3, <1>12, RunFacts DEF RunReplaces
<1>14. /\ \A s : s # x => (s \in crossed' <=> s \in crossed)
       /\ task[r].alone \/ x \in crossed'
       /\ crossed' \subseteq Satellites
  BY <1>1, <1>2, <1>4 DEF TypeOK
<1>15. I \in Rows /\ D \in Rows
  BY <1>1, FieldTypes
<1>16. task'[r] = t /\ DOMAIN task' = Replicas /\ \A o \in Replicas \ {r} : task'[o] = task[o]
  BY <1>1, <1>2 DEF TypeOK
<1>17. x = Sat(r) /\ D = task[r].deleted /\ I = task[r].inserted
  OBVIOUS
<1> HIDE DEF t, x, D, I
<1>18. \A o \in Replicas \ {r} : Open(o) /\ Sat(o) = x => task[o].alone = FALSE
  BY <1>1, <1>3, <1>17 DEF Meet
<1>19. TypeOK'
  <2>1. passes' \subseteq PassSet
    BY <1>1, <1>9, <1>15 DEF TypeOK, Rows
  <2>2. \A o \in Replicas : task'[o] \in Tasks
    BY <1>1, <1>7, <1>16, Basics
  <2> QED
    BY <1>1, <1>2, <1>14, <1>16, <2>1, <2>2 DEF TypeOK
<1>20. RunInv'
  <2> SUFFICES ASSUME NEW o \in Replicas
               PROVE  RunShape(o)' /\ RunOrder(o)' /\ RunWrites(o)' /\ RunCovers(o)' /\ RunReplaces(o)'
    BY DEF RunInv
  <2>1. CASE o = r
    <3>1. RunShape(r)'
      BY <1>2, <1>4, <1>8, <1>16, <1>17 DEF RunShape, At, AtHand, Sat
    <3>2. RunOrder(r)'
      BY <1>2, <1>8, <1>12, <1>16 DEF RunOrder, At, Open, AtHand
    <3>3. RunWrites(r)' /\ RunCovers(r)' /\ RunReplaces(r)'
      BY <1>8, <1>16 DEF RunWrites, RunCovers, RunReplaces, Open
    <3> QED
      BY <2>1, <3>1, <3>2, <3>3
  <2>2. CASE o # r
    <3>1. RunShape(o) /\ RunOrder(o) /\ RunWrites(o) /\ RunCovers(o) /\ RunReplaces(o)
      BY <1>1 DEF RunInv
    <3>2. task'[o] = task[o]
      BY <1>16, <2>2
    <3>3. /\ Sat(o)' = Sat(o) /\ (Open(o)' <=> Open(o)) /\ Written(o)' = Written(o)
          /\ (AtHand(o)' <=> AtHand(o)) /\ \A l : At(o, l)' <=> At(o, l)
      BY <3>2 DEF At, Sat, Open, AtHand, Written
    <3>4. RunShape(o)'
      BY <1>2, <3>1, <3>2, <3>3 DEF RunShape, At
    <3>5. RunOrder(o)'
      BY <1>2, <3>1, <3>2, <3>3 DEF RunOrder, At
    <3>6. RunWrites(o)'
      BY <1>2, <3>1, <3>2, <3>3 DEF RunWrites, At
    <3>7. RunCovers(o)'
      BY <1>2, <3>1, <3>2, <3>3 DEF RunCovers, Current, At
    <3>8. RunReplaces(o)'
      <4> SUFFICES ASSUME Open(o), ~At(o, "list"), task[o].alone, NEW p \in passes', p.sat = Sat(o)
                   PROVE  \/ p \in task[o].deleted
                          \/ p.station \in task[o].todo
                          \/ At(o, "delete") /\ p.station = task[o].station
                          \/ At(o, "deleting") /\ p \in task[o].seen
        BY <3>2, <3>3 DEF RunReplaces, At
      <4>1. Sat(o) # x
        BY <1>18, <2>2
      <4>2. p \in passes
        BY <1>5, <1>9, <4>1
      <4> QED
        BY <3>1, <4>2 DEF RunReplaces
    <3> QED
      BY <3>4, <3>5, <3>6, <3>7, <3>8
  <2> QED
    BY <2>1, <2>2
<1>21. Meet'
  <2> SUFFICES ASSUME NEW p \in Replicas, NEW o \in Replicas, p # o, Open(p)', Open(o)',
                      Sat(p)' = Sat(o)'
               PROVE  task'[p].alone = FALSE
    BY DEF Meet
  <2>1. p # r /\ o # r
    BY <1>8, <1>16 DEF Open
  <2>2. task'[p] = task[p] /\ task'[o] = task[o]
    BY <1>16, <2>1
  <2> QED
    BY <1>1, <2>2 DEF Meet, Open, Sat
<1>22. Behind'
  BY <1>1, <1>2, <1>4, <1>5, <1>9 DEF Behind
<1>23. OneRun'
  <2> SUFFICES ASSUME NEW p \in passes', NEW q \in passes', p.sat = q.sat, p.sat \notin crossed'
               PROVE  p.run = q.run
    BY DEF OneRun
  <2>1. CASE p.sat = x
    BY <1>5, <1>9, <1>13, <1>14, <2>1
  <2>2. CASE p.sat # x
    <3>1. p \in passes /\ q \in passes /\ p.sat \notin crossed
      BY <1>5, <1>9, <1>14, <2>2
    <3> QED
      BY <1>1, <3>1 DEF OneRun
  <2> QED
    BY <2>1, <2>2
<1>24. \A s \in Satellites : Answered(s)' => Answered(s) \/ (s = x /\ task[r].event = Current(s))
  <2> SUFFICES ASSUME NEW s \in Satellites, Answered(s)', ~Answered(s)
               PROVE  s = x /\ task[r].event = Current(s)
    OBVIOUS
  <2>1. Current(s)' = Current(s)
    BY <1>2 DEF Current
  <2>2. PICK o \in Replicas : task'[o].at = "close" /\ task'[o].event = Current(s)
    BY <1>2, <2>1 DEF Answered, At
  <2>3. o = r
    BY <1>16, <2>2 DEF Answered, At
  <2>4. task[r].event = Current(s)
    BY <1>8, <1>16, <2>2, <2>3
  <2> QED
    BY <1>17, <2>4 DEF Sat, Current
<1>25. Answers'
  <2> SUFFICES ASSUME NEW s \in Satellites, Answered(s)' PROVE FreshNow(s)' /\ Covered(s)'
    BY DEF Answers
  <2>1. \A o \in Replicas : Open(o)' => o # r /\ Open(o) /\ task'[o] = task[o]
    BY <1>8, <1>16 DEF Open
  <2>2. CASE s # x
    <3>1. FreshNow(s) /\ Covered(s)
      BY <1>1, <1>24, <2>2 DEF Answers
    <3>2. Covered(s)'
      BY <1>2, <1>6, <1>10, <2>2, <3>1 DEF Covered
    <3>3. s \in crossed' \/ Fresh(s)'
      BY <1>2, <1>5, <1>9, <1>14, <2>2, <3>1 DEF FreshNow, Fresh
    <3>4. \A o \in Replicas : Open(o)' /\ Sat(o)' = s => FreshRun(o)'
      BY <1>2, <2>1, <3>1 DEF FreshNow, FreshRun, AtHand, Sat
    <3> QED
      BY <3>2, <3>3, <3>4 DEF FreshNow
  <2>3. CASE s = x
    <3>1. task[r].alone => \A p \in I : p.tle = version[x]
      <4>1. CASE Answered(x)
        BY <1>1, <1>3, <1>4, <1>17, <4>1 DEF Answers, FreshNow, FreshRun
      <4>2. CASE task[r].event = Current(x)
        <5>1. task[r].event[2] = version[x]
          BY <4>2 DEF Current
        <5> QED
          BY <1>4, <1>5, <5>1
      <4> QED
        BY <1>24, <2>3, <4>1, <4>2
    <3>2. s \in crossed' \/ Fresh(s)'
      BY <1>2, <1>5, <1>9, <1>13, <1>14, <2>3, <3>1 DEF Fresh
    <3>3. \A o \in Replicas : Open(o)' /\ Sat(o)' = s => FreshRun(o)'
      <4> SUFFICES ASSUME NEW o \in Replicas, Open(o)', Sat(o)' = s PROVE FreshRun(o)'
        OBVIOUS
      <4>1. o # r /\ Open(o) /\ Sat(o) = x /\ task'[o] = task[o]
        BY <2>1, <2>3 DEF Sat
      <4>2. task[o].alone = FALSE
        BY <1>18, <4>1
      <4> QED
        BY <4>1, <4>2 DEF FreshRun
    <3>4. Covered(s)'
      <4>1. CASE Answered(x)
        <5>1. Covered(x)
          BY <1>1, <1>4, <4>1 DEF Answers
        <5>2. ASSUME NEW g \in known[x] PROVE \E p \in passes' : p.sat = x /\ p.station = g
          <6>1. PICK p \in passes : p.sat = x /\ p.station = g
            BY <5>1, <5>2 DEF Covered
          <6> QED
            BY <1>5, <1>6, <1>10, <1>11, <6>1
        <5> QED
          BY <1>2, <2>3, <5>2 DEF Covered
      <4>2. CASE task[r].event = Current(x)
        <5>1. RunCovers(r)
          BY RunFacts
        <5>2. \A g \in known[x] : \E q \in I : q.station = g
          BY <1>3, <1>12, <1>17, <4>2, <5>1 DEF RunCovers
        <5> QED
          BY <1>2, <1>5, <1>11, <2>3, <5>2 DEF Covered
      <4> QED
        BY <1>24, <2>3, <4>1, <4>2
    <3> QED
      BY <3>2, <3>3, <3>4 DEF FreshNow
  <2> QED
    BY <2>2, <2>3
<1> QED
  BY <1>19, <1>20, <1>21, <1>22, <1>23, <1>25 DEF RecomputeInv

\* What ends a dispatch without a commit of its passes, or after it.
LEMMA EndKeeps ==
  ASSUME RecomputeInv, NEW r \in Replicas,
         Close(r) \/ Fail(r) \/ FailForGood(r) \/ InsertClashes(r) \/ DeadlockVictim(r)
  PROVE  RecomputeInv'
<1>1. TypeOK /\ Behind
  BY DEF RecomputeInv
<1>2. CASE Close(r)
  <2>1. /\ At(r, "close") /\ LetGo(r) /\ SameTables /\ UNCHANGED <<dead, runs, faults>>
        /\ pending' = IF task[r].owns THEN pending \ {task[r].event} ELSE pending
    BY <1>2 DEF Close, SameTables
  <2>2. ASSUME NEW s \in Satellites, Answered(s)' PROVE Answered(s)
    <3>1. Current(s)' = Current(s)
      BY <2>1 DEF Current, SameTables
    <3>2. CASE Current(s) \notin pending' \cup dead'
      BY <2>1, <3>2 DEF Answered
    <3>3. CASE \E o \in Replicas : At(o, "close")' /\ task'[o].event = Current(s)
      <4>1. task'[r].at = "idle" /\ \A o \in Replicas \ {r} : task'[o] = task[o]
        BY <1>1, <2>1, IdleFields DEF LetGo, TypeOK
      <4> QED
        BY <3>3, <4>1 DEF Answered, At
    <3> QED
      BY <2>2, <3>1, <3>2, <3>3 DEF Answered
  <2>3. faults' \in 0 .. MaxFaults /\ pending' \subseteq pending /\ dead' \subseteq EventSet
        /\ \A e \in dead' : e[2] <= version[e[1]]
    BY <1>1, <2>1 DEF TypeOK, Behind
  <2> QED
    BY <2>1, <2>2, <2>3, LeaveKeeps
<1>3. CASE Fail(r) \/ InsertClashes(r) \/ DeadlockVictim(r)
  <2>1. /\ LetGo(r) /\ SameTables /\ UNCHANGED <<pending, dead, runs>>
        /\ (UNCHANGED faults \/ CountFault)
    BY <1>3 DEF Fail, InsertClashes, DeadlockVictim, Private, SameTables, LetGo
  <2>2. ASSUME NEW s \in Satellites, Answered(s)' PROVE Answered(s)
    <3>1. task'[r].at = "idle" /\ \A o \in Replicas \ {r} : task'[o] = task[o]
      BY <1>1, <2>1, IdleFields DEF LetGo, TypeOK
    <3> QED
      BY <2>1, <2>2, <3>1 DEF Answered, At, Current, SameTables
  <2>3. faults' \in 0 .. MaxFaults
    BY <1>1, <2>1, RecomputeParameters DEF TypeOK, CountFault
  <2>4. pending' \subseteq pending /\ dead' \subseteq EventSet
        /\ \A e \in dead' : e[2] <= version[e[1]]
    BY <1>1, <2>1 DEF TypeOK, Behind
  <2> QED
    BY <2>1, <2>2, <2>3, <2>4, LeaveKeeps
<1>4. CASE FailForGood(r)
  <2>1. /\ ~At(r, "idle") /\ LetGo(r) /\ SameTables /\ UNCHANGED runs /\ CountFault
        /\ pending' = pending \ {task[r].event} /\ dead' = dead \cup {task[r].event}
    BY <1>4 DEF FailForGood, SameTables
  <2>2. task[r].event \in EventSet /\ task[r].event[2] <= version[task[r].event[1]]
    BY <2>1, RunFacts DEF RunShape, Sat
  <2>3. ASSUME NEW s \in Satellites, Answered(s)' PROVE Answered(s)
    <3>1. task'[r].at = "idle" /\ \A o \in Replicas \ {r} : task'[o] = task[o]
      BY <1>1, <2>1, IdleFields DEF LetGo, TypeOK
    <3> QED
      BY <2>1, <2>3, <3>1 DEF Answered, At, Current, SameTables
  <2>4. faults' \in 0 .. MaxFaults
    BY <1>1, <2>1, RecomputeParameters DEF TypeOK, CountFault
  <2>5. pending' \subseteq pending /\ dead' \subseteq EventSet
        /\ \A e \in dead' : e[2] <= version[e[1]]
    BY <1>1, <2>1, <2>2 DEF TypeOK, Behind
  <2> QED
    BY <2>1, <2>3, <2>4, <2>5, LeaveKeeps
<1> QED
  BY <1>2, <1>3, <1>4

\* The satellite's TLE changes: the runs in progress are for an older one.
LEMMA RefreshKeeps ==
  ASSUME RecomputeInv, NEW s \in Satellites, Refresh(s)
  PROVE  RecomputeInv'
<1>1. TypeOK /\ RunInv /\ Meet /\ Behind /\ OneRun /\ Answers
  BY DEF RecomputeInv
<1>2. /\ version[s] < MaxVersion
      /\ version' = [version EXCEPT ![s] = version[s] + 1]
      /\ known' = [known EXCEPT ![s] = stations]
      /\ pending' = pending \cup {<<s, version[s] + 1>>}
      /\ UNCHANGED <<stations, dead, passes, task, crossed, runs, faults>>
  BY DEF Refresh
<1>3. version[s] \in Nat /\ version[s] + 1 \in 1 .. MaxVersion
  BY <1>1, <1>2, Basics, RecomputeParameters
<1>4. /\ version'[s] = version[s] + 1 /\ known'[s] = stations
      /\ \A x \in Satellites \ {s} : version'[x] = version[x] /\ known'[x] = known[x]
      /\ \A x \in Satellites : version[x] \in Nat /\ version'[x] \in Nat /\ version[x] <= version'[x]
  BY <1>1, <1>2, <1>3, Basics DEF TypeOK
<1>5. TypeOK'
  <2>1. version' \in [Satellites -> 0 .. MaxVersion]
    BY <1>1, <1>2, <1>3 DEF TypeOK
  <2>2. known' \in [Satellites -> SUBSET Stations]
    BY <1>1, <1>2 DEF TypeOK
  <2>3. pending' \subseteq EventSet
    BY <1>1, <1>2, <1>3 DEF TypeOK, EventSet
  <2> QED
    BY <1>1, <1>2, <2>1, <2>2, <2>3 DEF TypeOK
<1>6. \A o \in Replicas : ~At(o, "idle") =>
        /\ task[o].event \in EventSet /\ Sat(o) \in Satellites
        /\ task[o].event[2] \in Nat /\ task[o].event[2] <= version[Sat(o)]
  BY <1>1, Basics DEF RunInv, RunShape, Sat
<1>7. \A o \in Replicas : ~At(o, "idle") => task[o].event # <<s, version[s] + 1>>
  <2> SUFFICES ASSUME NEW o \in Replicas, ~At(o, "idle"), task[o].event = <<s, version[s] + 1>>
               PROVE  FALSE
    OBVIOUS
  <2>1. Sat(o) = s /\ task[o].event[2] = version[s] + 1
    BY DEF Sat
  <2> QED
    BY <1>3, <1>6, <2>1
<1>8. RunInv'
  <2> SUFFICES ASSUME NEW o \in Replicas
               PROVE  RunShape(o)' /\ RunOrder(o)' /\ RunWrites(o)' /\ RunCovers(o)' /\ RunReplaces(o)'
    BY DEF RunInv
  <2>1. RunShape(o) /\ RunOrder(o) /\ RunWrites(o) /\ RunCovers(o) /\ RunReplaces(o)
    BY <1>1 DEF RunInv
  <2>2. /\ Sat(o)' = Sat(o) /\ (Open(o)' <=> Open(o)) /\ Written(o)' = Written(o)
        /\ (AtHand(o)' <=> AtHand(o)) /\ \A l : At(o, l)' <=> At(o, l)
    BY <1>2 DEF At, Sat, Open, AtHand, Written
  <2>3. task[o] \in Tasks /\ (AtHand(o) \/ Open(o) => ~At(o, "idle"))
    BY <1>1, Basics DEF AtHand, Open, At
  <2>4. RunShape(o)'
    <3>1. task[o].tle \in Nat
      BY <2>3, FieldTypes DEF Versions
    <3> QED
      BY <1>2, <1>4, <1>6, <2>1, <2>2, <2>3, <3>1 DEF RunShape, At
  <2>5. RunOrder(o)' /\ RunReplaces(o)'
    BY <1>2, <2>1, <2>2 DEF RunOrder, RunReplaces, At
  <2>7. RunWrites(o)'
    <3>1. Open(o) => version[Sat(o)] \in Nat /\ version'[Sat(o)] \in Nat
                     /\ version[Sat(o)] <= version'[Sat(o)]
      BY <1>4, <1>6, <2>3
    <3>2. \A p \in task[o].inserted : p.tle \in Nat
      BY <1>1, <2>3, FieldTypes, Basics DEF Rows
    <3>3. Open(o) => \A p \in task[o].inserted : p.tle <= version'[Sat(o)]
      BY <2>1, <3>1, <3>2 DEF RunWrites
    <3> QED
      BY <1>2, <2>1, <2>2, <3>3 DEF RunWrites, At
  <2>6. RunCovers(o)'
    <3> SUFFICES ASSUME Open(o), ~At(o, "list"), task[o].event = Current(Sat(o))',
                        NEW g \in known'[Sat(o)]
                 PROVE  \/ g \in task[o].todo
                        \/ AtHand(o) /\ g = task[o].station
                        \/ \E q \in task[o].inserted : q.station = g
      BY <1>2, <2>2 DEF RunCovers, At
    <3>1. ~At(o, "idle") /\ Sat(o) \in Satellites
      BY <1>6, <2>3
    <3>2. Sat(o) # s
      BY <1>4, <1>7, <2>2, <3>1 DEF Current
    <3>3. task[o].event = Current(Sat(o)) /\ g \in known[Sat(o)]
      BY <1>4, <2>2, <3>1, <3>2 DEF Current
    <3> QED
      BY <2>1, <3>3 DEF RunCovers
  <2> QED
    BY <2>4, <2>5, <2>6, <2>7
<1>9. Meet' /\ OneRun'
  BY <1>1, <1>2 DEF Meet, OneRun, Open, Sat
<1>10. Behind'
  <2>1. \A p \in passes : p.sat \in Satellites /\ p.tle \in Nat
    BY <1>1, Basics DEF TypeOK
  <2>2. \A p \in passes' : p.station \in stations' /\ p.tle <= version'[p.sat]
    BY <1>1, <1>2, <1>4, <2>1 DEF Behind
  <2>3. \A e \in pending \cup dead : e[1] \in Satellites /\ e[2] \in Nat
    BY <1>1, Basics DEF TypeOK
  <2>4. \A e \in pending' \cup dead' : e[2] <= version'[e[1]]
    <3> TAKE e \in pending' \cup dead'
    <3>1. CASE e \in pending \cup dead
      BY <1>1, <1>4, <2>3, <3>1 DEF Behind
    <3>2. CASE e = <<s, version[s] + 1>>
      <4>1. e[1] = s /\ e[2] = version[s] + 1
        BY <3>2
      <4> QED
        BY <1>3, <1>4, <4>1
    <3> QED
      BY <1>2, <3>1, <3>2
  <2>5. \A x \in Satellites : known'[x] \subseteq stations' /\ (version'[x] = 0 => known'[x] = {})
    BY <1>1, <1>2, <1>3, <1>4 DEF Behind
  <2> QED
    BY <2>2, <2>4, <2>5 DEF Behind
<1>11. Answers'
  <2> SUFFICES ASSUME NEW x \in Satellites, Answered(x)' PROVE FreshNow(x)' /\ Covered(x)'
    BY DEF Answers
  <2>1. x # s
    <3> SUFFICES ASSUME x = s PROVE FALSE
      OBVIOUS
    <3>1. Current(x)' = <<s, version[s] + 1>>
      BY <1>4 DEF Current
    <3>2. Current(x)' \in pending'
      BY <1>2, <3>1
    <3>3. PICK o \in Replicas : At(o, "close")' /\ task'[o].event = Current(x)'
      BY <3>2 DEF Answered
    <3>4. ~At(o, "idle") /\ task[o].event = <<s, version[s] + 1>>
      BY <1>2, <3>1, <3>3 DEF At
    <3> QED
      BY <1>7, <3>4
  <2>2. Current(x)' = Current(x) /\ version'[x] = version[x] /\ known'[x] = known[x]
    BY <1>4, <2>1 DEF Current
  <2>3. Answered(x)
    BY <1>2, <2>2 DEF Answered, At
  <2>4. FreshNow(x) /\ Covered(x)
    BY <1>1, <2>3 DEF Answers
  <2>5. FreshNow(x)'
    BY <1>2, <2>2, <2>4 DEF FreshNow, FreshRun, Fresh, Open, AtHand, Sat
  <2> QED
    BY <1>2, <2>2, <2>4, <2>5 DEF Covered
<1> QED
  BY <1>5, <1>8, <1>9, <1>10, <1>11 DEF RecomputeInv

\* A station is registered: no run has listed it yet.
LEMMA RegisterKeeps ==
  ASSUME RecomputeInv, NEW g \in Stations, Register(g)
  PROVE  RecomputeInv'
<1>1. TypeOK /\ RunInv /\ Meet /\ Behind /\ OneRun /\ Answers
  BY DEF RecomputeInv
<1>2. stations' = stations \cup {g}
      /\ UNCHANGED <<version, known, pending, dead, passes, task, crossed, runs, faults>>
  BY DEF Register
<1>3. stations \subseteq stations'
  BY <1>2
<1>4. TypeOK'
  BY <1>1, <1>2 DEF TypeOK
<1>5. RunInv'
  <2> SUFFICES ASSUME NEW o \in Replicas
               PROVE  RunShape(o)' /\ RunOrder(o)' /\ RunWrites(o)' /\ RunCovers(o)' /\ RunReplaces(o)'
    BY DEF RunInv
  <2>1. RunShape(o) /\ RunOrder(o) /\ RunWrites(o) /\ RunCovers(o) /\ RunReplaces(o)
    BY <1>1 DEF RunInv
  <2>2. /\ Sat(o)' = Sat(o) /\ (Open(o)' <=> Open(o)) /\ Written(o)' = Written(o)
        /\ (AtHand(o)' <=> AtHand(o)) /\ \A l : At(o, l)' <=> At(o, l)
    BY <1>2 DEF At, Sat, Open, AtHand, Written
  <2>3. RunShape(o)' /\ RunCovers(o)' /\ RunReplaces(o)'
    BY <1>2, <2>1, <2>2 DEF RunShape, RunCovers, RunReplaces, Current, At
  <2>4. RunOrder(o)'
    BY <1>2, <1>3, <2>1, <2>2 DEF RunOrder, At
  <2>5. RunWrites(o)'
    BY <1>2, <1>3, <2>1, <2>2 DEF RunWrites, At
  <2> QED
    BY <2>3, <2>4, <2>5
<1>6. Meet' /\ OneRun'
  BY <1>1, <1>2 DEF Meet, OneRun, Open, Sat
<1>7. Behind'
  BY <1>1, <1>2, <1>3 DEF Behind
<1>8. Answers'
  BY <1>1, <1>2 DEF Answers, Answered, FreshNow, FreshRun, Fresh, Covered, Open, AtHand, Sat, At, Current
<1> QED
  BY <1>4, <1>5, <1>6, <1>7, <1>8 DEF RecomputeInv

-----------------------------------------------------------------------------
(* The invariant.                                                           *)

LEMMA RecomputeInit == Init => RecomputeInv
<1> SUFFICES ASSUME Init PROVE RecomputeInv
  OBVIOUS
<1>1. /\ version = [s \in Satellites |-> 0] /\ known = [s \in Satellites |-> {}]
      /\ stations = {} /\ pending = {} /\ dead = {} /\ passes = {} /\ crossed = {}
      /\ runs = 0 /\ faults = 0 /\ task = [r \in Replicas |-> Idle]
  BY DEF Init
<1>2. \A r \in Replicas : task[r] = Idle
  BY <1>1
<1>3. TypeOK
  <2>1. DOMAIN task = Replicas /\ \A r \in Replicas : task[r] \in Tasks
    BY <1>1, <1>2, IdleFields
  <2>2. 0 \in 0 .. MaxVersion /\ 0 \in 0 .. MaxRuns /\ 0 \in 0 .. MaxFaults
    BY RecomputeParameters
  <2> QED
    BY <1>1, <2>1, <2>2 DEF TypeOK
<1>4. \A r \in Replicas : ~Open(r) /\ ~AtHand(r)
                          /\ \A l : At(r, l) => l = "idle"
  BY <1>2, IdleFields DEF Open, AtHand, At
<1>5. RunInv
  <2>1. \A r \in Replicas : At(r, "idle") /\ task[r].todo = {}
    BY <1>2, IdleFields DEF At
  <2> QED
    BY <1>4, <2>1 DEF RunInv, RunShape, RunOrder, RunWrites, RunCovers, RunReplaces
<1>6. Meet /\ OneRun
  BY <1>1, <1>4 DEF Meet, OneRun
<1>7. Behind
  BY <1>1 DEF Behind
<1>8. Answers
  BY <1>1, <1>4 DEF Answers, FreshNow, Fresh, Covered
<1> QED
  BY <1>3, <1>5, <1>6, <1>7, <1>8 DEF RecomputeInv

LEMMA RecomputeStep == RecomputeInv /\ [Next]_vars => RecomputeInv'
<1> SUFFICES ASSUME RecomputeInv, [Next]_vars PROVE RecomputeInv'
  OBVIOUS
<1>1. CASE \E s \in Satellites : Refresh(s)
  BY <1>1, RefreshKeeps
<1>2. CASE \E g \in Stations : Register(g)
  BY <1>2, RegisterKeeps
<1>3. CASE \E r \in Replicas : Handle(r)
  <2>1. PICK r \in Replicas : Handle(r)
    BY <1>3
  <2> QED
    BY <2>1, ClaimKeeps, ListKeeps, ReadKeeps, StartDeleteKeeps, DeleteRowKeeps, InsertKeeps,
       CommitKeeps, EndKeeps DEF Handle
<1>4. CASE \E r \in Replicas : Fail(r) \/ FailForGood(r)
  BY <1>4, EndKeeps
<1>5. CASE \E r \in Replicas : LoseEvent(r)
  BY <1>5, LoseKeeps
<1>6. CASE UNCHANGED vars
  <2>1. UNCHANGED <<version, stations, known, pending, dead, passes, task, crossed, runs, faults>>
    BY <1>6 DEF vars
  <2>2. TypeOK /\ RunInv /\ Meet /\ Behind /\ OneRun /\ Answers
    BY DEF RecomputeInv
  <2>3. TypeOK'
    BY <2>1, <2>2 DEF TypeOK
  <2>4. RunInv'
    BY <2>1, <2>2, OthersStay DEF RunInv
  <2>5. Meet' /\ Behind' /\ OneRun'
    BY <2>1, <2>2 DEF Meet, Behind, OneRun, Open, Sat
  <2>6. Answers'
    BY <2>1, <2>2 DEF Answers, Answered, FreshNow, FreshRun, Fresh, Covered, Open, AtHand, Sat, At, Current
  <2> QED
    BY <2>3, <2>4, <2>5, <2>6 DEF RecomputeInv
<1> QED
  BY <1>1, <1>2, <1>3, <1>4, <1>5, <1>6 DEF Next

\* RecomputeInv is an invariant of the recomputation.
LEMMA RecomputeInvariant == Spec => []RecomputeInv
BY RecomputeInit, RecomputeStep, PTL DEF Spec

\* The stations after a given one.
After(g) == {h \in Stations : g < h}

LEMMA AfterCounts ==
  ASSUME NEW g \in Stations
  PROVE  Cardinality(After(g)) \in Nat
<1>1. After(g) \in SUBSET Stations
  BY DEF After
<1>2. IsFiniteSet(After(g))
  BY <1>1, RecomputeParameters, FS_Subset
<1> QED
  BY <1>2, FS_CardinalityType

LEMMA AfterShrinks ==
  ASSUME NEW g \in Stations, NEW h \in Stations, g < h
  PROVE  /\ Cardinality(After(h)) \in Nat /\ Cardinality(After(g)) \in Nat
         /\ Cardinality(After(h)) < Cardinality(After(g))
<1>0. \A x \in Stations : x \in Nat
  BY RecomputeParameters
<1>1. After(g) \in SUBSET Stations /\ After(h) \in SUBSET After(g) /\ h \in After(g) /\ h \notin After(h)
  <2>1. \A x \in Stations : h < x => g < x
    BY <1>0
  <2>2. ~(h < h)
    BY <1>0
  <2>3. After(h) \subseteq After(g) /\ After(g) \subseteq Stations
    BY <2>1 DEF After
  <2> QED
    BY <2>2, <2>3 DEF After
<1>2. IsFiniteSet(After(g))
  BY <1>1, RecomputeParameters, FS_Subset
<1>3. IsFiniteSet(After(h)) /\ Cardinality(After(h)) <= Cardinality(After(g))
      /\ (Cardinality(After(g)) = Cardinality(After(h)) => After(g) = After(h))
  BY <1>1, <1>2, FS_Subset
<1>4. Cardinality(After(h)) \in Nat /\ Cardinality(After(g)) \in Nat
  BY <1>2, <1>3, FS_CardinalityType
<1> QED
  BY <1>1, <1>3, <1>4

\* A run that waits for one that waits itself waits at the same satellite, and
\* the other is not behind it.
LEMMA WaitsForLater ==
  ASSUME RecomputeInv, NEW r \in Replicas, NEW o \in Replicas, NEW q \in Replicas,
         WaitsFor(r, o), WaitsFor(o, q)
  PROVE  /\ Sat(r) = Sat(o)
         /\ Station(r) \in Stations /\ Station(o) \in Stations /\ Station(r) <= Station(o)
<1>1. AtHand(r) /\ Open(r) /\ AtHand(o) /\ Open(o)
  BY DEF WaitsFor, AtHand, Open, At
<1>2. RunOrder(r) /\ RunOrder(o)
  BY RunFacts
<1>3. Station(r) \in Stations /\ Station(o) \in Stations
  BY <1>1, <1>2, RunFacts DEF RunOrder, Lists, Station
<1>4. \E p \in Written(o) : p.sat = Sat(r) /\ p.station = Station(r)
  <2>1. CASE At(r, "deleting") /\ task[r].seen \cap task[o].deleted # {}
    BY <1>2, <2>1 DEF RunOrder, Written, Station
  <2>2. CASE \E p \in task[o].deleted \cup task[o].inserted : HasKey(p, r)
    BY <2>2 DEF HasKey, Written
  <2> QED
    BY <2>1, <2>2 DEF WaitsFor
<1>5. \A p \in Written(o) : p.sat = Sat(o) /\ p.station <= Station(o)
  BY <1>1, <1>2 DEF RunOrder, Station
<1> QED
  BY <1>3, <1>4, <1>5

-----------------------------------------------------------------------------
(* The theorems.                                                            *)

\* Every reachable state is well typed: what a run holds is about a satellite
\* and stations there are, and a row names the run and the TLE it comes from.
THEOREM TypeCorrect == Spec => []TypeOK
<1>1. RecomputeInv => TypeOK
  BY DEF RecomputeInv
<1> QED
  BY <1>1, RecomputeInvariant, PTL

\* However many recomputations are in progress, those that wait for each other do
\* so over one pair of a satellite and a station: of a set of waiting runs, the
\* ones that are furthest in the order of list_all (ground_station.py:14-16) wait
\* for runs at the same station only.
THEOREM DeadlocksOverOnePair == Spec => []DeadlocksAreLocal
<1>1. ASSUME RecomputeInv PROVE DeadlocksAreLocal
  <2> SUFFICES ASSUME NEW S \in SUBSET Replicas, Deadlocked(S)
               PROVE  \E r \in S : Deadlocked({o \in S : Sat(o) = Sat(r) /\ Station(o) = Station(r)})
    BY DEF DeadlocksAreLocal
  <2> DEFINE m(r) == Cardinality(After(Station(r)))
             T    == {m(r) : r \in S}
  <2>1. S # {} /\ \A r \in S : \E o \in S : WaitsFor(r, o)
    BY DEF Deadlocked
  <2>2. \A r, o \in S : WaitsFor(r, o) =>
          /\ Sat(r) = Sat(o)
          /\ Station(r) \in Stations /\ Station(o) \in Stations /\ Station(r) <= Station(o)
    <3> SUFFICES ASSUME NEW r \in S, NEW o \in S, WaitsFor(r, o)
                 PROVE  /\ Sat(r) = Sat(o)
                        /\ Station(r) \in Stations /\ Station(o) \in Stations
                        /\ Station(r) <= Station(o)
      OBVIOUS
    <3>1. PICK q \in S : WaitsFor(o, q)
      BY <2>1
    <3> QED
      BY <1>1, <3>1, WaitsForLater
  <2>3. \A r \in S : Station(r) \in Stations /\ m(r) \in Nat
    <3> TAKE r \in S
    <3>1. Station(r) \in Stations
      BY <2>1, <2>2
    <3> QED
      BY <3>1, AfterCounts
  <2>4. T \subseteq Nat /\ T # {}
    BY <2>1, <2>3
  <2>5. PICK x \in T : \A y \in T : ~(y < x)
    <3> HIDE DEF T
    <3>1. PICK x \in T : \A y \in T : <<y, x>> \notin OpToRel(<, Nat)
      BY <2>4, NatLessThanWellFounded, WFMin
    <3> QED
      BY <2>4, <3>1 DEF OpToRel
  <2>6. PICK r \in S : m(r) = x
    OBVIOUS
  <2>7. \A o \in S : ~(m(o) < m(r))
    BY <2>5, <2>6
  <2> DEFINE C == {o \in S : Sat(o) = Sat(r) /\ Station(o) = Station(r)}
  <2>8. \A o \in C : \E q \in C : WaitsFor(o, q)
    <3> TAKE o \in C
    <3>1. PICK q \in S : WaitsFor(o, q)
      BY <2>1
    <3>2. Sat(q) = Sat(r) /\ Station(r) <= Station(q) /\ Station(q) \in Stations
          /\ Station(r) \in Stations
      BY <2>2, <3>1
    <3>3. ~(Station(r) < Station(q))
      BY <2>7, <3>2, AfterShrinks
    <3>4. Station(q) \in Nat /\ Station(r) \in Nat
      BY <3>2, RecomputeParameters
    <3>5. Station(q) = Station(r)
      BY <3>2, <3>3, <3>4
    <3> QED
      BY <3>1, <3>2, <3>5
  <2>9. r \in C
    OBVIOUS
  <2> QED
    BY <2>8, <2>9 DEF Deadlocked
<1> QED
  BY <1>1, RecomputeInvariant, PTL

\* After a recomputation that has met no other, a pair has the passes of one run
\* only (compute_passes.py:17), whatever crossed, failed or repeated runs had
\* left: that run has seen and deleted every row there was.
THEOREM RunsReplaceEachOther == Spec => []OneRunPerPair
<1>1. RecomputeInv => OneRunPerPair
  BY DEF RecomputeInv, OneRun, OneRunPerPair
<1> QED
  BY <1>1, RecomputeInvariant, PTL

\* A satellite whose events are settled is answered.
LEMMA SettledIsAnswered ==
  ASSUME NEW s \in Satellites, Settled(s)
  PROVE  Answered(s)
<1>1. Current(s)[1] = s
  BY DEF Current
<1> QED
  BY <1>1 DEF Settled, Answered, Current

\* Once the events of a satellite are processed, its passes are of the TLE that
\* is stored, unless its last committed run has met another one.
THEOREM PassesAreFresh == Spec => []FreshUnlessCrossed
<1>1. RecomputeInv => FreshUnlessCrossed
  BY SettledIsAnswered DEF RecomputeInv, Answers, FreshNow, FreshUnlessCrossed
<1> QED
  BY <1>1, RecomputeInvariant, PTL

\* Once the events of a satellite are processed, every station there was when
\* its TLE last changed has passes, crossed runs included: a run inserts for
\* each pair that it has deleted.
THEOREM StationsAreCovered == Spec => []StationsCovered
<1>1. ASSUME RecomputeInv PROVE StationsCovered
  <2> SUFFICES ASSUME NEW s \in Satellites, Settled(s), NEW g \in known[s] PROVE RowsOf(s, g) # {}
    BY DEF StationsCovered
  <2>1. Covered(s)
    BY <1>1, SettledIsAnswered DEF RecomputeInv, Answers
  <2> QED
    BY <2>1 DEF Covered, RowsOf
<1> QED
  BY <1>1, RecomputeInvariant, PTL

\* One process drains the outbox.
OneReplica == \A r, o \in Replicas : r = o

\* No run has met another.
NeverCrossed == crossed = {} /\ \A r \in Replicas : task[r].alone

\* With one process every run is alone.
LEMMA AloneStep ==
  ASSUME OneReplica, TypeOK, NeverCrossed, [Next]_vars
  PROVE  NeverCrossed'
<1>1. \A r \in Replicas : \A s : Company(r, s) = {}
  BY DEF OneReplica, Company
<1>2. Idle.alone
  BY DEF Idle
<1>3. \A r \in Replicas : task[r].alone
  BY DEF NeverCrossed
<1>4. \A r \in Replicas : task[r] \in Tasks
  BY DEF TypeOK
<1>5. ASSUME NEW r \in Replicas, NEW t, t.alone, Private(r, t)
      PROVE  NeverCrossed'
  BY <1>3, <1>5 DEF Private, NeverCrossed, TypeOK
<1>6. ASSUME NEW r \in Replicas, LetGo(r), crossed' = crossed
      PROVE  NeverCrossed'
  BY <1>2, <1>3, <1>6 DEF LetGo, NeverCrossed, TypeOK
<1>7. CASE UNCHANGED vars
  BY <1>7 DEF vars, NeverCrossed
<1>8. CASE \E s \in Satellites : Refresh(s)
  BY <1>8 DEF Refresh, NeverCrossed
<1>9. CASE \E g \in Stations : Register(g)
  BY <1>9 DEF Register, NeverCrossed
<1>10. ASSUME NEW r \in Replicas, Handle(r) \/ Fail(r) \/ FailForGood(r) \/ LoseEvent(r)
       PROVE  NeverCrossed'
  <2>1. CASE Claim(r)
    <3>1. PICK e \in pending :
            task' = [o \in Replicas |->
                       IF o = r THEN Started(r, e)
                       ELSE IF o \in Company(r, e[1]) THEN [task[o] EXCEPT !.alone = FALSE]
                       ELSE task[o]]
      BY <2>1 DEF Claim
    <3>2. Started(r, e).alone
      BY <1>1 DEF Started, Idle
    <3> QED
      BY <1>1, <1>3, <2>1, <3>1, <3>2 DEF Claim, NeverCrossed
  <2>2. CASE ListStations(r)
    BY <1>3, <1>4, <1>5, <2>2 DEF ListStations, Tasks
  <2>3. CASE ReadSatellite(r)
    <3>1. PICK g, fd : Private(r, [task[r] EXCEPT !.at = "delete", !.station = g,
                                                  !.todo = task[r].todo \ {g},
                                                  !.tle = TleRead(r), !.found = fd])
      BY <2>3 DEF ReadSatellite
    <3> QED
      BY <1>3, <1>4, <1>5, <3>1 DEF Tasks
  <2>4. CASE StartDelete(r)
    BY <1>3, <1>4, <1>5, <2>4 DEF StartDelete, Tasks
  <2>5. CASE DeleteRow(r)
    BY <1>3, <1>4, <1>5, <2>5 DEF DeleteRow, Tasks
  <2>6. CASE Insert(r)
    BY <1>3, <1>4, <1>5, <2>6 DEF Insert, Tasks
  <2>7. CASE InsertClashes(r) \/ DeadlockVictim(r)
    BY <1>2, <1>5, <2>7 DEF InsertClashes, DeadlockVictim
  <2>8. CASE Commit(r)
    BY <1>3, <1>4, <2>8 DEF Commit, NeverCrossed, Tasks, TypeOK
  <2>9. CASE Close(r) \/ Fail(r) \/ FailForGood(r)
    BY <1>6, <2>9 DEF Close, Fail, FailForGood
  <2>10. CASE LoseEvent(r)
    BY <1>3, <1>4, <2>10 DEF LoseEvent, NeverCrossed, Tasks, TypeOK
  <2> QED
    BY <1>10, <2>1, <2>2, <2>3, <2>4, <2>5, <2>6, <2>7, <2>8, <2>9, <2>10 DEF Handle
<1> QED
  BY <1>7, <1>8, <1>9, <1>10 DEF Next

\* The converging of recompute_passes.py:19 holds where one process drains the
\* outbox, whatever fails and however often an event is handled again: once the
\* events of a satellite are processed, its predictions come from the TLE that
\* is stored.
THEOREM OneReplicaConverges == OneReplica /\ Spec => []NoStalePasses
<1> SUFFICES ASSUME OneReplica
             PROVE  Spec => []NoStalePasses
  OBVIOUS
<1>1. Init => NeverCrossed
  BY DEF Init, NeverCrossed, Idle
<1>2. TypeOK /\ NeverCrossed /\ [Next]_vars => NeverCrossed'
  BY AloneStep
<1>3. FreshUnlessCrossed /\ NeverCrossed => NoStalePasses
  BY DEF FreshUnlessCrossed, NeverCrossed, NoStalePasses
<1> QED
  BY <1>1, <1>2, <1>3, TypeCorrect, PassesAreFresh, PTL DEF Spec

=============================================================================
