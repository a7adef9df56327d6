----------------------------- MODULE TleIngest -----------------------------
(***************************************************************************)
(* The ingest of two-line elements: the handler of the job tle_refresh     *)
(* (core/jobs/handlers/tle_refresh.py) fetches a group from CelesTrak,     *)
(* upserts the satellites one by one and publishes tle.refreshed for those *)
(* that changed, all in one READ COMMITTED transaction                     *)
(* (use_cases/ingest_tles.py).                                             *)
(*                                                                         *)
(* JobWorker shows when the runs of the job exclude each other.  Here they *)
(* need not: up to MaxOverlaps runs may begin beside another one.          *)
(***************************************************************************)
EXTENDS Integers, Sequences, FiniteSets, SequencesExt

CONSTANTS
  Ingesters,    \* the processes that may run tle_refresh
  Norads,       \* catalogue numbers
  MaxVersion,   \* bound: TLEs CelesTrak ever serves for a satellite
  Line2,        \* the second line of each version; the first, which carries
                \* the epoch, differs between any two
  MaxOverlaps,  \* bound: runs that begin while another is in progress
  MaxFaults,    \* bound: failed runs
  NoRow         \* no satellite with this number

Tle == [line1 : 1 .. MaxVersion, line2 : Nat]
Row == Tle \cup {NoRow}

ASSUME IngestParameters ==
  /\ IsFiniteSet(Norads)
  /\ NoRow \notin Tle
  /\ MaxVersion \in Nat /\ MaxOverlaps \in Nat /\ MaxFaults \in Nat
  /\ Line2 \in [1 .. MaxVersion -> Nat]

VARIABLES
  source,       \* the version CelesTrak serves of each satellite; 0: none yet
  satellites,   \* committed rows: tle_line1 and tle_line2
  events,       \* committed tle.refreshed events of each satellite, counted
  pc,           \* where each run of the handler stands
  records,      \* what fetch_group has returned
  next,         \* index of the record at hand
  existing,     \* the row get_by_norad_id has found for it
  wrote,        \* rows written and not committed; the run holds their locks
  published,    \* satellites whose event is inserted and not committed
  overlaps,     \* runs so far that began while another was in progress
  faults        \* faults so far

table == <<satellites, events>>
vars  == <<source, satellites, events, pc, records, next, existing, wrote,
           published, overlaps, faults>>

TleOf(v)  == [line1 |-> v, line2 |-> Line2[v]]
NoWrites  == [n \in {} |-> NoRow]
Record    == [norad : Norads, tle : Tle]

TypeOK ==
  /\ source     \in [Norads -> 0 .. MaxVersion]
  /\ satellites \in [Norads -> Row]
  /\ events     \in [Norads -> Nat]
  /\ pc         \in [Ingesters -> {"idle", "fetch", "upsert", "write", "publish"}]
  /\ records    \in [Ingesters -> Seq(Record)]
  /\ next       \in [Ingesters -> Nat]
  /\ \A w \in Ingesters : next[w] \in 1 .. Len(records[w]) + 1
  /\ existing   \in [Ingesters -> Row]
  /\ DOMAIN wrote = Ingesters
  /\ \A w \in Ingesters :
       DOMAIN wrote[w] \subseteq Norads /\ wrote[w] \in [DOMAIN wrote[w] -> Tle]
  /\ published  \in [Ingesters -> SUBSET Norads]
  /\ faults     \in 0 .. MaxFaults
  /\ overlaps   \in 0 .. MaxOverlaps

Init ==
  /\ source     = [n \in Norads |-> 0]
  /\ satellites = [n \in Norads |-> NoRow]
  /\ events     = [n \in Norads |-> 0]
  /\ pc         = [w \in Ingesters |-> "idle"]
  /\ records    = [w \in Ingesters |-> <<>>]
  /\ next       = [w \in Ingesters |-> 1]
  /\ existing   = [w \in Ingesters |-> NoRow]
  /\ wrote      = [w \in Ingesters |-> NoWrites]
  /\ published  = [w \in Ingesters |-> {}]
  /\ overlaps   = 0
  /\ faults     = 0

-----------------------------------------------------------------------------
\* CelesTrak: new elements for a satellite, or a satellite new to the group.
Served(n) ==
  /\ source[n] < MaxVersion
  /\ source' = [source EXCEPT ![n] = source[n] + 1]
  /\ UNCHANGED <<table, pc, records, next, existing, wrote, published, overlaps, faults>>

-----------------------------------------------------------------------------
(* The handler.                                                             *)

Goto(w, l) == pc' = [pc EXCEPT ![w] = l]

\* The definitions named Wrong... are deliberate mistakes: what the handler
\* would be with one plausible bug.  No specification uses them; each shows that
\* a property is able to tell the bug from the code.

\* The session is neither closed nor rolled back.
WrongLetGo(w) ==
  /\ Goto(w, "idle")
  /\ records'  = [records EXCEPT ![w] = <<>>]
  /\ next'     = [next EXCEPT ![w] = 1]
  /\ existing' = [existing EXCEPT ![w] = NoRow]
  /\ UNCHANGED <<wrote, published>>

\* The end of the session: locks are released, what is not committed is lost.
LetGo(w) ==
  /\ Goto(w, "idle")
  /\ records'  = [records EXCEPT ![w] = <<>>]
  /\ next'     = [next EXCEPT ![w] = 1]
  /\ existing' = [existing EXCEPT ![w] = NoRow]
  /\ wrote'    = [wrote EXCEPT ![w] = NoWrites]
  /\ published' = [published EXCEPT ![w] = {}]

\* The job worker starts the handler.
Begin(w) ==
  /\ pc[w] = "idle"
  /\ Goto(w, "fetch")
  /\ \/ (\A o \in Ingesters : pc[o] = "idle") /\ UNCHANGED overlaps
     \/ /\ \E o \in Ingesters : pc[o] # "idle"
        /\ overlaps < MaxOverlaps
        /\ overlaps' = overlaps + 1
  /\ UNCHANGED <<source, table, records, next, existing, wrote, published, faults>>

Group == {n \in Norads : source[n] > 0}

\* The body's records, in whatever order CelesTrak lists them.
Bodies ==
  {[i \in DOMAIN order |-> [norad |-> order[i], tle |-> TleOf(source[order[i]])]] :
     order \in SetToSeqs(Group)}

FetchGroup(w) ==
  /\ pc[w] = "fetch"
  /\ Group # {}
  /\ \E s \in Bodies : records' = [records EXCEPT ![w] = s]
  /\ Goto(w, "upsert")
  /\ UNCHANGED <<source, table, next, existing, wrote, published, overlaps, faults>>

\* "No GP data found": TleNotFound is raised.
GroupNotFound(w) ==
  /\ pc[w] = "fetch"
  /\ Group = {}
  /\ LetGo(w)
  /\ UNCHANGED <<source, table, overlaps, faults>>

Current(w) == records[w][next[w]]

AtRecord(w) == pc[w] = "upsert" /\ next[w] <= Len(records[w])

\* Every record counts as changed; the second line alone is compared.
WrongChangedAlways(row, tle) == TRUE
WrongChangedLine2(row, tle)  == row # NoRow => row.line2 # tle.line2

\* existing is None, or one of the two lines differs.
Changed(row, tle) ==
  row # NoRow => row.line1 # tle.line1 \/ row.line2 # tle.line2

SkipUnchanged(w) ==
  /\ AtRecord(w)
  /\ ~Changed(satellites[Current(w).norad], Current(w).tle)
  /\ next' = [next EXCEPT ![w] = next[w] + 1]
  /\ UNCHANGED <<source, table, pc, records, existing, wrote, published, overlaps, faults>>

ReadChanged(w) ==
  /\ AtRecord(w)
  /\ Changed(satellites[Current(w).norad], Current(w).tle)
  /\ existing' = [existing EXCEPT ![w] = satellites[Current(w).norad]]
  /\ Goto(w, "write")
  /\ UNCHANGED <<source, table, records, next, wrote, published, overlaps, faults>>

\* A row that another transaction has inserted or updated must be waited for.
WaitsFor(w, o) ==
  w # o /\ pc[w] = "write" /\ Current(w).norad \in DOMAIN wrote[o]

\* The entity is written as it was found; the second line is forgotten.
WrongUpsertedStale(w) == existing[w]
WrongUpsertedLine1(w) ==
  IF existing[w] = NoRow THEN Current(w).tle
  ELSE [satellites[Current(w).norad] EXCEPT !.line1 = Current(w).tle.line1]

\* An INSERT of the record, or an UPDATE of the columns that differ from what
\* was read; the others keep what the row holds by now.
Upserted(w) ==
  LET row == satellites[Current(w).norad]
      tle == Current(w).tle
      new(was, is, now) == IF is # was THEN is ELSE now
  IN  IF existing[w] = NoRow THEN tle
      ELSE [line1 |-> new(existing[w].line1, tle.line1, row.line1),
            line2 |-> new(existing[w].line2, tle.line2, row.line2)]

\* The flush of the upsert.
Upsert(w) ==
  /\ pc[w] = "write"
  /\ \A o \in Ingesters : ~WaitsFor(w, o)
  /\ existing[w] = NoRow => satellites[Current(w).norad] = NoRow
  /\ wrote' = [wrote EXCEPT ![w] =
       [n \in DOMAIN wrote[w] \cup {Current(w).norad} |->
          IF n = Current(w).norad THEN Upserted(w) ELSE wrote[w][n]]]
  /\ Goto(w, "publish")
  /\ UNCHANGED <<source, table, records, next, existing, published, overlaps, faults>>

\* norad_id is unique: the loser of two INSERTs raises.
InsertClashes(w) ==
  /\ pc[w] = "write"
  /\ existing[w] = NoRow /\ satellites[Current(w).norad] # NoRow
  /\ LetGo(w)
  /\ UNCHANGED <<source, table, overlaps, faults>>

\* PostgreSQL aborts a transaction of a cycle of waiting ones.
DeadlockVictim(w) ==
  /\ \E cycle \in SUBSET Ingesters :
       /\ w \in cycle
       /\ \A o \in cycle : \E p, q \in cycle : WaitsFor(o, p) /\ WaitsFor(q, o)
  /\ LetGo(w)
  /\ UNCHANGED <<source, table, overlaps, faults>>

AllUpserted(w) == pc[w] = "upsert" /\ next[w] = Len(records[w]) + 1

\* Only updates are announced, not new satellites.
WrongPublish(w) ==
  /\ pc[w] = "publish"
  /\ published' = [published EXCEPT ![w] =
       IF existing[w] = NoRow THEN published[w] ELSE published[w] \cup {Current(w).norad}]
  /\ next' = [next EXCEPT ![w] = next[w] + 1]
  /\ Goto(w, "upsert")
  /\ UNCHANGED <<source, table, records, existing, wrote, overlaps, faults>>

\* The flush of the event, in the transaction of the upsert; the next record.
Publish(w) ==
  /\ pc[w] = "publish"
  /\ published' = [published EXCEPT ![w] = published[w] \cup {Current(w).norad}]
  /\ next' = [next EXCEPT ![w] = next[w] + 1]
  /\ Goto(w, "upsert")
  /\ UNCHANGED <<source, table, records, existing, wrote, overlaps, faults>>

Commit(w) ==
  /\ AllUpserted(w)
  /\ satellites' = [n \in Norads |->
       IF n \in DOMAIN wrote[w] THEN wrote[w][n] ELSE satellites[n]]
  /\ events' = [n \in Norads |->
       IF n \in published[w] THEN events[n] + 1 ELSE events[n]]
  /\ LetGo(w)
  /\ UNCHANGED <<source, overlaps, faults>>

CountFault ==
  /\ faults < MaxFaults
  /\ faults' = faults + 1

\* A 403 is no failure of the job: the handler rolls back and returns.
RateLimited(w) ==
  /\ pc[w] = "fetch"
  /\ CountFault
  /\ LetGo(w)
  /\ UNCHANGED <<source, table, overlaps>>

\* Any other answer of CelesTrak, a malformed record, a database error, the
\* job worker's timeout or the end of the process.
Abort(w) ==
  /\ pc[w] # "idle"
  /\ CountFault
  /\ LetGo(w)
  /\ UNCHANGED <<source, table, overlaps>>

-----------------------------------------------------------------------------
Refresh(w) ==
  \/ Begin(w)
  \/ FetchGroup(w)
  \/ GroupNotFound(w)
  \/ SkipUnchanged(w)
  \/ ReadChanged(w)
  \/ Upsert(w)
  \/ Publish(w)
  \/ InsertClashes(w)
  \/ DeadlockVictim(w)
  \/ Commit(w)

Next ==
  \/ \E n \in Norads : Served(n)
  \/ \E w \in Ingesters : Refresh(w) \/ RateLimited(w) \/ Abort(w)

Spec == Init /\ [][Next]_vars

\* The job keeps being run (JobsKeepRunning of JobWorker) and every statement
\* of a run ends; the failures and the overlapping runs are finitely many.
FairSpec == Spec /\ \A w \in Ingesters : WF_vars(Refresh(w))

-----------------------------------------------------------------------------
(* Properties.                                                              *)

\* ingest_tles.py:14-16, the transactional outbox: no TLE changes without an
\* event committed with it, overlapping and failed runs included.
ChangesAreAnnounced ==
  [][\A n \in Norads :
       satellites'[n] # satellites[n] => events'[n] = events[n] + 1]_vars

\* ingest_tles.py:16-17, "if the TLE did not change it neither updates nor
\* publishes": as long as the runs exclude each other, no event without a
\* change, whatever has been fetched, retried or rolled back before.
UnchangedIsSilent ==
  [][\A n \in Norads :
       overlaps = 0 /\ satellites'[n] = satellites[n] => events'[n] = events[n]]_vars

\* What a run that goes through leaves is the group it fetched, no satellite
\* left behind by the comparison or the loop.
GroupIsComplete ==
  \A w \in Ingesters : AllUpserted(w) /\ overlaps = 0 =>
    \A i \in DOMAIN records[w] :
      LET n == records[w][i].norad
      IN  records[w][i].tle =
            IF n \in DOMAIN wrote[w] THEN wrote[w][n] ELSE satellites[n]

\* The two lines of a row are of one TLE, although an UPDATE writes only the
\* columns that changed.
LinesBelongTogether ==
  overlaps = 0 => \A n \in Norads :
    satellites[n] # NoRow => \E v \in 1 .. source[n] : satellites[n] = TleOf(v)

\* Overlapping runs may clash, deadlock and overwrite newer elements with older
\* ones; still every satellite ends with the elements CelesTrak serves.
IngestCatchesUp ==
  \A n \in Norads :
    <>[](source[n] > 0 => satellites[n] = TleOf(source[n]))

=============================================================================
