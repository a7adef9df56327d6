----------------------------- MODULE StationApi -----------------------------
(***************************************************************************)
(* The HTTP API of apsis and its request sessions: POST /ground-stations,  *)
(* GET /ground-stations/{id}/passes and the pages of GET /satellites       *)
(* (tracking/api, tracking/use_cases), over the repositories (core/repo.py)*)
(* and the session that get_session (core/db.py) keeps for each request.   *)
(*                                                                         *)
(* A request runs in one READ COMMITTED transaction.  It is rolled back    *)
(* before an error is answered (core/exceptions/handlers.py), but          *)
(* committed only after a success has been: the exit code of a dependency  *)
(* with yield runs when the response is out.  Satellites and predictions   *)
(* are written by the background (TleIngest, PassRecompute), whose commits *)
(* are single actions here; nothing ever deletes a station or a satellite. *)
(***************************************************************************)
EXTENDS Integers, Sequences, FiniteSets

CONSTANTS
  Posts,        \* the POST requests ever made
  Names,        \* names of ground stations
  Satellites,   \* the satellites that ever exist: their ids
  PageSize,     \* the limit of the client's pages
  MaxWrites,    \* bound: rows the ingest inserts or updates
  MaxFaults,    \* bound: failing statements and commits, and crashes
  NoName

ASSUME ApiParameters ==
  /\ Satellites \subseteq Nat /\ IsFiniteSet(Satellites)
  /\ PageSize \in Nat \ {0} /\ MaxWrites \in Nat /\ MaxFaults \in Nat
  /\ NoName \notin Names

VARIABLES
  stations,     \* committed ground_stations, by name
  post,         \* where each POST stands, the station it asks for, whether its
                \* row is inserted and uncommitted, the status of its error, the
                \* status it has been answered (0: none), its commit was lost
  heap,         \* when each satellite was last written; 0: there is no row
  predictions,  \* the satellites with committed predictions for each station
  get,          \* the GET request in progress: what it has still to read, the
                \* rows it has read, and its answer
  writes,       \* rows written by the ingest so far
  faults        \* faults so far

vars == <<stations, post, heap, predictions, get, writes, faults>>

Code  == {0, 201, 409, 422, 500}
Stage == {"new", "check", "insert", "refresh", "respond", "commit", "failed", "done"}
Query == {"none", "passes", "satellites"}

Post0 == [at |-> "new", name |-> NoName, row |-> FALSE, err |-> 0, told |-> 0, lost |-> FALSE]

Get0 == [op |-> "none", busy |-> FALSE, name |-> NoName, left |-> <<>>, rows |-> {},
         known |-> {}, base |-> {}, offset |-> 0, code |-> 0]

PostState == [at : Stage, name : Names \cup {NoName}, row : BOOLEAN, err : Code,
              told : Code, lost : BOOLEAN]

LeftSet   == Seq({"predictions", "satellites"})
RowSet    == SUBSET Satellites
OffsetSet == 0 .. Cardinality(Satellites)
GetCode   == {0, 200, 404, 500}
GetState  == [op : Query, busy : BOOLEAN, name : Names \cup {NoName}, left : LeftSet,
              rows : RowSet, known : RowSet, base : RowSet, offset : OffsetSet, code : GetCode]

TypeOK ==
  /\ stations    \subseteq Names
  /\ post        \in [Posts -> PostState]
  /\ heap        \in [Satellites -> 0 .. MaxWrites]
  /\ predictions \in [Names -> SUBSET Satellites]
  /\ get         \in GetState
  /\ writes      \in 0 .. MaxWrites
  /\ faults      \in 0 .. MaxFaults
  /\ \A p \in Posts : post[p].row => post[p].at \in {"refresh", "respond", "commit", "failed"}

Init ==
  /\ stations    = {}
  /\ post        = [p \in Posts |-> Post0]
  /\ heap        = [s \in Satellites |-> 0]
  /\ predictions = [n \in Names |-> {}]
  /\ get         = Get0
  /\ writes      = 0
  /\ faults      = 0

-----------------------------------------------------------------------------
(* POST /ground-stations.                                                   *)

At(p, l) == post[p].at = l

Becomes(p, r) ==
  /\ post' = [post EXCEPT ![p] = r]
  /\ UNCHANGED <<heap, predictions, get, writes>>

\* An exception inside the request; the transaction is open until Rollback.
Raise(p, status) == Becomes(p, [post[p] EXCEPT !.at = "failed", !.err = status])

Arrive(p) ==
  /\ At(p, "new")
  /\ \E n \in Names : Becomes(p, [post[p] EXCEPT !.at = "check", !.name = n])
  /\ UNCHANGED <<stations, faults>>

\* The body does not validate: the use case is not reached.
RejectBody(p) ==
  /\ At(p, "new")
  /\ Raise(p, 422)
  /\ UNCHANGED <<stations, faults>>

\* The definitions named Wrong... are deliberate mistakes: what the API would be
\* with one plausible bug.  No specification uses them; each shows that a
\* property is able to tell the bug from the code.

\* Names are taken as soon as any request has inserted them.
WrongTaken(n) == n \in stations \/ \E p \in Posts : post[p].row /\ post[p].name = n

\* get_by_name: committed rows only.
Taken(n) == n \in stations

CheckName(p) ==
  /\ At(p, "check")
  /\ IF Taken(post[p].name)
       THEN Raise(p, 409)
       ELSE Becomes(p, [post[p] EXCEPT !.at = "insert"])
  /\ UNCHANGED <<stations, faults>>

\* Without the unique constraint the INSERT neither waits nor fails.
WrongInsert(p) ==
  /\ At(p, "insert")
  /\ Becomes(p, [post[p] EXCEPT !.at = "refresh", !.row = TRUE])
  /\ UNCHANGED <<stations, faults>>

\* The flush of create: the unique constraint makes it wait for an uncommitted
\* row of the same name, and raise IntegrityError if that is committed.
Insert(p) ==
  /\ At(p, "insert")
  /\ \A q \in Posts : ~(post[q].row /\ post[q].name = post[p].name)
  /\ IF post[p].name \in stations
       THEN Raise(p, 409)
       ELSE Becomes(p, [post[p] EXCEPT !.at = "refresh", !.row = TRUE])
  /\ UNCHANGED <<stations, faults>>

\* The refresh of create returns, and the response can be built.
Refresh(p) ==
  /\ At(p, "refresh")
  /\ Becomes(p, [post[p] EXCEPT !.at = "respond"])
  /\ UNCHANGED <<stations, faults>>

Respond(p) ==
  /\ At(p, "respond")
  /\ Becomes(p, [post[p] EXCEPT !.at = "commit", !.told = 201])
  /\ UNCHANGED <<stations, faults>>

Commit(p) ==
  /\ At(p, "commit")
  /\ stations' = stations \cup {post[p].name}
  /\ Becomes(p, [post[p] EXCEPT !.at = "done", !.row = FALSE])
  /\ UNCHANGED faults

\* The commit is in a finally clause.  The error is answered and the session
\* stays open.
WrongRollbackCommits(p) ==
  /\ At(p, "failed")
  /\ stations' = IF post[p].row THEN stations \cup {post[p].name} ELSE stations
  /\ Becomes(p, [post[p] EXCEPT !.at = "done", !.row = FALSE, !.told = post[p].err])
  /\ UNCHANGED faults
WrongRollbackLeaks(p) ==
  /\ At(p, "failed")
  /\ Becomes(p, [post[p] EXCEPT !.at = "done", !.told = post[p].err])
  /\ UNCHANGED <<stations, faults>>

\* get_session rolls back and raises again, and the handler of the exception
\* answers.
Rollback(p) ==
  /\ At(p, "failed")
  /\ Becomes(p, [post[p] EXCEPT !.at = "done", !.row = FALSE, !.told = post[p].err])
  /\ UNCHANGED <<stations, faults>>

-----------------------------------------------------------------------------
(* GET requests.  One at a time is enough: they only read.                  *)

Gets(r) ==
  /\ get' = r
  /\ UNCHANGED <<stations, post, heap, predictions, writes, faults>>

Answer(r, code) == Gets([r EXCEPT !.busy = FALSE, !.left = <<>>, !.code = code])

\* Satellites before predictions.
WrongStatements == <<"satellites", "predictions">>

\* The statements after the look-up of the station, each with the snapshot of
\* its own instant.
Statements == <<"predictions", "satellites">>

\* get_by_id of the station.
AskPasses(n) ==
  /\ ~get.busy
  /\ LET r == [Get0 EXCEPT !.op = "passes", !.busy = TRUE, !.name = n, !.left = Statements]
     IN  IF n \in stations THEN Gets(r) ELSE Answer(r, 404)

ReadPredictions ==
  /\ get.left # <<>> /\ Head(get.left) = "predictions"
  /\ Gets([get EXCEPT !.rows = predictions[get.name], !.left = Tail(@)])

\* The committed rows.
Stored == {s \in Satellites : heap[s] # 0}

ReadSatellites ==
  /\ get.left # <<>> /\ Head(get.left) = "satellites"
  /\ Gets([get EXCEPT !.known = Stored, !.left = Tail(@)])

\* satellites[prediction.satellite_id] raises KeyError for an unknown one.
JoinPasses ==
  /\ get.busy /\ get.op = "passes" /\ get.left = <<>>
  /\ Answer(get, IF get.rows \subseteq get.known THEN 200 ELSE 500)

\* Without ORDER BY the rows come as they are stored.
WrongBefore(s, t) == heap[s] < heap[t]

\* ORDER BY id
Before(s, t) == s < t

\* The number of rows that are listed before s.
Rank(s) == Cardinality({t \in Stored : Before(t, s)})

\* The client begins to page through the satellites there are.
AskSatellites ==
  /\ ~get.busy
  /\ Gets([Get0 EXCEPT !.op = "satellites", !.busy = TRUE, !.base = Stored])

\* OFFSET ... LIMIT ...
Page == {s \in Stored : Rank(s) \in get.offset .. get.offset + PageSize - 1}

\* The client goes on until a page is not full.
ReadPage ==
  /\ get.busy /\ get.op = "satellites"
  /\ LET r == [get EXCEPT !.rows = @ \cup Page]
     IN  IF Cardinality(Page) < PageSize
         THEN Answer(r, 200)
         ELSE Gets([r EXCEPT !.offset = @ + PageSize])

-----------------------------------------------------------------------------
(* The background, and faults.                                              *)

\* The ingest commits a new or changed satellite.
Ingest(s) ==
  /\ writes < MaxWrites
  /\ writes' = writes + 1
  /\ heap' = [heap EXCEPT ![s] = writes + 1]
  /\ UNCHANGED <<stations, post, predictions, get, faults>>

\* A recomputation commits; which stations have passes depends on the orbit,
\* and on the stations that had been registered when it began.
Recompute(s) ==
  /\ s \in Stored
  /\ \E seen \in SUBSET stations :
       predictions' = [n \in Names |-> IF n \in seen THEN predictions[n] \cup {s}
                                                     ELSE predictions[n] \ {s}]
  /\ UNCHANGED <<stations, post, heap, get, writes, faults>>

CountFault ==
  /\ faults < MaxFaults
  /\ faults' = faults + 1

StatementFails(p) ==
  /\ post[p].at \in {"check", "insert", "refresh"}
  /\ Raise(p, 500)
  /\ CountFault
  /\ UNCHANGED stations

\* The response is out when the commit fails.
CommitFails(p) ==
  /\ At(p, "commit")
  /\ Becomes(p, [post[p] EXCEPT !.at = "done", !.row = FALSE, !.lost = TRUE])
  /\ CountFault
  /\ UNCHANGED stations

\* The process dies, and with it its requests and their transactions.
Crash ==
  /\ CountFault
  /\ post' = [p \in Posts |->
       IF post[p].at \in {"new", "done"} THEN post[p]
       ELSE [post[p] EXCEPT !.at = "done", !.row = FALSE, !.lost = At(p, "commit")]]
  /\ get' = Get0
  /\ UNCHANGED <<stations, heap, predictions, writes>>

-----------------------------------------------------------------------------
Serve(p) ==
  \/ CheckName(p)
  \/ Insert(p)
  \/ Refresh(p)
  \/ Respond(p)
  \/ Commit(p)
  \/ Rollback(p)

ServeGet ==
  \/ ReadPredictions
  \/ ReadSatellites
  \/ JoinPasses
  \/ ReadPage

Next ==
  \/ \E p \in Posts : Arrive(p) \/ RejectBody(p) \/ Serve(p) \/ StatementFails(p) \/ CommitFails(p)
  \/ \E n \in Names : AskPasses(n)
  \/ AskSatellites
  \/ ServeGet
  \/ \E s \in Satellites : Ingest(s) \/ Recompute(s)
  \/ Crash

Spec == Init /\ [][Next]_vars

\* A request that has arrived is served; nobody has to ask.
FairSpec ==
  /\ Spec
  /\ \A p \in Posts : WF_vars(Serve(p))
  /\ WF_vars(ServeGet)

-----------------------------------------------------------------------------
(* Properties.                                                              *)

\* register_ground_station.py:16 checks the name and inserts later: two
\* requests may both be told 201 for one name only if the commit of one of
\* them was lost after its response (db.py:51).
OneStationPerName ==
  \A p, q \in Posts :
    p # q /\ post[p].name = post[q].name /\ post[p].told = 201 /\ post[q].told = 201
      => post[p].lost \/ post[q].lost

\* A 409, from the check or from the loser's IntegrityError (handlers.py:28),
\* means that the station is there for good, never that a registration is
\* under way that may yet be rolled back.
ConflictIsReal ==
  \A p \in Posts : post[p].told = 409 => post[p].name \in stations

\* db.py:47, "rollback on error": a station is there only if somebody has been
\* told so; whatever is answered with an error, or not at all, leaves nothing.
StoredWasAccepted ==
  \A n \in stations : \E p \in Posts : post[p].name = n /\ post[p].told = 201

\* get_ground_station_passes.py:35-41 reads predictions and satellites in two
\* statements, with ingests and recomputations committing in between: every
\* prediction it has read finds its satellite.
PassesNameTheirSatellites == get.code # 500

\* A client that pages until a page is not full is shown every satellite that
\* was there when it began, however many are inserted before or between the
\* rows it has read, or updated meanwhile.
PagingMissesNone ==
  get.op = "satellites" /\ get.code = 200 => get.base \subseteq get.rows

\* Every request comes to its end: a registration that waits for another one
\* of the same name gets its turn, whether that is committed, refused or lost.
RequestsEnd ==
  /\ \A p \in Posts : post[p].at \notin {"new", "done"} ~> At(p, "done")
  /\ get.busy ~> ~get.busy

=============================================================================
