-------------------------- MODULE TleIngestProofs --------------------------
(***************************************************************************)
(* What TleIngest guarantees for any number of processes, satellites and   *)
(* versions: nothing changes unannounced, and, as long as the runs exclude *)
(* each other, nothing is announced unchanged, a run leaves the group it   *)
(* has fetched, and no row mixes two TLEs.                                 *)
(***************************************************************************)
EXTENDS TleIngest, FiniteSetTheorems, TLAPS

\* A TLE that CelesTrak has served for a satellite.
IsServed(n, tle) == \E v \in 1 .. source[n] : tle = TleOf(v)

\* A run that has fetched nothing has written nothing.
StartsEmpty(w) ==
  pc[w] \in {"idle", "fetch"} =>
    Len(records[w]) = 0 /\ next[w] = 1 /\ DOMAIN wrote[w] = {} /\ published[w] = {}

\* What it has fetched is what CelesTrak served, one TLE for each satellite.
FetchedWasServed(w) ==
  /\ \A i \in DOMAIN records[w] : IsServed(records[w][i].norad, records[w][i].tle)
  /\ \A i, k \in DOMAIN records[w] :
       records[w][i].norad = records[w][k].norad => records[w][i].tle = records[w][k].tle

\* It writes a record that it has, over a row that has not vanished.
WritesRecord(w) ==
  pc[w] \in {"write", "publish"} =>
    /\ next[w] \in DOMAIN records[w]
    /\ existing[w] # NoRow => satellites[Current(w).norad] # NoRow

\* It has published the event of what it has written, except that of the record
\* at hand between the two flushes.
Publishes(w) ==
  DOMAIN wrote[w] =
    published[w] \cup (IF pc[w] = "publish" THEN {Current(w).norad} ELSE {})

\* No other run is in progress.
Excludes(w) == \A o \in Ingesters : pc[w] # "idle" /\ pc[o] # "idle" => o = w

\* What it has written was served, was fetched, and is not what was there.
WritesChanges(w) ==
  \A n \in DOMAIN wrote[w] :
    /\ wrote[w][n] # satellites[n]
    /\ IsServed(n, wrote[w][n])
    /\ \A i \in DOMAIN records[w] : records[w][i].norad = n => records[w][i].tle = wrote[w][n]

\* What it has passed over is there already.
PassesOver(w) ==
  \A i \in DOMAIN records[w] :
    i < next[w] => records[w][i].norad \in DOMAIN wrote[w]
                   \/ satellites[records[w][i].norad] = records[w][i].tle

\* What it has read is still what is there.
ReadIsCurrent(w) ==
  pc[w] = "write" =>
    /\ existing[w] = satellites[Current(w).norad]
    /\ Changed(existing[w], Current(w).tle)

Stored == \A n \in Norads : satellites[n] # NoRow => IsServed(n, satellites[n])

\* What holds of every run, whatever runs beside it.
RunInv ==
  \A w \in Ingesters : StartsEmpty(w) /\ FetchedWasServed(w) /\ WritesRecord(w) /\ Publishes(w)

\* What holds of the runs as long as they exclude each other.
AloneInv ==
  overlaps = 0 =>
    /\ Stored
    /\ \A w \in Ingesters : Excludes(w) /\ WritesChanges(w) /\ PassesOver(w) /\ ReadIsCurrent(w)

IngestInv == TypeOK /\ RunInv /\ AloneInv

-----------------------------------------------------------------------------
(* The records of a group.                                                  *)

\* Each version is a TLE.
LEMMA VersionsAreTles ==
  ASSUME NEW v \in 1 .. MaxVersion
  PROVE  TleOf(v) \in Tle /\ TleOf(v) # NoRow
BY IngestParameters DEF TleOf, Tle

\* A body lists satellites of the group with the TLE that is served of each.
LEMMA BodyIsServed ==
  ASSUME TypeOK, NEW s \in Bodies
  PROVE  /\ s \in Seq(Record)
         /\ \A i \in DOMAIN s : /\ source[s[i].norad] \in 1 .. MaxVersion
                                /\ s[i].tle = TleOf(source[s[i].norad])
<1> DEFINE D == 1 .. Cardinality(Group)
<1>1. IsFiniteSet(Group) /\ Group \in SUBSET Norads
  <2>1. Group \in SUBSET Norads
    BY DEF Group
  <2> QED
    BY <2>1, IngestParameters, FS_Subset
<1>2. Cardinality(Group) \in Nat
  BY <1>1, FS_CardinalityType
<1>3. PICK order \in [D -> Group] :
        s = [i \in DOMAIN order |-> [norad |-> order[i], tle |-> TleOf(source[order[i]])]]
  BY DEF Bodies, SetToSeqs
<1>4. \A n \in Group : n \in Norads /\ source[n] \in 1 .. MaxVersion
  BY IngestParameters DEF Group, TypeOK
<1>5. ASSUME NEW i \in D
      PROVE  /\ s[i] \in Record
             /\ source[s[i].norad] \in 1 .. MaxVersion
             /\ s[i].tle = TleOf(source[s[i].norad])
  <2>1. order[i] \in Group /\ s[i] = [norad |-> order[i], tle |-> TleOf(source[order[i]])]
    BY <1>3
  <2>2. order[i] \in Norads /\ source[order[i]] \in 1 .. MaxVersion
    BY <1>4, <2>1
  <2>3. TleOf(source[order[i]]) \in Tle
    BY <2>2, VersionsAreTles
  <2> QED
    BY <2>1, <2>2, <2>3 DEF Record
<1>6. DOMAIN s = D
  BY <1>3
<1>7. s \in [D -> Record]
  BY <1>3, <1>5
<1>8. s \in Seq(Record)
  BY <1>2, <1>7
<1> QED
  BY <1>5, <1>6, <1>8

\* The types of what a run has at hand.
LEMMA RunTypes ==
  ASSUME TypeOK, NEW w \in Ingesters
  PROVE  /\ records[w] \in Seq(Record) /\ DOMAIN records[w] = 1 .. Len(records[w])
         /\ Len(records[w]) \in Nat
         /\ next[w] \in 1 .. Len(records[w]) + 1
         /\ existing[w] \in Row /\ DOMAIN wrote[w] \subseteq Norads
         /\ \A n \in DOMAIN wrote[w] : wrote[w][n] \in Tle
         /\ \A i \in DOMAIN records[w] : /\ records[w][i] \in Record
                                         /\ records[w][i].norad \in Norads
                                         /\ records[w][i].tle \in Tle
<1>1. records[w] \in Seq(Record)
  BY DEF TypeOK
<1>2. \A i \in DOMAIN records[w] : records[w][i] \in Record
  BY <1>1
<1>3. \A i \in DOMAIN records[w] : records[w][i].norad \in Norads /\ records[w][i].tle \in Tle
  BY <1>2 DEF Record
<1>4. DOMAIN records[w] = 1 .. Len(records[w]) /\ Len(records[w]) \in Nat
  BY <1>1
<1> QED
  BY <1>1, <1>2, <1>3, <1>4 DEF TypeOK

\* The row that an upsert leaves; it is the record if the row was as it was read.
LEMMA UpsertedRow ==
  ASSUME TypeOK, NEW w \in Ingesters, next[w] \in DOMAIN records[w],
         existing[w] # NoRow => satellites[Current(w).norad] # NoRow
  PROVE  /\ Upserted(w) \in Tle
         /\ existing[w] = satellites[Current(w).norad] => Upserted(w) = Current(w).tle
<1>1. Current(w) \in Record /\ Current(w).norad \in Norads /\ Current(w).tle \in Tle
  BY RunTypes DEF Current
<1>2. satellites[Current(w).norad] \in Row /\ existing[w] \in Row
  BY <1>1, RunTypes DEF TypeOK
<1> DEFINE tle == Current(w).tle
           row == satellites[Current(w).norad]
           was == existing[w]
           l1 == IF tle.line1 # was.line1 THEN tle.line1 ELSE row.line1
           l2 == IF tle.line2 # was.line2 THEN tle.line2 ELSE row.line2
<1>3. Upserted(w) = IF was = NoRow THEN tle ELSE [line1 |-> l1, line2 |-> l2]
  BY DEF Upserted
<1>4. tle \in Tle /\ row \in Row /\ was \in Row /\ (was # NoRow => row # NoRow)
  BY <1>1, <1>2
<1> HIDE DEF tle, row, was
<1>5. CASE was = NoRow
  BY <1>3, <1>4, <1>5 DEF tle
<1>6. CASE was # NoRow
  <2>1. row \in Tle /\ was \in Tle
    BY <1>4, <1>6 DEF Row
  <2>2. l1 \in 1 .. MaxVersion /\ l2 \in Nat
    BY <1>4, <2>1 DEF Tle
  <2>3. Upserted(w) = [line1 |-> l1, line2 |-> l2]
    BY <1>3, <1>6
  <2>4. was = row => l1 = tle.line1 /\ l2 = tle.line2
    OBVIOUS
  <2>5. tle = [line1 |-> tle.line1, line2 |-> tle.line2]
    BY <1>4 DEF Tle
  <2>6. Upserted(w) \in Tle
    BY <2>2, <2>3 DEF Tle
  <2> QED
    BY <2>3, <2>4, <2>5, <2>6 DEF was, row, tle
<1> QED
  BY <1>5, <1>6

\* A record that is no change is what is stored.
LEMMA UnchangedIsStored ==
  ASSUME NEW row \in Row, NEW tle \in Tle
  PROVE  ~Changed(row, tle) <=> row = tle
<1>1. row # NoRow => row \in Tle
  BY DEF Row
<1>2. row # NoRow => row = [line1 |-> row.line1, line2 |-> row.line2]
  BY <1>1 DEF Tle
<1>3. tle = [line1 |-> tle.line1, line2 |-> tle.line2] /\ tle # NoRow
  BY IngestParameters DEF Tle
<1> QED
  BY <1>2, <1>3 DEF Changed

-----------------------------------------------------------------------------
(* The steps.                                                               *)

\* The runs but w are left where they are.
LeavesOthers(w) ==
  \A o \in Ingesters \ {w} :
    /\ pc'[o] = pc[o] /\ records'[o] = records[o] /\ next'[o] = next[o]
    /\ existing'[o] = existing[o] /\ wrote'[o] = wrote[o] /\ published'[o] = published[o]

\* The run is over.
Resets(w) ==
  /\ pc'[w] = "idle" /\ Len(records'[w]) = 0 /\ next'[w] = 1
  /\ DOMAIN wrote'[w] = {} /\ published'[w] = {}

\* A run ends in good order, whatever becomes of the tables.
LEMMA LetGoResets ==
  ASSUME TypeOK, NEW w \in Ingesters, LetGo(w)
  PROVE  /\ Resets(w) /\ LeavesOthers(w)
         /\ pc' \in [Ingesters -> {"idle", "fetch", "upsert", "write", "publish"}]
         /\ records' \in [Ingesters -> Seq(Record)]
         /\ next' \in [Ingesters -> Nat]
         /\ \A o \in Ingesters : next'[o] \in 1 .. Len(records'[o]) + 1
         /\ existing' \in [Ingesters -> Row]
         /\ DOMAIN wrote' = Ingesters
         /\ \A o \in Ingesters :
              DOMAIN wrote'[o] \subseteq Norads /\ wrote'[o] \in [DOMAIN wrote'[o] -> Tle]
         /\ published' \in [Ingesters -> SUBSET Norads]
<1>1. pc' = [pc EXCEPT ![w] = "idle"] /\ records' = [records EXCEPT ![w] = <<>>]
      /\ next' = [next EXCEPT ![w] = 1] /\ existing' = [existing EXCEPT ![w] = NoRow]
      /\ wrote' = [wrote EXCEPT ![w] = NoWrites] /\ published' = [published EXCEPT ![w] = {}]
  BY DEF LetGo, Goto
<1>2. DOMAIN pc = Ingesters /\ DOMAIN records = Ingesters /\ DOMAIN next = Ingesters
      /\ DOMAIN existing = Ingesters /\ DOMAIN wrote = Ingesters /\ DOMAIN published = Ingesters
  BY DEF TypeOK
<1>3. LeavesOthers(w) /\ DOMAIN wrote' = Ingesters
  BY <1>1, <1>2 DEF LeavesOthers
<1>4. pc'[w] = "idle" /\ records'[w] = <<>> /\ next'[w] = 1 /\ wrote'[w] = NoWrites
      /\ published'[w] = {}
  BY <1>1, <1>2
<1>5. DOMAIN NoWrites = {} /\ NoWrites \in [{} -> Tle] /\ <<>> \in Seq(Record) /\ Len(<<>>) = 0
  BY DEF NoWrites
<1>6. Resets(w)
  BY <1>4, <1>5 DEF Resets
<1>7. pc' \in [Ingesters -> {"idle", "fetch", "upsert", "write", "publish"}]
  BY <1>1 DEF TypeOK
<1>8. records' \in [Ingesters -> Seq(Record)] /\ next' \in [Ingesters -> Nat]
  BY <1>1, <1>5 DEF TypeOK
<1>9. existing' \in [Ingesters -> Row]
  BY <1>1 DEF TypeOK, Row
<1>10. \A o \in Ingesters : next'[o] \in 1 .. Len(records'[o]) + 1
  <2> TAKE o \in Ingesters
  <2>1. CASE o = w
    <3>1. next'[w] = 1 /\ Len(records'[w]) = 0
      BY <1>6 DEF Resets
    <3> QED
      BY <2>1, <3>1
  <2>2. CASE o # w
    BY <1>3, <2>2 DEF TypeOK, LeavesOthers
  <2> QED
    BY <2>1, <2>2
<1>11. \A o \in Ingesters :
         DOMAIN wrote'[o] \subseteq Norads /\ wrote'[o] \in [DOMAIN wrote'[o] -> Tle]
  <2> TAKE o \in Ingesters
  <2>1. CASE o = w
    BY <1>4, <1>5, <2>1
  <2>2. CASE o # w
    BY <1>3, <2>2 DEF TypeOK, LeavesOthers
  <2> QED
    BY <2>1, <2>2
<1>12. published' \in [Ingesters -> SUBSET Norads]
  BY <1>1 DEF TypeOK
<1> QED
  BY <1>3, <1>6, <1>7, <1>8, <1>9, <1>10, <1>11, <1>12

\* A run that is not touched stays in order while the rows do not change and
\* no TLE is withdrawn.
LEMMA OthersStay ==
  ASSUME IngestInv, NEW o \in Ingesters,
         pc'[o] = pc[o], records'[o] = records[o], next'[o] = next[o],
         existing'[o] = existing[o], wrote'[o] = wrote[o], published'[o] = published[o],
         satellites' = satellites,
         \A n \in Norads : source[n] \in Nat /\ source'[n] \in Nat /\ source'[n] >= source[n]
  PROVE  /\ StartsEmpty(o)' /\ FetchedWasServed(o)' /\ WritesRecord(o)' /\ Publishes(o)'
         /\ overlaps = 0 => WritesChanges(o)' /\ PassesOver(o)' /\ ReadIsCurrent(o)'
<1>0. StartsEmpty(o) /\ FetchedWasServed(o) /\ WritesRecord(o) /\ Publishes(o)
  BY DEF IngestInv, RunInv
<1>00. overlaps = 0 => WritesChanges(o) /\ PassesOver(o) /\ ReadIsCurrent(o)
  BY DEF IngestInv, AloneInv
<1>1. TypeOK
  BY DEF IngestInv
<1>2. \A n \in Norads : \A tle : IsServed(n, tle) => IsServed(n, tle)'
  BY DEF IsServed
<1>3. \A i \in DOMAIN records[o] : records[o][i].norad \in Norads
  BY <1>1, RunTypes
<1>4. DOMAIN wrote[o] \subseteq Norads
  BY <1>1, RunTypes
<1>5. Current(o)' = Current(o)
  BY DEF Current
<1>6. StartsEmpty(o)' /\ WritesRecord(o)' /\ Publishes(o)'
  BY <1>0, <1>5 DEF StartsEmpty, WritesRecord, Publishes
<1>7. FetchedWasServed(o)'
  BY <1>0, <1>2, <1>3 DEF FetchedWasServed
<1>8. overlaps = 0 => WritesChanges(o)'
  BY <1>00, <1>2, <1>4 DEF WritesChanges
<1>9. overlaps = 0 => PassesOver(o)' /\ ReadIsCurrent(o)'
  BY <1>00, <1>5 DEF PassesOver, ReadIsCurrent, Changed
<1> QED
  BY <1>6, <1>7, <1>8, <1>9

\* A run that is over is in order, whatever the tables hold.
LEMMA OverIsInOrder ==
  ASSUME NEW w \in Ingesters, Resets(w), records'[w] \in Seq(Record)
  PROVE  /\ StartsEmpty(w)' /\ FetchedWasServed(w)' /\ WritesRecord(w)' /\ Publishes(w)'
         /\ WritesChanges(w)' /\ PassesOver(w)' /\ ReadIsCurrent(w)'
<1>1. DOMAIN records'[w] = {}
  BY DEF Resets
<1>2. StartsEmpty(w)' /\ WritesRecord(w)' /\ ReadIsCurrent(w)' /\ Publishes(w)'
  BY DEF Resets, StartsEmpty, WritesRecord, ReadIsCurrent, Publishes
<1>3. FetchedWasServed(w)' /\ PassesOver(w)'
  BY <1>1 DEF FetchedWasServed, PassesOver
<1>4. WritesChanges(w)'
  BY DEF Resets, WritesChanges
<1> QED
  BY <1>2, <1>3, <1>4

\* The sources only grow within their bounds.
LEMMA SourcesAreNumbers ==
  ASSUME TypeOK, NEW n \in Norads
  PROVE  source[n] \in Nat /\ source[n] <= MaxVersion
BY IngestParameters DEF TypeOK

\* Stored rows stay served as long as neither they nor the sources change back.
LEMMA StoredStays ==
  ASSUME IngestInv, overlaps = 0, satellites' = satellites,
         \A n \in Norads : source[n] \in Nat /\ source'[n] \in Nat /\ source'[n] >= source[n]
  PROVE  Stored'
<1>1. Stored
  BY DEF IngestInv, AloneInv
<1>2. \A n \in Norads : \A tle : IsServed(n, tle) => IsServed(n, tle)'
  BY DEF IsServed
<1> QED
  BY <1>1, <1>2 DEF Stored

\* CelesTrak serves a new TLE, or a fault is counted: the runs go on.
LEMMA ServedKeeps ==
  ASSUME IngestInv, NEW n \in Norads, Served(n)
  PROVE  IngestInv'
<1>1. TypeOK
  BY DEF IngestInv
<1>2. source' = [source EXCEPT ![n] = source[n] + 1] /\ source[n] < MaxVersion
      /\ UNCHANGED <<table, pc, records, next, existing, wrote, published, overlaps, faults>>
  BY DEF Served
<1>3. source' \in [Norads -> 0 .. MaxVersion]
  BY <1>1, <1>2, IngestParameters DEF TypeOK
<1>4. \A m \in Norads : source[m] \in Nat /\ source'[m] \in Nat /\ source'[m] >= source[m]
  BY <1>1, <1>2, IngestParameters DEF TypeOK
<1>5. TypeOK'
  BY <1>1, <1>2, <1>3 DEF TypeOK, table
<1>6. satellites' = satellites /\ overlaps' = overlaps
  BY <1>2 DEF table
<1>7. \A o \in Ingesters : /\ StartsEmpty(o)' /\ FetchedWasServed(o)' /\ WritesRecord(o)' /\ Publishes(o)'
                           /\ overlaps = 0 => WritesChanges(o)' /\ PassesOver(o)' /\ ReadIsCurrent(o)'
  BY <1>2, <1>4, <1>6, OthersStay
<1>8. overlaps = 0 => Stored'
  BY <1>4, <1>6, StoredStays
<1>9. overlaps = 0 => \A o \in Ingesters : Excludes(o)'
  BY <1>2 DEF IngestInv, AloneInv, Excludes
<1>10. RunInv'
  BY <1>7 DEF RunInv
<1>11. AloneInv'
  BY <1>6, <1>7, <1>8, <1>9 DEF AloneInv
<1> QED
  BY <1>5, <1>10, <1>11 DEF IngestInv

\* A run is over without having committed.
LEMMA EndKeeps ==
  ASSUME IngestInv, NEW w \in Ingesters, LetGo(w), UNCHANGED <<source, table, overlaps>>,
         faults' \in 0 .. MaxFaults
  PROVE  IngestInv'
<1>1. TypeOK
  BY DEF IngestInv
<1>2. Resets(w) /\ LeavesOthers(w)
  BY <1>1, LetGoResets
<1>3. TypeOK'
  BY <1>1, LetGoResets DEF TypeOK, table
<1>4. \A m \in Norads : source[m] \in Nat /\ source'[m] \in Nat /\ source'[m] >= source[m]
  BY <1>1, SourcesAreNumbers
<1>5. satellites' = satellites
  BY DEF table
<1>6. ASSUME NEW o \in Ingesters
      PROVE  /\ StartsEmpty(o)' /\ FetchedWasServed(o)' /\ WritesRecord(o)' /\ Publishes(o)'
             /\ overlaps = 0 => WritesChanges(o)' /\ PassesOver(o)' /\ ReadIsCurrent(o)'
  <2>1. CASE o = w
    BY <1>2, <1>3, <2>1, OverIsInOrder DEF TypeOK
  <2>2. CASE o # w
    BY <1>2, <1>4, <1>5, <2>2, OthersStay DEF LeavesOthers
  <2> QED
    BY <2>1, <2>2
<1>7. overlaps = 0 => Stored'
  BY <1>4, <1>5, StoredStays
<1>8. overlaps = 0 => \A o \in Ingesters : Excludes(o)'
  <2> SUFFICES ASSUME overlaps = 0, NEW o \in Ingesters, NEW p \in Ingesters,
                      pc'[o] # "idle", pc'[p] # "idle"
               PROVE  p = o
    BY DEF Excludes
  <2>1. pc'[o] = pc[o] /\ pc'[p] = pc[p]
    BY <1>2 DEF Resets, LeavesOthers
  <2> QED
    BY <2>1 DEF IngestInv, AloneInv, Excludes
<1>9. RunInv'
  BY <1>6 DEF RunInv
<1>10. AloneInv'
  BY <1>6, <1>7, <1>8 DEF AloneInv
<1> QED
  BY <1>3, <1>9, <1>10 DEF IngestInv

\* A step of run w that leaves tables and sources alone: what is to be shown of w.
LEMMA RunKeeps ==
  ASSUME IngestInv, NEW w \in Ingesters, UNCHANGED <<source, table>>, TypeOK',
         LeavesOthers(w), overlaps' = overlaps,
         pc[w] # "idle",
         StartsEmpty(w)', FetchedWasServed(w)', WritesRecord(w)', Publishes(w)',
         overlaps = 0 => WritesChanges(w)' /\ PassesOver(w)' /\ ReadIsCurrent(w)'
  PROVE  IngestInv'
<1>1. TypeOK
  BY DEF IngestInv
<1>2. \A m \in Norads : source[m] \in Nat /\ source'[m] \in Nat /\ source'[m] >= source[m]
  BY <1>1, SourcesAreNumbers
<1>3. satellites' = satellites
  BY DEF table
<1>4. ASSUME NEW o \in Ingesters
      PROVE  /\ StartsEmpty(o)' /\ FetchedWasServed(o)' /\ WritesRecord(o)' /\ Publishes(o)'
             /\ overlaps = 0 => WritesChanges(o)' /\ PassesOver(o)' /\ ReadIsCurrent(o)'
  <2>1. CASE o # w
    BY <1>2, <1>3, <2>1, OthersStay DEF LeavesOthers
  <2> QED
    BY <2>1
<1>5. overlaps = 0 => Stored'
  BY <1>2, <1>3, StoredStays
<1>6. overlaps = 0 => \A o \in Ingesters : Excludes(o)'
  <2> SUFFICES ASSUME overlaps = 0, NEW o \in Ingesters, NEW p \in Ingesters,
                      pc'[o] # "idle", pc'[p] # "idle"
               PROVE  p = o
    BY DEF Excludes
  <2>1. pc[o] # "idle" /\ pc[p] # "idle"
    BY DEF LeavesOthers
  <2> QED
    BY <2>1 DEF IngestInv, AloneInv, Excludes
<1>7. RunInv'
  BY <1>4 DEF RunInv
<1>8. AloneInv'
  BY <1>4, <1>5, <1>6 DEF AloneInv
<1> QED
  BY <1>7, <1>8 DEF IngestInv

\* The domains of what a run changes.
LEMMA Domains ==
  ASSUME TypeOK
  PROVE  DOMAIN pc = Ingesters /\ DOMAIN records = Ingesters /\ DOMAIN next = Ingesters
         /\ DOMAIN existing = Ingesters /\ DOMAIN wrote = Ingesters /\ DOMAIN published = Ingesters
BY DEF TypeOK

\* A run begins.
LEMMA BeginKeeps ==
  ASSUME IngestInv, NEW w \in Ingesters, Begin(w)
  PROVE  IngestInv'
<1>1. TypeOK
  BY DEF IngestInv
<1>2. /\ pc[w] = "idle" /\ pc' = [pc EXCEPT ![w] = "fetch"]
      /\ UNCHANGED <<source, table, records, next, existing, wrote, published, faults>>
      /\ \/ (\A o \in Ingesters : pc[o] = "idle") /\ overlaps' = overlaps
         \/ overlaps < MaxOverlaps /\ overlaps' = overlaps + 1
  BY DEF Begin, Goto
<1>3. pc'[w] = "fetch" /\ \A o \in Ingesters \ {w} : pc'[o] = pc[o]
  BY <1>1, <1>2, Domains
<1>4. TypeOK'
  <2>1. overlaps' \in 0 .. MaxOverlaps
    BY <1>1, <1>2, IngestParameters DEF TypeOK
  <2>2. pc' \in [Ingesters -> {"idle", "fetch", "upsert", "write", "publish"}]
    BY <1>1, <1>2 DEF TypeOK
  <2> QED
    BY <1>1, <1>2, <2>1, <2>2 DEF TypeOK, table
<1>5. \A m \in Norads : source[m] \in Nat /\ source'[m] \in Nat /\ source'[m] >= source[m]
  BY <1>1, <1>2, SourcesAreNumbers
<1>6. satellites' = satellites
  BY <1>2 DEF table
<1>7. ASSUME NEW o \in Ingesters
      PROVE  /\ StartsEmpty(o)' /\ FetchedWasServed(o)' /\ WritesRecord(o)' /\ Publishes(o)'
             /\ overlaps = 0 => WritesChanges(o)' /\ PassesOver(o)' /\ ReadIsCurrent(o)'
  <2>1. CASE o # w
    BY <1>2, <1>3, <1>5, <1>6, <2>1, OthersStay
  <2>2. CASE o = w
    <3>1. Len(records[w]) = 0 /\ next[w] = 1 /\ DOMAIN wrote[w] = {} /\ published[w] = {}
      BY <1>2 DEF IngestInv, RunInv, StartsEmpty
    <3>2. DOMAIN records'[w] = {}
      BY <1>1, <1>2, <3>1, RunTypes
    <3>3. StartsEmpty(w)' /\ WritesRecord(w)' /\ ReadIsCurrent(w)' /\ Publishes(w)'
      BY <1>2, <1>3, <3>1 DEF StartsEmpty, WritesRecord, ReadIsCurrent, Publishes
    <3>4. FetchedWasServed(w)' /\ PassesOver(w)'
      BY <3>2 DEF FetchedWasServed, PassesOver
    <3>5. WritesChanges(w)'
      BY <1>2, <3>1 DEF WritesChanges
    <3> QED
      BY <2>2, <3>3, <3>4, <3>5
  <2> QED
    BY <2>1, <2>2
<1>8. overlaps = 0 => Stored'
  BY <1>5, <1>6, StoredStays
<1>9. RunInv'
  BY <1>7 DEF RunInv
<1>10. CASE overlaps' = overlaps /\ \A o \in Ingesters : pc[o] = "idle"
  <2>1. \A o \in Ingesters : Excludes(o)'
    BY <1>3, <1>10 DEF Excludes
  <2>2. AloneInv'
    BY <1>7, <1>8, <1>10, <2>1 DEF AloneInv
  <2> QED
    BY <1>4, <1>9, <2>2 DEF IngestInv
<1>11. CASE overlaps' = overlaps + 1
  <2>1. overlaps' # 0
    BY <1>1, <1>11, IngestParameters DEF TypeOK
  <2> QED
    BY <1>4, <1>9, <2>1 DEF IngestInv, AloneInv
<1> QED
  BY <1>2, <1>10, <1>11

\* CelesTrak answers with the group.
LEMMA FetchKeeps ==
  ASSUME IngestInv, NEW w \in Ingesters, FetchGroup(w)
  PROVE  IngestInv'
<1>1. TypeOK
  BY DEF IngestInv
<1>2. PICK s \in Bodies : records' = [records EXCEPT ![w] = s]
  BY DEF FetchGroup
<1>3. /\ pc[w] = "fetch" /\ pc' = [pc EXCEPT ![w] = "upsert"]
      /\ UNCHANGED <<source, table, next, existing, wrote, published, overlaps, faults>>
  BY DEF FetchGroup, Goto
<1>4. s \in Seq(Record) /\ \A i \in DOMAIN s : source[s[i].norad] \in 1 .. MaxVersion
                                             /\ s[i].tle = TleOf(source[s[i].norad])
  BY <1>1, BodyIsServed
<1>5. pc'[w] = "upsert" /\ records'[w] = s /\ LeavesOthers(w)
  BY <1>1, <1>2, <1>3, Domains DEF LeavesOthers
<1>6. next[w] = 1 /\ DOMAIN wrote[w] = {} /\ published[w] = {}
  BY <1>3 DEF IngestInv, RunInv, StartsEmpty
<1>7. TypeOK'
  <2>1. records' \in [Ingesters -> Seq(Record)]
    BY <1>1, <1>2, <1>4 DEF TypeOK
  <2>2. \A o \in Ingesters : next'[o] \in 1 .. Len(records'[o]) + 1
    BY <1>1, <1>3, <1>4, <1>5, <1>6, RunTypes DEF LeavesOthers
  <2>3. pc' \in [Ingesters -> {"idle", "fetch", "upsert", "write", "publish"}]
    BY <1>1, <1>3 DEF TypeOK
  <2> QED
    BY <1>1, <1>3, <2>1, <2>2, <2>3 DEF TypeOK, table
<1>8. StartsEmpty(w)' /\ WritesRecord(w)' /\ ReadIsCurrent(w)' /\ Publishes(w)'
  BY <1>3, <1>5, <1>6 DEF StartsEmpty, WritesRecord, ReadIsCurrent, Publishes
<1>9. FetchedWasServed(w)'
  <2>1. \A i \in DOMAIN s : \E v \in 1 .. source[s[i].norad] : s[i].tle = TleOf(v)
    <3> TAKE i \in DOMAIN s
    <3>1. source[s[i].norad] \in 1 .. source[s[i].norad]
      BY <1>4, IngestParameters
    <3> QED
      BY <1>4, <3>1
  <2> QED
    BY <1>3, <1>4, <1>5, <2>1 DEF FetchedWasServed, IsServed
<1>10. WritesChanges(w)' /\ PassesOver(w)'
  <2>1. \A i \in DOMAIN records'[w] : ~(i < 1)
    BY <1>4, <1>5
  <2> QED
    BY <1>3, <1>5, <1>6, <2>1 DEF WritesChanges, PassesOver
<1> QED
  BY <1>3, <1>5, <1>7, <1>8, <1>9, <1>10, RunKeeps

\* A record that is no change is passed over.
LEMMA SkipKeeps ==
  ASSUME IngestInv, NEW w \in Ingesters, SkipUnchanged(w)
  PROVE  IngestInv'
<1>1. TypeOK
  BY DEF IngestInv
<1>2. /\ pc[w] = "upsert" /\ next[w] <= Len(records[w])
      /\ ~Changed(satellites[Current(w).norad], Current(w).tle)
      /\ next' = [next EXCEPT ![w] = next[w] + 1]
      /\ UNCHANGED <<source, table, pc, records, existing, wrote, published, overlaps, faults>>
  BY DEF SkipUnchanged, AtRecord
<1>3. next'[w] = next[w] + 1 /\ LeavesOthers(w)
  BY <1>1, <1>2, Domains DEF LeavesOthers
<1>4. next[w] \in DOMAIN records[w] /\ next[w] \in Nat /\ Len(records[w]) \in Nat
      /\ DOMAIN records[w] = 1 .. Len(records[w])
  BY <1>1, <1>2, RunTypes
<1>5. satellites[records[w][next[w]].norad] = records[w][next[w]].tle
  <2>1. Current(w).norad \in Norads /\ Current(w).tle \in Tle
    BY <1>1, <1>4, RunTypes DEF Current
  <2>2. satellites[Current(w).norad] \in Row
    BY <1>1, <2>1 DEF TypeOK
  <2>3. satellites[Current(w).norad] = Current(w).tle
    BY <1>2, <2>1, <2>2, UnchangedIsStored
  <2> QED
    BY <2>3 DEF Current
<1>6. TypeOK'
  <2>1. \A o \in Ingesters : next'[o] \in 1 .. Len(records'[o]) + 1
    BY <1>1, <1>2, <1>3, <1>4, RunTypes DEF LeavesOthers
  <2>2. next' \in [Ingesters -> Nat]
    BY <1>1, <1>2, <1>4 DEF TypeOK
  <2> QED
    BY <1>1, <1>2, <2>1, <2>2 DEF TypeOK, table
<1>7. StartsEmpty(w)' /\ WritesRecord(w)' /\ ReadIsCurrent(w)'
  BY <1>2 DEF StartsEmpty, WritesRecord, ReadIsCurrent
<1>11. Publishes(w)'
  BY <1>2 DEF IngestInv, RunInv, Publishes
<1>8. FetchedWasServed(w)'
  BY <1>2 DEF IngestInv, RunInv, FetchedWasServed, IsServed
<1>9. overlaps = 0 => WritesChanges(w)'
  BY <1>2 DEF IngestInv, AloneInv, WritesChanges, IsServed, table
<1>10. overlaps = 0 => PassesOver(w)'
  <2> SUFFICES ASSUME overlaps = 0, NEW i \in DOMAIN records[w], i < next[w] + 1
               PROVE  \/ records[w][i].norad \in DOMAIN wrote[w]
                      \/ satellites[records[w][i].norad] = records[w][i].tle
    BY <1>2, <1>3 DEF PassesOver, table
  <2>1. i < next[w] \/ i = next[w]
    BY <1>4
  <2> QED
    BY <1>5, <2>1 DEF IngestInv, AloneInv, PassesOver
<1> QED
  BY <1>2, <1>3, <1>6, <1>7, <1>8, <1>9, <1>10, <1>11, RunKeeps

\* A record that is a change is to be written.
LEMMA ReadKeeps ==
  ASSUME IngestInv, NEW w \in Ingesters, ReadChanged(w)
  PROVE  IngestInv'
<1>1. TypeOK
  BY DEF IngestInv
<1>2. /\ pc[w] = "upsert" /\ next[w] <= Len(records[w])
      /\ Changed(satellites[Current(w).norad], Current(w).tle)
      /\ existing' = [existing EXCEPT ![w] = satellites[Current(w).norad]]
      /\ pc' = [pc EXCEPT ![w] = "write"]
      /\ UNCHANGED <<source, table, records, next, wrote, published, overlaps, faults>>
  BY DEF ReadChanged, AtRecord, Goto
<1>3. pc'[w] = "write" /\ existing'[w] = satellites[Current(w).norad] /\ LeavesOthers(w)
  BY <1>1, <1>2, Domains DEF LeavesOthers
<1>4. next[w] \in DOMAIN records[w] /\ Current(w)' = Current(w) /\ satellites' = satellites
  BY <1>1, <1>2, RunTypes DEF Current, table
<1>5. satellites[Current(w).norad] \in Row
  <2>1. Current(w).norad \in Norads
    BY <1>1, <1>4, RunTypes DEF Current
  <2> QED
    BY <1>1, <2>1 DEF TypeOK
<1>6. TypeOK'
  <2>1. existing' \in [Ingesters -> Row]
    BY <1>1, <1>2, <1>5 DEF TypeOK
  <2>2. pc' \in [Ingesters -> {"idle", "fetch", "upsert", "write", "publish"}]
    BY <1>1, <1>2 DEF TypeOK
  <2> QED
    BY <1>1, <1>2, <2>1, <2>2 DEF TypeOK, table
<1>7. StartsEmpty(w)' /\ WritesRecord(w)'
  BY <1>2, <1>3, <1>4 DEF StartsEmpty, WritesRecord
<1>11. Publishes(w)'
  BY <1>2, <1>3 DEF IngestInv, RunInv, Publishes
<1>8. ReadIsCurrent(w)'
  BY <1>2, <1>3, <1>4 DEF ReadIsCurrent, Changed
<1>9. FetchedWasServed(w)'
  BY <1>2 DEF IngestInv, RunInv, FetchedWasServed, IsServed
<1>10. overlaps = 0 => WritesChanges(w)' /\ PassesOver(w)'
  BY <1>2 DEF IngestInv, AloneInv, WritesChanges, PassesOver, IsServed, table
<1> QED
  BY <1>2, <1>3, <1>6, <1>7, <1>8, <1>9, <1>10, <1>11, RunKeeps

\* The record is inserted or updated, and its event is to be published.
LEMMA UpsertKeeps ==
  ASSUME IngestInv, NEW w \in Ingesters, Upsert(w)
  PROVE  IngestInv'
<1>1. TypeOK
  BY DEF IngestInv
<1> DEFINE n == Current(w).norad
           done == [m \in DOMAIN wrote[w] \cup {n} |-> IF m = n THEN Upserted(w) ELSE wrote[w][m]]
<1>2. /\ pc[w] = "write" /\ wrote' = [wrote EXCEPT ![w] = done]
      /\ pc' = [pc EXCEPT ![w] = "publish"]
      /\ UNCHANGED <<source, table, records, next, existing, published, overlaps, faults>>
  BY DEF Upsert, Goto
<1>3. /\ pc'[w] = "publish" /\ wrote'[w] = done
      /\ LeavesOthers(w) /\ DOMAIN wrote' = Ingesters
  BY <1>1, <1>2, Domains DEF LeavesOthers
<1>4. WritesRecord(w)
  BY DEF IngestInv, RunInv
<1>5. next[w] \in DOMAIN records[w] /\ next[w] \in Nat /\ Len(records[w]) \in Nat
      /\ DOMAIN records[w] = 1 .. Len(records[w])
  BY <1>1, <1>2, <1>4, RunTypes DEF WritesRecord
<1>6. n \in Norads /\ Current(w).tle \in Tle /\ Upserted(w) \in Tle
      /\ (existing[w] = satellites[n] => Upserted(w) = Current(w).tle)
  <2>1. n \in Norads /\ Current(w).tle \in Tle
    BY <1>1, <1>5, RunTypes DEF Current
  <2>2. existing[w] # NoRow => satellites[n] # NoRow
    BY <1>2, <1>4 DEF WritesRecord
  <2> QED
    BY <1>1, <1>5, <2>1, <2>2, UpsertedRow
<1>7. /\ DOMAIN done = DOMAIN wrote[w] \cup {n} /\ done[n] = Upserted(w)
      /\ \A m \in DOMAIN wrote[w] : m # n => done[m] = wrote[w][m]
  OBVIOUS
<1>8. DOMAIN done \subseteq Norads /\ done \in [DOMAIN done -> Tle]
  BY <1>1, <1>6, RunTypes
<1> HIDE DEF done
<1>9. TypeOK'
  <2>3. pc' \in [Ingesters -> {"idle", "fetch", "upsert", "write", "publish"}]
    BY <1>1, <1>2 DEF TypeOK
  <2>4. \A o \in Ingesters :
          DOMAIN wrote'[o] \subseteq Norads /\ wrote'[o] \in [DOMAIN wrote'[o] -> Tle]
    <3> TAKE o \in Ingesters
    <3>1. CASE o = w
      BY <1>3, <1>8, <3>1
    <3>2. CASE o # w
      BY <1>1, <1>3, <3>2 DEF TypeOK, LeavesOthers
    <3> QED
      BY <3>1, <3>2
  <2> QED
    BY <1>1, <1>2, <1>3, <2>3, <2>4 DEF TypeOK, table
<1>10. StartsEmpty(w)' /\ ReadIsCurrent(w)'
  BY <1>3 DEF StartsEmpty, ReadIsCurrent
<1>13. WritesRecord(w)' /\ Publishes(w)'
  <2>1. Current(w)' = Current(w) /\ satellites' = satellites
    BY <1>2 DEF Current, table
  <2>2. WritesRecord(w)'
    BY <1>2, <1>4, <2>1 DEF WritesRecord
  <2>3. DOMAIN wrote[w] = published[w]
    BY <1>2 DEF IngestInv, RunInv, Publishes
  <2>4. Publishes(w)'
    BY <1>2, <1>3, <1>7, <2>1, <2>3 DEF Publishes
  <2> QED
    BY <2>2, <2>4
<1>11. FetchedWasServed(w)'
  BY <1>2 DEF IngestInv, RunInv, FetchedWasServed, IsServed
<1>12. ASSUME overlaps = 0 PROVE WritesChanges(w)' /\ PassesOver(w)'
  <2>1. existing[w] = satellites[n] /\ Changed(existing[w], Current(w).tle)
    BY <1>2, <1>12 DEF IngestInv, AloneInv, ReadIsCurrent
  <2>2. Upserted(w) = Current(w).tle /\ Upserted(w) # satellites[n]
    <3>1. satellites[n] \in Row
      BY <1>1, <1>6 DEF TypeOK
    <3> QED
      BY <1>6, <2>1, <3>1, UnchangedIsStored
  <2>3. IsServed(n, Upserted(w))
          /\ \A i \in DOMAIN records[w] : records[w][i].norad = n => records[w][i].tle = Upserted(w)
    <3>1. FetchedWasServed(w)
      BY DEF IngestInv, RunInv
    <3> QED
      BY <1>5, <2>2, <3>1 DEF FetchedWasServed, Current
  <2>4. WritesChanges(w) /\ PassesOver(w)
    BY <1>12 DEF IngestInv, AloneInv
  <2>5. WritesChanges(w)'
    <3> SUFFICES ASSUME NEW m \in DOMAIN done
                 PROVE  /\ done[m] # satellites[m]
                        /\ IsServed(m, done[m])
                        /\ \A i \in DOMAIN records[w] :
                             records[w][i].norad = m => records[w][i].tle = done[m]
      BY <1>2, <1>3 DEF WritesChanges, table, IsServed
    <3>1. CASE m = n
      BY <1>7, <2>2, <2>3, <3>1
    <3>2. CASE m # n
      BY <1>7, <2>4, <3>2 DEF WritesChanges
    <3> QED
      BY <3>1, <3>2
  <2>6. PassesOver(w)'
    BY <1>2, <1>3, <1>7, <2>4 DEF PassesOver, table
  <2> QED
    BY <2>5, <2>6
<1> QED
  BY <1>2, <1>3, <1>9, <1>10, <1>11, <1>12, <1>13, RunKeeps

\* The event of the record is inserted, and the run goes on with the next.
LEMMA PublishKeeps ==
  ASSUME IngestInv, NEW w \in Ingesters, Publish(w)
  PROVE  IngestInv'
<1>1. TypeOK
  BY DEF IngestInv
<1> DEFINE n == Current(w).norad
           all == published[w] \cup {n}
<1>2. /\ pc[w] = "publish" /\ published' = [published EXCEPT ![w] = all]
      /\ next' = [next EXCEPT ![w] = next[w] + 1]
      /\ pc' = [pc EXCEPT ![w] = "upsert"]
      /\ UNCHANGED <<source, table, records, existing, wrote, overlaps, faults>>
  BY DEF Publish, Goto
<1>3. /\ pc'[w] = "upsert" /\ next'[w] = next[w] + 1 /\ published'[w] = all
      /\ LeavesOthers(w)
  BY <1>1, <1>2, Domains DEF LeavesOthers
<1>4. WritesRecord(w) /\ DOMAIN wrote[w] = all
  BY <1>2 DEF IngestInv, RunInv, Publishes
<1>5. next[w] \in DOMAIN records[w] /\ next[w] \in Nat /\ Len(records[w]) \in Nat
      /\ DOMAIN records[w] = 1 .. Len(records[w])
  BY <1>1, <1>2, <1>4, RunTypes DEF WritesRecord
<1>6. n \in Norads
  BY <1>1, <1>5, RunTypes DEF Current
<1>7. TypeOK'
  <2>1. \A o \in Ingesters : next'[o] \in 1 .. Len(records'[o]) + 1
    BY <1>1, <1>2, <1>3, <1>5, RunTypes DEF LeavesOthers
  <2>2. next' \in [Ingesters -> Nat]
    BY <1>1, <1>2, <1>5 DEF TypeOK
  <2>3. pc' \in [Ingesters -> {"idle", "fetch", "upsert", "write", "publish"}]
    BY <1>1, <1>2 DEF TypeOK
  <2>4. published' \in [Ingesters -> SUBSET Norads]
    BY <1>1, <1>2, <1>6 DEF TypeOK
  <2> QED
    BY <1>1, <1>2, <2>1, <2>2, <2>3, <2>4 DEF TypeOK, table
<1>8. StartsEmpty(w)' /\ WritesRecord(w)' /\ ReadIsCurrent(w)'
  BY <1>3 DEF StartsEmpty, WritesRecord, ReadIsCurrent
<1>9. Publishes(w)'
  BY <1>2, <1>3, <1>4 DEF Publishes
<1>10. FetchedWasServed(w)'
  BY <1>2 DEF IngestInv, RunInv, FetchedWasServed, IsServed
<1>11. overlaps = 0 => WritesChanges(w)'
  BY <1>2 DEF IngestInv, AloneInv, WritesChanges, IsServed, table
<1>12. overlaps = 0 => PassesOver(w)'
  <2> SUFFICES ASSUME overlaps = 0, NEW i \in DOMAIN records[w], i < next[w] + 1
               PROVE  \/ records[w][i].norad \in DOMAIN wrote[w]
                      \/ satellites[records[w][i].norad] = records[w][i].tle
    BY <1>2, <1>3 DEF PassesOver, table
  <2>1. i < next[w] \/ i = next[w]
    BY <1>5
  <2>2. records[w][next[w]].norad \in DOMAIN wrote[w]
    BY <1>4 DEF Current
  <2> QED
    BY <2>1, <2>2 DEF IngestInv, AloneInv, PassesOver
<1> QED
  BY <1>2, <1>3, <1>7, <1>8, <1>9, <1>10, <1>11, <1>12, RunKeeps

\* A run commits: its rows replace the others, and each has its event.
LEMMA CommitEffect ==
  ASSUME IngestInv, NEW w \in Ingesters, Commit(w)
  PROVE  /\ \A n \in Norads :
              /\ satellites'[n] = IF n \in DOMAIN wrote[w] THEN wrote[w][n] ELSE satellites[n]
              /\ events'[n] = IF n \in DOMAIN wrote[w] THEN events[n] + 1 ELSE events[n]
         /\ satellites' \in [Norads -> Row] /\ events' \in [Norads -> Nat]
         /\ pc[w] = "upsert" /\ next[w] = Len(records[w]) + 1
<1>1. /\ satellites' = [n \in Norads |->
           IF n \in DOMAIN wrote[w] THEN wrote[w][n] ELSE satellites[n]]
      /\ events' = [n \in Norads |->
           IF n \in published[w] THEN events[n] + 1 ELSE events[n]]
      /\ pc[w] = "upsert" /\ next[w] = Len(records[w]) + 1
  BY DEF Commit, AllUpserted
<1>2. published[w] = DOMAIN wrote[w]
  BY <1>1 DEF IngestInv, RunInv, Publishes
<1>3. TypeOK
  BY DEF IngestInv
<1>4. \A n \in DOMAIN wrote[w] : wrote[w][n] \in Row
  BY <1>3, RunTypes DEF Row
<1>5. satellites' \in [Norads -> Row]
  BY <1>1, <1>3, <1>4 DEF TypeOK
<1>6. events' \in [Norads -> Nat]
  BY <1>1, <1>3 DEF TypeOK
<1> QED
  BY <1>1, <1>2, <1>5, <1>6

LEMMA CommitKeeps ==
  ASSUME IngestInv, NEW w \in Ingesters, Commit(w)
  PROVE  IngestInv'
<1>1. TypeOK
  BY DEF IngestInv
<1>2. LetGo(w) /\ UNCHANGED <<source, overlaps, faults>>
  BY DEF Commit
<1>3. Resets(w) /\ LeavesOthers(w)
  BY <1>1, <1>2, LetGoResets
<1>4. TypeOK'
  BY <1>1, <1>2, LetGoResets, CommitEffect DEF TypeOK
<1>5. \A n \in Norads :
        satellites'[n] = IF n \in DOMAIN wrote[w] THEN wrote[w][n] ELSE satellites[n]
  BY <1>1, CommitEffect
<1>6. \A n \in Norads : satellites[n] # NoRow => satellites'[n] # NoRow
  <2>1. \A n \in DOMAIN wrote[w] : wrote[w][n] # NoRow
    BY <1>1, RunTypes, IngestParameters
  <2> QED
    BY <1>5, <2>1
<1>7. RunInv'
  <2> SUFFICES ASSUME NEW o \in Ingesters
               PROVE  StartsEmpty(o)' /\ FetchedWasServed(o)' /\ WritesRecord(o)' /\ Publishes(o)'
    BY DEF RunInv
  <2>1. CASE o = w
    BY <1>3, <1>4, <2>1, OverIsInOrder DEF TypeOK
  <2>2. CASE o # w
    <3>1. pc'[o] = pc[o] /\ records'[o] = records[o] /\ next'[o] = next[o]
          /\ existing'[o] = existing[o] /\ wrote'[o] = wrote[o] /\ published'[o] = published[o]
      BY <1>3, <2>2 DEF LeavesOthers
    <3>2. StartsEmpty(o) /\ FetchedWasServed(o) /\ WritesRecord(o) /\ Publishes(o)
      BY DEF IngestInv, RunInv
    <3>3. Current(o)' = Current(o)
      BY <3>1 DEF Current
    <3>4. pc[o] \in {"write", "publish"} => Current(o).norad \in Norads
      BY <1>1, <3>2, RunTypes DEF WritesRecord, Current
    <3>5. WritesRecord(o)'
      BY <1>6, <3>1, <3>2, <3>3, <3>4 DEF WritesRecord
    <3> QED
      BY <1>2, <3>1, <3>2, <3>3, <3>5 DEF StartsEmpty, FetchedWasServed, IsServed, Publishes
  <2> QED
    BY <2>1, <2>2
<1>8. ASSUME overlaps = 0
      PROVE  Stored' /\ \A o \in Ingesters : Excludes(o)' /\ WritesChanges(o)' /\ PassesOver(o)'
                                             /\ ReadIsCurrent(o)'
  <2>1. Stored /\ WritesChanges(w) /\ \A o \in Ingesters : Excludes(o)
    BY <1>8 DEF IngestInv, AloneInv
  <2>2. Stored'
    BY <1>2, <1>5, <2>1 DEF Stored, WritesChanges, IsServed
  <2>3. \A o \in Ingesters : pc'[o] = "idle"
    <3> TAKE o \in Ingesters
    <3>1. pc[w] = "upsert"
      BY <1>1, CommitEffect
    <3>2. o # w => pc[o] = "idle"
      BY <2>1, <3>1 DEF Excludes
    <3> QED
      BY <1>3, <3>2 DEF Resets, LeavesOthers
  <2>4. ASSUME NEW o \in Ingesters PROVE Resets(o)
    <3>1. CASE o = w
      BY <1>3, <3>1
    <3>2. CASE o # w
      <4>1. StartsEmpty(o) /\ pc[o] = "idle"
        BY <1>3, <2>3, <3>2 DEF IngestInv, RunInv, LeavesOthers
      <4> QED
        BY <1>3, <2>3, <3>2, <4>1 DEF StartsEmpty, LeavesOthers, Resets
    <3> QED
      BY <3>1, <3>2
  <2>5. \A o \in Ingesters : WritesChanges(o)' /\ PassesOver(o)' /\ ReadIsCurrent(o)'
    BY <1>4, <2>4, OverIsInOrder DEF TypeOK
  <2>6. \A o \in Ingesters : Excludes(o)'
    BY <2>3 DEF Excludes
  <2> QED
    BY <2>2, <2>5, <2>6
<1>9. AloneInv'
  BY <1>2, <1>8 DEF AloneInv
<1> QED
  BY <1>4, <1>7, <1>9 DEF IngestInv

-----------------------------------------------------------------------------
(* The invariant.                                                           *)

LEMMA IngestInit == Init => IngestInv
<1> SUFFICES ASSUME Init PROVE IngestInv
  OBVIOUS
<1>1. DOMAIN NoWrites = {} /\ NoWrites \in [{} -> Tle] /\ <<>> \in Seq(Record) /\ Len(<<>>) = 0
      /\ DOMAIN <<>> = {}
  BY DEF NoWrites
<1>2. \A w \in Ingesters : /\ pc[w] = "idle" /\ records[w] = <<>> /\ next[w] = 1
                           /\ wrote[w] = NoWrites /\ published[w] = {}
  BY DEF Init
<1>3. TypeOK
  <2>1. \A w \in Ingesters : next[w] \in 1 .. Len(records[w]) + 1
    BY <1>1, <1>2
  <2>2. \A w \in Ingesters :
          DOMAIN wrote[w] \subseteq Norads /\ wrote[w] \in [DOMAIN wrote[w] -> Tle]
    BY <1>1, <1>2
  <2>3. records \in [Ingesters -> Seq(Record)]
    BY <1>1 DEF Init
  <2> QED
    BY <2>1, <2>2, <2>3, IngestParameters DEF Init, TypeOK, Row
<1>4. RunInv
  BY <1>1, <1>2 DEF RunInv, StartsEmpty, FetchedWasServed, WritesRecord, Publishes
<1>5. AloneInv
  <2>1. Stored
    BY DEF Init, Stored
  <2> QED
    BY <1>1, <1>2, <2>1 DEF AloneInv, Excludes, WritesChanges, PassesOver, ReadIsCurrent
<1> QED
  BY <1>3, <1>4, <1>5 DEF IngestInv

LEMMA IngestStep == IngestInv /\ [Next]_vars => IngestInv'
<1> SUFFICES ASSUME IngestInv, [Next]_vars PROVE IngestInv'
  OBVIOUS
<1>1. TypeOK
  BY DEF IngestInv
<1>2. CASE \E n \in Norads : Served(n)
  BY <1>2, ServedKeeps
<1>3. CASE \E w \in Ingesters : Refresh(w)
  <2>1. PICK w \in Ingesters : Refresh(w)
    BY <1>3
  <2>2. CASE Begin(w)
    BY <2>2, BeginKeeps
  <2>3. CASE FetchGroup(w)
    BY <2>3, FetchKeeps
  <2>4. CASE SkipUnchanged(w)
    BY <2>4, SkipKeeps
  <2>5. CASE ReadChanged(w)
    BY <2>5, ReadKeeps
  <2>6. CASE Upsert(w)
    BY <2>6, UpsertKeeps
  <2>9. CASE Publish(w)
    BY <2>9, PublishKeeps
  <2>7. CASE Commit(w)
    BY <2>7, CommitKeeps
  <2>8. CASE GroupNotFound(w) \/ InsertClashes(w) \/ DeadlockVictim(w)
    <3>1. LetGo(w) /\ UNCHANGED <<source, table, overlaps, faults>>
      BY <2>8 DEF GroupNotFound, InsertClashes, DeadlockVictim
    <3>2. faults' \in 0 .. MaxFaults
      BY <1>1, <3>1 DEF TypeOK
    <3> QED
      BY <3>1, <3>2, EndKeeps
  <2> QED
    BY <2>1, <2>2, <2>3, <2>4, <2>5, <2>6, <2>7, <2>8, <2>9 DEF Refresh
<1>4. CASE \E w \in Ingesters : RateLimited(w) \/ Abort(w)
  <2>1. PICK w \in Ingesters : RateLimited(w) \/ Abort(w)
    BY <1>4
  <2>2. LetGo(w) /\ UNCHANGED <<source, table, overlaps>> /\ CountFault
    BY <2>1 DEF RateLimited, Abort
  <2>3. faults' \in 0 .. MaxFaults
    BY <1>1, <2>2, IngestParameters DEF TypeOK, CountFault
  <2> QED
    BY <2>2, <2>3, EndKeeps
<1>5. CASE UNCHANGED vars
  <2>1. UNCHANGED <<source, satellites, events, pc, records, next, existing, wrote, published,
                 overlaps, faults>>
    BY <1>5 DEF vars
  <2>2. TypeOK'
    BY <1>1, <2>1 DEF TypeOK
  <2>3. RunInv'
    BY <2>1 DEF IngestInv, RunInv, StartsEmpty, FetchedWasServed, WritesRecord, Publishes, Current, IsServed
  <2>4. AloneInv'
    BY <2>1 DEF IngestInv, AloneInv, Stored, Excludes, WritesChanges, PassesOver,
                ReadIsCurrent, Current, IsServed, Changed
  <2> QED
    BY <2>2, <2>3, <2>4 DEF IngestInv
<1> QED
  BY <1>2, <1>3, <1>4, <1>5 DEF Next

\* IngestInv is an invariant of the ingest.
LEMMA IngestInvariant == Spec => []IngestInv
BY IngestInit, IngestStep, PTL DEF Spec

\* Only a commit touches the tables.
LEMMA OnlyCommitsWrite ==
  ASSUME [Next]_vars, \A w \in Ingesters : ~Commit(w)
  PROVE  UNCHANGED table
BY DEF Next, Served, Refresh, Begin, FetchGroup, GroupNotFound, SkipUnchanged, ReadChanged,
       Upsert, Publish, InsertClashes, DeadlockVictim, RateLimited, Abort, vars, table

-----------------------------------------------------------------------------
(* The theorems.                                                            *)

\* Every reachable state of the ingest is well typed; a row is always a whole
\* TLE, although an UPDATE writes single columns.
THEOREM TypeCorrect == Spec => []TypeOK
<1>1. IngestInv => TypeOK
  BY DEF IngestInv
<1> QED
  BY <1>1, IngestInvariant, PTL

\* No row changes without the event that is committed with it
\* (ingest_tles.py:14-16), however many runs overlap, fail or are aborted, between
\* the two flushes of a record included: at the commit the run has published the
\* event of every row it has written, and of no other.
THEOREM ChangesAreHeard == Spec => ChangesAreAnnounced
<1>1. ASSUME IngestInv, [Next]_vars
      PROVE  [\A n \in Norads : satellites'[n] # satellites[n] => events'[n] = events[n] + 1]_vars
  <2>1. CASE \E w \in Ingesters : Commit(w)
    BY <1>1, <2>1, CommitEffect DEF IngestInv
  <2>2. CASE \A w \in Ingesters : ~Commit(w)
    BY <1>1, <2>2, OnlyCommitsWrite DEF table
  <2> QED
    BY <2>1, <2>2
<1> QED
  BY <1>1, IngestInvariant, PTL DEF Spec, ChangesAreAnnounced

\* As long as the runs exclude each other, no event is published for a TLE that
\* has not changed (ingest_tles.py:16-17): each row that is written was compared
\* with what is still there.
THEOREM SilenceMeansUnchanged == Spec => UnchangedIsSilent
<1>1. ASSUME IngestInv, [Next]_vars
      PROVE  [\A n \in Norads : overlaps = 0 /\ satellites'[n] = satellites[n]
                                  => events'[n] = events[n]]_vars
  <2>1. ASSUME NEW w \in Ingesters, Commit(w), NEW n \in Norads, overlaps = 0,
               satellites'[n] = satellites[n]
        PROVE  events'[n] = events[n]
    <3>1. WritesChanges(w)
      BY <1>1, <2>1 DEF IngestInv, AloneInv
    <3>2. n \notin DOMAIN wrote[w]
      BY <1>1, <2>1, <3>1, CommitEffect DEF IngestInv, WritesChanges
    <3> QED
      BY <1>1, <2>1, <3>2, CommitEffect DEF IngestInv
  <2>2. CASE \A w \in Ingesters : ~Commit(w)
    BY <1>1, <2>2, OnlyCommitsWrite DEF table
  <2> QED
    BY <2>1, <2>2
<1> QED
  BY <1>1, IngestInvariant, PTL DEF Spec, UnchangedIsSilent

\* As long as the runs exclude each other, what a run commits is the group it
\* fetched: each record is written, or was there already and still is.
THEOREM GroupsAreComplete == Spec => []GroupIsComplete
<1>1. ASSUME IngestInv PROVE GroupIsComplete
  <2> SUFFICES ASSUME NEW w \in Ingesters, AllUpserted(w), overlaps = 0,
                      NEW i \in DOMAIN records[w]
               PROVE  records[w][i].tle =
                        IF records[w][i].norad \in DOMAIN wrote[w]
                        THEN wrote[w][records[w][i].norad] ELSE satellites[records[w][i].norad]
    BY DEF GroupIsComplete
  <2>1. WritesChanges(w) /\ PassesOver(w)
    BY <1>1 DEF IngestInv, AloneInv
  <2>2. i < next[w]
    BY <1>1, RunTypes DEF IngestInv, AllUpserted
  <2> QED
    BY <2>1, <2>2 DEF WritesChanges, PassesOver
<1> QED
  BY <1>1, IngestInvariant, PTL

\* As long as the runs exclude each other, each row is a TLE that was served:
\* writing only the columns that differ never mixes two of them.
THEOREM LinesAreOfOneTle == Spec => []LinesBelongTogether
<1>1. IngestInv => LinesBelongTogether
  BY DEF IngestInv, AloneInv, Stored, IsServed, LinesBelongTogether
<1> QED
  BY <1>1, IngestInvariant, PTL

=============================================================================
