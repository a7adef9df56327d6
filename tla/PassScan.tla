------------------------------ MODULE PassScan ------------------------------
(***************************************************************************)
(* The pass search of apsis (tracking/services/passes.py): the events of a *)
(* satellite over an observer, as skyfield's find_events lists them, are   *)
(* scanned once, and each rise with a culmination and the set after it     *)
(* becomes a pass with its ground track sampled at regular instants.       *)
(*                                                                         *)
(* One step is one iteration of the loop.  Orbits are not computed: the    *)
(* window is any sequence of events that a satellite can give.             *)
(***************************************************************************)
EXTENDS Integers, Sequences, FiniteSets, SequencesExt

CONSTANTS
  MaxTime,      \* bound: instants of the window
  MaxElevation, \* bound: elevations of a culmination that are told apart
  TrackSamples, \* track_samples
  None          \* aos_at or peak_time is None

Rise      == 0
Culminate == 1
Set       == 2

\* None is neither an instant nor an event.
Event == [at : 1 .. MaxTime, code : {Rise, Culminate, Set}, elevation : 0 .. MaxElevation]

ASSUME ScanParameters ==
  /\ MaxTime \in Nat /\ MaxElevation \in Nat
  /\ TrackSamples \in Nat /\ TrackSamples >= 2
  /\ None \notin Int /\ None \notin Event

\* What happens at an instant: the code and, of a culmination, the elevation.
Kinds == {<<Rise, 0>>, <<Set, 0>>} \cup ({Culminate} \X (1 .. MaxElevation))

\* Rises and sets alternate, and the satellite culminates, perhaps several
\* times, only while it is up.  A window may begin or end with it up.
Possible(kinds) ==
  \A i \in DOMAIN kinds : i > 1 =>
    (kinds[i][1] = Rise <=> kinds[i - 1][1] = Set)

\* The instants and kinds of n events, and the instants in order.
Instants(n) == {times \in [1 .. n -> 1 .. MaxTime] :
                  \A i, k \in 1 .. n : i < k => times[i] < times[k]}
Orders(n)   == {kinds \in [1 .. n -> Kinds] : Possible(kinds)}

\* find_events: the events of a window, in the order of time.
Timed(times, kinds) ==
  [i \in DOMAIN kinds |->
     [at |-> times[i], code |-> kinds[i][1], elevation |-> kinds[i][2]]]
Windows ==
  UNION {{Timed(times, kinds) : kinds \in Orders(n), times \in Instants(n)} : n \in 0 .. MaxTime}

VARIABLES
  events,       \* the events of the window
  next,         \* index of the event at hand
  aosAt,        \* aos_at
  peak,         \* peak_time: the event itself
  passes        \* the passes found so far

vars == <<events, next, aosAt, peak, passes>>

\* round(n / d) to the nearest integer, ties to even: the division of timedelta.
RoundedQuotient(n, d) ==
  LET q == n \div d
      r == n % d
  IN  IF 2 * r > d \/ (2 * r = d /\ q % 2 = 1) THEN q + 1 ELSE q

\* The definitions named Wrong... are deliberate mistakes that show what the
\* properties can tell from the code; no specification uses them.

\* The samples divide the span by their number.
WrongSampleByCount(start, end, count) ==
  [step \in 1 .. count |-> start + RoundedQuotient((end - start) * (step - 1), count)]

\* _sample_instants: equal fractions of the span, the last one fixed to its end.
SampleInstants(start, end, count) ==
  [step \in 1 .. count |->
     IF step = count THEN end
     ELSE start + RoundedQuotient((end - start) * (step - 1), count - 1)]

\* _build_pass
PassOf(aos, culmination, los) ==
  [aosAt |-> aos, peakAt |-> culmination.at, losAt |-> los,
   peakElevation |-> culmination.elevation,
   groundTrack |-> SampleInstants(aos, los, TrackSamples)]

Init ==
  /\ events \in Windows
  /\ next = 1
  /\ aosAt = None
  /\ peak = None
  /\ passes = <<>>

Here == events[next]

ForgetPass == aosAt' = None /\ peak' = None

Advance == next' = next + 1 /\ UNCHANGED events

OnRise ==
  /\ next <= Len(events) /\ Here.code = Rise
  /\ aosAt' = Here.at /\ peak' = None
  /\ Advance
  /\ UNCHANGED passes

\* Only the first culmination counts.
WrongOnCulminate ==
  /\ next <= Len(events) /\ Here.code = Culminate /\ aosAt # None
  /\ peak' = IF peak = None THEN Here ELSE peak
  /\ Advance
  /\ UNCHANGED <<aosAt, passes>>

\* A culmination of a pass whose rise is in the window; the last one counts.
OnCulminate ==
  /\ next <= Len(events) /\ Here.code = Culminate /\ aosAt # None
  /\ peak' = Here
  /\ Advance
  /\ UNCHANGED <<aosAt, passes>>

IgnoreCulminate ==
  /\ next <= Len(events) /\ Here.code = Culminate /\ aosAt = None
  /\ Advance
  /\ UNCHANGED <<aosAt, peak, passes>>

OnSet ==
  /\ next <= Len(events) /\ Here.code = Set /\ aosAt # None /\ peak # None
  /\ passes' = Append(passes, PassOf(aosAt, peak, Here.at))
  /\ ForgetPass
  /\ Advance

\* A set whose rise or culmination is not in the window ends no pass.
DropSet ==
  /\ next <= Len(events) /\ Here.code = Set /\ (aosAt = None \/ peak = None)
  /\ ForgetPass
  /\ Advance
  /\ UNCHANGED passes

Next == OnRise \/ OnCulminate \/ IgnoreCulminate \/ OnSet \/ DropSet

Spec == Init /\ [][Next]_vars

-----------------------------------------------------------------------------
(* Properties.                                                              *)

\* The events from i to k are a complete pass: a rise, nothing but culminations,
\* at least one, and a set.
IsPass(i, k) ==
  /\ i + 1 < k
  /\ events[i].code = Rise /\ events[k].code = Set
  /\ \A j \in i + 1 .. k - 1 : events[j].code = Culminate

\* The complete passes of the events before index end.
CompletePasses(end) ==
  UNION {{PassOf(events[i].at, events[k - 1], events[k].at) :
            k \in {k \in 1 .. end - 1 : IsPass(i, k)}} : i \in 1 .. end - 1}

\* passes.py:3-7: the result is the complete passes of the window, those cut off
\* by its edges left out, one after the other, so that they cannot clash with
\* each other on the unique key (satellite, station, aos_at).
FindsCompletePasses ==
  /\ ToSet(passes) = CompletePasses(next)
  /\ \A k, l \in DOMAIN passes : k < l => passes[k].losAt < passes[l].aosAt

\* The ground track goes from the rise to the set, without stepping back
\* and with no gap larger than the others by more than a unit of time.
TrackSpansPass ==
  \A k \in DOMAIN passes :
    LET track == passes[k].groundTrack
        gaps  == {track[s + 1] - track[s] : s \in 1 .. TrackSamples - 1}
    IN  /\ track[1] = passes[k].aosAt
        /\ track[TrackSamples] = passes[k].losAt
        /\ \A g \in gaps : g >= 0 /\ \A h \in gaps : g - h \in -1 .. 1

\* passes.py:5, "con su elevacion maxima": the elevation of a pass is the
\* greatest of its culminations.
PeakIsHighest ==
  \A k \in DOMAIN passes, i \in DOMAIN events :
    passes[k].aosAt < events[i].at /\ events[i].at < passes[k].losAt =>
      events[i].elevation <= passes[k].peakElevation

=============================================================================
