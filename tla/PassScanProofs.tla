--------------------------- MODULE PassScanProofs ---------------------------
(***************************************************************************)
(* What the pass search guarantees for every window of events and every    *)
(* number of samples of a ground track.                                    *)
(***************************************************************************)
EXTENDS PassScan, TLAPS

(* The instants of a ground track.                                          *)

\* A product with a positive factor grows by at least the factor.
LEMMA ProductGrows ==
  ASSUME NEW d \in Nat \ {0}, NEW a \in Int, NEW b \in Int, a < b
  PROVE  d * a + d <= d * b
<1>1. \A x, y \in Nat : x * y >= 0
  OBVIOUS
<1>2. b - a - 1 \in Nat
  OBVIOUS
<1>3. d * (b - a - 1) >= 0
  BY <1>1, <1>2
<1>4. d * (b - a - 1) = d * b - d * a - d
  OBVIOUS
<1> QED
  BY <1>3, <1>4

\* Quotient and remainder.
LEMMA Division ==
  ASSUME NEW n \in Nat, NEW d \in Nat \ {0}
  PROVE  \E q \in Nat, r \in 0 .. d - 1 : q = n \div d /\ r = n % d /\ n = d * q + r
OBVIOUS

\* A rounded quotient is within half a unit of the fraction.
LEMMA RoundedWithinHalf ==
  ASSUME NEW n \in Nat, NEW d \in Nat \ {0}
  PROVE  /\ RoundedQuotient(n, d) \in Nat
         /\ 2 * n - d <= 2 * (d * RoundedQuotient(n, d))
         /\ 2 * (d * RoundedQuotient(n, d)) <= 2 * n + d
<1>1. PICK q \in Nat, r \in 0 .. d - 1 : q = n \div d /\ r = n % d /\ n = d * q + r
  BY Division
<1>2. d * (q + 1) = d * q + d
  OBVIOUS
<1>3. RoundedQuotient(n, d) \in {q, q + 1}
  BY <1>1 DEF RoundedQuotient
<1>4. RoundedQuotient(n, d) = q => 2 * r <= d
  BY <1>1 DEF RoundedQuotient
<1>5. RoundedQuotient(n, d) = q + 1 => 2 * r >= d
  BY <1>1 DEF RoundedQuotient
<1>6. CASE RoundedQuotient(n, d) = q
  BY <1>1, <1>4, <1>6
<1>7. CASE RoundedQuotient(n, d) = q + 1
  BY <1>1, <1>2, <1>5, <1>7
<1> QED
  BY <1>3, <1>6, <1>7

\* A division without remainder needs no rounding.
LEMMA RoundedExact ==
  ASSUME NEW m \in Nat, NEW d \in Nat \ {0}, d * m \in Nat
  PROVE  RoundedQuotient(d * m, d) = m
<1> DEFINE q == RoundedQuotient(d * m, d)
<1>1. /\ q \in Nat /\ 2 * (d * m) - d <= 2 * (d * q) /\ 2 * (d * q) <= 2 * (d * m) + d
  BY RoundedWithinHalf
<1> HIDE DEF q
<1>2. ASSUME q < m PROVE FALSE
  BY <1>1, <1>2, ProductGrows
<1>3. ASSUME m < q PROVE FALSE
  BY <1>1, <1>3, ProductGrows
<1> QED
  BY <1>1, <1>2, <1>3 DEF q

\* The laws of products that the lemmas below use.
LEMMA Products ==
  ASSUME NEW a \in Nat, NEW b \in Nat, NEW c \in Nat
  PROVE  /\ a * b \in Nat /\ a * b = b * a
         /\ a * (b + c) = a * b + a * c /\ (a * b) * c = a * (b * c)
         /\ a * (b + 1) = a * b + a /\ a * 0 = 0
OBVIOUS

\* The distance between two neighbouring samples of a span of D in d parts.
LEMMA NeighbouringSamples ==
  ASSUME NEW D \in Nat, NEW d \in Nat \ {0}, NEW k \in Nat
  PROVE  RoundedQuotient(D * (k + 1), d) - RoundedQuotient(D * k, d)
           \in {D \div d, D \div d + 1}
<1>1. PICK Q \in Nat, R \in 0 .. d - 1 : Q = D \div d /\ R = D % d /\ D = d * Q + R
  BY Division
<1>2. /\ D * k \in Nat /\ D * (k + 1) \in Nat /\ D * (k + 1) = D * k + D
      /\ d * (Q + 1) = d * Q + d /\ d * Q \in Nat
  BY Products
<1>3. PICK a \in Nat, b \in Nat :
        /\ a = RoundedQuotient(D * k, d) /\ b = RoundedQuotient(D * (k + 1), d)
        /\ 2 * (D * k) - d <= 2 * (d * a) /\ 2 * (d * a) <= 2 * (D * k) + d
        /\ 2 * (D * (k + 1)) - d <= 2 * (d * b) /\ 2 * (d * b) <= 2 * (D * (k + 1)) + d
  BY <1>2, RoundedWithinHalf
<1>4. CASE R = 0
  <2>1. D = d * Q
    BY <1>1, <1>2, <1>4
  <2>2. D * k = d * (Q * k) /\ D * (k + 1) = d * (Q * (k + 1))
    BY <2>1, Products
  <2>3. Q * k \in Nat /\ Q * (k + 1) \in Nat /\ Q * (k + 1) = Q * k + Q
    BY Products
  <2>4. a = Q * k
    BY <1>2, <1>3, <2>2, <2>3, RoundedExact
  <2>5. b = Q * (k + 1)
    BY <1>2, <1>3, <2>2, <2>3, RoundedExact
  <2> QED
    BY <1>1, <1>3, <2>3, <2>4, <2>5
<1>5. CASE R # 0
  <2>1. d * a \in Nat /\ d * b \in Nat
    BY Products
  <2>2. D - d <= d * b - d * a /\ d * b - d * a <= D + d
    BY <1>2, <1>3, <2>1
  <2>3. ASSUME b < a + Q PROVE FALSE
    <3>1. d * b + d <= d * (a + Q)
      BY <2>3, ProductGrows
    <3>2. d * (a + Q) = d * a + d * Q
      BY Products
    <3> QED
      BY <1>1, <1>2, <1>5, <2>1, <2>2, <3>1, <3>2
  <2>4. ASSUME a + (Q + 1) < b PROVE FALSE
    <3>1. PICK c \in Nat : c = Q + 1
      OBVIOUS
    <3>2. d * (a + c) + d <= d * b
      BY <2>4, <3>1, ProductGrows
    <3>3. d * (a + c) = d * a + d * c
      BY Products
    <3> QED
      BY <1>1, <1>2, <2>1, <2>2, <3>1, <3>2, <3>3
  <2>5. b - a \in {Q, Q + 1}
    BY <2>3, <2>4
  <2> QED
    BY <1>1, <1>3, <2>5
<1> QED
  BY <1>4, <1>5

\* A track that goes from the start to the end in parts that differ by at most one
\* unit of time.
Even(track, start, end, count) ==
  /\ track[1] = start /\ track[count] = end
  /\ \E part \in Nat : \A s \in 1 .. count - 1 : track[s + 1] - track[s] \in {part, part + 1}

\* passes.py:120-126: the samples go from the start to the end, and each is as far
\* from the one before as any other, but for one unit of time.
THEOREM SamplesSpread ==
  ASSUME NEW start \in Int, NEW end \in Int, start <= end,
         NEW count \in Nat, count >= 2
  PROVE  Even(SampleInstants(start, end, count), start, end, count)
<1>1. PICK D \in Nat, d \in Nat \ {0} : D = end - start /\ d = count - 1
  OBVIOUS
<1> DEFINE track == SampleInstants(start, end, count)
           At(k) == RoundedQuotient(D * k, d)
<1>2. \A k \in Nat : At(k) \in Nat
  BY Products, RoundedWithinHalf
<1>3. At(0) = 0
  <2>1. D * 0 = d * 0 /\ d * 0 \in Nat
    BY Products
  <2> QED
    BY <2>1, RoundedExact
<1>4. At(d) = D
  <2>1. D * d = d * D /\ d * D \in Nat
    BY Products
  <2> QED
    BY <2>1, RoundedExact
<1>5. \A s \in 1 .. count : track[s] = start + At(s - 1)
  <2>1. \A s \in 1 .. count : track[s] = IF s = count THEN end ELSE start + At(s - 1)
    BY <1>1 DEF SampleInstants
  <2>2. end = start + At(d)
    BY <1>1, <1>4
  <2> HIDE DEF track, At
  <2> QED
    BY <1>1, <2>1, <2>2
<1>6. \A k \in Nat : At(k + 1) - At(k) \in {D \div d, D \div d + 1}
  BY NeighbouringSamples
<1>7. D \div d \in Nat
  BY Division
<1> HIDE DEF track, At
<1>8. ASSUME NEW s \in 1 .. count - 1
      PROVE  track[s + 1] - track[s] \in {D \div d, D \div d + 1}
  <2>1. PICK k \in Nat : s = k + 1
    OBVIOUS
  <2>2. track[s] = start + At(k) /\ track[s + 1] = start + At(k + 1)
    BY <1>5, <2>1
  <2> QED
    BY <1>2, <1>6, <2>1, <2>2
<1>9. track[1] = start + At(0) /\ track[count] = start + At(d)
  BY <1>1, <1>5
<1>10. track[1] = start /\ track[count] = end
  BY <1>1, <1>3, <1>4, <1>9
<1> QED
  BY <1>1, <1>7, <1>8, <1>10 DEF track, Even

-----------------------------------------------------------------------------
(* The scan.                                                                *)

\* The window as find_events lists it and where the loop stands in it.
Windowed ==
  /\ events \in Seq(Event)
  /\ \A i, k \in DOMAIN events : i < k => events[i].at < events[k].at
  /\ next \in 1 .. Len(events) + 1

AllPasses == {PassOf(a, c, l) : a \in 1 .. MaxTime, c \in Event, l \in 1 .. MaxTime}

\* The pass at hand began at event i and has only culminated since.
Began(i) ==
  /\ events[i].code = Rise /\ aosAt = events[i].at
  /\ \A j \in i + 1 .. next - 1 : events[j].code = Culminate
  /\ IF i = next - 1 THEN peak = None ELSE peak = events[next - 1]

\* aos_at and peak_time tell the last rise, as long as no set has come after it.
AtHand ==
  IF aosAt = None
    THEN \A i \in 1 .. next - 1 : events[i].code = Rise =>
           \E j \in i + 1 .. next - 1 : events[j].code # Culminate
    ELSE \E i \in 1 .. next - 1 : Began(i)

ScanInv == Windowed /\ passes \in Seq(AllPasses) /\ AtHand /\ FindsCompletePasses

\* What a complete pass is made of.
LEMMA MemberOfComplete ==
  ASSUME NEW end, NEW p
  PROVE  p \in CompletePasses(end) <=>
           \E i, k \in 1 .. end - 1 :
             IsPass(i, k) /\ p = PassOf(events[i].at, events[k - 1], events[k].at)
BY DEF CompletePasses

\* The parts of a pass.
LEMMA PartsOfPass ==
  ASSUME NEW a, NEW c, NEW l
  PROVE  /\ PassOf(a, c, l).aosAt = a /\ PassOf(a, c, l).losAt = l
         /\ PassOf(a, c, l).groundTrack = SampleInstants(a, l, TrackSamples)
BY DEF PassOf

\* Every window is a sequence of events in the order of time.
LEMMA WindowsInOrder ==
  ASSUME NEW window \in Windows
  PROVE  /\ window \in Seq(Event)
         /\ \A i, k \in DOMAIN window : i < k => window[i].at < window[k].at
<1>0. PICK n \in 0 .. MaxTime :
        window \in {Timed(times, kinds) : kinds \in Orders(n), times \in Instants(n)}
  BY DEF Windows
<1>1. PICK kinds \in Orders(n), times \in Instants(n) : window = Timed(times, kinds)
  BY <1>0
<1>2. n \in Nat /\ times \in [1 .. n -> 1 .. MaxTime] /\ kinds \in [1 .. n -> Kinds]
      /\ \A i, k \in 1 .. n : i < k => times[i] < times[k]
  BY <1>1, ScanParameters DEF Orders, Instants
<1>3. window = [i \in 1 .. n |-> [at |-> times[i], code |-> kinds[i][1], elevation |-> kinds[i][2]]]
  BY <1>1, <1>2 DEF Timed
<1>4. \A kind \in Kinds : kind[1] \in {Rise, Culminate, Set} /\ kind[2] \in 0 .. MaxElevation
  BY ScanParameters DEF Kinds
<1>5. \A i \in 1 .. n : window[i] \in Event /\ window[i].at = times[i]
  <2> TAKE i \in 1 .. n
  <2>1. /\ window[i] = [at |-> times[i], code |-> kinds[i][1], elevation |-> kinds[i][2]]
        /\ times[i] \in 1 .. MaxTime /\ kinds[i][1] \in {Rise, Culminate, Set}
        /\ kinds[i][2] \in 0 .. MaxElevation
    BY <1>2, <1>3, <1>4
  <2> QED
    BY <2>1 DEF Event
<1>6. window \in [1 .. n -> Event]
  BY <1>3, <1>5
<1>7. window \in Seq(Event) /\ DOMAIN window = 1 .. n
  BY <1>2, <1>6
<1> QED
  BY <1>2, <1>5, <1>7

\* The scan begins without a pass at hand.
LEMMA InitScanInv == Init => ScanInv
<1> SUFFICES ASSUME Init PROVE ScanInv
  OBVIOUS
<1>1. events \in Seq(Event) /\ next = 1 /\ aosAt = None /\ passes = <<>>
      /\ \A i, k \in DOMAIN events : i < k => events[i].at < events[k].at
  BY WindowsInOrder DEF Init
<1>2. Windowed
  BY <1>1 DEF Windowed
<1>3. AtHand
  BY <1>1 DEF AtHand
<1>4. FindsCompletePasses
  <2>1. ToSet(passes) = {} /\ DOMAIN passes = {}
    BY <1>1 DEF ToSet
  <2>2. CompletePasses(next) = {}
    BY <1>1 DEF CompletePasses
  <2> QED
    BY <2>1, <2>2 DEF FindsCompletePasses
<1> QED
  BY <1>1, <1>2, <1>3, <1>4 DEF ScanInv

\* The passes that end at the event at hand are all that its iteration can add.
LEMMA CompleteGrows ==
  ASSUME Windowed, Advance, next <= Len(events), NEW p
  PROVE  p \in CompletePasses(next)' <=>
           \/ p \in CompletePasses(next)
           \/ \E i \in 1 .. next - 1 :
                IsPass(i, next) /\ p = PassOf(events[i].at, events[next - 1], events[next].at)
<1>1. next \in Nat \ {0} /\ next' = next + 1 /\ events' = events
  BY DEF Windowed, Advance
<1>2. CompletePasses(next)' = CompletePasses(next + 1)
  BY <1>1 DEF CompletePasses, IsPass
<1>3. p \in CompletePasses(next + 1) <=>
        \E i, k \in 1 .. next :
          IsPass(i, k) /\ p = PassOf(events[i].at, events[k - 1], events[k].at)
  <2>1. (next + 1) - 1 = next
    BY <1>1
  <2> QED
    BY <2>1, MemberOfComplete
<1>4. p \in CompletePasses(next) <=>
        \E i, k \in 1 .. next - 1 :
          IsPass(i, k) /\ p = PassOf(events[i].at, events[k - 1], events[k].at)
  BY MemberOfComplete
<1>5. \A i, k \in 1 .. next : IsPass(i, k) => i < k
  BY <1>1 DEF IsPass
<1>6. 1 .. next = 1 .. next - 1 \cup {next}
  BY <1>1
<1>7. \A i, k \in 1 .. next : i < k => i \in 1 .. next - 1
  BY <1>1
<1> QED
  BY <1>2, <1>3, <1>4, <1>5, <1>6, <1>7, Zenon

\* An iteration that ends no pass finds none.
LEMMA NothingFound ==
  ASSUME ScanInv, Advance, next <= Len(events), UNCHANGED passes,
         \A i \in 1 .. next - 1 : ~IsPass(i, next)
  PROVE  FindsCompletePasses'
<1>1. \A p : p \in CompletePasses(next)' <=> p \in CompletePasses(next)
  BY CompleteGrows DEF ScanInv
<1>2. CompletePasses(next)' = CompletePasses(next)
  BY <1>1
<1> QED
  BY <1>2 DEF ScanInv, FindsCompletePasses

\* At a set, the pass at hand is the only one that can be complete.
LEMMA OnlyPassAtHand ==
  ASSUME Windowed, next <= Len(events), Here.code = Set,
         NEW i \in 1 .. next - 1, Began(i), NEW k \in 1 .. next - 1
  PROVE  IsPass(k, next) <=> (k = i /\ i < next - 1)
<1>1. next \in Nat \ {0} /\ events[next].code = Set
  BY DEF Windowed, Here
<1>2. /\ events[i].code = Rise /\ \A j \in i + 1 .. next - 1 : events[j].code = Culminate
  BY DEF Began
<1>3. Rise # Culminate
  BY DEF Rise, Culminate
<1>4. ASSUME IsPass(k, next) PROVE k = i /\ i < next - 1
  <2>1. /\ k + 1 < next /\ events[k].code = Rise
        /\ \A j \in k + 1 .. next - 1 : events[j].code = Culminate
    BY <1>4 DEF IsPass
  <2>2. ~(k < i) /\ ~(i < k)
    BY <1>1, <1>2, <1>3, <2>1
  <2> QED
    BY <1>1, <2>1, <2>2
<1>5. ASSUME i < next - 1 PROVE IsPass(i, next)
  BY <1>1, <1>2, <1>5 DEF IsPass
<1> QED
  BY <1>4, <1>5

\* A set ends the pass at hand, and this is the only one it can end.
LEMMA SetFindsPass ==
  ASSUME ScanInv, OnSet
  PROVE  FindsCompletePasses' /\ passes' \in Seq(AllPasses)
<1>1. /\ next <= Len(events) /\ Here.code = Set /\ aosAt # None /\ peak # None
      /\ passes' = Append(passes, PassOf(aosAt, peak, Here.at)) /\ Advance
  BY DEF OnSet
<1>2. /\ Windowed /\ next \in Nat \ {0} /\ passes \in Seq(AllPasses) /\ FindsCompletePasses
      /\ events \in Seq(Event) /\ \A i, k \in DOMAIN events : i < k => events[i].at < events[k].at
      /\ DOMAIN events = 1 .. Len(events) /\ Len(events) \in Nat
  BY DEF ScanInv, Windowed
<1>3. PICK i \in 1 .. next - 1 : Began(i)
  BY <1>1 DEF ScanInv, AtHand
<1>4. i < next - 1 /\ peak = events[next - 1] /\ aosAt = events[i].at
  BY <1>1, <1>2, <1>3 DEF Began
<1> DEFINE new == PassOf(aosAt, peak, Here.at)
<1>5. \A k \in 1 .. next - 1 : IsPass(k, next) <=> k = i
  BY <1>1, <1>2, <1>3, <1>4, OnlyPassAtHand
<1>6. \A p : p \in CompletePasses(next)' <=> p \in CompletePasses(next) \cup {new}
  <2> TAKE p
  <2>1. p \in CompletePasses(next)' <=>
          \/ p \in CompletePasses(next)
          \/ \E k \in 1 .. next - 1 :
               IsPass(k, next) /\ p = PassOf(events[k].at, events[next - 1], events[next].at)
    BY <1>1, <1>2, CompleteGrows
  <2>2. new = PassOf(events[i].at, events[next - 1], events[next].at)
    BY <1>4 DEF Here
  <2> HIDE DEF new
  <2> QED
    BY <1>5, <2>1, <2>2
<1>7. new \in AllPasses
  <2>0. \A event \in Event : event.at \in 1 .. MaxTime
    BY DEF Event
  <2>1. \A k \in 1 .. Len(events) : events[k] \in Event /\ events[k].at \in 1 .. MaxTime
    BY <1>2, <2>0
  <2>2. aosAt \in 1 .. MaxTime /\ peak \in Event /\ Here.at \in 1 .. MaxTime
    BY <1>1, <1>2, <1>4, <2>1 DEF Here
  <2> QED
    BY <2>2 DEF AllPasses
<1>8. \A k \in DOMAIN passes : passes[k].losAt < new.aosAt
  <2> TAKE k \in DOMAIN passes
  <2>1. passes[k] \in CompletePasses(next)
    BY <1>2 DEF FindsCompletePasses, ToSet
  <2>2. PICK a, b \in 1 .. next - 1 :
          IsPass(a, b) /\ passes[k] = PassOf(events[a].at, events[b - 1], events[b].at)
    BY <2>1, MemberOfComplete
  <2>3. passes[k].losAt = events[b].at /\ new.aosAt = events[i].at
    BY <1>4, <2>2, PartsOfPass
  <2>4. b < i
    <3>1. events[b].code = Set
      BY <2>2 DEF IsPass
    <3>2. events[i].code = Rise /\ \A j \in i + 1 .. next - 1 : events[j].code = Culminate
      BY <1>3 DEF Began
    <3> QED
      BY <1>2, <3>1, <3>2 DEF Rise, Culminate, Set
  <2>5. events[b].at < events[i].at
    BY <1>1, <1>2, <2>4
  <2> HIDE DEF new
  <2> QED
    BY <2>3, <2>5
<1> HIDE DEF new
<1>9. /\ passes' \in Seq(AllPasses) /\ Len(passes) \in Nat
      /\ DOMAIN passes = 1 .. Len(passes) /\ DOMAIN passes' = 1 .. Len(passes) + 1
      /\ \A k \in 1 .. Len(passes) : passes'[k] = passes[k]
      /\ passes'[Len(passes) + 1] = new
  BY <1>1, <1>2, <1>7 DEF new
<1>10. ToSet(passes') = ToSet(passes) \cup {new}
  BY <1>9 DEF ToSet
<1>11. ToSet(passes') = CompletePasses(next)'
  BY <1>2, <1>6, <1>10 DEF FindsCompletePasses
<1>12. \A k, l \in DOMAIN passes' : k < l => passes'[k].losAt < passes'[l].aosAt
  BY <1>2, <1>8, <1>9 DEF FindsCompletePasses
<1> QED
  BY <1>9, <1>11, <1>12 DEF FindsCompletePasses

\* The codes of an event differ.
LEMMA CodesDiffer == Rise # Culminate /\ Set # Culminate /\ Set # Rise
BY DEF Rise, Culminate, Set

\* A rise begins a pass.
LEMMA RiseKeeps == ASSUME ScanInv, OnRise PROVE ScanInv'
<1>1. /\ next <= Len(events) /\ events[next].code = Rise /\ aosAt' = events[next].at
      /\ peak' = None /\ next' = next + 1 /\ events' = events /\ Advance /\ UNCHANGED passes
  BY DEF OnRise, Here, Advance
<1>2. /\ Windowed /\ next \in Nat \ {0} /\ events \in Seq(Event) /\ Len(events) \in Nat
  BY DEF ScanInv, Windowed
<1>3. Windowed'
  BY <1>1, <1>2 DEF Windowed
<1>4. aosAt' # None
  <2>1. events[next] \in Event
    BY <1>1, <1>2
  <2>2. \A event \in Event : event.at \in Int
    BY DEF Event
  <2> QED
    BY <1>1, <2>1, <2>2, ScanParameters
<1>5. AtHand'
  <2>1. next \in 1 .. next' - 1
    BY <1>1, <1>2
  <2>2. \E i \in 1 .. next' - 1 : Began(i)'
    <3>1. PICK n : n = next /\ n \in 1 .. next' - 1
      BY <2>1
    <3>2. Began(n)'
      BY <1>1, <1>2, <3>1 DEF Began
    <3> QED
      BY <3>1, <3>2
  <2> QED
    BY <1>4, <2>2 DEF AtHand
<1>6. FindsCompletePasses'
  <2>1. \A i \in 1 .. next - 1 : ~IsPass(i, next)
    BY <1>1, CodesDiffer DEF IsPass
  <2> QED
    BY <1>1, <2>1, NothingFound
<1> QED
  BY <1>1, <1>3, <1>5, <1>6 DEF ScanInv

\* A culmination belongs to the pass at hand, if there is one.
LEMMA CulminateKeeps == ASSUME ScanInv, OnCulminate \/ IgnoreCulminate PROVE ScanInv'
<1>1. /\ next <= Len(events) /\ events[next].code = Culminate /\ UNCHANGED aosAt
      /\ IF aosAt = None THEN UNCHANGED peak ELSE peak' = events[next]
      /\ next' = next + 1 /\ events' = events /\ Advance /\ UNCHANGED passes
  BY DEF OnCulminate, IgnoreCulminate, Here, Advance
<1>2. /\ Windowed /\ next \in Nat \ {0} /\ AtHand
  BY DEF ScanInv, Windowed
<1>3. Windowed'
  BY <1>1, <1>2 DEF Windowed
<1>4. AtHand'
  <2>1. CASE aosAt = None
    <3>1. \A i \in 1 .. next - 1 : events[i].code = Rise =>
            \E j \in i + 1 .. next - 1 : events[j].code # Culminate
      BY <1>2, <2>1 DEF AtHand
    <3>2. \A i \in 1 .. next : events[i].code = Rise =>
            \E j \in i + 1 .. next : events[j].code # Culminate
      BY <1>1, <1>2, <3>1, CodesDiffer
    <3>3. next' - 1 = next
      BY <1>1, <1>2
    <3> QED
      BY <1>1, <2>1, <3>2, <3>3 DEF AtHand
  <2>2. CASE aosAt # None
    <3>1. PICK i \in 1 .. next - 1 : Began(i)
      BY <1>2, <2>2 DEF AtHand
    <3>2. i \in 1 .. next' - 1 /\ i # next' - 1 /\ next' - 1 = next
      BY <1>1, <1>2
    <3>3. \A j \in i + 1 .. next : events[j].code = Culminate
      BY <1>1, <1>2, <3>1 DEF Began
    <3>4. Began(i)'
      BY <1>1, <2>2, <3>1, <3>2, <3>3 DEF Began
    <3> QED
      BY <1>1, <2>2, <3>2, <3>4 DEF AtHand
  <2> QED
    BY <2>1, <2>2
<1>5. FindsCompletePasses'
  <2>1. \A i \in 1 .. next - 1 : ~IsPass(i, next)
    BY <1>1, CodesDiffer DEF IsPass
  <2> QED
    BY <1>1, <2>1, NothingFound
<1> QED
  BY <1>1, <1>3, <1>4, <1>5 DEF ScanInv

\* A set leaves no pass at hand, and finds the one that is complete.
LEMMA SetKeeps == ASSUME ScanInv, OnSet \/ DropSet PROVE ScanInv'
<1>1. /\ next <= Len(events) /\ events[next].code = Set /\ aosAt' = None
      /\ next' = next + 1 /\ events' = events /\ Advance
  BY DEF OnSet, DropSet, ForgetPass, Here, Advance
<1>2. /\ Windowed /\ next \in Nat \ {0} /\ AtHand
  BY DEF ScanInv, Windowed
<1>3. Windowed'
  BY <1>1, <1>2 DEF Windowed
<1>4. AtHand'
  <2>1. \A i \in 1 .. next : events[i].code = Rise =>
          \E j \in i + 1 .. next : events[j].code # Culminate
    BY <1>1, <1>2, CodesDiffer
  <2>2. next' - 1 = next
    BY <1>1, <1>2
  <2> QED
    BY <1>1, <2>1, <2>2 DEF AtHand
<1>5. FindsCompletePasses' /\ passes' \in Seq(AllPasses)
  <2>1. CASE OnSet
    BY <2>1, SetFindsPass
  <2>2. CASE DropSet
    <3>1. /\ UNCHANGED passes /\ Here.code = Set /\ (aosAt = None \/ peak = None)
      BY <2>2 DEF DropSet
    <3>2. ASSUME NEW k \in 1 .. next - 1, IsPass(k, next) PROVE FALSE
      <4>1. /\ k + 1 < next /\ events[k].code = Rise
            /\ \A j \in k + 1 .. next - 1 : events[j].code = Culminate
        BY <3>2 DEF IsPass
      <4>2. PICK i \in 1 .. next - 1 : Began(i)
        BY <4>1 DEF ScanInv, AtHand
      <4>3. i < next - 1
        BY <1>1, <1>2, <3>1, <3>2, <4>2, OnlyPassAtHand
      <4>4. peak = events[next - 1] /\ aosAt = events[i].at
        BY <1>2, <4>2, <4>3 DEF Began
      <4>5. events[next - 1] \in Event /\ events[i] \in Event
        BY <1>1, <1>2 DEF Windowed
      <4>6. \A event \in Event : event.at \in Int
        BY DEF Event
      <4> QED
        BY <3>1, <4>4, <4>5, <4>6, ScanParameters
    <3> QED
      BY <1>1, <3>1, <3>2, NothingFound DEF ScanInv
  <2> QED
    BY <2>1, <2>2
<1> QED
  BY <1>3, <1>4, <1>5 DEF ScanInv

\* The scan keeps its invariant.
LEMMA AlwaysScanInv == Spec => []ScanInv
<1>1. ScanInv /\ UNCHANGED vars => ScanInv'
  BY DEF vars, ScanInv, Windowed, AtHand, Began, FindsCompletePasses, CompletePasses, IsPass
<1>2. ScanInv /\ [Next]_vars => ScanInv'
  BY <1>1, RiseKeeps, CulminateKeeps, SetKeeps DEF Next
<1> QED
  BY <1>2, InitScanInv, PTL DEF Spec

-----------------------------------------------------------------------------
(* What the search finds.                                                   *)

\* passes.py:3-7: for every window, the search has found exactly the complete passes
\* of the events it has seen, one after the other.
THEOREM PassesAreComplete == Spec => []FindsCompletePasses
BY AlwaysScanInv, PTL DEF ScanInv

\* passes.py:120-126: each ground track goes from the rise to the set in steps that
\* differ by at most a unit of time, whatever the number of its samples.
THEOREM TracksSpanPasses == Spec => []TrackSpansPass
<1>1. ScanInv => TrackSpansPass
  <2> SUFFICES ASSUME ScanInv, NEW k \in DOMAIN passes
               PROVE  LET track == passes[k].groundTrack
                          gaps  == {track[s + 1] - track[s] : s \in 1 .. TrackSamples - 1}
                      IN  /\ track[1] = passes[k].aosAt
                          /\ track[TrackSamples] = passes[k].losAt
                          /\ \A g \in gaps : g >= 0 /\ \A h \in gaps : g - h \in -1 .. 1
    BY DEF TrackSpansPass
  <2> DEFINE track == passes[k].groundTrack
             gaps  == {track[s + 1] - track[s] : s \in 1 .. TrackSamples - 1}
  <2>1. passes[k] \in CompletePasses(next)
    BY DEF ScanInv, FindsCompletePasses, ToSet
  <2>2. PICK a, b \in 1 .. next - 1 :
          IsPass(a, b) /\ passes[k] = PassOf(events[a].at, events[b - 1], events[b].at)
    BY <2>1, MemberOfComplete
  <2>3. PICK start, end : start = events[a].at /\ end = events[b].at
    OBVIOUS
  <2>4. passes[k].aosAt = start /\ passes[k].losAt = end
        /\ track = SampleInstants(start, end, TrackSamples)
    BY <2>2, <2>3, PartsOfPass
  <2>5. start \in Int /\ end \in Int /\ start <= end
    <3>1. /\ next \in 1 .. Len(events) + 1 /\ events \in Seq(Event)
          /\ \A i, j \in DOMAIN events : i < j => events[i].at < events[j].at
      BY DEF ScanInv, Windowed
    <3>2. a \in DOMAIN events /\ b \in DOMAIN events /\ a < b
      BY <2>2, <3>1 DEF IsPass
    <3>3. \A event \in Event : event.at \in Int
      BY DEF Event
    <3>4. events[a] \in Event /\ events[b] \in Event
      BY <3>1, <3>2
    <3> QED
      BY <2>3, <3>1, <3>2, <3>3, <3>4
  <2>6. PICK part \in Nat :
          /\ track[1] = start /\ track[TrackSamples] = end
          /\ \A s \in 1 .. TrackSamples - 1 : track[s + 1] - track[s] \in {part, part + 1}
    <3>1. Even(SampleInstants(start, end, TrackSamples), start, end, TrackSamples)
      BY <2>5, SamplesSpread, ScanParameters
    <3> QED
      BY <2>4, <3>1 DEF Even
  <2>7. gaps \subseteq {part, part + 1}
    BY <2>6
  <2> HIDE DEF gaps
  <2>8. \A g \in gaps : g >= 0 /\ \A h \in gaps : g - h \in -1 .. 1
    BY <2>7
  <2> QED
    BY <2>4, <2>6, <2>8 DEF gaps
<1> QED
  BY <1>1, AlwaysScanInv, PTL

=============================================================================
