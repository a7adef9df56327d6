-------------------------- MODULE StationApiProofs --------------------------
(***************************************************************************)
(* What the HTTP API of StationApi guarantees for any number of requests,  *)
(* names and satellites, and any size of a page.                           *)
(***************************************************************************)
EXTENDS StationApi, FiniteSetTheorems, TLAPS

(* The registrations.                                                       *)

\* The name of a request that is under way.
Named(p) == post[p].at \in {"check", "insert", "refresh", "respond", "commit"} => post[p].name \in Names

\* A row that is inserted and uncommitted is the only one of its name.
RowIsNew(p) ==
  post[p].row =>
    /\ post[p].name \in Names \ stations
    /\ post[p].at \in {"refresh", "respond", "commit", "failed"}
    /\ \A q \in Posts \ {p} : post[q].row => post[q].name # post[p].name

\* What a request has been told, and what that says of its row.
AnswerIsTrue(p) ==
  /\ post[p].at \in {"refresh", "respond", "commit"} => post[p].row
  /\ post[p].told # 0 => post[p].at \in {"commit", "done"}
  /\ post[p].at = "commit" => post[p].told = 201
  /\ post[p].err # 201 /\ (post[p].err # 0 => post[p].at \in {"failed", "done"})
  /\ post[p].told = 201 /\ post[p].at = "done" /\ ~post[p].lost => post[p].name \in stations
  /\ 409 \in {post[p].err, post[p].told} => post[p].name \in stations

PostInv ==
  /\ \A p \in Posts : Named(p)
  /\ \A p \in Posts : RowIsNew(p)
  /\ \A p \in Posts : AnswerIsTrue(p)
  /\ OneStationPerName
  /\ StoredWasAccepted

\* A request only changes its own record; its step is one of five kinds.
Changes(p, r) ==
  /\ post' = [post EXCEPT ![p] = r]
  /\ post'[p] = r /\ r \in PostState
  /\ \A q \in Posts \ {p} : post'[q] = post[q]

\* It goes on, or runs into an error, with its transaction as it is.
Proceeds(p) ==
  /\ post'[p].row = post[p].row /\ post'[p].told = post[p].told /\ post'[p].lost = post[p].lost
  /\ post[p].at \in {"new", "check", "insert", "refresh"}
  /\ \/ post'[p].at = "failed" /\ post'[p].name = post[p].name /\ post'[p].err # 201
     \/ /\ post'[p].at = "check" /\ post[p].at = "new"
        /\ post'[p].name \in Names /\ post'[p].err = post[p].err
     \/ /\ <<post[p].at, post'[p].at>> \in {<<"check", "insert">>, <<"refresh", "respond">>}
        /\ post'[p].name = post[p].name /\ post'[p].err = post[p].err
  /\ post'[p].err = 409 => post'[p].name \in stations \/ post'[p].err = post[p].err
  /\ stations' = stations

Inserts(p) ==
  /\ post[p].at = "insert" /\ post[p].name \notin stations
  /\ \A q \in Posts : post[q].row => post[q].name # post[p].name
  /\ post'[p].at = "refresh" /\ post'[p].row = TRUE
  /\ post'[p].name = post[p].name /\ post'[p].err = post[p].err
  /\ post'[p].told = post[p].told /\ post'[p].lost = post[p].lost
  /\ stations' = stations

Responds(p) ==
  /\ post[p].at = "respond" /\ post'[p].at = "commit" /\ post'[p].told = 201
  /\ post'[p].name = post[p].name /\ post'[p].err = post[p].err
  /\ post'[p].row = post[p].row /\ post'[p].lost = post[p].lost
  /\ stations' = stations

Commits(p) ==
  /\ post[p].at = "commit" /\ post'[p].at = "done" /\ ~post'[p].row
  /\ post'[p].name = post[p].name /\ post'[p].err = post[p].err
  /\ post'[p].told = post[p].told /\ post'[p].lost = post[p].lost
  /\ stations' = stations \cup {post[p].name}

\* Its transaction is rolled back, after an error or because the commit fails.
RollsBack(p) ==
  /\ post'[p].at = "done" /\ ~post'[p].row
  /\ post'[p].name = post[p].name /\ post'[p].err = post[p].err
  /\ \/ post[p].at = "failed" /\ post'[p].told = post[p].err /\ post'[p].lost = post[p].lost
     \/ post[p].at = "commit" /\ post'[p].told = post[p].told /\ post'[p].lost
  /\ stations' = stations

\* The actions of a request.
Request(p) == Arrive(p) \/ RejectBody(p) \/ Serve(p) \/ StatementFails(p) \/ CommitFails(p)

\* Whatever becomes of its record, a request leaves the others alone.
LEMMA OneRecord ==
  ASSUME TypeOK, NEW p \in Posts, NEW r \in PostState, Becomes(p, r)
  PROVE  Changes(p, r) /\ UNCHANGED <<heap, predictions, get, writes>>
BY DEF TypeOK, Becomes, Changes

\* Every action of a request is a step of one of the five kinds.
LEMMA RequestEffect ==
  ASSUME TypeOK, NEW p \in Posts, Request(p)
  PROVE  /\ Proceeds(p) \/ Inserts(p) \/ Responds(p) \/ Commits(p) \/ RollsBack(p)
         /\ Changes(p, post'[p])
         /\ faults' \in 0 .. MaxFaults
         /\ UNCHANGED <<heap, predictions, get, writes>>
<1> DEFINE h == post[p]
<1>1. h \in PostState /\ faults \in 0 .. MaxFaults
  BY DEF TypeOK
<1>2. CountFault => faults' \in 0 .. MaxFaults
  BY <1>1, ApiParameters DEF CountFault
<1>3. ASSUME NEW r \in PostState, Becomes(p, r)
      PROVE  Changes(p, post'[p]) /\ post'[p] = r /\ UNCHANGED <<heap, predictions, get, writes>>
  BY <1>3, OneRecord DEF Changes
<1>4. ASSUME NEW c \in {409, 422, 500}, Becomes(p, [h EXCEPT !.at = "failed", !.err = c])
      PROVE  /\ Changes(p, post'[p]) /\ UNCHANGED <<heap, predictions, get, writes>>
             /\ post'[p].at = "failed" /\ post'[p].err = c /\ post'[p].name = h.name
             /\ post'[p].row = h.row /\ post'[p].told = h.told /\ post'[p].lost = h.lost
  <2> DEFINE r == [h EXCEPT !.at = "failed", !.err = c]
  <2>1. c \in Code
    BY DEF Code
  <2>2. /\ r \in PostState
        /\ r.at = "failed" /\ r.err = c /\ r.name = h.name
        /\ r.row = h.row /\ r.told = h.told /\ r.lost = h.lost
    BY <1>1, <2>1 DEF PostState, Stage
  <2>3. Becomes(p, r)
    BY <1>4
  <2> QED
    BY <1>3, <2>2, <2>3
<1>5. CASE Arrive(p)
  <2>1. PICK n \in Names : Becomes(p, [h EXCEPT !.at = "check", !.name = n])
    BY <1>5 DEF Arrive
  <2>2. [h EXCEPT !.at = "check", !.name = n] \in PostState
    BY <1>1 DEF PostState, Stage
  <2> DEFINE r == [h EXCEPT !.at = "check", !.name = n]
  <2>3. r.at = "check" /\ r.name = n /\ r.err = h.err /\ r.row = h.row /\ r.told = h.told /\ r.lost = h.lost
    BY <1>1 DEF PostState
  <2> HIDE DEF r
  <2>4. Changes(p, post'[p]) /\ post'[p] = r /\ UNCHANGED <<heap, predictions, get, writes>>
    BY <1>3, <2>1, <2>2 DEF r
  <2> QED
    BY <1>1, <1>5, <2>3, <2>4 DEF Arrive, At, Proceeds
<1>6. CASE RejectBody(p)
  BY <1>1, <1>4, <1>6 DEF RejectBody, Raise, At, Proceeds
<1>7. CASE StatementFails(p)
  BY <1>1, <1>2, <1>4, <1>7 DEF StatementFails, Raise, Proceeds
<1>8. CASE CheckName(p)
  <2>1. CASE Taken(h.name)
    BY <1>1, <1>4, <1>8, <2>1 DEF CheckName, Raise, Taken, At, Proceeds
  <2>2. CASE ~Taken(h.name)
    <3>1. [h EXCEPT !.at = "insert"] \in PostState
      BY <1>1 DEF PostState, Stage
    <3> QED
      BY <1>1, <1>3, <1>8, <2>2, <3>1 DEF CheckName, At, Proceeds, PostState
  <2> QED
    BY <2>1, <2>2
<1>9. CASE Insert(p)
  <2>1. CASE h.name \in stations
    BY <1>1, <1>4, <1>9, <2>1 DEF Insert, Raise, At, Proceeds
  <2>2. CASE h.name \notin stations
    <3>1. [h EXCEPT !.at = "refresh", !.row = TRUE] \in PostState
      BY <1>1 DEF PostState, Stage
    <3> DEFINE r == [h EXCEPT !.at = "refresh", !.row = TRUE]
    <3>2. r.at = "refresh" /\ r.name = h.name /\ r.err = h.err /\ r.row = TRUE /\ r.told = h.told /\ r.lost = h.lost
      BY <1>1 DEF PostState
    <3> HIDE DEF r
    <3>3. Changes(p, post'[p]) /\ post'[p] = r /\ UNCHANGED <<heap, predictions, get, writes>>
      BY <1>3, <1>9, <2>2, <3>1 DEF Insert, r
    <3> QED
      BY <1>1, <1>9, <2>2, <3>2, <3>3 DEF Insert, At, Inserts
  <2> QED
    BY <2>1, <2>2
<1>10. CASE Refresh(p)
  <2>1. [h EXCEPT !.at = "respond"] \in PostState
    BY <1>1 DEF PostState, Stage
  <2> QED
    BY <1>1, <1>3, <1>10, <2>1 DEF Refresh, At, Proceeds, PostState
<1>11. CASE Respond(p)
  <2>0. 201 \in Code
    BY DEF Code
  <2>1. [h EXCEPT !.at = "commit", !.told = 201] \in PostState
    BY <1>1, <2>0 DEF PostState, Stage
  <2> DEFINE r == [h EXCEPT !.at = "commit", !.told = 201]
  <2>2. r.at = "commit" /\ r.told = 201 /\ r.name = h.name /\ r.err = h.err /\ r.row = h.row /\ r.lost = h.lost
    BY <1>1 DEF PostState
  <2> HIDE DEF r
  <2>3. Changes(p, post'[p]) /\ post'[p] = r /\ UNCHANGED <<heap, predictions, get, writes>>
    BY <1>3, <1>11, <2>1 DEF Respond, r
  <2> QED
    BY <1>1, <1>11, <2>2, <2>3 DEF Respond, At, Responds
<1>12. CASE Commit(p)
  <2>1. [h EXCEPT !.at = "done", !.row = FALSE] \in PostState
    BY <1>1 DEF PostState, Stage
  <2> QED
    BY <1>1, <1>3, <1>12, <2>1 DEF Commit, At, Commits, PostState
<1>13. CASE Rollback(p)
  <2>1. [h EXCEPT !.at = "done", !.row = FALSE, !.told = h.err] \in PostState
    BY <1>1 DEF PostState, Stage
  <2> QED
    BY <1>1, <1>3, <1>13, <2>1 DEF Rollback, At, RollsBack, PostState
<1>14. CASE CommitFails(p)
  <2>1. [h EXCEPT !.at = "done", !.row = FALSE, !.lost = TRUE] \in PostState
    BY <1>1 DEF PostState, Stage
  <2> QED
    BY <1>1, <1>2, <1>3, <1>14, <2>1 DEF CommitFails, At, RollsBack, PostState
<1> QED
  BY <1>5, <1>6, <1>7, <1>8, <1>9, <1>10, <1>11, <1>12, <1>13, <1>14 DEF Request, Serve

\* The five kinds of steps keep what is known of the registrations.
LEMMA RequestKeeps ==
  ASSUME TypeOK, PostInv, NEW p \in Posts, Changes(p, post'[p]),
         Proceeds(p) \/ Inserts(p) \/ Responds(p) \/ Commits(p) \/ RollsBack(p)
  PROVE  PostInv'
<1>1. /\ \A q \in Posts : post[q] \in PostState /\ post'[q] \in PostState
      /\ \A q \in Posts \ {p} : post'[q] = post[q]
  BY DEF TypeOK, Changes
<1>2. ASSUME NEW q \in Posts PROVE Named(q)'
  BY <1>1 DEF PostInv, Named, Proceeds, Inserts, Responds, Commits, RollsBack
<1>3. ASSUME NEW q \in Posts PROVE RowIsNew(q)'
  BY <1>1 DEF PostInv, Named, RowIsNew, AnswerIsTrue, Proceeds, Inserts, Responds, Commits, RollsBack
<1>4. ASSUME NEW q \in Posts PROVE AnswerIsTrue(q)'
  <2>1. AnswerIsTrue(q) /\ RowIsNew(q) /\ AnswerIsTrue(p)
    BY DEF PostInv
  <2>2. stations \subseteq stations'
    BY DEF Proceeds, Inserts, Responds, Commits, RollsBack
  <2>3. CASE q # p
    BY <1>1, <2>1, <2>2, <2>3 DEF AnswerIsTrue
  <2>4. CASE q = p
    <3>1. CASE Proceeds(p)
      BY <1>1, <2>1, <2>4, <3>1 DEF AnswerIsTrue, Proceeds
    <3>2. CASE Inserts(p)
      BY <1>1, <2>1, <2>4, <3>2 DEF AnswerIsTrue, Inserts
    <3>3. CASE Responds(p)
      BY <1>1, <2>1, <2>4, <3>3 DEF AnswerIsTrue, Responds
    <3>4. CASE Commits(p)
      BY <1>1, <2>1, <2>4, <3>4 DEF AnswerIsTrue, Commits
    <3>5. CASE RollsBack(p)
      BY <1>1, <2>1, <2>4, <3>5 DEF AnswerIsTrue, RollsBack
    <3> QED
      BY <3>1, <3>2, <3>3, <3>4, <3>5
  <2> QED
    BY <2>3, <2>4
<1>5. OneStationPerName'
  BY <1>1 DEF PostInv, OneStationPerName, RowIsNew, AnswerIsTrue, Proceeds, Inserts, Responds, Commits, RollsBack
<1>6. StoredWasAccepted'
  BY <1>1 DEF PostInv, StoredWasAccepted, AnswerIsTrue, Proceeds, Inserts, Responds, Commits, RollsBack
<1> QED
  BY <1>2, <1>3, <1>4, <1>5, <1>6 DEF PostInv

\* A crash changes no name and no status, ends every request that was under
\* way, and loses the answer of those that were to be committed.
LEMMA CrashEffect ==
  ASSUME TypeOK, PostInv, Crash, NEW p \in Posts
  PROVE  /\ post'[p] \in PostState
         /\ post'[p].name = post[p].name /\ post'[p].err = post[p].err
         /\ post'[p].told = post[p].told /\ post'[p].row = FALSE
         /\ post[p].at \in {"new", "done"} => post'[p] = post[p]
         /\ post[p].at \notin {"new", "done"} => post'[p].at = "done"
         /\ post[p].at = "commit" => post'[p].lost = TRUE
<1>1. post[p] \in PostState
  BY DEF TypeOK
<1>2. CASE post[p].at \in {"new", "done"}
  <2>1. post'[p] = post[p]
    BY <1>2 DEF Crash
  <2>2. post[p].row = FALSE
    BY <1>1, <1>2 DEF PostInv, RowIsNew, PostState
  <2> QED
    BY <1>1, <1>2, <2>1, <2>2
<1>3. CASE post[p].at \notin {"new", "done"}
  <2> DEFINE h == post[p]
             l == (h.at = "commit")
             r == [h EXCEPT !.at = "done", !.row = FALSE, !.lost = l]
  <2>1. post'[p] = r
    BY <1>3 DEF Crash, At
  <2>2. l \in BOOLEAN
    OBVIOUS
  <2> HIDE DEF l
  <2>3. /\ r \in PostState
        /\ r.name = h.name /\ r.err = h.err /\ r.told = h.told
        /\ r.row = FALSE /\ r.at = "done" /\ r.lost = l
    BY <1>1, <2>2 DEF PostState, Stage
  <2>4. h.at = "commit" => l = TRUE
    BY DEF l
  <2> QED
    BY <1>3, <2>1, <2>3, <2>4
<1> QED
  BY <1>2, <1>3

\* A crash keeps what is known of the registrations.
LEMMA CrashKeeps ==
  ASSUME TypeOK, PostInv, Crash PROVE PostInv'
<1>1. stations' = stations /\ \A p \in Posts : post[p] \in PostState
  BY DEF TypeOK, Crash
<1>a. \A p \in Posts :
         /\ post'[p] \in PostState
         /\ post'[p].name = post[p].name /\ post'[p].err = post[p].err
         /\ post'[p].told = post[p].told /\ post'[p].row = FALSE
         /\ post[p].at \in {"new", "done"} => post'[p] = post[p]
         /\ post[p].at \notin {"new", "done"} => post'[p].at = "done"
         /\ post[p].at = "commit" => post'[p].lost = TRUE
  BY CrashEffect
<1>2. ASSUME NEW q \in Posts PROVE Named(q)'
  BY <1>1, <1>a DEF PostInv, Named
<1>3. ASSUME NEW q \in Posts PROVE RowIsNew(q)'
  BY <1>1, <1>a DEF RowIsNew
<1>4. ASSUME NEW q \in Posts PROVE AnswerIsTrue(q)'
  BY <1>1, <1>a DEF PostInv, AnswerIsTrue
<1>5. OneStationPerName'
  BY <1>1, <1>a DEF PostInv, OneStationPerName, AnswerIsTrue
<1>6. StoredWasAccepted'
  BY <1>1, <1>a DEF PostInv, StoredWasAccepted
<1> QED
  BY <1>2, <1>3, <1>4, <1>5, <1>6 DEF PostInv

-----------------------------------------------------------------------------
(* The pages.                                                               *)

\* The number of elements of S below s: the rank of s when S is listed in order.
RankIn(S, s) == Cardinality({t \in S : t < s})

\* Ranks are natural numbers below the size of the set.
LEMMA RankBelow ==
  ASSUME NEW S \in SUBSET Nat, IsFiniteSet(S), NEW s \in S
  PROVE  RankIn(S, s) \in Nat /\ Cardinality(S) \in Nat /\ RankIn(S, s) < Cardinality(S)
<1> DEFINE B == {t \in S : t < s}
<1>1. B \in SUBSET S /\ s \notin B
  OBVIOUS
<1>2. IsFiniteSet(B) /\ Cardinality(B) <= Cardinality(S) /\ (Cardinality(S) = Cardinality(B) => S = B)
  BY <1>1, FS_Subset
<1>3. Cardinality(B) \in Nat /\ Cardinality(S) \in Nat
  BY <1>2, FS_CardinalityType
<1>4. Cardinality(B) # Cardinality(S)
  BY <1>1, <1>2
<1> QED
  BY <1>2, <1>3, <1>4 DEF RankIn

\* A set that grows lists none of its elements earlier.
LEMMA RankGrows ==
  ASSUME NEW T \in SUBSET Nat, IsFiniteSet(T), NEW S \in SUBSET T, NEW s \in S
  PROVE  RankIn(S, s) <= RankIn(T, s)
<1>1. {t \in S : t < s} \in SUBSET {t \in T : t < s} /\ {t \in T : t < s} \in SUBSET T
  OBVIOUS
<1>2. IsFiniteSet({t \in T : t < s})
  BY <1>1, FS_Subset
<1> QED
  BY <1>1, <1>2, FS_Subset DEF RankIn

\* Two elements have different ranks.
LEMMA RankInjective ==
  ASSUME NEW S \in SUBSET Nat, IsFiniteSet(S), NEW s \in S, NEW t \in S, RankIn(S, s) = RankIn(S, t)
  PROVE  s = t
<1>1. ASSUME NEW u \in S, NEW v \in S, u < v PROVE RankIn(S, u) # RankIn(S, v)
  <2> DEFINE A == {x \in S : x < u}
             B == {x \in S : x < v}
  <2>1. B \in SUBSET S /\ u \in B /\ u \notin A
    BY <1>1
  <2>2. A \in SUBSET B
    <3>1. \A x \in S : x < u => x < v
      BY <1>1
    <3> QED
      BY <3>1
  <2>3. IsFiniteSet(B)
    BY <2>1, FS_Subset
  <2>4. Cardinality(B) = Cardinality(A) => B = A
    BY <2>2, <2>3, FS_Subset
  <2> QED
    BY <2>1, <2>4 DEF RankIn
<1>2. s < t \/ t < s \/ s = t
  OBVIOUS
<1> QED
  BY <1>1, <1>2

\* Every rank up to that of an element is the rank of an element.
LEMMA RanksFilled ==
  ASSUME NEW S \in SUBSET Nat, IsFiniteSet(S), NEW t \in S, NEW k \in Nat, k <= RankIn(S, t)
  PROVE  \E s \in S : RankIn(S, s) = k
<1> DEFINE T == {s \in S : RankIn(S, s) >= k}
<1>1. PICK m \in T : \A y \in T : ~(y < m)
  <2>1. T \subseteq Nat /\ T # {}
    OBVIOUS
  <2>2. PICK m \in T : \A y \in T : <<y, m>> \notin OpToRel(<, Nat)
    BY <2>1, NatLessThanWellFounded, WFMin
  <2> QED
    BY <2>1, <2>2 DEF OpToRel
<1> DEFINE B == {u \in S : u < m}
           f == [u \in B |-> RankIn(S, u)]
<1>2. ASSUME NEW u \in B PROVE RankIn(S, u) \in 0 .. k - 1
  <2>1. u \in S /\ u \notin T
    BY <1>1
  <2> QED
    BY <2>1, RankBelow
<1>3. f \in [B -> 0 .. k - 1]
  BY <1>2
<1>4. f \in Injection(B, 0 .. k - 1)
  BY <1>3, RankInjective DEF Injection, IsInjective
<1>5. IsFiniteSet(0 .. k - 1) /\ Cardinality(0 .. k - 1) = k
  <2>1. 0 \in Int /\ k - 1 \in Int /\ (IF 0 > k - 1 THEN 0 ELSE (k - 1) - 0 + 1) = k
    OBVIOUS
  <2> QED
    BY <2>1, FS_Interval
<1>6. Cardinality(B) <= k
  BY <1>4, <1>5, FS_Injection
<1>7. m \in S /\ RankIn(S, m) >= k /\ RankIn(S, m) \in Nat
  BY <1>1, RankBelow
<1>8. RankIn(S, m) = k
  BY <1>6, <1>7 DEF RankIn
<1> QED
  BY <1>7, <1>8

\* What OFFSET o LIMIT n lists of S.
Rows(S, o, n) == {s \in S : RankIn(S, s) \in o .. o + n - 1}

\* A page is full if there is an element behind it.
LEMMA PageFull ==
  ASSUME NEW S \in SUBSET Nat, IsFiniteSet(S), NEW o \in Nat, NEW n \in Nat,
         NEW t \in S, RankIn(S, t) >= o + n
  PROVE  Cardinality(Rows(S, o, n)) >= n
<1> DEFINE I == o .. o + n - 1
           g == [k \in I |-> CHOOSE s \in S : RankIn(S, s) = k]
<1>1. ASSUME NEW k \in I PROVE g[k] \in S /\ RankIn(S, g[k]) = k
  <2>1. k \in Nat /\ k <= RankIn(S, t)
    BY RankBelow
  <2> QED
    BY <2>1, RanksFilled
<1> HIDE DEF g
<1>2. g \in [I -> Rows(S, o, n)]
  <2>1. \A k \in I : g[k] \in Rows(S, o, n)
    BY <1>1 DEF Rows
  <2> QED
    BY <2>1 DEF g
<1>3. g \in Injection(I, Rows(S, o, n))
  BY <1>1, <1>2 DEF Injection, IsInjective
<1>4. Rows(S, o, n) \in SUBSET S
  BY DEF Rows
<1>5. IsFiniteSet(Rows(S, o, n))
  BY <1>4, FS_Subset
<1>6. Cardinality(I) <= Cardinality(Rows(S, o, n))
  BY <1>3, <1>5, FS_Injection
<1>7. Cardinality(I) = n
  BY FS_Interval
<1> QED
  BY <1>6, <1>7

\* A full page ends within the list.
LEMMA FullPageFits ==
  ASSUME NEW S \in SUBSET Nat, IsFiniteSet(S), NEW o \in Nat, NEW n \in Nat \ {0},
         Cardinality(Rows(S, o, n)) >= n
  PROVE  o + n <= Cardinality(S)
<1> DEFINE I == o .. o + n - 1
           P == Rows(S, o, n)
           f == [s \in P |-> RankIn(S, s)]
<1>1. P \in SUBSET S /\ \A s \in P : RankIn(S, s) \in I
  BY DEF Rows
<1>2. IsFiniteSet(P) /\ Cardinality(P) \in Nat /\ IsFiniteSet(I) /\ Cardinality(I) = n
  <2>1. IsFiniteSet(P)
    BY <1>1, FS_Subset
  <2>2. o \in Int /\ o + n - 1 \in Int /\ (IF o > o + n - 1 THEN 0 ELSE (o + n - 1) - o + 1) = n
    OBVIOUS
  <2> QED
    BY <2>1, <2>2, FS_CardinalityType, FS_Interval
<1> HIDE DEF P
<1>3. f \in Injection(P, I)
  BY <1>1, RankInjective DEF Injection, IsInjective
<1>4. Cardinality(P) = Cardinality(I)
  <2>1. Cardinality(P) <= Cardinality(I)
    BY <1>2, <1>3, FS_Injection
  <2> QED
    BY <1>2, <2>1 DEF P
<1>5. f \in Surjection(P, I)
  BY <1>2, <1>3, <1>4, FS_Injection
<1>6. PICK s \in P : RankIn(S, s) = o + n - 1
  <2>1. o + n - 1 \in I
    OBVIOUS
  <2> QED
    BY <1>5, <2>1 DEF Surjection
<1>7. RankIn(S, s) < Cardinality(S) /\ Cardinality(S) \in Nat
  BY <1>1, RankBelow
<1> QED
  BY <1>6, <1>7

\* Every prediction is of a stored satellite, and so is every prediction that
\* has been read; the satellites are read after it.
ReadInv ==
  /\ \A n \in Names : predictions[n] \subseteq Stored
  /\ get.left \in {Statements, Tail(Statements), <<>>}
  /\ get.left # <<>> => get.op = "passes" /\ get.busy /\ get.name \in Names
  /\ get.op = "passes" /\ get.left # Statements => get.rows \subseteq Stored
  /\ get.op = "passes" /\ get.left = <<>> /\ get.busy => get.rows \subseteq get.known
  /\ get.code # 500

\* Of the satellites that were there when the client began, those that it has
\* not been shown are behind the rows it has read.
PageInv ==
  get.op = "satellites" =>
    /\ get.base \subseteq Stored
    /\ get.busy => \A s \in get.base \ get.rows : Rank(s) >= get.offset
    /\ ~get.busy => get.base \subseteq get.rows
    /\ get.busy => get.code = 0

\* Everything the properties need.
ApiInv == TypeOK /\ PostInv /\ ReadInv /\ PageInv

\* What the lemmas about ranks say of the stored satellites.
LEMMA StoredRanks ==
  ASSUME TypeOK
  PROVE  /\ Stored \in SUBSET Satellites /\ Stored \in SUBSET Nat /\ IsFiniteSet(Stored)
         /\ \A s \in Stored : Rank(s) = RankIn(Stored, s) /\ Rank(s) \in Nat
         /\ Page = Rows(Stored, get.offset, PageSize)
         /\ Cardinality(Stored) \in Nat /\ Cardinality(Satellites) \in Nat
         /\ Cardinality(Stored) <= Cardinality(Satellites)
<1>1. Stored \in SUBSET Satellites /\ Stored \in SUBSET Nat /\ IsFiniteSet(Satellites)
  BY ApiParameters DEF Stored
<1>2. IsFiniteSet(Stored) /\ Cardinality(Stored) <= Cardinality(Satellites)
  BY <1>1, FS_Subset
<1>3. ASSUME NEW s \in Stored PROVE Rank(s) = RankIn(Stored, s) /\ Rank(s) \in Nat
  BY <1>1, <1>2, RankBelow DEF Rank, RankIn, Before
<1> QED
  BY <1>1, <1>2, <1>3, FS_CardinalityType DEF Page, Rows

\* Nothing of this changes when neither the tables nor the client's request do.
LEMMA ReadUntouched ==
  ASSUME ReadInv, PageInv, UNCHANGED <<heap, predictions, get>>
  PROVE  ReadInv' /\ PageInv'
<1>1. Stored' = Stored
  BY DEF Stored
<1>2. \A s : Rank(s)' = Rank(s)
  BY <1>1 DEF Rank, Before
<1> QED
  BY <1>1, <1>2 DEF ReadInv, PageInv, Statements

LEMMA PostUntouched ==
  ASSUME PostInv, UNCHANGED <<stations, post>> PROVE PostInv'
BY DEF PostInv, Named, RowIsNew, AnswerIsTrue, OneStationPerName, StoredWasAccepted

\* Two statements, one after the other.
LEMMA StatementList ==
  /\ Statements = <<"predictions", "satellites">> /\ Statements # <<>>
  /\ Statements \in Seq({"predictions", "satellites"})
  /\ Head(Statements) = "predictions" /\ Tail(Statements) = <<"satellites">>
  /\ Tail(Statements) # Statements /\ Tail(Statements) # <<>>
  /\ Head(Tail(Statements)) = "satellites" /\ Tail(Tail(Statements)) = <<>>
BY DEF Statements

\* The client between two requests.
LEMMA GetBegins ==
  /\ Cardinality(Satellites) \in Nat /\ Get0 \in GetState
  /\ Get0.op = "none" /\ Get0.left = <<>> /\ Get0.rows = {} /\ Get0.known = {} /\ Get0.base = {}
  /\ Get0.offset = 0 /\ Get0.code = 0 /\ Get0.busy = FALSE
<1>1. Cardinality(Satellites) \in Nat
  BY ApiParameters, FS_CardinalityType
<1>2. "none" \in Query /\ <<>> \in LeftSet /\ {} \in RowSet /\ 0 \in OffsetSet /\ 0 \in GetCode
  BY <1>1 DEF Query, LeftSet, RowSet, OffsetSet, GetCode
<1> QED
  BY <1>1, <1>2 DEF Get0, GetState

\* The request for the first page, and for the passes over a station.
LEMMA AskKeeps ==
  ASSUME TypeOK, ReadInv, PageInv, AskSatellites \/ \E n \in Names : AskPasses(n)
  PROVE  get' \in GetState /\ ReadInv' /\ PageInv'
<1>1. Stored' = Stored /\ UNCHANGED <<heap, predictions>>
  BY DEF AskSatellites, AskPasses, Gets, Answer, Stored
<1>2. Stored \in RowSet
  BY StoredRanks DEF RowSet
<1>3. /\ Get0 \in GetState
      /\ Get0.left = <<>> /\ Get0.rows = {} /\ Get0.known = {} /\ Get0.base = {}
      /\ Get0.offset = 0 /\ Get0.code = 0 /\ Get0.busy = FALSE
  BY GetBegins
<1>4. ASSUME AskSatellites PROVE get' \in GetState /\ ReadInv' /\ PageInv'
  <2> DEFINE r == [Get0 EXCEPT !.op = "satellites", !.busy = TRUE, !.base = Stored]
  <2>1. /\ r \in GetState /\ r.op = "satellites" /\ r.busy = TRUE /\ r.base = Stored
        /\ r.left = <<>> /\ r.rows = {} /\ r.offset = 0 /\ r.code = 0
    BY <1>2, <1>3 DEF GetState, Query
  <2>2. get' = r
    BY <1>4 DEF AskSatellites, Gets
  <2> HIDE DEF r
  <2>3. \A s \in Stored : Rank(s)' = Rank(s) /\ Rank(s) >= 0
    BY <1>1, StoredRanks DEF Rank, Before
  <2> QED
    BY <1>1, <2>1, <2>2, <2>3 DEF ReadInv, PageInv
<1>5. ASSUME NEW n \in Names, AskPasses(n) PROVE get' \in GetState /\ ReadInv' /\ PageInv'
  <2> DEFINE r == [Get0 EXCEPT !.op = "passes", !.busy = TRUE, !.name = n, !.left = Statements]
  <2>1. /\ r \in GetState /\ r.op = "passes" /\ r.busy = TRUE /\ r.name = n /\ r.left = Statements
        /\ r.rows = {} /\ r.code = 0
    <3>1. Statements \in LeftSet /\ "passes" \in Query
      BY StatementList DEF LeftSet, Query
    <3> QED
      BY <1>3, <3>1 DEF GetState
  <2> HIDE DEF r
  <2> DEFINE u == [r EXCEPT !.busy = FALSE, !.left = <<>>, !.code = 404]
  <2>2. /\ u \in GetState /\ u.op = r.op /\ u.busy = FALSE /\ u.left = <<>>
        /\ u.rows = r.rows /\ u.code = 404
    <3>1. <<>> \in LeftSet /\ 404 \in GetCode
      BY DEF LeftSet, GetCode
    <3>2. r \in GetState
      BY <2>1
    <3>3. u \in GetState
      BY <3>1, <3>2, ZenonT(30) DEF GetState
    <3>4. u.op = r.op /\ u.rows = r.rows
      BY <3>2 DEF GetState
    <3>5. u.busy = FALSE /\ u.left = <<>> /\ u.code = 404
      BY <3>2 DEF GetState
    <3> QED
      BY <3>3, <3>4, <3>5
  <2>3. get' = r \/ get' = u
    BY <1>5 DEF AskPasses, Gets, Answer, r
  <2> HIDE DEF u
  <2> QED
    BY <1>1, <2>1, <2>2, <2>3, StatementList DEF ReadInv, PageInv
<1> QED
  BY <1>4, <1>5

\* The statements of a request for passes.
LEMMA ReadKeeps ==
  ASSUME TypeOK, ReadInv, PageInv, ReadPredictions \/ ReadSatellites \/ JoinPasses
  PROVE  get' \in GetState /\ ReadInv' /\ PageInv'
<1>1. Stored' = Stored /\ UNCHANGED <<heap, predictions>>
  BY DEF ReadPredictions, ReadSatellites, JoinPasses, Gets, Answer, Stored
<1>2. get \in GetState /\ predictions \in [Names -> SUBSET Satellites] /\ Stored \subseteq Satellites
  BY StoredRanks DEF TypeOK
<1>3. CASE ReadPredictions
  <2> DEFINE r == [get EXCEPT !.rows = predictions[get.name], !.left = Tail(get.left)]
  <2>1. get.left = Statements /\ get.op = "passes" /\ get.busy /\ get.name \in Names
    BY <1>3, StatementList DEF ReadPredictions, ReadInv
  <2>2. /\ r \in GetState /\ r.op = get.op /\ r.busy = get.busy /\ r.name = get.name
        /\ r.left = Tail(Statements) /\ r.rows = predictions[get.name] /\ r.code = get.code
    <3>1. Tail(Statements) \in LeftSet /\ predictions[get.name] \in RowSet
      BY <1>2, <2>1, StatementList DEF LeftSet, RowSet
    <3> QED
      BY <1>2, <2>1, <3>1 DEF GetState
  <2>3. get' = r
    BY <1>3 DEF ReadPredictions, Gets
  <2> HIDE DEF r
  <2>4. predictions[get.name] \subseteq Stored
    BY <2>1 DEF ReadInv
  <2>5. ReadInv'
    <3>1. get'.left = Tail(Statements) /\ get'.rows \subseteq Stored'
      BY <1>1, <2>2, <2>3, <2>4
    <3> QED
      <4>1. get'.op = "passes" /\ get'.busy /\ get'.name \in Names
        BY <2>1, <2>2, <2>3
      <4>2. get'.code # 500
        BY <2>2, <2>3 DEF ReadInv
      <4>3. \A n \in Names : predictions'[n] \subseteq Stored'
        BY <1>1 DEF ReadInv
      <4> QED
        BY <3>1, <4>1, <4>2, <4>3, StatementList DEF ReadInv
  <2>6. PageInv'
    BY <2>1, <2>2, <2>3 DEF PageInv
  <2> QED
    BY <2>2, <2>3, <2>5, <2>6
<1>4. CASE ReadSatellites
  <2> DEFINE r == [get EXCEPT !.known = Stored, !.left = Tail(get.left)]
  <2>1. get.left = Tail(Statements) /\ get.op = "passes" /\ get.busy /\ get.rows \subseteq Stored
    BY <1>4, StatementList DEF ReadSatellites, ReadInv
  <2>2. /\ r \in GetState /\ r.op = get.op /\ r.busy = get.busy /\ r.left = <<>>
        /\ r.rows = get.rows /\ r.known = Stored /\ r.code = get.code
    <3>1. Tail(get.left) = <<>> /\ <<>> \in LeftSet /\ Stored \in RowSet
      BY <1>2, <2>1, StatementList DEF LeftSet, RowSet
    <3> QED
      BY <1>2, <2>1, <3>1 DEF GetState
  <2>3. get' = r
    BY <1>4 DEF ReadSatellites, Gets
  <2> HIDE DEF r
  <2> QED
    BY <1>1, <2>1, <2>2, <2>3, StatementList DEF ReadInv, PageInv
<1>5. CASE JoinPasses
  <2> DEFINE r == [get EXCEPT !.busy = FALSE, !.left = <<>>, !.code = 200]
  <2>1. get.busy /\ get.op = "passes" /\ get.left = <<>> /\ get.rows \subseteq get.known
    BY <1>5 DEF JoinPasses, ReadInv
  <2>2. /\ r \in GetState /\ r.op = get.op /\ r.busy = FALSE /\ r.left = <<>>
        /\ r.rows = get.rows /\ r.code = 200
    <3>1. <<>> \in LeftSet /\ 200 \in GetCode
      BY DEF LeftSet, GetCode
    <3> QED
      BY <1>2, <3>1 DEF GetState
  <2>3. get' = r
    BY <1>5, <2>1 DEF JoinPasses, Answer, Gets
  <2> HIDE DEF r
  <2>4. get.rows \subseteq Stored
    BY <2>1, StatementList DEF ReadInv
  <2> QED
    BY <1>1, <2>1, <2>2, <2>3, <2>4, StatementList DEF ReadInv, PageInv
<1> QED
  BY <1>3, <1>4, <1>5

\* A page.
LEMMA PageKeeps ==
  ASSUME TypeOK, ReadInv, PageInv, ReadPage
  PROVE  get' \in GetState /\ ReadInv' /\ PageInv'
<1>1. Stored' = Stored /\ UNCHANGED <<heap, predictions>>
  BY DEF ReadPage, Gets, Answer, Stored
<1>2. \A s : Rank(s)' = Rank(s)
  BY <1>1 DEF Rank, Before
<1>3. /\ get \in GetState /\ get.busy /\ get.op = "satellites" /\ get.left = <<>> /\ get.code # 500
      /\ get.offset \in Nat /\ PageSize \in Nat \ {0} /\ get.base \subseteq Stored
      /\ \A s \in get.base \ get.rows : Rank(s) >= get.offset
  <2>1. get \in GetState /\ get.busy /\ get.op = "satellites"
    BY DEF TypeOK, ReadPage
  <2>2. get.offset \in Nat
    BY <2>1, GetBegins DEF GetState, OffsetSet
  <2>3. get.left = <<>> /\ get.code # 500
    BY <2>1 DEF ReadInv
  <2> QED
    BY <2>1, <2>2, <2>3, ApiParameters DEF PageInv
<1>4. /\ Page \subseteq Stored /\ Stored \subseteq Satellites
      /\ \A s \in Stored : s \notin Page => Rank(s) \in Nat /\ Rank(s) \notin get.offset .. get.offset + PageSize - 1
  BY StoredRanks DEF Page
<1> DEFINE r == [get EXCEPT !.rows = get.rows \cup Page]
<1>5. /\ r \in GetState /\ r.op = get.op /\ r.busy = get.busy /\ r.left = <<>>
      /\ r.rows = get.rows \cup Page /\ r.base = get.base /\ r.offset = get.offset /\ r.code = get.code
  <2> DEFINE shown == get.rows \cup Page
  <2>1. shown \in RowSet
    BY <1>3, <1>4 DEF GetState, RowSet
  <2> HIDE DEF shown
  <2> DEFINE u == [get EXCEPT !.rows = shown]
  <2>2. /\ u \in GetState /\ u.op = get.op /\ u.busy = get.busy /\ u.left = get.left
        /\ u.rows = shown /\ u.base = get.base /\ u.offset = get.offset /\ u.code = get.code
    <3>1. get \in GetState
      BY <1>3
    <3> QED
      BY <2>1, <3>1 DEF GetState
  <2>3. r = u
    BY DEF shown
  <2> HIDE DEF u, r
  <2> QED
    BY <1>3, <2>2, <2>3 DEF shown
<1>6. get' = IF Cardinality(Page) < PageSize
             THEN [r EXCEPT !.busy = FALSE, !.left = <<>>, !.code = 200]
             ELSE [r EXCEPT !.offset = r.offset + PageSize]
  BY DEF ReadPage, Gets, Answer
<1> HIDE DEF r
<1>7. CASE Cardinality(Page) < PageSize
  <2> DEFINE u == [r EXCEPT !.busy = FALSE, !.left = <<>>, !.code = 200]
  <2>1. /\ u \in GetState /\ u.op = get.op /\ u.busy = FALSE /\ u.left = <<>>
        /\ u.rows = r.rows /\ u.base = get.base /\ u.code = 200
    <3>1. <<>> \in LeftSet /\ 200 \in GetCode
      BY DEF LeftSet, GetCode
    <3> QED
      BY <1>5, <3>1 DEF GetState
  <2>2. get' = u
    BY <1>6, <1>7
  <2> HIDE DEF u
  <2>3. ASSUME NEW s \in get.base PROVE s \in r.rows
    <3>1. CASE s \in get.rows
      BY <1>5, <3>1
    <3>2. CASE s \notin get.rows
      <4>1. ~(RankIn(Stored, s) >= get.offset + PageSize)
        <5>1. Cardinality(Rows(Stored, get.offset, PageSize)) < PageSize
          BY <1>7, StoredRanks
        <5>2. Cardinality(Rows(Stored, get.offset, PageSize)) \in Nat
          <6>1. Rows(Stored, get.offset, PageSize) \in SUBSET Stored
            BY DEF Rows
          <6> QED
            BY <6>1, StoredRanks, FS_Subset, FS_CardinalityType
        <5>3. RankIn(Stored, s) >= get.offset + PageSize
                => Cardinality(Rows(Stored, get.offset, PageSize)) >= PageSize
          BY <1>3, StoredRanks, PageFull
        <5> QED
          BY <1>3, <5>1, <5>2, <5>3
      <4>2. s \in Stored /\ Rank(s) = RankIn(Stored, s) /\ Rank(s) \in Nat /\ Rank(s) >= get.offset
        BY <1>3, <3>2, StoredRanks
      <4>3. s \in Page
        BY <1>3, <1>4, <4>1, <4>2
      <4> QED
        BY <1>5, <4>3
    <3> QED
      BY <3>1, <3>2
  <2> QED
    BY <1>1, <1>3, <1>5, <2>1, <2>2, <2>3 DEF ReadInv, PageInv
<1>8. CASE ~(Cardinality(Page) < PageSize)
  <2> DEFINE u == [r EXCEPT !.offset = r.offset + PageSize]
  <2>1. get.offset + PageSize <= Cardinality(Stored)
    <3>1. Cardinality(Rows(Stored, get.offset, PageSize)) \in Nat
      <4>1. Rows(Stored, get.offset, PageSize) \in SUBSET Stored
        BY DEF Rows
      <4> QED
        BY <4>1, StoredRanks, FS_Subset, FS_CardinalityType
    <3>2. Cardinality(Rows(Stored, get.offset, PageSize)) >= PageSize
      BY <1>3, <1>8, <3>1, StoredRanks
    <3> QED
      BY <1>3, <3>2, StoredRanks, FullPageFits
  <2>2. r.offset + PageSize \in OffsetSet
    BY <1>3, <1>5, <2>1, StoredRanks DEF OffsetSet
  <2>3. /\ u \in GetState /\ u.op = get.op /\ u.busy = get.busy /\ u.left = <<>>
        /\ u.rows = r.rows /\ u.base = get.base /\ u.offset = get.offset + PageSize /\ u.code = get.code
    BY <1>5, <2>2 DEF GetState
  <2>4. get' = u
    BY <1>6, <1>8
  <2> HIDE DEF u
  <2>5. ASSUME NEW s \in get.base \ r.rows PROVE Rank(s) >= get.offset + PageSize
    BY <1>3, <1>4, <1>5, <2>5
  <2> QED
    <3>1. ReadInv'
      BY <1>1, <1>3, <2>3, <2>4 DEF ReadInv
    <3>2. PageInv'
      <4>1. get'.base = get.base /\ get'.rows = r.rows /\ get'.busy /\ get'.offset = get.offset + PageSize
        BY <1>3, <2>3, <2>4, <1>5
      <4>2. \A s \in get'.base \ get'.rows : Rank(s)' >= get'.offset
        BY <1>2, <2>5, <4>1
      <4>3. get'.code = 0
        BY <1>3, <2>3, <2>4 DEF PageInv
      <4> QED
        BY <1>1, <1>3, <4>1, <4>2, <4>3 DEF PageInv
    <3> QED
      BY <2>3, <2>4, <3>1, <3>2
<1> QED
  BY <1>7, <1>8

\* The background adds rows and exchanges predictions of stored satellites.
LEMMA BackgroundKeeps ==
  ASSUME TypeOK, ReadInv, PageInv, NEW s \in Satellites, Ingest(s) \/ Recompute(s)
  PROVE  /\ heap' \in [Satellites -> 0 .. MaxWrites] /\ writes' \in 0 .. MaxWrites
         /\ predictions' \in [Names -> SUBSET Satellites]
         /\ ReadInv' /\ PageInv'
<1>1. /\ heap \in [Satellites -> 0 .. MaxWrites] /\ writes \in 0 .. MaxWrites /\ MaxWrites \in Nat
      /\ predictions \in [Names -> SUBSET Satellites] /\ get \in GetState
  BY ApiParameters DEF TypeOK
<1>2. UNCHANGED get
  BY DEF Ingest, Recompute
<1>3. CASE Ingest(s)
  <2>1. heap' = [heap EXCEPT ![s] = writes + 1] /\ writes' \in 0 .. MaxWrites /\ UNCHANGED predictions
    BY <1>1, <1>3 DEF Ingest
  <2>2. heap' \in [Satellites -> 0 .. MaxWrites]
    BY <1>1, <1>3 DEF Ingest
  <2>3. Stored \subseteq Stored' /\ Stored' \in SUBSET Nat /\ Stored' \in SUBSET Satellites
    <3>1. ASSUME NEW t \in Satellites, heap[t] # 0 PROVE heap'[t] # 0
      BY <1>1, <2>1, <3>1
    <3> QED
      BY <3>1, ApiParameters DEF Stored
  <2>4. IsFiniteSet(Stored')
    BY <2>3, ApiParameters, FS_Subset
  <2>5. ASSUME NEW t \in Stored PROVE Rank(t) <= Rank(t)' /\ Rank(t) \in Nat /\ Rank(t)' \in Nat
    <3>1. Rank(t) = RankIn(Stored, t) /\ Rank(t) \in Nat
      BY StoredRanks
    <3>2. Rank(t)' = RankIn(Stored', t)
      BY DEF Rank, RankIn, Before
    <3>3. RankIn(Stored, t) <= RankIn(Stored', t)
      BY <2>3, <2>4, RankGrows
    <3>4. RankIn(Stored', t) \in Nat
      BY <2>3, <2>4, RankBelow
    <3> QED
      BY <3>1, <3>2, <3>3, <3>4
  <2>6. ReadInv'
    BY <1>2, <2>1, <2>3 DEF ReadInv, Statements
  <2>7. PageInv'
    <3>1. get.offset \in Nat
      BY <1>1, GetBegins DEF GetState, OffsetSet
    <3>2. ASSUME get.op = "satellites" PROVE get.base \subseteq Stored'
      BY <2>3, <3>2 DEF PageInv
    <3>3. ASSUME get.op = "satellites", get.busy, NEW t \in get.base \ get.rows PROVE Rank(t)' >= get.offset
      <4>1. t \in Stored /\ Rank(t) >= get.offset
        BY <3>3 DEF PageInv
      <4> QED
        BY <2>5, <3>1, <4>1
    <3> QED
      BY <1>2, <3>2, <3>3 DEF PageInv
  <2> QED
    BY <1>1, <2>1, <2>2, <2>6, <2>7
<1>4. CASE Recompute(s)
  <2>1. UNCHANGED <<heap, writes>> /\ s \in Stored /\ Stored' = Stored
    BY <1>4 DEF Recompute, Stored
  <2>2. PICK seen \in SUBSET stations :
          predictions' = [n \in Names |-> IF n \in seen THEN predictions[n] \cup {s}
                                                         ELSE predictions[n] \ {s}]
    BY <1>4 DEF Recompute
  <2>3. predictions' \in [Names -> SUBSET Satellites]
    BY <1>1, <2>2
  <2>4. \A n \in Names : predictions'[n] \subseteq Stored'
    BY <2>1, <2>2 DEF ReadInv
  <2>5. \A t : Rank(t)' = Rank(t)
    BY <2>1 DEF Rank, Before
  <2>6. ReadInv'
    BY <1>2, <2>1, <2>4 DEF ReadInv, Statements
  <2>7. PageInv'
    BY <1>2, <2>1, <2>5 DEF PageInv
  <2> QED
    BY <1>1, <2>1, <2>3, <2>6, <2>7
<1> QED
  BY <1>3, <1>4

-----------------------------------------------------------------------------
(* The invariant.                                                           *)

LEMMA ApiInit == Init => ApiInv
<1> SUFFICES ASSUME Init PROVE ApiInv
  OBVIOUS
<1>1. Stored = {}
  BY DEF Init, Stored
<1>3. Get0 \in GetState /\ Get0.op = "none" /\ Get0.left = <<>> /\ Get0.code = 0 /\ Get0.busy = FALSE
  BY GetBegins
<1>4. /\ Post0 \in PostState
      /\ Post0.at = "new" /\ Post0.row = FALSE /\ Post0.err = 0 /\ Post0.told = 0
  BY DEF Post0, PostState, Stage, Code
<1>5. \A p \in Posts : post[p] = Post0
  BY DEF Init
<1>6. TypeOK
  BY <1>3, <1>4, ApiParameters DEF Init, TypeOK
<1>7. PostInv
  BY <1>4, <1>5 DEF Init, PostInv, Named, RowIsNew, AnswerIsTrue, OneStationPerName, StoredWasAccepted
<1>8. ReadInv /\ PageInv
  BY <1>1, <1>3, StatementList DEF Init, ReadInv, PageInv
<1> QED
  BY <1>6, <1>7, <1>8 DEF ApiInv

LEMMA ApiStep == ApiInv /\ [Next]_vars => ApiInv'
<1> SUFFICES ASSUME TypeOK, PostInv, ReadInv, PageInv, [Next]_vars PROVE ApiInv'
  BY DEF ApiInv
<1>0. /\ stations \subseteq Names /\ post \in [Posts -> PostState]
      /\ heap \in [Satellites -> 0 .. MaxWrites] /\ predictions \in [Names -> SUBSET Satellites]
      /\ get \in GetState /\ writes \in 0 .. MaxWrites /\ faults \in 0 .. MaxFaults
  BY DEF TypeOK
<1>1. PostInv' => \A p \in Posts : post'[p].row => post'[p].at \in {"refresh", "respond", "commit", "failed"}
  BY DEF PostInv, RowIsNew
<1>2. ASSUME NEW p \in Posts, Request(p) PROVE ApiInv'
  <2>1. PostInv' /\ Changes(p, post'[p])
    BY <1>2, RequestEffect, RequestKeeps
  <2>2. ReadInv' /\ PageInv' /\ faults' \in 0 .. MaxFaults /\ UNCHANGED <<heap, predictions, get, writes>>
    BY <1>2, RequestEffect, ReadUntouched
  <2>3. stations' \subseteq Names
    <3>1. stations' = stations \/ (Commits(p) /\ stations' = stations \cup {post[p].name})
      BY <1>2, RequestEffect DEF Proceeds, Inserts, Responds, Commits, RollsBack
    <3>2. Commits(p) => post[p].name \in Names
      BY DEF Commits, PostInv, Named
    <3> QED
      BY <1>0, <3>1, <3>2
  <2>4. post' \in [Posts -> PostState]
    BY <1>0, <2>1 DEF Changes
  <2> QED
    BY <1>0, <1>1, <2>1, <2>2, <2>3, <2>4 DEF ApiInv, TypeOK
<1>3. ASSUME AskSatellites \/ (\E n \in Names : AskPasses(n)) \/ ServeGet PROVE ApiInv'
  <2>1. get' \in GetState /\ ReadInv' /\ PageInv'
    BY <1>3, AskKeeps, ReadKeeps, PageKeeps DEF ServeGet
  <2>2. UNCHANGED <<stations, post, heap, predictions, writes, faults>>
    BY <1>3 DEF ServeGet, AskSatellites, AskPasses, ReadPredictions, ReadSatellites, JoinPasses,
                ReadPage, Answer, Gets
  <2> QED
    BY <1>0, <1>1, <2>1, <2>2, PostUntouched DEF ApiInv, TypeOK
<1>4. ASSUME NEW s \in Satellites, Ingest(s) \/ Recompute(s) PROVE ApiInv'
  <2>1. UNCHANGED <<stations, post, get, faults>>
    BY <1>4 DEF Ingest, Recompute
  <2> QED
    BY <1>0, <1>1, <1>4, <2>1, BackgroundKeeps, PostUntouched DEF ApiInv, TypeOK
<1>5. ASSUME Crash PROVE ApiInv'
  <2>1. PostInv' /\ get' = Get0 /\ UNCHANGED <<stations, heap, predictions, writes>>
    BY <1>5, CrashKeeps DEF Crash
  <2>2. post' \in [Posts -> PostState]
    <3>1. \A p \in Posts : post'[p] \in PostState
      BY <1>5, CrashEffect
    <3> QED
      BY <1>5, <3>1 DEF Crash
  <2>3. faults' \in 0 .. MaxFaults
    <3>1. CountFault
      BY <1>5 DEF Crash
    <3> QED
      BY <1>0, <3>1, ApiParameters DEF CountFault
  <2>4. Get0 \in GetState /\ Get0.op = "none" /\ Get0.left = <<>> /\ Get0.code = 0 /\ Get0.busy = FALSE
    BY GetBegins
  <2>5. ReadInv' /\ PageInv'
    <3>1. Stored' = Stored
      BY <2>1 DEF Stored
    <3> QED
      BY <2>1, <2>4, <3>1, StatementList DEF ReadInv, PageInv
  <2> QED
    BY <1>0, <1>1, <2>1, <2>2, <2>3, <2>4, <2>5 DEF ApiInv, TypeOK
<1>6. CASE UNCHANGED vars
  BY <1>0, <1>1, <1>6, ReadUntouched, PostUntouched DEF vars, ApiInv, TypeOK
<1> QED
  BY <1>2, <1>3, <1>4, <1>5, <1>6 DEF Next, Request

\* ApiInv is an invariant of the API.
LEMMA ApiInvariant == Spec => []ApiInv
BY ApiInit, ApiStep, PTL DEF Spec

\* Records, tables and the client's request keep their types, and no row stays
\* behind when a request is over, whatever goes wrong with it.
THEOREM TypeCorrect == Spec => []TypeOK
<1>1. ApiInv => TypeOK
  BY DEF ApiInv
<1> QED
  BY <1>1, ApiInvariant, PTL

\* However many registrations of one name race, at most one of those that are
\* told 201 is not lost: the check before the INSERT (register_ground_station.py)
\* may be passed by all, the unique constraint by one.
THEOREM NamesAreUnique == Spec => []OneStationPerName
<1>1. ApiInv => OneStationPerName
  BY DEF ApiInv, PostInv
<1> QED
  BY <1>1, ApiInvariant, PTL

\* Nobody is told 409 for a station that is not there for good.
THEOREM ConflictsAreReal == Spec => []ConflictIsReal
<1>1. ApiInv => ConflictIsReal
  BY DEF ApiInv, PostInv, AnswerIsTrue, ConflictIsReal
<1> QED
  BY <1>1, ApiInvariant, PTL

\* What is answered with an error, or not at all, leaves no station.
THEOREM StationsWereAccepted == Spec => []StoredWasAccepted
<1>1. ApiInv => StoredWasAccepted
  BY DEF ApiInv, PostInv
<1> QED
  BY <1>1, ApiInvariant, PTL

\* However ingests and recomputations come between the two statements of
\* GetGroundStationPassesUseCase, no prediction lacks its satellite.
THEOREM PassesAreJoined == Spec => []PassesNameTheirSatellites
<1>1. ApiInv => PassesNameTheirSatellites
  BY DEF ApiInv, ReadInv, PassesNameTheirSatellites
<1> QED
  BY <1>1, ApiInvariant, PTL

\* Pages of any size show every satellite that was there at the first one: an
\* insert can only move a row to a later page.
THEOREM PagingIsComplete == Spec => []PagingMissesNone
<1>1. ApiInv => PagingMissesNone
  BY DEF ApiInv, TypeOK, GetState, PageInv, PagingMissesNone
<1> QED
  BY <1>1, ApiInvariant, PTL

=============================================================================
