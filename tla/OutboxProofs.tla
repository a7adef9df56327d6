---------------------------- MODULE OutboxProofs ----------------------------
(***************************************************************************)
(* What the outbox guarantees for every number of replicas, events and     *)
(* handlers, every setting of its limits and any number of faults.         *)
(***************************************************************************)
EXTENDS OutboxWorker, FiniteSetTheorems, TLAPS

(* What the statements and handlers leave behind.                           *)

\* A power of two is a natural number: it counts the subsets of a set.
LEMMA PowerOfTwo ==
  ASSUME NEW r \in Nat PROVE 2 ^ r \in Nat
<1>1. IsFiniteSet(1 .. r) /\ Cardinality(1 .. r) = r
  BY FS_Interval
<1>2. IsFiniteSet(SUBSET (1 .. r)) /\ Cardinality(SUBSET (1 .. r)) = 2 ^ r
  BY <1>1, FS_SUBSET
<1> QED
  BY <1>2, FS_CardinalityType

\* worker.py:172, the backoff is never more than MAX_BACKOFF_HOURS.
LEMMA BackoffIsCapped ==
  ASSUME NEW retries \in Nat PROVE Backoff(retries) \subseteq 0 .. MaxBackoff
<1> DEFINE power == 2 ^ retries
<1>1. power \in Nat
  BY PowerOfTwo
<1> HIDE DEF power
<1> QED
  BY <1>1, OutboxParameters DEF Backoff, power

\* The handlers registered for an event are handlers.
LEMMA NamesOfDuties ==
  ASSUME NEW e \in Events, NEW i \in DOMAIN HandlersOf[e]
  PROVE  HandlersOf[e][i] \in Handlers /\ Name[HandlersOf[e][i]] \in Names
BY OutboxParameters DEF Names

\* A worker without an event has a well-formed record.
LEMMA EmptyTyped == Empty \in Hands
BY OutboxParameters DEF Empty, Hands

\* A worker that lets go of its event leaves the others at theirs.
LEMMA LetGoTyped ==
  ASSUME TypeOK, NEW w \in Workers, NEW l \in Locations \ {"dispatch"}, LetGo(w, l)
  PROVE  /\ pc' \in [Workers -> Locations] /\ hand' \in [Workers -> Hands]
         /\ \A v \in Workers : pc'[v] = "dispatch" => pc[v] = "dispatch" /\ hand'[v] = hand[v]
BY EmptyTyped DEF LetGo, Goto, TypeOK

\* A dispatch that is not over has an event and a next handler.
LEMMA NextHandlerTyped ==
  ASSUME TypeOK, NEW w \in Workers, Dispatching(w)
  PROVE  /\ hand[w].event \in Events
         /\ NextHandler(w) \in Handlers /\ Name[NextHandler(w)] \in Names
BY NamesOfDuties DEF TypeOK, Dispatching, NextHandler, Duties

\* The record of a dispatch after its next handler.
LEMMA RecordTyped ==
  ASSUME TypeOK, NEW w \in Workers, Dispatching(w), NEW succeeded \in BOOLEAN,
         Record(w, succeeded)
  PROVE  LET name == {Name[NextHandler(w)]}
         IN  /\ hand' \in [Workers -> Hands]
             /\ hand'[w].event = hand[w].event /\ hand'[w].next = hand[w].next + 1
             /\ hand'[w].ok = hand[w].ok /\ hand'[w].retry = hand[w].retry
             /\ hand'[w].state = IF succeeded THEN hand[w].state \cup name
                                              ELSE hand[w].state \ name
             /\ hand'[w].failed = (hand[w].failed \/ ~succeeded)
             /\ \A v \in Workers \ {w} : hand'[v] = hand[v]
<1> DEFINE h      == hand[w]
           name   == {Name[NextHandler(w)]}
           state  == IF succeeded THEN h.state \cup name ELSE h.state \ name
           failed == (h.failed \/ ~succeeded)
           new    == [h EXCEPT !.next = h.next + 1, !.state = state, !.failed = failed]
<1>1. h \in Hands /\ name \subseteq Names
  BY NextHandlerTyped DEF TypeOK
<1>2. h.next + 1 \in Nat \ {0} /\ state \in SUBSET Names /\ failed \in BOOLEAN
  BY <1>1 DEF Hands
<1>3. hand' = [hand EXCEPT ![w] = new]
  BY DEF Record
<1> HIDE DEF state, failed
<1>4. /\ new \in Hands
      /\ new.event = h.event /\ new.ok = h.ok /\ new.retry = h.retry
      /\ new.next = h.next + 1 /\ new.state = state /\ new.failed = failed
  BY <1>1, <1>2 DEF Hands
<1> HIDE DEF new
<1>5. hand' \in [Workers -> Hands] /\ hand'[w] = new /\ \A v \in Workers \ {w} : hand'[v] = hand[v]
  BY <1>3, <1>4 DEF TypeOK
<1> QED
  BY <1>4, <1>5 DEF state, failed

\* The history stays a count.
LEMMA EffectTyped ==
  ASSUME TypeOK, NEW e \in Events, NEW h \in Handlers, TakesEffect(e, h)
  PROVE  runs' \in [Events -> [Handlers -> Nat]]
BY DEF TakesEffect, TypeOK

\* What the row keeps as long as its event may still be retried, and what a
\* worker with an event in hand has left of its batch.
RetriesLeft  == \A e \in Events : status[e] # "FAILED" => retryCount[e] < MaxRetries
BatchHasRoom == \A w \in Workers : pc[w] = "dispatch" => left[w] > 0

RowInv == TypeOK /\ LockedRowIsAsRead /\ RetriesLeft /\ BatchHasRoom

\* The three verdicts, with the retries counted on the locked row.
LEMMA VerdictEffect ==
  ASSUME RowInv, NEW w \in Workers, Dispatched(w), HoldsLock(w), WriteVerdict(w)
  PROVE  LET e == hand[w].event
             counts == retryCount' = [retryCount EXCEPT ![e] = retryCount[e] + 1]
         IN  /\ e \in Events /\ status[e] = "PENDING" /\ retryCount[e] < MaxRetries
             /\ okNames' = [okNames EXCEPT ![e] = hand[w].state]
             /\ \/ /\ ~hand[w].failed
                   /\ status' = [status EXCEPT ![e] = "PROCESSED"]
                   /\ UNCHANGED <<retryCount, dueIn>>
                \/ /\ hand[w].failed /\ retryCount[e] + 1 = MaxRetries /\ counts
                   /\ status' = [status EXCEPT ![e] = "FAILED"]
                   /\ UNCHANGED dueIn
                \/ /\ hand[w].failed /\ retryCount[e] + 1 < MaxRetries /\ counts
                   /\ UNCHANGED status
                   /\ \E d \in 0 .. MaxBackoff : dueIn' = [dueIn EXCEPT ![e] = d]
<1> DEFINE e == hand[w].event
<1>1. e \in Events /\ status[e] = "PENDING" /\ hand[w].retry = retryCount[e]
  BY DEF RowInv, LockedRowIsAsRead, HoldsLock
<1>2. retryCount[e] < MaxRetries /\ retryCount[e] \in Nat
  BY <1>1, OutboxParameters DEF RowInv, RetriesLeft, TypeOK
<1>3. \A d \in Backoff(retryCount[e] + 1) : d \in 0 .. MaxBackoff
  BY <1>2, BackoffIsCapped
<1>4. okNames' = [okNames EXCEPT ![e] = hand[w].state]
  BY DEF WriteVerdict, Verdict
<1>5. \/ /\ ~hand[w].failed
         /\ status' = [status EXCEPT ![e] = "PROCESSED"] /\ UNCHANGED <<retryCount, dueIn>>
      \/ /\ hand[w].failed /\ hand[w].retry + 1 >= MaxRetries
         /\ retryCount' = [retryCount EXCEPT ![e] = hand[w].retry + 1]
         /\ status' = [status EXCEPT ![e] = "FAILED"] /\ UNCHANGED dueIn
      \/ /\ hand[w].failed /\ ~(hand[w].retry + 1 >= MaxRetries)
         /\ retryCount' = [retryCount EXCEPT ![e] = hand[w].retry + 1]
         /\ \E d \in Backoff(hand[w].retry + 1) : dueIn' = [dueIn EXCEPT ![e] = d]
         /\ UNCHANGED status
  BY DEF WriteVerdict, Verdict
<1> HIDE DEF e
<1>6. CASE ~hand[w].failed
  BY <1>1, <1>2, <1>4, <1>5, <1>6 DEF e
<1>7. CASE hand[w].failed
  <2>1. (retryCount[e] + 1 >= MaxRetries) => retryCount[e] + 1 = MaxRetries
    BY <1>2, OutboxParameters
  <2>2. ~(retryCount[e] + 1 >= MaxRetries) => retryCount[e] + 1 < MaxRetries
    BY <1>2, OutboxParameters
  <2> QED
    BY <1>1, <1>2, <1>3, <1>4, <1>5, <1>7, <2>1, <2>2 DEF e
<1> QED
  BY <1>6, <1>7

\* The row after a verdict is well-formed.
LEMMA VerdictTyped ==
  ASSUME RowInv, NEW w \in Workers, Dispatched(w), HoldsLock(w), WriteVerdict(w)
  PROVE  /\ status' \in [Events -> {"none", "PENDING"} \cup Terminal]
         /\ retryCount' \in [Events -> 0 .. MaxRetries]
         /\ dueIn' \in [Events -> (-MaxAge) .. MaxBackoff]
         /\ okNames' \in [Events -> SUBSET Names]
<1> DEFINE e == hand[w].event
<1>1. hand[w].state \in SUBSET Names
  BY DEF RowInv, TypeOK, Hands
<1>2. /\ e \in Events /\ retryCount[e] < MaxRetries
      /\ okNames' = [okNames EXCEPT ![e] = hand[w].state]
      /\ UNCHANGED status \/ status' = [status EXCEPT ![e] = "PROCESSED"]
                          \/ status' = [status EXCEPT ![e] = "FAILED"]
      /\ UNCHANGED retryCount \/ retryCount' = [retryCount EXCEPT ![e] = retryCount[e] + 1]
      /\ UNCHANGED dueIn \/ \E d \in 0 .. MaxBackoff : dueIn' = [dueIn EXCEPT ![e] = d]
  BY VerdictEffect, Zenon
<1> HIDE DEF e
<1>3. okNames' \in [Events -> SUBSET Names]
  BY <1>1, <1>2 DEF RowInv, TypeOK
<1>4. status' \in [Events -> {"none", "PENDING"} \cup Terminal]
  BY <1>2 DEF RowInv, TypeOK, Terminal
<1>5. retryCount' \in [Events -> 0 .. MaxRetries]
  <2>1. retryCount[e] + 1 \in 0 .. MaxRetries /\ retryCount \in [Events -> 0 .. MaxRetries]
    BY <1>2, OutboxParameters DEF RowInv, TypeOK
  <2> QED
    BY <1>2, <2>1
<1>6. dueIn' \in [Events -> (-MaxAge) .. MaxBackoff]
  <2>1. /\ \A d \in 0 .. MaxBackoff : d \in (-MaxAge) .. MaxBackoff
        /\ dueIn \in [Events -> (-MaxAge) .. MaxBackoff]
    BY OutboxParameters DEF RowInv, TypeOK
  <2> QED
    BY <1>2, <2>1
<1> QED
  BY <1>3, <1>4, <1>5, <1>6

\* The worker's waits, its place in the batch and the count of the faults.
Bookkeeping ==
  /\ pollLeft' \in [Workers -> 0 .. Poll] /\ notified' \in [Workers -> BOOLEAN]
  /\ left' \in [Workers -> 0 .. BatchSize] /\ faults' \in 0 .. MaxFaults
  /\ BatchHasRoom'

\* Every step keeps the bookkeeping, and only a worker with room in its batch claims.
LEMMA BookkeepingTyped ==
  ASSUME RowInv, [Next]_vars
  PROVE  Bookkeeping
<1>0. /\ Poll \in Nat /\ BatchSize \in Nat \ {0} /\ MaxFaults \in Nat
      /\ pollLeft \in [Workers -> 0 .. Poll] /\ notified \in [Workers -> BOOLEAN]
      /\ left \in [Workers -> 0 .. BatchSize] /\ faults \in 0 .. MaxFaults
      /\ pc \in [Workers -> Locations] /\ BatchHasRoom
  BY OutboxParameters DEF RowInv, TypeOK
<1>1. CASE Tick
  BY <1>0, <1>1 DEF Tick, Bookkeeping, BatchHasRoom
<1>2. ASSUME NEW e \in Events, Publish(e) \/ ReleaseOrphan(e) PROVE Bookkeeping
  <2>1. notified' \in [Workers -> BOOLEAN]
    BY <1>0, <1>2 DEF Publish, ReleaseOrphan, waits
  <2>2. UNCHANGED <<pc, pollLeft, left, faults>>
    BY <1>2 DEF Publish, ReleaseOrphan, waits
  <2> QED
    BY <1>0, <2>1, <2>2 DEF Bookkeeping, BatchHasRoom
<1>3. ASSUME NEW w \in Workers, Start(w) \/ Connect(w) \/ BatchDone(w) \/ PollTimeout(w)
      PROVE  Bookkeeping
  <2>1. \E l \in Locations \ {"dispatch"} : pc' = [pc EXCEPT ![w] = l]
    BY <1>3 DEF Start, Connect, BatchDone, PollTimeout, Wait, Goto, Locations
  <2>2. \/ UNCHANGED <<pollLeft, notified>>
        \/ /\ pollLeft' = [pollLeft EXCEPT ![w] = Poll]
           /\ notified' = [notified EXCEPT ![w] = FALSE]
    BY <1>3 DEF Start, Connect, BatchDone, PollTimeout, Wait, waits
  <2>3. UNCHANGED left \/ left' = [left EXCEPT ![w] = BatchSize]
    BY <1>3 DEF Start, Connect, BatchDone, PollTimeout
  <2>4. UNCHANGED faults
    BY <1>3 DEF Start, Connect, BatchDone, PollTimeout
  <2> QED
    <3>1. BatchHasRoom'
      BY <1>0, <2>1, <2>3 DEF BatchHasRoom
    <3>2. pollLeft' \in [Workers -> 0 .. Poll]
      BY <1>0, <2>2
    <3>3. notified' \in [Workers -> BOOLEAN]
      BY <1>0, <2>2
    <3> QED
      BY <1>0, <2>3, <2>4, <3>1, <3>2, <3>3 DEF Bookkeeping
<1>4. ASSUME NEW w \in Workers, Claim(w) PROVE Bookkeeping
  <2>1. left[w] > 0 /\ pc' = [pc EXCEPT ![w] = "dispatch"]
        /\ UNCHANGED <<pollLeft, notified, left, faults>>
    BY <1>4 DEF Claim, Goto, waits
  <2> QED
    BY <1>0, <2>1 DEF Bookkeeping, BatchHasRoom
<1>5. ASSUME NEW w \in Workers,
             SkipHandler(w) \/ RunHandler(w) \/ HandlerFailsLate(w) \/ SessionLost(w)
      PROVE  Bookkeeping
  <2>1. UNCHANGED <<pc, pollLeft, notified, left>> /\ (UNCHANGED faults \/ CountFault)
    BY <1>5 DEF SkipHandler, RunHandler, HandlerFailsLate, SessionLost, waits
  <2> QED
    BY <1>0, <2>1 DEF CountFault, Bookkeeping, BatchHasRoom
<1>6. ASSUME NEW w \in Workers,
             CommitOnLostConnection(w) \/ DbError(w) \/ CommitUnacked(w) \/ Crash(w)
      PROVE  Bookkeeping
  BY <1>0, <1>6 DEF CommitOnLostConnection, DbError, CommitUnacked, Crash, CountFault, LetGo,
     Goto, waits, Bookkeeping, BatchHasRoom
<1>7. ASSUME NEW w \in Workers, Commit(w) PROVE Bookkeeping
  <2>1. left[w] > 0 /\ left[w] \in 0 .. BatchSize
    BY <1>0, <1>7 DEF Commit, Dispatched, BatchHasRoom
  <2> QED
    BY <1>0, <1>7, <2>1 DEF Commit, LetGo, Goto, waits, Bookkeeping, BatchHasRoom
<1>8. CASE UNCHANGED vars
  BY <1>0, <1>8 DEF vars, Bookkeeping, BatchHasRoom
<1> QED
  BY <1>1, <1>2, <1>3, <1>4, <1>5, <1>6, <1>7, <1>8 DEF Next, Work, Fault

(* What a step may do to the rows, the effects and the events in hand.      *)

\* Nothing but losing a lock or letting go of an event.
Quiet ==
  /\ UNCHANGED <<status, retryCount, okNames, runs>>
  /\ dueIn' \in [Events -> (-MaxAge) .. MaxBackoff]
  /\ lock' \in [Events -> Workers \cup {NoWorker, Orphan}]
  /\ \A e \in Events, w \in Workers : lock'[e] = w => lock[e] = w
  /\ pc' \in [Workers -> Locations] /\ hand' \in [Workers -> Hands]
  /\ \A w \in Workers :
       /\ hand'[w] \in {hand[w], Empty}
       /\ pc'[w] = "dispatch" => pc[w] = "dispatch" /\ hand'[w] = hand[w]

\* A dispatch goes on to its next handler.
Progress(w) ==
  /\ Dispatching(w)
  /\ UNCHANGED <<row, lock, pc>>
  /\ \/ SkipHandler(w)
     \/ ~Done(w) /\ TakesEffect(hand[w].event, NextHandler(w)) /\ Record(w, TRUE)
     \/ ~Done(w) /\ TakesEffect(hand[w].event, NextHandler(w)) /\ Record(w, FALSE)
     \/ ~Done(w) /\ UNCHANGED runs /\ Record(w, FALSE)

\* A dispatch ends with its verdict.
Conclusion(w) ==
  /\ Dispatched(w) /\ HoldsLock(w)
  /\ WriteVerdict(w) /\ Unlock(w)
  /\ LetGo(w, "batch") \/ LetGo(w, "connect")
  /\ UNCHANGED runs

Effect ==
  \/ Quiet
  \/ \E e \in Events : Publish(e)
  \/ \E w \in Workers : Claim(w) \/ Progress(w) \/ Conclusion(w)

\* By its effect every step is of one of five kinds.
LEMMA StepEffect ==
  ASSUME RowInv, [Next]_vars
  PROVE  Effect
<1>0. /\ NoWorker \notin Workers /\ Orphan \notin Workers /\ MaxAge \in Nat /\ MaxBackoff \in Nat
      /\ dueIn \in [Events -> (-MaxAge) .. MaxBackoff]
      /\ lock \in [Events -> Workers \cup {NoWorker, Orphan}]
      /\ pc \in [Workers -> Locations] /\ hand \in [Workers -> Hands]
  BY OutboxParameters DEF RowInv, TypeOK
<1>1. CASE Tick
  <2>1. dueIn' \in [Events -> (-MaxAge) .. MaxBackoff]
    BY <1>0, <1>1 DEF Tick
  <2> QED
    BY <1>0, <1>1, <2>1 DEF Tick, Quiet, Effect
<1>2. ASSUME NEW e \in Events, ReleaseOrphan(e) PROVE Quiet
  BY <1>0, <1>2 DEF ReleaseOrphan, row, Quiet
<1>3. ASSUME NEW w \in Workers, Start(w) \/ Connect(w) \/ BatchDone(w) \/ PollTimeout(w)
      PROVE  Quiet
  <2>1. UNCHANGED <<row, lock, hand, runs>>
    BY <1>3 DEF Start, Connect, BatchDone, PollTimeout
  <2>2. \E l \in Locations \ {"dispatch"} : pc' = [pc EXCEPT ![w] = l]
    BY <1>3 DEF Start, Connect, BatchDone, PollTimeout, Wait, Goto, Locations
  <2> QED
    BY <1>0, <2>1, <2>2 DEF row, Quiet
<1>4. ASSUME NEW w \in Workers, SessionLost(w) PROVE Quiet
  BY <1>0, <1>4 DEF SessionLost, Unlock, row, Quiet
<1>5. ASSUME NEW w \in Workers, CommitOnLostConnection(w) \/ DbError(w) \/ Crash(w)
      PROVE  Quiet
  <2>1. UNCHANGED <<row, runs>> /\ \E l \in Locations \ {"dispatch"} : LetGo(w, l)
    BY <1>5 DEF CommitOnLostConnection, DbError, Crash, Locations
  <2>2. /\ pc' \in [Workers -> Locations] /\ hand' \in [Workers -> Hands]
        /\ \A v \in Workers : pc'[v] = "dispatch" => pc[v] = "dispatch" /\ hand'[v] = hand[v]
    BY <2>1, LetGoTyped DEF RowInv
  <2>3. \A v \in Workers : hand'[v] \in {hand[v], Empty}
    BY <1>0, <2>1 DEF LetGo
  <2>4. /\ lock' \in [Events -> Workers \cup {NoWorker, Orphan}]
        /\ \A e \in Events, v \in Workers : lock'[e] = v => lock[e] = v
    BY <1>0, <1>5 DEF CommitOnLostConnection, DbError, Crash, Unlock
  <2> QED
    BY <1>0, <2>1, <2>2, <2>3, <2>4 DEF row, Quiet
<1>6. ASSUME NEW w \in Workers, SkipHandler(w) \/ RunHandler(w) \/ HandlerFailsLate(w)
      PROVE  Progress(w)
  BY <1>6 DEF SkipHandler, RunHandler, HandlerFailsLate, row, Progress
<1>7. ASSUME NEW w \in Workers, Commit(w) \/ CommitUnacked(w) PROVE Conclusion(w)
  BY <1>7 DEF Commit, CommitUnacked, Conclusion
<1>8. CASE UNCHANGED vars
  BY <1>0, <1>8 DEF vars, Quiet, Effect
<1> QED
  BY <1>1, <1>2, <1>3, <1>4, <1>5, <1>6, <1>7, <1>8 DEF Next, Work, Fault, Effect

-----------------------------------------------------------------------------
(* The invariant RowInv.                                                    *)

\* Going on to the next handler changes neither the event nor what was read of its row.
LEMMA ProgressTyped ==
  ASSUME TypeOK, NEW w \in Workers, Progress(w)
  PROVE  /\ hand' \in [Workers -> Hands] /\ runs' \in [Events -> [Handlers -> Nat]]
         /\ hand'[w].event = hand[w].event /\ hand'[w].next = hand[w].next + 1
         /\ hand'[w].ok = hand[w].ok /\ hand'[w].retry = hand[w].retry
         /\ \A v \in Workers \ {w} : hand'[v] = hand[v]
<1>1. CASE SkipHandler(w)
  <2>1. hand[w] \in Hands /\ hand \in [Workers -> Hands]
    BY DEF TypeOK
  <2> DEFINE new == [hand[w] EXCEPT !.next = hand[w].next + 1]
  <2>2. hand' = [hand EXCEPT ![w] = new]
    BY <1>1 DEF SkipHandler
  <2>3. /\ new \in Hands /\ new.next = hand[w].next + 1
        /\ new.event = hand[w].event /\ new.ok = hand[w].ok /\ new.retry = hand[w].retry
    BY <2>1 DEF Hands
  <2>4. runs' \in [Events -> [Handlers -> Nat]]
    BY <1>1 DEF SkipHandler, TypeOK
  <2> HIDE DEF new
  <2> QED
    BY <2>1, <2>2, <2>3, <2>4
<1>2. CASE ~SkipHandler(w)
  <2>1. PICK succeeded \in BOOLEAN : Record(w, succeeded)
    BY <1>2 DEF Progress
  <2>2. UNCHANGED runs \/ TakesEffect(hand[w].event, NextHandler(w))
    BY <1>2 DEF Progress
  <2>3. runs' \in [Events -> [Handlers -> Nat]]
    BY <2>2, NextHandlerTyped, EffectTyped DEF Progress, TypeOK
  <2> QED
    BY <2>1, <2>3, RecordTyped DEF Progress
<1> QED
  BY <1>1, <1>2

\* A worker that dispatches has an event, and handlers left or the verdict.
HandlerInRange ==
  \A w \in Workers : pc[w] = "dispatch" =>
    /\ hand[w].event \in Events
    /\ hand[w].next <= Len(HandlersOf[hand[w].event]) + 1

RowsTyped ==
  /\ status     \in [Events -> {"none", "PENDING"} \cup Terminal]
  /\ retryCount \in [Events -> 0 .. MaxRetries]
  /\ dueIn      \in [Events -> (-MaxAge) .. MaxBackoff]
  /\ okNames    \in [Events -> SUBSET Names]
  /\ lock       \in [Events -> Workers \cup {NoWorker, Orphan}]
  /\ pc         \in [Workers -> Locations]
  /\ hand       \in [Workers -> Hands]
  /\ runs       \in [Events -> [Handlers -> Nat]]

\* RowInv holds at the start.
LEMMA InitRowInv == Init => RowInv
<1> SUFFICES ASSUME Init PROVE RowInv
  OBVIOUS
<1>1. /\ NoEvent \notin Events /\ MaxRetries \in Nat \ {0} /\ MaxBackoff \in Nat \ {0}
      /\ Poll \in Nat /\ BatchSize \in Nat \ {0} /\ MaxAge \in Nat /\ MaxFaults \in Nat
  BY OutboxParameters
<1>2. RowsTyped
  BY <1>1, EmptyTyped DEF Init, RowsTyped, Locations
<1>3. TypeOK
  BY <1>1, <1>2 DEF Init, RowsTyped, TypeOK
<1>4. LockedRowIsAsRead /\ RetriesLeft /\ BatchHasRoom
  BY <1>1 DEF Init, Empty, HoldsLock, LockedRowIsAsRead, RetriesLeft, BatchHasRoom
<1> QED
  BY <1>3, <1>4 DEF RowInv

\* Every step keeps RowInv: the lock keeps other workers' verdicts off the row.
LEMMA NextRowInv == RowInv /\ [Next]_vars => RowInv'
<1> SUFFICES ASSUME RowInv, [Next]_vars PROVE RowInv'
  OBVIOUS
<1> DEFINE Kept == RowsTyped' /\ HandlerInRange' /\ LockedRowIsAsRead' /\ RetriesLeft'
<1>1. RowsTyped /\ HandlerInRange /\ LockedRowIsAsRead /\ RetriesLeft
  BY DEF RowInv, TypeOK, RowsTyped, HandlerInRange
<1>2. NoEvent \notin Events /\ MaxRetries \in Nat \ {0}
  BY OutboxParameters
<1>3. ASSUME Quiet PROVE Kept
  <2>1. RowsTyped'
    BY <1>1, <1>3 DEF Quiet, RowsTyped
  <2>2. HandlerInRange'
    BY <1>1, <1>3 DEF Quiet, HandlerInRange
  <2>3. LockedRowIsAsRead'
    BY <1>1, <1>2, <1>3 DEF Quiet, Empty, HoldsLock, LockedRowIsAsRead
  <2> QED
    BY <1>1, <1>3, <2>1, <2>2, <2>3 DEF Quiet, RetriesLeft
<1>4. ASSUME NEW e \in Events, Publish(e) PROVE Kept
  <2>1. /\ status' = [status EXCEPT ![e] = "PENDING"] /\ status[e] = "none"
        /\ UNCHANGED <<retryCount, dueIn, okNames, lock, pc, hand, runs>>
    BY <1>4 DEF Publish
  <2>2. RowsTyped'
    BY <1>1, <2>1 DEF RowsTyped, Terminal
  <2>3. HandlerInRange'
    BY <1>1, <2>1 DEF HandlerInRange
  <2>4. LockedRowIsAsRead' /\ RetriesLeft'
    BY <1>1, <2>1 DEF RowsTyped, HoldsLock, LockedRowIsAsRead, RetriesLeft
  <2> QED
    BY <2>2, <2>3, <2>4
<1>5. ASSUME NEW w \in Workers, Claim(w) PROVE Kept
  <2>1. PICK e \in Events : Claimable(e) /\ lock' = [lock EXCEPT ![e] = w]
                            /\ hand' = [hand EXCEPT ![w] = Holding(e)]
    BY <1>5 DEF Claim
  <2>2. UNCHANGED <<row, runs>> /\ pc' = [pc EXCEPT ![w] = "dispatch"]
    BY <1>5 DEF Claim, Goto
  <2>3. Holding(e) \in Hands
    BY <1>1 DEF RowsTyped, Holding, Hands
  <2>4. RowsTyped'
    BY <1>1, <2>1, <2>2, <2>3 DEF row, RowsTyped, Locations
  <2>5. HandlerInRange'
    <3>1. Holding(e).event = e /\ Holding(e).next = 1
      BY DEF Holding
    <3>2. Len(HandlersOf[e]) \in Nat
      BY OutboxParameters
    <3> QED
      BY <1>1, <2>1, <2>2, <3>1, <3>2 DEF RowsTyped, HandlerInRange
  <2>6. LockedRowIsAsRead'
    <3>1. /\ Holding(e).event = e /\ Holding(e).retry = retryCount[e]
          /\ Holding(e).ok = okNames[e] /\ status[e] = "PENDING"
      BY <2>1 DEF Holding, Claimable
    <3> QED
      BY <1>1, <2>1, <2>2, <3>1 DEF RowsTyped, row, HoldsLock, LockedRowIsAsRead
  <2> QED
    BY <1>1, <2>2, <2>4, <2>5, <2>6 DEF row, RetriesLeft
<1>6. ASSUME NEW w \in Workers, Progress(w) PROVE Kept
  <2>1. /\ hand' \in [Workers -> Hands] /\ runs' \in [Events -> [Handlers -> Nat]]
        /\ hand'[w].event = hand[w].event /\ hand'[w].next = hand[w].next + 1
        /\ hand'[w].ok = hand[w].ok /\ hand'[w].retry = hand[w].retry
        /\ \A v \in Workers \ {w} : hand'[v] = hand[v]
    BY <1>6, ProgressTyped DEF RowInv
  <2>2. UNCHANGED <<row, lock, pc>> /\ Dispatching(w)
    BY <1>6 DEF Progress
  <2>3. RowsTyped'
    BY <1>1, <2>1, <2>2 DEF row, RowsTyped
  <2>4. HandlerInRange'
    <3>1. hand[w].next + 1 <= Len(HandlersOf[hand[w].event]) + 1 /\ hand[w].event \in Events
      BY <1>1, <2>2, OutboxParameters DEF Dispatching, Duties, HandlerInRange
    <3> QED
      BY <1>1, <2>1, <2>2, <3>1 DEF HandlerInRange
  <2>5. LockedRowIsAsRead' /\ RetriesLeft'
    BY <1>1, <2>1, <2>2 DEF row, HoldsLock, LockedRowIsAsRead, RetriesLeft
  <2> QED
    BY <2>3, <2>4, <2>5
<1>7. ASSUME NEW w \in Workers, Conclusion(w) PROVE Kept
  <2>1. /\ status' \in [Events -> {"none", "PENDING"} \cup Terminal]
        /\ retryCount' \in [Events -> 0 .. MaxRetries]
        /\ dueIn' \in [Events -> (-MaxAge) .. MaxBackoff]
        /\ okNames' \in [Events -> SUBSET Names]
    BY <1>7, VerdictTyped DEF Conclusion
  <2>2. /\ pc' \in [Workers -> Locations] /\ hand' \in [Workers -> Hands]
        /\ \A v \in Workers : pc'[v] = "dispatch" => pc[v] = "dispatch" /\ hand'[v] = hand[v]
    BY <1>7, LetGoTyped DEF Conclusion, RowInv, Locations
  <2>3. RowsTyped'
    BY <1>1, <1>7, <2>1, <2>2 DEF Conclusion, Unlock, RowsTyped
  <2>4. HandlerInRange'
    BY <1>1, <2>2 DEF HandlerInRange
  <2>5. /\ hand[w].event \in Events /\ lock[hand[w].event] = w
        /\ hand' = [hand EXCEPT ![w] = Empty]
        /\ lock' = [x \in Events |-> IF lock[x] = w THEN NoWorker ELSE lock[x]]
    BY <1>7 DEF Conclusion, HoldsLock, LetGo, Unlock
  <2>6. \A e \in Events \ {hand[w].event} :
          status'[e] = status[e] /\ retryCount'[e] = retryCount[e] /\ okNames'[e] = okNames[e]
    <3>1. /\ UNCHANGED status \/ \E x : status' = [status EXCEPT ![hand[w].event] = x]
          /\ UNCHANGED retryCount \/ \E x : retryCount' = [retryCount EXCEPT ![hand[w].event] = x]
          /\ okNames' = [okNames EXCEPT ![hand[w].event] = hand[w].state]
      BY <1>7, VerdictEffect, Zenon DEF Conclusion
    <3> QED
      BY <1>1, <3>1 DEF RowsTyped
  <2>7. LockedRowIsAsRead'
    <3> SUFFICES ASSUME NEW v \in Workers, HoldsLock(v)'
                 PROVE  LET e == hand'[v].event
                        IN  status'[e] = "PENDING" /\ hand'[v].retry = retryCount'[e]
                            /\ hand'[v].ok = okNames'[e]
      BY DEF LockedRowIsAsRead
    <3>1. v # w
      BY <1>1, <1>2, <2>5 DEF HoldsLock, Empty, RowsTyped
    <3>2. hand'[v] = hand[v] /\ HoldsLock(v) /\ hand[v].event # hand[w].event
      BY <1>1, <2>5, <3>1, OutboxParameters DEF HoldsLock, RowsTyped
    <3> QED
      BY <1>1, <2>6, <3>2 DEF LockedRowIsAsRead, HoldsLock
  <2>8. RetriesLeft'
    <3>1. status'[hand[w].event] # "FAILED" => retryCount'[hand[w].event] < MaxRetries
      BY <1>1, <1>2, <1>7, VerdictEffect DEF Conclusion, RowsTyped
    <3> QED
      BY <1>1, <2>6, <3>1 DEF RetriesLeft
  <2> QED
    BY <2>3, <2>4, <2>7, <2>8
<1>8. Kept
  BY <1>3, <1>4, <1>5, <1>6, <1>7, StepEffect DEF Effect
<1>9. Bookkeeping
  BY BookkeepingTyped
<1> QED
  BY <1>8, <1>9 DEF RowsTyped, HandlerInRange, Bookkeeping, TypeOK, RowInv

\* RowInv is an invariant.
LEMMA AlwaysRowInv == Spec => []RowInv
<1>1. RowInv /\ UNCHANGED vars => RowInv'
  BY NextRowInv
<1> QED
  BY InitRowInv, NextRowInv, PTL DEF Spec

-----------------------------------------------------------------------------
(* Types and rows under the lock.                                           *)

\* The rows and the worker's records keep their types: no backoff exceeds its
\* cap, no count its limit, and a dispatch never runs past its handlers.
THEOREM TypeCorrect == Spec => []TypeOK
BY AlwaysRowInv, PTL DEF RowInv

\* worker.py:132, 151 and 159: as long as a worker holds the lock, the values
\* from which it computes the verdict are those of the row.
THEOREM LockedRowSafe == Spec => []LockedRowIsAsRead
BY AlwaysRowInv, PTL DEF RowInv

-----------------------------------------------------------------------------
(* What a dispatch knows.                                                   *)

Ran(e, h) == runs[e][h] > 0

\* handler_state names only handlers that have taken effect, and only those of
\* the event ever do.
OnlyDutiesRan == \A e \in Events, h \in Handlers : Ran(e, h) => h \in Elements(HandlersOf[e])
NamedHaveRan  ==
  \A e \in Events : \A i \in DOMAIN HandlersOf[e] :
    Name[HandlersOf[e][i]] \in okNames[e] => Ran(e, HandlersOf[e][i])

\* The handlers named in a dispatch's records have taken effect; it has not
\* failed as long as each one passed is named, and if it has, one is not.
DispatchSound(w) ==
  LET h == hand[w]
  IN  /\ status[h.event] # "none"
      /\ \A i \in DOMAIN HandlersOf[h.event] :
           Name[HandlersOf[h.event][i]] \in h.ok \cup h.state => Ran(h.event, HandlersOf[h.event][i])
      /\ ~h.failed => /\ h.ok \subseteq h.state
                      /\ \A i \in 1 .. h.next - 1 : Name[HandlersOf[h.event][i]] \in h.state
      /\ h.failed => \E i \in 1 .. h.next - 1 : Name[HandlersOf[h.event][i]] \notin h.state

\* A dead letter has a handler that never was recorded as completed.
DeadHaveFailed ==
  \A e \in Events : status[e] = "FAILED" =>
    /\ retryCount[e] = MaxRetries
    /\ \E h \in Elements(HandlersOf[e]) : Name[h] \notin okNames[e]

DeliveryInv ==
  /\ OnlyDutiesRan /\ NamedHaveRan /\ DeadHaveFailed
  /\ \A w \in Workers : pc[w] = "dispatch" => DispatchSound(w)

\* What running a handler of the event in hand does to the history.
RunsGrow(w) ==
  \A e \in Events, h \in Handlers :
    /\ Ran(e, h) => runs'[e][h] > 0
    /\ runs'[e][h] > 0 => Ran(e, h) \/ (e = hand[w].event /\ h = NextHandler(w))

\* Only the next handler of the event in hand takes effect.
LEMMA EffectGrows ==
  ASSUME TypeOK, NEW w \in Workers, Progress(w)
  PROVE  /\ RunsGrow(w)
         /\ TakesEffect(hand[w].event, NextHandler(w)) => runs'[hand[w].event][NextHandler(w)] > 0
<1>1. /\ runs \in [Events -> [Handlers -> Nat]]
      /\ hand[w].event \in Events /\ NextHandler(w) \in Handlers
  BY NextHandlerTyped DEF TypeOK, Progress
<1>2. UNCHANGED runs \/ TakesEffect(hand[w].event, NextHandler(w))
  BY DEF Progress, SkipHandler
<1> HIDE DEF NextHandler
<1>3. CASE UNCHANGED runs
  BY <1>1, <1>3 DEF RunsGrow, Ran, TakesEffect
<1>4. CASE TakesEffect(hand[w].event, NextHandler(w))
  <2>1. \A x \in Events, k \in Handlers :
          runs'[x][k] = IF x = hand[w].event /\ k = NextHandler(w) THEN runs[x][k] + 1
                                                                  ELSE runs[x][k]
    BY <1>1, <1>4 DEF TakesEffect
  <2>2. \A x \in Events, k \in Handlers : runs[x][k] \in Nat
    BY <1>1
  <2> QED
    BY <1>1, <2>1, <2>2 DEF RunsGrow, Ran
<1> QED
  BY <1>2, <1>3, <1>4

\* Going on to the next handler keeps the dispatch sound: since names are unique, a
\* success never covers up an earlier failure.
LEMMA ProgressSound ==
  ASSUME RowInv, UniqueNames, DeliveryInv, NEW w \in Workers, Progress(w)
  PROVE  DispatchSound(w)'
<1> DEFINE h == hand[w]
           e == h.event
           d == HandlersOf[e]
           n == h.next
           S == h.state
<1>1. /\ e \in Events /\ n \in 1 .. Len(d) /\ DOMAIN d = 1 .. Len(d) /\ Len(d) \in Nat
      /\ NextHandler(w) = d[n] /\ DispatchSound(w) /\ UNCHANGED status
      /\ \A i \in DOMAIN d : d[i] \in Handlers
      /\ h.failed \in BOOLEAN
  <2>1. Dispatching(w) /\ UNCHANGED status
    BY DEF Progress, row
  <2>2. pc[w] = "dispatch" /\ n \in DOMAIN d /\ NextHandler(w) = d[n]
    BY <2>1 DEF Dispatching, Duties, NextHandler
  <2>3. e \in Events /\ h \in Hands
    BY <2>2 DEF RowInv, TypeOK
  <2>4. d \in Seq(Handlers)
    BY <2>3, OutboxParameters
  <2> QED
    BY <2>1, <2>2, <2>3, <2>4 DEF DeliveryInv, Hands
<1>2. hand'[w].event = e /\ hand'[w].next = n + 1 /\ hand'[w].ok = h.ok
  BY ProgressTyped DEF RowInv
<1>3. \A i \in DOMAIN d : Name[d[i]] = Name[d[n]] => i = n
  BY <1>1 DEF UniqueNames
<1>4. RunsGrow(w)
  BY EffectGrows DEF RowInv
<1> DEFINE S1 == hand'[w].state
           F  == h.failed
           F1 == hand'[w].failed
<1>5. \/ S1 = S /\ (F1 <=> F) /\ Name[d[n]] \in h.ok
      \/ S1 = S \cup {Name[d[n]]} /\ (F1 <=> F) /\ runs'[e][d[n]] > 0
      \/ S1 = S \ {Name[d[n]]} /\ F1
  <2>1. CASE SkipHandler(w)
    <3>1. h \in Hands /\ hand \in [Workers -> Hands]
      BY DEF RowInv, TypeOK
    <3>2. hand' = [hand EXCEPT ![w] = [h EXCEPT !.next = n + 1]] /\ Name[d[n]] \in h.ok
      BY <1>1, <2>1 DEF SkipHandler, Done
    <3>3. [h EXCEPT !.next = n + 1].state = S /\ [h EXCEPT !.next = n + 1].failed = F
      BY <3>1 DEF Hands
    <3>4. hand'[w] = [h EXCEPT !.next = n + 1]
      BY <3>1, <3>2, Zenon
    <3> QED
      BY <3>2, <3>3, <3>4, Zenon
  <2>2. CASE TakesEffect(e, NextHandler(w)) /\ Record(w, TRUE)
    <3>1. S1 = S \cup {Name[d[n]]} /\ (F1 <=> F)
      BY <1>1, <2>2, RecordTyped DEF Progress, RowInv
    <3>2. runs'[e][d[n]] > 0
      BY <1>1, <2>2, EffectGrows DEF RowInv
    <3> QED
      BY <3>1, <3>2
  <2>3. CASE Record(w, FALSE)
    BY <1>1, <2>3, RecordTyped DEF Progress, RowInv
  <2> QED
    BY <2>1, <2>2, <2>3 DEF Progress
<1>6. /\ \A i \in DOMAIN d : Name[d[i]] \in h.ok \cup S => Ran(e, d[i])
      /\ ~F => h.ok \subseteq S /\ \A i \in 1 .. n - 1 : Name[d[i]] \in S
      /\ F => \E i \in 1 .. n - 1 : Name[d[i]] \notin S
      /\ status'[e] # "none"
  BY <1>1 DEF DispatchSound
<1>7. \A i \in DOMAIN d : Ran(e, d[i]) => runs'[e][d[i]] > 0
  BY <1>1, <1>4 DEF RunsGrow
<1> HIDE DEF S1, F, F1, S, n, d
<1>8. \A i \in DOMAIN d : Name[d[i]] \in h.ok \cup S1 => runs'[e][d[i]] > 0
  BY <1>1, <1>3, <1>5, <1>6, <1>7
<1>9. ~F1 => h.ok \subseteq S1 /\ \A i \in 1 .. n : Name[d[i]] \in S1
  BY <1>1, <1>3, <1>5, <1>6
<1>10. F1 => \E i \in 1 .. n : Name[d[i]] \notin S1
  BY <1>1, <1>3, <1>5, <1>6
<1>11. hand'[w].next - 1 = n
  BY <1>1, <1>2
<1> HIDE DEF h
<1> QED
  BY <1>2, <1>6, <1>8, <1>9, <1>10, <1>11 DEF DispatchSound, Ran, S1, F1, d

-----------------------------------------------------------------------------
(* The invariant DeliveryInv.                                               *)

\* What a verdict rests on.
LEMMA VerdictSound ==
  ASSUME RowInv, DeliveryInv, NEW w \in Workers, Dispatched(w)
  PROVE  LET e == hand[w].event
             d == HandlersOf[e]
         IN  /\ e \in Events
             /\ \A i \in DOMAIN d : Name[d[i]] \in hand[w].state => Ran(e, d[i])
             /\ ~hand[w].failed => \A i \in DOMAIN d : Ran(e, d[i])
             /\ hand[w].failed => \E h \in Elements(d) : Name[h] \notin hand[w].state
<1> DEFINE e == hand[w].event
           d == HandlersOf[e]
<1>1. pc[w] = "dispatch" /\ hand[w].next = Len(d) + 1
  BY DEF Dispatched, Duties
<1>2. e \in Events /\ DispatchSound(w)
  BY <1>1 DEF RowInv, TypeOK, DeliveryInv
<1>3. Len(d) \in Nat /\ DOMAIN d = 1 .. Len(d)
  BY <1>2, OutboxParameters
<1>4. hand[w].next - 1 = Len(d)
  BY <1>1, <1>3
<1> QED
  BY <1>2, <1>3, <1>4 DEF DispatchSound, Elements

\* DeliveryInv holds at the start.
LEMMA InitDeliveryInv == Init => DeliveryInv
BY DEF Init, DeliveryInv, OnlyDutiesRan, NamedHaveRan, DeadHaveFailed, Ran

\* Every step keeps DeliveryInv.
LEMMA NextDeliveryInv ==
  ASSUME UniqueNames, RowInv, DeliveryInv, [Next]_vars
  PROVE  DeliveryInv'
<1>1. /\ OnlyDutiesRan /\ NamedHaveRan /\ DeadHaveFailed
      /\ \A w \in Workers : pc[w] = "dispatch" => DispatchSound(w)
      /\ RowsTyped /\ HandlerInRange
  BY DEF DeliveryInv, RowInv, TypeOK, RowsTyped, HandlerInRange
<1>2. CASE Quiet
  <2>1. UNCHANGED <<status, retryCount, okNames, runs>>
    BY <1>2 DEF Quiet
  <2>2. \A w \in Workers : pc'[w] = "dispatch" => pc[w] = "dispatch" /\ hand'[w] = hand[w]
    BY <1>2 DEF Quiet
  <2>3. \A w \in Workers : pc'[w] = "dispatch" => DispatchSound(w)'
    BY <1>1, <2>1, <2>2 DEF DispatchSound, Ran
  <2> QED
    BY <1>1, <2>1, <2>3 DEF DeliveryInv, OnlyDutiesRan, NamedHaveRan, DeadHaveFailed, Ran
<1>3. ASSUME NEW e \in Events, Publish(e) PROVE DeliveryInv'
  <2>1. /\ status' = [status EXCEPT ![e] = "PENDING"]
        /\ UNCHANGED <<retryCount, okNames, pc, hand, runs>>
    BY <1>3 DEF Publish
  <2>2. DeadHaveFailed'
    BY <1>1, <2>1 DEF RowsTyped, DeadHaveFailed
  <2>3. \A f \in Events : status'[f] = status[f] \/ status'[f] = "PENDING"
    BY <1>1, <2>1 DEF RowsTyped
  <2>4. \A w \in Workers : pc'[w] = "dispatch" => DispatchSound(w)'
    BY <1>1, <2>1, <2>3 DEF HandlerInRange, DispatchSound, Ran
  <2> QED
    BY <1>1, <2>1, <2>2, <2>4 DEF DeliveryInv, OnlyDutiesRan, NamedHaveRan, Ran
<1>4. ASSUME NEW w \in Workers, Claim(w) PROVE DeliveryInv'
  <2>1. PICK e \in Events : Claimable(e) /\ hand' = [hand EXCEPT ![w] = Holding(e)]
    BY <1>4 DEF Claim
  <2>2. /\ UNCHANGED <<status, retryCount, okNames, runs>>
        /\ pc' = [pc EXCEPT ![w] = "dispatch"]
    BY <1>4 DEF Claim, Goto, row
  <2>3. DispatchSound(w)'
    <3>1. /\ hand'[w] = Holding(e) /\ status'[e] = "PENDING"
          /\ Holding(e).event = e /\ Holding(e).ok = okNames[e] /\ Holding(e).state = okNames[e]
          /\ ~Holding(e).failed /\ Holding(e).next = 1
      BY <1>1, <2>1, <2>2 DEF Claimable, Holding, RowsTyped
    <3> QED
      BY <1>1, <2>2, <3>1 DEF DispatchSound, NamedHaveRan, Ran
  <2>4. \A v \in Workers \ {w} : pc'[v] = "dispatch" => DispatchSound(v)'
    BY <1>1, <2>1, <2>2 DEF RowsTyped, DispatchSound, Ran
  <2> QED
    BY <1>1, <2>2, <2>3, <2>4 DEF DeliveryInv, OnlyDutiesRan, NamedHaveRan, DeadHaveFailed, Ran
<1>5. ASSUME NEW w \in Workers, Progress(w) PROVE DeliveryInv'
  <2>1. UNCHANGED <<status, retryCount, okNames, pc>>
    BY <1>5 DEF Progress, row
  <2>2. DispatchSound(w)' /\ RunsGrow(w) /\ \A v \in Workers \ {w} : hand'[v] = hand[v]
    BY <1>5, ProgressSound, EffectGrows, ProgressTyped DEF RowInv
  <2>3. NextHandler(w) \in Elements(HandlersOf[hand[w].event])
    BY <1>5 DEF Progress, Dispatching, NextHandler, Duties, Elements
  <2>4. OnlyDutiesRan'
    BY <1>1, <2>2, <2>3 DEF RunsGrow, OnlyDutiesRan, Ran
  <2>5. NamedHaveRan'
    BY <1>1, <2>1, <2>2, OutboxParameters DEF RunsGrow, NamedHaveRan, Ran
  <2>6. \A v \in Workers \ {w} : pc'[v] = "dispatch" => DispatchSound(v)'
    BY <1>1, <2>1, <2>2, NamesOfDuties DEF HandlerInRange, RunsGrow, DispatchSound, Ran
  <2> QED
    BY <1>1, <2>1, <2>2, <2>4, <2>5, <2>6 DEF DeliveryInv, DeadHaveFailed
<1>6. ASSUME NEW w \in Workers, Conclusion(w) PROVE DeliveryInv'
  <2> DEFINE e == hand[w].event
  <2>1. /\ e \in Events /\ UNCHANGED runs
        /\ okNames' = [okNames EXCEPT ![e] = hand[w].state]
        /\ \A i \in DOMAIN HandlersOf[e] :
             Name[HandlersOf[e][i]] \in hand[w].state => Ran(e, HandlersOf[e][i])
    BY <1>6, VerdictEffect, VerdictSound DEF Conclusion
  <2>2. \/ UNCHANGED status \/ status' = [status EXCEPT ![e] = "PROCESSED"]
        \/ /\ status' = [status EXCEPT ![e] = "FAILED"]
           /\ hand[w].failed /\ retryCount[e] + 1 = MaxRetries
    BY <1>6, VerdictEffect, Zenon DEF Conclusion
  <2>3. status[e] = "PENDING"
    BY <1>6, VerdictEffect DEF Conclusion
  <2>4. NamedHaveRan' /\ OnlyDutiesRan'
    BY <1>1, <2>1 DEF NamedHaveRan, OnlyDutiesRan, RowsTyped, Ran
  <2>5. DeadHaveFailed'
    <3>1. /\ UNCHANGED retryCount \/ retryCount' = [retryCount EXCEPT ![e] = retryCount[e] + 1]
          /\ hand[w].failed => retryCount' = [retryCount EXCEPT ![e] = retryCount[e] + 1]
      BY <1>6, VerdictEffect, Zenon DEF Conclusion
    <3>2. hand[w].failed => \E h \in Elements(HandlersOf[e]) : Name[h] \notin hand[w].state
      BY <1>6, VerdictSound DEF Conclusion
    <3>3. status'[e] = "FAILED" =>
            hand[w].failed /\ retryCount'[e] = MaxRetries /\ okNames'[e] = hand[w].state
      BY <1>1, <2>1, <2>2, <2>3, <3>1 DEF RowsTyped
    <3>4. \A f \in Events \ {e} : /\ status'[f] = status[f] /\ retryCount'[f] = retryCount[f]
                                  /\ okNames'[f] = okNames[f]
      BY <1>1, <2>1, <2>2, <3>1 DEF RowsTyped
    <3> QED
      BY <1>1, <2>1, <3>2, <3>3, <3>4 DEF DeadHaveFailed
  <2>6. \A v \in Workers : pc'[v] = "dispatch" => DispatchSound(v)'
    <3>1. \A v \in Workers : pc'[v] = "dispatch" => pc[v] = "dispatch" /\ hand'[v] = hand[v]
      BY <1>6, LetGoTyped DEF Conclusion, RowInv, Locations
    <3>2. \A f \in Events : status[f] # "none" => status'[f] # "none"
      BY <1>1, <2>1, <2>2 DEF RowsTyped
    <3> QED
      BY <1>1, <2>1, <3>1, <3>2 DEF HandlerInRange, DispatchSound, Ran
  <2> QED
    BY <2>4, <2>5, <2>6 DEF DeliveryInv
<1> QED
  BY <1>2, <1>3, <1>4, <1>5, <1>6, StepEffect DEF Effect

\* Both are invariants.
LEMMA AlwaysDeliveryInv == UniqueNames /\ Spec => [](RowInv /\ DeliveryInv)
<1> SUFFICES ASSUME UniqueNames PROVE Spec => [](RowInv /\ DeliveryInv)
  OBVIOUS
<1>1. Init => RowInv /\ DeliveryInv
  BY InitRowInv, InitDeliveryInv
<1>2. (RowInv /\ DeliveryInv) /\ [Next]_vars => (RowInv /\ DeliveryInv)'
  BY NextRowInv, NextDeliveryInv
<1> QED
  BY <1>1, <1>2, PTL DEF Spec

-----------------------------------------------------------------------------
(* Dead letters and delivery.                                               *)

\* worker.py:161-166: an event is given up after exactly MaxRetries dispatches
\* that failed, and one of its handlers is then not recorded as completed.
THEOREM DeadLetterSafe == UniqueNames /\ Spec => []DeadLetterIsExact
<1>1. RowInv /\ DeliveryInv => DeadLetterIsExact
  BY DEF RowInv, RetriesLeft, DeliveryInv, DeadHaveFailed, DeadLetterIsExact
<1> QED
  BY <1>1, AlwaysDeliveryInv, PTL

\* What publishers see of each status.
LEMMA SeenAs ==
  /\ Seen("none") = "none" /\ Seen("PENDING") = "open"
  /\ Seen("PROCESSED") = "delivered" /\ Seen("FAILED") = "dead"
BY Zenon DEF Seen

\* The outbox starts as OutboxDelivery does.
LEMMA DeliveryInit == Init => Delivery!Init
BY SeenAs DEF Init, Delivery!Init

\* Every step of the outbox is one of OutboxDelivery or changes nothing it speaks of.
LEMMA DeliveryStep ==
  ASSUME UniqueNames, RowInv, DeliveryInv, [Next]_vars
  PROVE  [Delivery!Next]_(Delivery!vars)
<1>1. RowsTyped /\ HandlerInRange /\ OnlyDutiesRan
  BY DEF DeliveryInv, RowInv, TypeOK, RowsTyped, HandlerInRange
<1>2. CASE Quiet
  <2>1. UNCHANGED <<status, runs>>
    BY <1>2 DEF Quiet
  <2> QED
    BY <2>1 DEF Delivery!vars
<1>3. ASSUME NEW e \in Events, Publish(e) PROVE Delivery!Next
  <2>1. /\ status[e] = "none" /\ status' = [status EXCEPT ![e] = "PENDING"] /\ UNCHANGED runs
    BY <1>3 DEF Publish
  <2>2. Delivery!Publish(e)
    BY <1>1, <2>1, SeenAs DEF RowsTyped, Delivery!Publish, Delivery!Become
  <2> QED
    BY <2>2 DEF Delivery!Next
<1>4. ASSUME NEW w \in Workers, Claim(w) PROVE UNCHANGED Delivery!vars
  <2>1. UNCHANGED <<status, runs>>
    BY <1>4 DEF Claim, row
  <2> QED
    BY <2>1 DEF Delivery!vars
<1>5. ASSUME NEW w \in Workers, Progress(w) PROVE [Delivery!Next]_(Delivery!vars)
  <2>0. PICK e \in Events, h \in Handlers : e = hand[w].event /\ h = NextHandler(w)
    BY <1>5, NextHandlerTyped DEF Progress, RowInv
  <2>1. UNCHANGED status /\ (UNCHANGED runs \/ TakesEffect(e, h))
    BY <1>5, <2>0 DEF Progress, SkipHandler, row, TakesEffect
  <2>2. h \in Elements(HandlersOf[e]) /\ status[e] # "none"
    BY <1>5, <2>0 DEF Progress, Dispatching, NextHandler, Duties, Elements, DeliveryInv,
       DispatchSound
  <2>3. CASE UNCHANGED runs
    BY <2>1, <2>3 DEF Delivery!vars
  <2>4. CASE TakesEffect(e, h)
    <3>1. \A x \in Events, k \in Handlers :
            runs'[x][k] = IF x = e /\ k = h THEN runs[x][k] + 1 ELSE runs[x][k]
      BY <1>1, <2>2, <2>4 DEF TakesEffect, RowsTyped
    <3>2. \A x \in Events, k \in Handlers : runs[x][k] \in Nat
      BY <1>1 DEF RowsTyped
    <3>3. \A x \in Events : {k \in Handlers : runs'[x][k] > 0} =
            IF x = e THEN {k \in Handlers : runs[x][k] > 0} \cup {h}
                     ELSE {k \in Handlers : runs[x][k] > 0}
      <4>1. ASSUME NEW x \in Events, x # e
            PROVE  {k \in Handlers : runs'[x][k] > 0} = {k \in Handlers : runs[x][k] > 0}
        BY <3>1, <4>1
      <4>2. {k \in Handlers : runs'[e][k] > 0} = {k \in Handlers : runs[e][k] > 0} \cup {h}
        BY <2>2, <3>1, <3>2
      <4> QED
        BY <4>1, <4>2
    <3>4. Seen(status[e]) # "none"
      BY <1>1, <2>2, SeenAs DEF RowsTyped, Terminal
    <3>5. Delivery!TakeEffect(e, h)
      BY <2>1, <2>2, <3>3, <3>4 DEF Delivery!TakeEffect
    <3>6. Delivery!Next
      BY <2>2, <3>5 DEF Delivery!Next
    <3> QED
      BY <3>6
  <2> QED
    BY <2>1, <2>3, <2>4
<1>6. ASSUME NEW w \in Workers, Conclusion(w) PROVE [Delivery!Next]_(Delivery!vars)
  <2> DEFINE e == hand[w].event
  <2>1. e \in Events /\ UNCHANGED runs /\ status[e] = "PENDING"
    BY <1>6, VerdictEffect DEF Conclusion
  <2>2. \/ UNCHANGED status
        \/ ~hand[w].failed /\ status' = [status EXCEPT ![e] = "PROCESSED"]
        \/ status' = [status EXCEPT ![e] = "FAILED"]
    BY <1>6, VerdictEffect, Zenon DEF Conclusion
  <2>3. ~hand[w].failed => {k \in Handlers : runs[e][k] > 0} = Elements(HandlersOf[e])
    <3>1. ~hand[w].failed => \A i \in DOMAIN HandlersOf[e] : Ran(e, HandlersOf[e][i])
      BY <1>6, VerdictSound DEF Conclusion
    <3> QED
      BY <1>1, <2>1, <3>1, NamesOfDuties DEF OnlyDutiesRan, Ran, Elements
  <2> HIDE DEF e
  <2>4. CASE UNCHANGED status
    BY <2>1, <2>4 DEF Delivery!vars
  <2>5. CASE ~hand[w].failed /\ status' = [status EXCEPT ![e] = "PROCESSED"]
    <3>1. Delivery!Close(e)
      BY <1>1, <2>1, <2>3, <2>5, SeenAs DEF RowsTyped, Delivery!Close, Delivery!Become
    <3>2. Delivery!Next
      BY <2>1, <3>1 DEF Delivery!Next
    <3> QED
      BY <3>2
  <2>6. CASE status' = [status EXCEPT ![e] = "FAILED"]
    <3>1. Delivery!GiveUp(e)
      BY <1>1, <2>1, <2>6, SeenAs DEF RowsTyped, Delivery!GiveUp, Delivery!Become
    <3>2. Delivery!Next
      BY <2>1, <3>1 DEF Delivery!Next
    <3> QED
      BY <3>2
  <2> QED
    BY <2>2, <2>4, <2>5, <2>6
<1> QED
  BY <1>2, <1>3, <1>4, <1>5, <1>6, StepEffect DEF Effect

\* ADR 0001: whatever the replicas, their locks and their faults do, publishers
\* see at-least-once delivery with a final verdict.
THEOREM OutboxImplementsDelivery == UniqueNames /\ Spec => ImplementsDelivery
<1> SUFFICES ASSUME UniqueNames PROVE Spec => ImplementsDelivery
  OBVIOUS
<1>1. Init => Delivery!Init
  BY DeliveryInit
<1>2. RowInv /\ DeliveryInv /\ [Next]_vars => [Delivery!Next]_(Delivery!vars)
  BY DeliveryStep
<1>3. Spec => [](RowInv /\ DeliveryInv)
  BY AlwaysDeliveryInv
<1> QED
  BY <1>1, <1>2, <1>3, PTL DEF Spec, ImplementsDelivery, Delivery!Spec

-----------------------------------------------------------------------------
(* Repetitions.                                                             *)

\* Worker w may still run handler h for event e in the dispatch it is at.
MayRun(w, e, h) ==
  /\ pc[w] = "dispatch" /\ hand[w].event = e
  /\ Name[h] \notin hand[w].ok
  /\ \E i \in DOMAIN HandlersOf[e] : i >= hand[w].next /\ HandlersOf[e][i] = h

\* The workers that may run h for e although they have lost the row.
Ghosts(e, h) == {w \in Workers : MayRun(w, e, h) /\ lock[e] # w}

\* What the row names as completed once the dispatch under the lock has its verdict.
Recorded(e) == IF lock[e] \in Workers THEN hand[lock[e]].state ELSE okNames[e]

\* One run of h for e that the rows still allow.
Open(e, h) == IF Name[h] \in Recorded(e) THEN 0 ELSE 1

\* A lock is held by the worker that dispatches the event.
LockedIsDispatched ==
  \A e \in Events, w \in Workers : lock[e] = w => pc[w] = "dispatch" /\ hand[w].event = e

\* A dispatch keeps the names it has read and adds only those of handlers it has passed.
StateIsPassed(w) ==
  LET d == HandlersOf[hand[w].event]
  IN  /\ hand[w].ok \subseteq hand[w].state
      /\ \A i \in DOMAIN d : i >= hand[w].next /\ Name[d[i]] \in hand[w].state =>
           Name[d[i]] \in hand[w].ok

\* Each run that has happened, that a worker without its lock may still add and that
\* the rows still allow is the first one or is paid for by a fault.
Paid(e, h) ==
  /\ IsFiniteSet(Ghosts(e, h))
  /\ runs[e][h] + Cardinality(Ghosts(e, h)) + Open(e, h) <= 1 + faults

RepetitionInv ==
  /\ LockedIsDispatched
  /\ \A w \in Workers : pc[w] = "dispatch" => StateIsPassed(w)
  /\ \A e \in Events, h \in Handlers : Paid(e, h)

\* A step pays for every run of h for e that it adds or makes possible.
Pays(e, h) ==
  /\ faults' \in Nat /\ faults' >= faults
  /\ \/ /\ Ghosts(e, h)' \subseteq Ghosts(e, h) /\ runs'[e][h] = runs[e][h]
        /\ Open(e, h)' <= Open(e, h) \/ faults' = faults + 1
     \/ /\ \E w \in Workers : Ghosts(e, h)' \subseteq Ghosts(e, h) \cup {w}
        /\ runs'[e][h] = runs[e][h] /\ Open(e, h)' <= Open(e, h) /\ faults' = faults + 1
     \/ /\ \E w \in Ghosts(e, h) : Ghosts(e, h)' \subseteq Ghosts(e, h) \ {w}
        /\ runs'[e][h] = runs[e][h] + 1 /\ Open(e, h)' <= Open(e, h)
     \/ /\ Ghosts(e, h)' \subseteq Ghosts(e, h)
        /\ runs'[e][h] = runs[e][h] + 1
        /\ Open(e, h) = 1 /\ (Open(e, h)' = 0 \/ faults' = faults + 1)

\* What has been paid for stays so.
LEMMA PaysKeepsPaid ==
  ASSUME TypeOK, NEW e \in Events, NEW h \in Handlers, Paid(e, h), Pays(e, h)
  PROVE  Paid(e, h)'
<1> DEFINE G == Ghosts(e, h)
           o == Open(e, h)
           r == runs[e][h]
           f == faults
           C(S) == Cardinality(S)
<1>1. /\ IsFiniteSet(G) /\ Cardinality(G) \in Nat
      /\ r \in Nat /\ f \in Nat /\ o \in 0 .. 1 /\ o' \in 0 .. 1
      /\ r + Cardinality(G) + o <= 1 + f
  BY FS_CardinalityType, OutboxParameters DEF TypeOK, Open, Paid
<1>2. ASSUME G' \subseteq G
      PROVE  IsFiniteSet(G') /\ Cardinality(G') \in Nat /\ Cardinality(G') <= Cardinality(G)
  BY <1>1, <1>2, FS_Subset, FS_CardinalityType, Zenon
<1>3. ASSUME NEW w \in Workers, G' \subseteq G \cup {w}
      PROVE  IsFiniteSet(G') /\ Cardinality(G') \in Nat /\ Cardinality(G') <= Cardinality(G) + 1
  <2>1. IsFiniteSet(G \cup {w}) /\ Cardinality(G \cup {w}) \in {Cardinality(G), Cardinality(G) + 1}
    BY <1>1, FS_AddElement
  <2>2. /\ IsFiniteSet(G') /\ Cardinality(G') \in Nat
        /\ Cardinality(G') <= Cardinality(G \cup {w})
    BY <1>3, <2>1, FS_Subset, FS_CardinalityType, Zenon
  <2> QED
    BY <1>1, <2>1, <2>2
<1>4. ASSUME NEW w \in G, G' \subseteq G \ {w}
      PROVE  IsFiniteSet(G') /\ Cardinality(G') \in Nat /\ Cardinality(G') <= Cardinality(G) - 1
  <2>1. IsFiniteSet(G \ {w}) /\ Cardinality(G \ {w}) = Cardinality(G) - 1
    BY <1>1, FS_RemoveElement
  <2>2. /\ IsFiniteSet(G') /\ Cardinality(G') \in Nat
        /\ Cardinality(G') <= Cardinality(G \ {w})
    BY <1>4, <2>1, FS_Subset, FS_CardinalityType, Zenon
  <2> QED
    BY <2>1, <2>2
<1>5. /\ f' \in Nat /\ f' >= f
      /\ \/ G' \subseteq G /\ r' = r /\ (o' <= o \/ f' = f + 1)
         \/ (\E w \in Workers : G' \subseteq G \cup {w}) /\ r' = r /\ o' <= o /\ f' = f + 1
         \/ (\E w \in G : G' \subseteq G \ {w}) /\ r' = r + 1 /\ o' <= o
         \/ G' \subseteq G /\ r' = r + 1 /\ o = 1 /\ (o' = 0 \/ f' = f + 1)
  BY DEF Pays
<1> SUFFICES IsFiniteSet(G') /\ r' + Cardinality(G') + o' <= 1 + f'
  BY DEF Paid
<1> HIDE DEF G, o, r, f
<1>6. CASE G' \subseteq G /\ r' = r /\ (o' <= o \/ f' = f + 1)
  BY <1>1, <1>2, <1>5, <1>6
<1>7. CASE (\E w \in Workers : G' \subseteq G \cup {w}) /\ r' = r /\ o' <= o /\ f' = f + 1
  BY <1>1, <1>3, <1>5, <1>7
<1>8. CASE (\E w \in G : G' \subseteq G \ {w}) /\ r' = r + 1 /\ o' <= o
  BY <1>1, <1>4, <1>5, <1>8
<1>9. CASE G' \subseteq G /\ r' = r + 1 /\ o = 1 /\ (o' = 0 \/ f' = f + 1)
  BY <1>1, <1>2, <1>5, <1>9
<1> QED
  BY <1>5, <1>6, <1>7, <1>8, <1>9

DispatchesSound ==
  /\ LockedIsDispatched
  /\ \A w \in Workers : pc[w] = "dispatch" => StateIsPassed(w)

\* What a step does to the dispatches and the debts.
StepPays == DispatchesSound' /\ \A e \in Events, h \in Handlers : Pays(e, h)

\* A step that takes no lock, no event and no effect owes nothing.
LEMMA IdlePays ==
  ASSUME TypeOK, DispatchesSound,
         UNCHANGED <<okNames, hand, runs, faults>>,
         \A v \in Workers : (pc'[v] = "dispatch") <=> (pc[v] = "dispatch"),
         \A e \in Events : lock'[e] = lock[e] \/ {lock[e], lock'[e]} \cap Workers = {}
  PROVE  StepPays
<1>1. \A e \in Events, v \in Workers : (lock'[e] = v) <=> (lock[e] = v)
  OBVIOUS
<1>2. DispatchesSound'
  BY <1>1 DEF DispatchesSound, LockedIsDispatched, StateIsPassed
<1>3. ASSUME NEW e \in Events, NEW h \in Handlers PROVE Pays(e, h)
  <2>1. Ghosts(e, h)' = Ghosts(e, h)
    <3>1. \A v \in Workers : MayRun(v, e, h)' <=> MayRun(v, e, h)
      BY DEF MayRun
    <3> QED
      BY <1>1, <3>1 DEF Ghosts
  <2>2. Open(e, h)' = Open(e, h) /\ Open(e, h) \in 0 .. 1
    <3>1. Recorded(e)' = Recorded(e)
      BY DEF Recorded
    <3> QED
      BY <3>1 DEF Open
  <2>3. faults \in Nat /\ faults' = faults
    BY OutboxParameters DEF TypeOK
  <2> QED
    BY <2>1, <2>2, <2>3 DEF Pays
<1> QED
  BY <1>2, <1>3 DEF StepPays

\* A claimed dispatch starts from what the row names.
LEMMA ClaimPays ==
  ASSUME TypeOK, DispatchesSound, NEW w \in Workers, Claim(w)
  PROVE  StepPays
<1>0. /\ lock \in [Events -> Workers \cup {NoWorker, Orphan}] /\ NoWorker \notin Workers
      /\ pc \in [Workers -> Locations] /\ hand \in [Workers -> Hands] /\ faults \in Nat
  BY OutboxParameters DEF TypeOK
<1>1. PICK f \in Events : /\ lock[f] = NoWorker /\ lock' = [lock EXCEPT ![f] = w]
                          /\ hand' = [hand EXCEPT ![w] = Holding(f)]
  BY DEF Claim, Claimable
<1>2. /\ pc[w] = "batch" /\ pc' = [pc EXCEPT ![w] = "dispatch"]
      /\ UNCHANGED <<okNames, runs, faults>>
  BY DEF Claim, Goto, row
<1>3. /\ hand'[w] = Holding(f) /\ \A v \in Workers \ {w} : hand'[v] = hand[v] /\ pc'[v] = pc[v]
      /\ Holding(f).event = f /\ Holding(f).ok = okNames[f] /\ Holding(f).state = okNames[f]
  BY <1>0, <1>1, <1>2 DEF Holding
<1>4. \A e \in Events : lock[e] # w
  BY <1>2 DEF DispatchesSound, LockedIsDispatched
<1>5. LockedIsDispatched'
  BY <1>0, <1>1, <1>2, <1>3, <1>4 DEF DispatchesSound, LockedIsDispatched
<1>6. \A v \in Workers : pc'[v] = "dispatch" => StateIsPassed(v)'
  BY <1>0, <1>3 DEF DispatchesSound, StateIsPassed
<1>7. ASSUME NEW e \in Events, NEW h \in Handlers PROVE Pays(e, h)
  <2>1. \A v \in Workers \ {w} : MayRun(v, e, h)' <=> MayRun(v, e, h)
    BY <1>3 DEF MayRun
  <2>2. Ghosts(e, h)' \subseteq Ghosts(e, h)
    BY <1>0, <1>1, <1>3, <2>1 DEF Ghosts, MayRun
  <2>3. Recorded(e)' = Recorded(e)
    BY <1>0, <1>1, <1>2, <1>3, <1>4 DEF Recorded
  <2>4. Open(e, h)' = Open(e, h) /\ Open(e, h) \in 0 .. 1
    BY <2>3 DEF Open
  <2> QED
    BY <1>0, <1>2, <2>2, <2>4 DEF Pays
<1> QED
  BY <1>5, <1>6, <1>7 DEF StepPays, DispatchesSound

\* A worker that loses its lock during a dispatch may repeat what the row still
\* allows: the fault pays for it.
LEMMA SessionLostPays ==
  ASSUME TypeOK, DispatchesSound, NEW w \in Workers, SessionLost(w)
  PROVE  StepPays
<1>0. /\ lock \in [Events -> Workers \cup {NoWorker, Orphan}] /\ NoWorker \notin Workers
      /\ hand[w].event \in Events /\ lock[hand[w].event] = w /\ faults \in Nat
  BY OutboxParameters DEF TypeOK, SessionLost, HoldsLock
<1>1. /\ UNCHANGED <<okNames, runs, pc, hand>> /\ faults' = faults + 1
      /\ lock' = [e \in Events |-> IF lock[e] = w THEN NoWorker ELSE lock[e]]
  BY DEF SessionLost, Unlock, CountFault, row
<1>2. DispatchesSound'
  BY <1>0, <1>1 DEF DispatchesSound, LockedIsDispatched, StateIsPassed
<1>3. ASSUME NEW e \in Events, NEW h \in Handlers PROVE Pays(e, h)
  <2>1. \A v \in Workers : MayRun(v, e, h)' <=> MayRun(v, e, h)
    BY <1>1 DEF MayRun
  <2>2. \A v \in Workers \ {w} : (lock'[e] = v) <=> (lock[e] = v)
    BY <1>0, <1>1
  <2>3. CASE lock[e] = w /\ MayRun(w, e, h)
    <3>1. Ghosts(e, h)' \subseteq Ghosts(e, h) \cup {w}
      BY <2>1, <2>2 DEF Ghosts
    <3>2. Name[h] \notin hand[w].state
      BY <2>3 DEF MayRun, DispatchesSound, StateIsPassed
    <3>3. Open(e, h) = 1 /\ Open(e, h)' \in 0 .. 1
      BY <2>3, <3>2 DEF Open, Recorded
    <3> QED
      BY <1>0, <1>1, <3>1, <3>3 DEF Pays
  <2>4. CASE ~(lock[e] = w /\ MayRun(w, e, h))
    <3>1. Ghosts(e, h)' \subseteq Ghosts(e, h)
      BY <1>1, <2>1, <2>2, <2>4 DEF Ghosts
    <3> QED
      BY <1>0, <1>1, <3>1 DEF Pays
  <2> QED
    BY <2>3, <2>4
<1> QED
  BY <1>2, <1>3 DEF StepPays

\* A worker that lets go of its event without a verdict forgets what the dispatch has
\* recorded: unless it had lost the row before, a fault pays for that.
LEMMA LetGoPays ==
  ASSUME TypeOK, DispatchesSound, NEW w \in Workers, NEW l \in Locations \ {"dispatch"},
         LetGo(w, l), UNCHANGED <<okNames, runs>>,
         \A e \in Events : IF lock[e] = w THEN lock'[e] \notin Workers ELSE lock'[e] = lock[e],
         faults' = faults + 1 \/ (faults' = faults /\ \A e \in Events : lock[e] # w)
  PROVE  StepPays
<1>0. faults \in Nat
  BY OutboxParameters DEF TypeOK
<1>1. \A v \in Workers \ {w} : hand'[v] = hand[v] /\ pc'[v] = pc[v]
  BY DEF LetGo, Goto, TypeOK
<1>2. pc'[w] # "dispatch"
  BY DEF LetGo, Goto, TypeOK
<1>3. \A e \in Events, v \in Workers : lock'[e] = v => v # w /\ lock[e] = v
  OBVIOUS
<1>4. DispatchesSound'
  BY <1>1, <1>2, <1>3 DEF DispatchesSound, LockedIsDispatched, StateIsPassed
<1>5. ASSUME NEW e \in Events, NEW h \in Handlers PROVE Pays(e, h)
  <2>1. \A v \in Workers : MayRun(v, e, h)' => v # w /\ MayRun(v, e, h)
    BY <1>1, <1>2 DEF MayRun
  <2>2. Ghosts(e, h)' \subseteq Ghosts(e, h)
    BY <2>1 DEF Ghosts
  <2>3. faults' = faults => Open(e, h)' = Open(e, h)
    <3> SUFFICES ASSUME faults' = faults PROVE Open(e, h)' = Open(e, h)
      OBVIOUS
    <3>1. lock[e] # w /\ lock'[e] = lock[e]
      BY <1>0
    <3>2. Recorded(e)' = Recorded(e)
      BY <1>1, <3>1 DEF Recorded
    <3> QED
      BY <3>2 DEF Open
  <2>4. Open(e, h) \in 0 .. 1
    BY DEF Open
  <2> QED
    BY <1>0, <2>2, <2>3, <2>4 DEF Pays
<1> QED
  BY <1>4, <1>5 DEF StepPays

\* A verdict writes what the dispatch has recorded.
LEMMA VerdictPays ==
  ASSUME TypeOK, DispatchesSound, NEW w \in Workers, NEW l \in Locations \ {"dispatch"},
         HoldsLock(w), WriteVerdict(w), Unlock(w), LetGo(w, l), UNCHANGED runs,
         faults' \in {faults, faults + 1}
  PROVE  StepPays
<1> PICK f : f = hand[w].event
  OBVIOUS
<1>0. /\ f \in Events /\ lock[f] = w /\ faults \in Nat /\ NoWorker \notin Workers
      /\ lock \in [Events -> Workers \cup {NoWorker, Orphan}] /\ okNames \in [Events -> SUBSET Names]
  BY OutboxParameters DEF TypeOK, HoldsLock
<1>1. \A v \in Workers \ {w} : hand'[v] = hand[v] /\ pc'[v] = pc[v]
  BY DEF LetGo, Goto, TypeOK
<1>2. pc'[w] # "dispatch"
  BY DEF LetGo, Goto, TypeOK
<1>3. \A e \in Events : lock[e] = w => e = f
  BY DEF DispatchesSound, LockedIsDispatched
<1>4. lock'[f] = NoWorker /\ \A e \in Events \ {f} : lock'[e] = lock[e] /\ lock[e] # w
  BY <1>0, <1>3 DEF Unlock
<1>5. okNames' = [okNames EXCEPT ![f] = hand[w].state]
  BY DEF WriteVerdict, Verdict
<1>6. DispatchesSound'
  BY <1>0, <1>1, <1>2, <1>4 DEF DispatchesSound, LockedIsDispatched, StateIsPassed
<1>7. \A e \in Events : Recorded(e)' = Recorded(e)
  <2>1. Recorded(f)' = hand[w].state /\ Recorded(f) = hand[w].state
    BY <1>0, <1>4, <1>5 DEF Recorded
  <2>2. \A e \in Events \ {f} : Recorded(e)' = Recorded(e)
    BY <1>0, <1>1, <1>4, <1>5 DEF Recorded
  <2> QED
    BY <2>1, <2>2
<1>8. ASSUME NEW e \in Events, NEW h \in Handlers PROVE Pays(e, h)
  <2>1. \A v \in Workers : MayRun(v, e, h)' => v # w /\ MayRun(v, e, h)
    BY <1>1, <1>2 DEF MayRun
  <2>2. \A v \in Workers \ {w} : lock'[e] = lock[e] \/ (lock[e] # v /\ lock'[e] # v)
    BY <1>0, <1>4
  <2>3. Ghosts(e, h)' \subseteq Ghosts(e, h)
    BY <2>1, <2>2 DEF Ghosts
  <2>4. Open(e, h)' = Open(e, h) /\ Open(e, h) \in 0 .. 1
    BY <1>7 DEF Open
  <2> QED
    BY <1>0, <2>3, <2>4 DEF Pays
<1> QED
  BY <1>6, <1>8 DEF StepPays

\* What happens to the count of a dispatch's next handler, and what pays for it.
EffectPaid(w) ==
  \/ UNCHANGED <<runs, faults>> /\ SkipHandler(w)
  \/ UNCHANGED <<runs, faults>> /\ ~Done(w) /\ Record(w, FALSE)
  \/ /\ TakesEffect(hand[w].event, NextHandler(w)) /\ ~Done(w)
     /\ \/ Record(w, TRUE) /\ UNCHANGED faults
        \/ Record(w, FALSE) /\ faults' = faults + 1

\* The dispatch goes on from a handler to the next one: under the lock its record
\* says that this one has run, or the fault pays for it; without the lock, it was
\* paid for when the lock was lost.
LEMMA ProgressPays ==
  ASSUME TypeOK, UniqueNames, DispatchesSound, NEW w \in Workers, Progress(w), EffectPaid(w)
  PROVE  StepPays
<1>a. PICK f, n, g, S : f = hand[w].event /\ n = hand[w].next /\ g = NextHandler(w)
                        /\ S = hand[w].state
  OBVIOUS
<1> DEFINE d  == HandlersOf[f]
           S1 == hand'[w].state
<1>b. Dispatching(w) /\ pc[w] = "dispatch" /\ n \in DOMAIN d /\ g = d[n] /\ StateIsPassed(w)
  BY <1>a DEF Progress, Dispatching, NextHandler, Duties, DispatchesSound
<1>0. /\ f \in Events /\ d \in Seq(Handlers) /\ n \in DOMAIN d /\ g = d[n] /\ g \in Handlers
      /\ DOMAIN d = 1 .. Len(d) /\ Len(d) \in Nat /\ faults \in Nat /\ pc[w] = "dispatch"
      /\ runs \in [Events -> [Handlers -> Nat]] /\ StateIsPassed(w)
  <2>1. f \in Events /\ g \in Handlers
    BY <1>a, <1>b, NextHandlerTyped
  <2>2. faults \in Nat /\ runs \in [Events -> [Handlers -> Nat]]
    BY DEF TypeOK
  <2>3. d \in Seq(Handlers)
    BY <2>1, OutboxParameters
  <2>4. DOMAIN d = 1 .. Len(d) /\ Len(d) \in Nat
    BY <2>3
  <2> QED
    BY <1>b, <2>1, <2>2, <2>3, <2>4
<1>1. /\ hand'[w].event = f /\ hand'[w].next = n + 1 /\ hand'[w].ok = hand[w].ok
      /\ \A v \in Workers \ {w} : hand'[v] = hand[v]
      /\ UNCHANGED <<okNames, lock, pc>>
  BY <1>a, ProgressTyped DEF Progress, row
<1>2. \A i \in DOMAIN d : Name[d[i]] = Name[d[n]] => i = n
  BY <1>0 DEF UniqueNames
<1>3. /\ hand[w].ok \subseteq S
      /\ \A i \in DOMAIN d : i >= n /\ Name[d[i]] \in S => Name[d[i]] \in hand[w].ok
  BY <1>a, <1>b DEF StateIsPassed
<1>4. \/ S1 = S /\ UNCHANGED <<runs, faults>>
      \/ /\ TakesEffect(f, g) /\ Name[g] \notin hand[w].ok
         /\ \/ S1 = S \cup {Name[g]} /\ UNCHANGED faults
            \/ S1 = S /\ faults' = faults + 1
  <2>1. CASE SkipHandler(w) /\ UNCHANGED <<runs, faults>>
    <3>1. hand[w] \in Hands /\ hand \in [Workers -> Hands]
      BY DEF TypeOK
    <3>2. hand' = [hand EXCEPT ![w] = [hand[w] EXCEPT !.next = n + 1]]
      BY <1>a, <2>1 DEF SkipHandler
    <3>3. [hand[w] EXCEPT !.next = n + 1].state = S
      BY <1>a, <3>1 DEF Hands
    <3>4. hand'[w] = [hand[w] EXCEPT !.next = n + 1]
      BY <3>1, <3>2, Zenon
    <3> QED
      BY <2>1, <3>3, <3>4, Zenon
  <2>2. CASE /\ ~Done(w) /\ Record(w, FALSE)
             /\ UNCHANGED <<runs, faults>> \/ (TakesEffect(f, g) /\ faults' = faults + 1)
    <3>1. S1 = S \ {Name[g]} /\ Name[g] \notin hand[w].ok
      BY <1>a, <2>2, RecordTyped DEF Progress, Done
    <3>2. Name[g] \notin S
      BY <1>0, <1>3, <3>1
    <3>3. S1 = S
      BY <3>1, <3>2
    <3> QED
      BY <2>2, <3>1, <3>3
  <2>3. CASE ~Done(w) /\ Record(w, TRUE) /\ TakesEffect(f, g) /\ UNCHANGED faults
    <3>1. S1 = S \cup {Name[g]} /\ Name[g] \notin hand[w].ok
      BY <1>a, <2>3, RecordTyped DEF Progress, Done
    <3> QED
      BY <2>3, <3>1
  <2> QED
    BY <1>a, <2>1, <2>2, <2>3 DEF EffectPaid
<1> HIDE DEF d, S1
<1>5. DispatchesSound'
  <2>1. LockedIsDispatched'
    BY <1>a, <1>1 DEF DispatchesSound, LockedIsDispatched
  <2>2. StateIsPassed(w)'
    <3>1. hand[w].ok \subseteq S1
      BY <1>3, <1>4
    <3>2. \A i \in DOMAIN d : i >= n + 1 /\ Name[d[i]] \in S1 => Name[d[i]] \in hand[w].ok
      BY <1>0, <1>2, <1>3, <1>4
    <3> QED
      BY <1>1, <3>1, <3>2 DEF StateIsPassed, S1, d
  <2> QED
    BY <1>1, <2>1, <2>2 DEF DispatchesSound, StateIsPassed
<1>6. ASSUME NEW e \in Events, NEW h \in Handlers PROVE Pays(e, h)
  <2>1. \A v \in Workers \ {w} : MayRun(v, e, h)' <=> MayRun(v, e, h)
    BY <1>1 DEF MayRun
  <2>2. MayRun(w, e, h)' => MayRun(w, e, h) /\ ~(e = f /\ h = g)
    <3> SUFFICES ASSUME MayRun(w, e, h)' PROVE MayRun(w, e, h) /\ ~(e = f /\ h = g)
      OBVIOUS
    <3>1. e = f /\ Name[h] \notin hand[w].ok
      BY <1>1 DEF MayRun
    <3>2. PICK i \in DOMAIN d : i >= n + 1 /\ d[i] = h
      BY <1>1, <3>1 DEF MayRun, d
    <3>3. MayRun(w, e, h)
      BY <1>a, <1>b, <1>0, <3>1, <3>2 DEF MayRun, d
    <3>4. h # g
      <4>1. i # n
        BY <1>b, <1>0, <3>2
      <4> QED
        BY <1>b, <1>2, <3>2, <4>1
    <3> QED
      BY <3>3, <3>4
  <2>3. Ghosts(e, h)' \subseteq Ghosts(e, h)
    BY <1>1, <2>1, <2>2 DEF Ghosts
  <2>4. Open(e, h)' <= Open(e, h) /\ Open(e, h) \in 0 .. 1 /\ Open(e, h)' \in 0 .. 1
    <3>1. Recorded(e) \subseteq Recorded(e)'
      <4>1. CASE lock[e] = w
        BY <1>a, <1>1, <1>4, <4>1 DEF Recorded, S1
      <4>2. CASE lock[e] # w
        BY <1>1, <4>2 DEF Recorded
      <4> QED
        BY <4>1, <4>2
    <3> QED
      BY <3>1 DEF Open
  <2>5. CASE UNCHANGED runs /\ UNCHANGED faults
    BY <1>0, <2>3, <2>4, <2>5 DEF Pays
  <2>6. CASE TakesEffect(f, g) /\ ~(e = f /\ h = g)
    <3>1. runs'[e][h] = runs[e][h]
      BY <1>0, <2>6 DEF TakesEffect
    <3> QED
      BY <1>0, <1>4, <2>3, <2>4, <3>1 DEF Pays
  <2>7. CASE TakesEffect(f, g) /\ e = f /\ h = g /\ Name[g] \notin hand[w].ok
    <3>1. runs'[e][h] = runs[e][h] + 1
      BY <1>0, <2>7 DEF TakesEffect
    <3>2. CASE lock[e] = w
      <4>1. Name[g] \notin S
        BY <1>0, <1>3, <2>7
      <4>2. Open(e, h) = 1
        BY <1>a, <2>7, <3>2, <4>1 DEF Open, Recorded
      <4>3. Name[g] \in S1 => Open(e, h)' = 0
        BY <1>1, <2>7, <3>2 DEF Open, Recorded, S1
      <4>4. Name[g] \in S1 \/ faults' = faults + 1
        <5>1. CASE UNCHANGED <<runs, faults>>
          BY <1>0, <3>1, <5>1
        <5>2. CASE ~UNCHANGED <<runs, faults>>
          BY <1>4, <5>2
        <5> QED
          BY <5>1, <5>2
      <4> QED
        BY <1>0, <1>4, <2>3, <3>1, <4>2, <4>3, <4>4 DEF Pays
    <3>3. CASE lock[e] # w
      <4>1. MayRun(w, e, h)
        BY <1>a, <1>0, <2>7 DEF MayRun, d
      <4>2. w \in Ghosts(e, h) /\ Ghosts(e, h)' \subseteq Ghosts(e, h) \ {w}
        BY <2>2, <2>3, <2>7, <3>3, <4>1 DEF Ghosts
      <4> QED
        BY <1>0, <1>4, <2>4, <3>1, <4>2 DEF Pays
    <3> QED
      BY <3>2, <3>3
  <2> QED
    BY <1>4, <2>5, <2>6, <2>7
<1> QED
  BY <1>5, <1>6 DEF StepPays

\* Every step pays.
LEMMA NextPays ==
  ASSUME TypeOK, UniqueNames, DispatchesSound, [Next]_vars
  PROVE  StepPays
<1>0. /\ NoWorker \notin Workers /\ Orphan \notin Workers
      /\ pc \in [Workers -> Locations] /\ lock \in [Events -> Workers \cup {NoWorker, Orphan}]
  BY OutboxParameters DEF TypeOK
<1>1. CASE Tick
  BY <1>1, IdlePays DEF Tick
<1>2. ASSUME NEW f \in Events, Publish(f) \/ ReleaseOrphan(f) PROVE StepPays
  <2>1. UNCHANGED <<okNames, hand, runs, faults, pc>>
    BY <1>2 DEF Publish, ReleaseOrphan, row
  <2>2. \A e \in Events : lock'[e] = lock[e] \/ {lock[e], lock'[e]} \cap Workers = {}
    BY <1>0, <1>2 DEF Publish, ReleaseOrphan
  <2> QED
    BY <2>1, <2>2, IdlePays
<1>3. ASSUME NEW w \in Workers, Start(w) \/ Connect(w) \/ BatchDone(w) \/ PollTimeout(w)
      PROVE  StepPays
  <2>1. UNCHANGED <<okNames, hand, runs, faults, lock>>
    BY <1>3 DEF Start, Connect, BatchDone, PollTimeout, row
  <2>2. pc[w] # "dispatch" /\ \E l \in Locations \ {"dispatch"} : pc' = [pc EXCEPT ![w] = l]
    BY <1>3 DEF Start, Connect, BatchDone, PollTimeout, Wait, Goto, Locations
  <2>3. \A v \in Workers : (pc'[v] = "dispatch") <=> (pc[v] = "dispatch")
    BY <1>0, <2>2
  <2> QED
    BY <2>1, <2>3, IdlePays
<1>4. ASSUME NEW w \in Workers, SkipHandler(w) \/ RunHandler(w) \/ HandlerFailsLate(w)
      PROVE  StepPays
  <2>1. Progress(w) /\ EffectPaid(w)
    BY <1>4 DEF SkipHandler, RunHandler, HandlerFailsLate, CountFault, row, Progress, EffectPaid
  <2> QED
    BY <2>1, ProgressPays
<1>5. ASSUME NEW w \in Workers, Commit(w) \/ CommitUnacked(w) PROVE StepPays
  <2>1. /\ HoldsLock(w) /\ WriteVerdict(w) /\ Unlock(w) /\ UNCHANGED runs
        /\ \E l \in Locations \ {"dispatch"} : LetGo(w, l)
        /\ faults' \in {faults, faults + 1}
    BY <1>5 DEF Commit, CommitUnacked, CountFault, Locations
  <2> QED
    BY <2>1, VerdictPays
<1>6. ASSUME NEW w \in Workers, DbError(w) \/ Crash(w) PROVE StepPays
  <2>1. /\ UNCHANGED <<okNames, runs>> /\ faults' = faults + 1
        /\ \E l \in Locations \ {"dispatch"} : LetGo(w, l)
    BY <1>6 DEF DbError, Crash, CountFault, row, Locations
  <2>2. \A e \in Events : IF lock[e] = w THEN lock'[e] \notin Workers ELSE lock'[e] = lock[e]
    BY <1>0, <1>6 DEF DbError, Crash, Unlock
  <2> QED
    BY <2>1, <2>2, LetGoPays
<1>7. ASSUME NEW w \in Workers, CommitOnLostConnection(w) PROVE StepPays
  <2>1. /\ UNCHANGED <<okNames, runs, lock, faults>>
        /\ \E l \in Locations \ {"dispatch"} : LetGo(w, l)
    BY <1>7 DEF CommitOnLostConnection, row, Locations
  <2>2. \A e \in Events : lock[e] # w
    BY <1>7 DEF CommitOnLostConnection, HoldsLock, DispatchesSound, LockedIsDispatched
  <2> QED
    BY <2>1, <2>2, LetGoPays
<1>8. ASSUME NEW w \in Workers, Claim(w) \/ SessionLost(w) PROVE StepPays
  BY <1>8, ClaimPays, SessionLostPays
<1>9. CASE UNCHANGED vars
  BY <1>9, IdlePays DEF vars
<1> QED
  BY <1>1, <1>2, <1>3, <1>4, <1>5, <1>6, <1>7, <1>8, <1>9 DEF Next, Work, Fault

\* Nothing has run and nobody is at work at the start.
LEMMA InitRepetitionInv == Init => RepetitionInv
<1> SUFFICES ASSUME Init PROVE RepetitionInv
  OBVIOUS
<1>1. /\ \A w \in Workers : pc[w] # "dispatch"
      /\ \A e \in Events, w \in Workers : lock[e] # w
  BY OutboxParameters DEF Init
<1>2. ASSUME NEW e \in Events, NEW h \in Handlers PROVE Paid(e, h)
  <2>1. Ghosts(e, h) = {}
    BY <1>1 DEF Ghosts, MayRun
  <2>2. runs[e][h] = 0 /\ faults = 0 /\ Open(e, h) \in 0 .. 1
    BY DEF Init, Open
  <2> QED
    BY <2>1, <2>2, FS_EmptySet DEF Paid
<1> QED
  BY <1>1, <1>2 DEF RepetitionInv, LockedIsDispatched

\* ADR 0002, "a retry skips handlers that already succeeded": for every number of
\* replicas and of faults, a handler runs for an event at most once more than there
\* have been faults.
THEOREM RepetitionsArePaid == UniqueNames /\ Spec => []RepetitionsAreFaults
<1> SUFFICES ASSUME UniqueNames PROVE Spec => []RepetitionsAreFaults
  OBVIOUS
<1>1. RowInv /\ RepetitionInv /\ [Next]_vars => RepetitionInv'
  <2> SUFFICES ASSUME RowInv, RepetitionInv, [Next]_vars PROVE RepetitionInv'
    OBVIOUS
  <2>1. StepPays
    BY NextPays DEF RowInv, RepetitionInv, DispatchesSound
  <2>2. \A e \in Events, h \in Handlers : Paid(e, h)'
    BY <2>1, PaysKeepsPaid DEF StepPays, RowInv, RepetitionInv
  <2> QED
    BY <2>1, <2>2 DEF StepPays, RepetitionInv, DispatchesSound
<1>2. TypeOK /\ RepetitionInv => RepetitionsAreFaults
  <2> SUFFICES ASSUME TypeOK, RepetitionInv, NEW e \in Events, NEW h \in Handlers
               PROVE  runs[e][h] <= 1 + faults
    BY DEF RepetitionsAreFaults
  <2>1. /\ runs[e][h] \in Nat /\ faults \in Nat /\ Open(e, h) \in 0 .. 1
        /\ Cardinality(Ghosts(e, h)) \in Nat
    BY FS_CardinalityType, OutboxParameters DEF TypeOK, RepetitionInv, Paid, Open
  <2>2. runs[e][h] + Cardinality(Ghosts(e, h)) + Open(e, h) <= 1 + faults
    BY DEF RepetitionInv, Paid
  <2> QED
    BY <2>1, <2>2
<1>3. RowInv => TypeOK
  BY DEF RowInv
<1> QED
  BY <1>1, <1>2, <1>3, InitRepetitionInv, AlwaysRowInv, PTL DEF Spec

=============================================================================
