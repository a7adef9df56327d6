---------------------------- MODULE OutboxWorker ----------------------------
(***************************************************************************)
(* The transactional outbox of apsis: the table outbox_events, the         *)
(* producers that publish into it (core/events/bus.py), the OutboxWorker   *)
(* of every replica that drains it (core/events/worker.py) and the         *)
(* dispatcher that runs an event's handlers (core/events/dispatcher.py).   *)
(*                                                                         *)
(* One event is processed per transaction: SELECT ... FOR UPDATE SKIP      *)
(* LOCKED, the handlers, the UPDATE of the row and the commit.  The lock   *)
(* belongs to the database connection, so it may be gone before the worker *)
(* notices, while the handlers' own transactions live on.                  *)
(***************************************************************************)
EXTENDS Integers, Sequences, FiniteSets

CONSTANTS
  Workers,      \* the replicas' outbox workers
  Events,       \* the events ever published
  Handlers,     \* handler functions
  HandlersOf,   \* the handlers registered for each event's type, in order
  Name,         \* handler.__name__
  MaxRetries,   \* max_retries of a row (settings.OUTBOX_MAX_RETRIES)
  Jitter,       \* upper end of the random part of the backoff
  MaxBackoff,   \* MAX_BACKOFF_HOURS
  Poll,         \* settings.OUTBOX_POLL_INTERVAL_SECONDS
  BatchSize,    \* BATCH_SIZE
  MaxAge,       \* bound: how long past its instant an overdue event is told
                \* apart from a younger one
  MaxFaults,    \* bound: faults in a behaviour
  NoWorker,     \* the row is not locked
  Orphan,       \* the row is locked by a session whose client is gone
  NoEvent       \* the worker holds no event

ASSUME OutboxParameters ==
  /\ HandlersOf \in [Events -> Seq(Handlers)]
  /\ DOMAIN Name = Handlers
  /\ MaxRetries \in Nat \ {0}
  /\ Jitter \in Nat /\ MaxBackoff \in Nat \ {0}
  /\ Poll \in Nat /\ BatchSize \in Nat \ {0}
  /\ MaxAge \in Nat /\ MaxFaults \in Nat
  /\ NoWorker \notin Workers /\ Orphan \notin Workers /\ NoWorker # Orphan
  /\ NoEvent \notin Events

Elements(seq) == {seq[i] : i \in DOMAIN seq}

\* handler_state is keyed by __name__: a handler is known by its name alone.
UniqueNames ==
  \A e \in Events : \A i, k \in DOMAIN HandlersOf[e] :
    Name[HandlersOf[e][i]] = Name[HandlersOf[e][k]] => i = k

VARIABLES
  status,       \* outbox_events.status, or "none" before the publication
  retryCount,   \* outbox_events.retry_count
  dueIn,        \* scheduled_at - now, counted down to -MaxAge
  okNames,      \* outbox_events.handler_state: the names with status "ok"
  lock,         \* who holds the row's lock
  pc,           \* where each worker's loop stands
  pollLeft,     \* time left of the wait in progress
  notified,     \* a NOTIFY has reached the worker since it began to wait
  left,         \* events the batch in progress may still take
  hand,         \* the event in hand and how far its dispatch has come
  runs,         \* how often each handler has taken effect for each event
  faults        \* faults so far

row    == <<status, retryCount, dueIn, okNames>>
waits  == <<pollLeft, notified>>
vars   == <<status, retryCount, dueIn, okNames, lock, pc, pollLeft, notified,
            left, hand, runs, faults>>

Names     == {Name[h] : h \in Handlers}
Locations == {"down", "connect", "wait", "batch", "dispatch"}
Listening == {"wait", "batch", "dispatch"}
Terminal  == {"PROCESSED", "FAILED"}

\* The event, its retry_count and its completed handlers as they were read,
\* the next handler, the names new_state has as "ok", a handler has failed.
Hands == [event : Events \cup {NoEvent}, retry : 0 .. MaxRetries, ok : SUBSET Names,
          next : Nat \ {0}, state : SUBSET Names, failed : BOOLEAN]

Holding(e) == [event |-> e, retry |-> retryCount[e], ok |-> okNames[e],
               next |-> 1, state |-> okNames[e], failed |-> FALSE]

Empty == [event |-> NoEvent, retry |-> 0, ok |-> {},
          next |-> 1, state |-> {}, failed |-> FALSE]

TypeOK ==
  /\ status     \in [Events -> {"none", "PENDING"} \cup Terminal]
  /\ retryCount \in [Events -> 0 .. MaxRetries]
  /\ dueIn      \in [Events -> (-MaxAge) .. MaxBackoff]
  /\ okNames    \in [Events -> SUBSET Names]
  /\ lock       \in [Events -> Workers \cup {NoWorker, Orphan}]
  /\ pc         \in [Workers -> Locations]
  /\ pollLeft   \in [Workers -> 0 .. Poll]
  /\ notified   \in [Workers -> BOOLEAN]
  /\ left       \in [Workers -> 0 .. BatchSize]
  /\ hand       \in [Workers -> Hands]
  /\ runs       \in [Events -> [Handlers -> Nat]]
  /\ faults     \in 0 .. MaxFaults
  /\ \A w \in Workers : pc[w] = "dispatch" =>
       /\ hand[w].event \in Events
       /\ hand[w].next <= Len(HandlersOf[hand[w].event]) + 1

Init ==
  /\ status     = [e \in Events |-> "none"]
  /\ retryCount = [e \in Events |-> 0]
  /\ dueIn      = [e \in Events |-> 0]
  /\ okNames    = [e \in Events |-> {}]
  /\ lock       = [e \in Events |-> NoWorker]
  /\ pc         = [w \in Workers |-> "down"]
  /\ pollLeft   = [w \in Workers |-> 0]
  /\ notified   = [w \in Workers |-> FALSE]
  /\ left       = [w \in Workers |-> 0]
  /\ hand       = [w \in Workers |-> Empty]
  /\ runs       = [e \in Events |-> [h \in Handlers |-> 0]]
  /\ faults     = 0

-----------------------------------------------------------------------------
(* The producer.                                                            *)

\* The domain transaction that publishes e commits: the row appears, due at
\* once, and the NOTIFY reaches every connection that listens.
Publish(e) ==
  /\ status[e] = "none"
  /\ status' = [status EXCEPT ![e] = "PENDING"]
  /\ notified' = [w \in Workers |-> notified[w] \/ pc[w] \in Listening]
  /\ UNCHANGED <<retryCount, dueIn, okNames, lock, pc, pollLeft, left, hand, runs, faults>>

-----------------------------------------------------------------------------
(* The worker's connection and its waits.                                   *)

Goto(w, l) == pc' = [pc EXCEPT ![w] = l]

Start(w) ==
  /\ pc[w] = "down"
  /\ Goto(w, "connect")
  /\ UNCHANGED <<row, lock, waits, left, hand, runs, faults>>

\* Begins a wait of one poll interval.
Wait(w) ==
  /\ Goto(w, "wait")
  /\ pollLeft' = [pollLeft EXCEPT ![w] = Poll]
  /\ notified' = [notified EXCEPT ![w] = FALSE]

Connect(w) ==
  /\ pc[w] = "connect"
  /\ Wait(w)
  /\ UNCHANGED <<row, lock, left, hand, runs, faults>>

\* The wait is on the shutdown event alone, so only its timeout ends it
\* (_on_notify logs); the heartbeat succeeds and a batch begins.
PollTimeout(w) ==
  /\ pc[w] = "wait"
  /\ pollLeft[w] = 0
  /\ Goto(w, "batch")
  /\ left' = [left EXCEPT ![w] = BatchSize]
  /\ UNCHANGED <<row, lock, waits, hand, runs, faults>>

-----------------------------------------------------------------------------
(* One event, one transaction.                                              *)

\* The definitions named Wrong... are deliberate mistakes: what the worker would
\* be with one plausible bug.  No specification uses them; each shows that a
\* property is able to tell the bug from the code.

\* WHERE status = 'PENDING' AND scheduled_at <= now ... SKIP LOCKED
Claimable(e) ==
  /\ status[e] = "PENDING"
  /\ dueIn[e] <= 0
  /\ lock[e] = NoWorker

\* ORDER BY scheduled_at LIMIT 1 FOR UPDATE
Claim(w) ==
  /\ pc[w] = "batch"
  /\ left[w] > 0
  /\ \E e \in Events :
       /\ Claimable(e)
       /\ \A f \in Events : Claimable(f) => dueIn[e] <= dueIn[f]
       /\ lock' = [lock EXCEPT ![e] = w]
       /\ hand' = [hand EXCEPT ![w] = Holding(e)]
  /\ Goto(w, "dispatch")
  /\ UNCHANGED <<row, waits, left, runs, faults>>

BatchDone(w) ==
  /\ pc[w] = "batch"
  /\ left[w] = 0 \/ \A e \in Events : ~Claimable(e)
  /\ Wait(w)
  /\ UNCHANGED <<row, lock, left, hand, runs, faults>>

\* The handlers of w's event, and the one that is next.
Duties(w)      == HandlersOf[hand[w].event]
NextHandler(w) == Duties(w)[hand[w].next]
Done(w)        == Name[NextHandler(w)] \in hand[w].ok

Dispatching(w) == pc[w] = "dispatch" /\ hand[w].next \in DOMAIN Duties(w)
Dispatched(w)  == pc[w] = "dispatch" /\ hand[w].next = Len(Duties(w)) + 1

\* A handler that is recorded as completed is not run again.
SkipHandler(w) ==
  /\ Dispatching(w)
  /\ Done(w)
  /\ hand' = [hand EXCEPT ![w].next = @ + 1]
  /\ UNCHANGED <<row, lock, pc, waits, left, runs, faults>>

\* all_succeeded as the outcome of the last handler.
WrongRecord(w, succeeded) ==
  LET h    == hand[w]
      name == {Name[NextHandler(w)]}
  IN  hand' = [hand EXCEPT ![w] = [h EXCEPT
        !.next = h.next + 1,
        !.state = IF succeeded THEN h.state \cup name ELSE h.state \ name,
        !.failed = ~succeeded]]

\* What dispatch records of the next handler: an exception of one handler does
\* not stop those after it.
Record(w, succeeded) ==
  LET h    == hand[w]
      name == {Name[NextHandler(w)]}
  IN  hand' = [hand EXCEPT ![w] = [h EXCEPT
        !.next = h.next + 1,
        !.state = IF succeeded THEN h.state \cup name ELSE h.state \ name,
        !.failed = h.failed \/ ~succeeded]]

TakesEffect(e, h) == runs' = [runs EXCEPT ![e][h] = @ + 1]

\* The handler commits its own transaction and returns, or fails before.
RunHandler(w) ==
  /\ Dispatching(w)
  /\ ~Done(w)
  /\ \/ TakesEffect(hand[w].event, NextHandler(w)) /\ Record(w, TRUE)
     \/ UNCHANGED runs /\ Record(w, FALSE)
  /\ UNCHANGED <<row, lock, pc, waits, left, faults>>

\* The exponential without its cap.
WrongBackoff(retries) == 2 ^ retries .. 2 ^ retries + Jitter

\* min(2 ** retry_count + uniform(0, 5), MAX_BACKOFF_HOURS * 3600)
Backoff(retries) ==
  LET capped(d) == IF d <= MaxBackoff THEN d ELSE MaxBackoff
  IN  capped(2 ^ retries) .. capped(2 ^ retries + Jitter)

\* The row after a dispatch: all its handlers have succeeded, or one has failed
\* and the event is retried or, the last time, given up.
Verdict(w, names, retries, last) ==
  LET e == hand[w].event
      close  == status' = [status EXCEPT ![e] = "PROCESSED"] /\ UNCHANGED <<retryCount, dueIn>>
      count  == retryCount' = [retryCount EXCEPT ![e] = retries]
      giveUp == status' = [status EXCEPT ![e] = "FAILED"] /\ UNCHANGED dueIn
      retry  == \E d \in Backoff(retries) : dueIn' = [dueIn EXCEPT ![e] = d]
  IN  /\ okNames' = [okNames EXCEPT ![e] = names]
      /\ \/ ~hand[w].failed /\ close
         \/ hand[w].failed /\ last /\ count /\ giveUp
         \/ hand[w].failed /\ ~last /\ count /\ retry /\ UNCHANGED status

\* The retries are counted one too many; never counted; the handlers' state is
\* changed in place and not flagged as modified.
WrongVerdictLate(w) ==
  Verdict(w, hand[w].state, hand[w].retry + 1, hand[w].retry + 1 > MaxRetries)
WrongVerdictUncounted(w) ==
  Verdict(w, hand[w].state, hand[w].retry, FALSE)
WrongVerdictUnflagged(w) ==
  Verdict(w, okNames[hand[w].event], hand[w].retry + 1, hand[w].retry + 1 >= MaxRetries)

\* The ORM writes the values computed from the row as it was read.
WriteVerdict(w) ==
  Verdict(w, hand[w].state, hand[w].retry + 1, hand[w].retry + 1 >= MaxRetries)

\* The commit goes through on a fresh connection, as if no lock were needed.
WrongHoldsLock(w) == hand[w].event \in Events

HoldsLock(w) == hand[w].event \in Events /\ lock[hand[w].event] = w

Unlock(w) == lock' = [e \in Events |-> IF lock[e] = w THEN NoWorker ELSE lock[e]]

\* The session of the event ends and the worker goes on at l.
LetGo(w, l) ==
  /\ hand' = [hand EXCEPT ![w] = Empty]
  /\ Goto(w, l)

Commit(w) ==
  /\ Dispatched(w)
  /\ HoldsLock(w)
  /\ WriteVerdict(w)
  /\ Unlock(w)
  /\ LetGo(w, "batch")
  /\ left' = [left EXCEPT ![w] = @ - 1]
  /\ UNCHANGED <<waits, runs, faults>>

\* The session's connection died during the dispatch: the flush raises, and
\* the loop closes its connection and connects again.
CommitOnLostConnection(w) ==
  /\ Dispatched(w)
  /\ ~HoldsLock(w)
  /\ LetGo(w, "connect")
  /\ UNCHANGED <<row, lock, waits, left, runs, faults>>

-----------------------------------------------------------------------------
(* Faults.                                                                  *)

CountFault ==
  /\ faults < MaxFaults
  /\ faults' = faults + 1

\* wait_for cuts off a handler whose transaction has just committed, or the
\* handler raises after its commit: the effect stays, the dispatch has failed.
HandlerFailsLate(w) ==
  /\ Dispatching(w)
  /\ ~Done(w)
  /\ TakesEffect(hand[w].event, NextHandler(w))
  /\ Record(w, FALSE)
  /\ CountFault
  /\ UNCHANGED <<row, lock, pc, waits, left>>

\* The server drops the session: the transaction is rolled back and its lock
\* is free, and the worker goes on with its handlers.
SessionLost(w) ==
  /\ pc[w] = "dispatch"
  /\ HoldsLock(w)
  /\ CountFault
  /\ Unlock(w)
  /\ UNCHANGED <<row, pc, waits, left, hand, runs>>

\* The heartbeat, the claim or the commit fails without effect.
DbError(w) ==
  /\ pc[w] \in {"wait", "batch"} \/ Dispatched(w)
  /\ CountFault
  /\ Unlock(w)
  /\ LetGo(w, "connect")
  /\ UNCHANGED <<row, waits, left, runs>>

\* The commit is applied but its acknowledgement is lost.
CommitUnacked(w) ==
  /\ Dispatched(w)
  /\ HoldsLock(w)
  /\ CountFault
  /\ WriteVerdict(w)
  /\ Unlock(w)
  /\ LetGo(w, "connect")
  /\ UNCHANGED <<waits, left, runs>>

\* The process dies or is stopped.  The server may take its time to notice
\* that the client of an open transaction is gone.
Crash(w) ==
  /\ pc[w] # "down"
  /\ CountFault
  /\ lock' = [e \in Events |-> IF lock[e] = w THEN Orphan ELSE lock[e]]
  /\ LetGo(w, "down")
  /\ UNCHANGED <<row, waits, left, runs>>

ReleaseOrphan(e) ==
  /\ lock[e] = Orphan
  /\ lock' = [lock EXCEPT ![e] = NoWorker]
  /\ UNCHANGED <<row, pc, waits, left, hand, runs, faults>>

-----------------------------------------------------------------------------
Tick ==
  /\ dueIn' = [e \in Events |->
       IF status[e] = "PENDING" /\ dueIn[e] > -MaxAge THEN dueIn[e] - 1 ELSE dueIn[e]]
  /\ pollLeft' = [w \in Workers |->
       IF pc[w] = "wait" /\ pollLeft[w] > 0 THEN pollLeft[w] - 1 ELSE pollLeft[w]]
  /\ UNCHANGED <<status, retryCount, okNames, lock, pc, notified, left, hand,
                 runs, faults>>

Work(w) ==
  \/ Connect(w)
  \/ PollTimeout(w)
  \/ Claim(w)
  \/ BatchDone(w)
  \/ SkipHandler(w)
  \/ RunHandler(w)
  \/ Commit(w)
  \/ CommitOnLostConnection(w)

Fault(w) ==
  \/ HandlerFailsLate(w)
  \/ SessionLost(w)
  \/ DbError(w)
  \/ CommitUnacked(w)
  \/ Crash(w)

Next ==
  \/ Tick
  \/ \E e \in Events : Publish(e) \/ ReleaseOrphan(e)
  \/ \E w \in Workers : Start(w) \/ Work(w) \/ Fault(w)

Spec == Init /\ [][Next]_vars

\* A running worker is scheduled, time passes, and the server ends the
\* sessions of clients that are gone.  Nothing makes a handler succeed, nobody
\* has to publish, and no replica has to be started.
FairSpec ==
  /\ Spec
  /\ WF_vars(Tick)
  /\ \A e \in Events : WF_vars(ReleaseOrphan(e))
  /\ \A w \in Workers : WF_vars(Work(w))

-----------------------------------------------------------------------------
(* Safety.                                                                  *)

\* ADR 0002, "a retry skips handlers that already succeeded": every repetition
\* of a handler's effect is the price of a fault, never of an ordinary retry
\* or of two replicas at work.
RepetitionsAreFaults ==
  \A e \in Events, h \in Handlers : runs[e][h] <= 1 + faults

\* Dead-lettering is exact: an event is tried MaxRetries times, is FAILED only
\* then and only with a handler still to succeed.
DeadLetterIsExact ==
  \A e \in Events :
    /\ status[e] \in {"none", "PENDING", "PROCESSED"} => retryCount[e] < MaxRetries
    /\ status[e] = "FAILED" =>
         /\ retryCount[e] = MaxRetries
         /\ \E h \in Elements(HandlersOf[e]) : Name[h] \notin okNames[e]

\* The verdict is computed from the row as it was read before the handlers
\* ran (worker.py:132,151,159); under the lock it is still the row.
LockedRowIsAsRead ==
  \A w \in Workers : HoldsLock(w) =>
    LET e == hand[w].event
    IN  /\ status[e] = "PENDING"
        /\ hand[w].retry = retryCount[e]
        /\ hand[w].ok = okNames[e]

\* README.md:30, "woken by LISTEN/NOTIFY": a worker that has been notified does
\* not sleep on.
NotifyWakes ==
  [][\A w \in Workers : pc[w] = "wait" /\ notified[w] => pollLeft'[w] >= pollLeft[w]]_vars

-----------------------------------------------------------------------------
(* What the publishers see of the outbox.                                   *)

Seen(s) == CASE s = "none"      -> "none"
             [] s = "PENDING"   -> "open"
             [] s = "PROCESSED" -> "delivered"
             [] s = "FAILED"    -> "dead"

Delivery == INSTANCE OutboxDelivery WITH
  Duty  <- [e \in Events |-> Elements(HandlersOf[e])],
  state <- [e \in Events |-> Seen(status[e])],
  done  <- [e \in Events |-> {h \in Handlers : runs[e][h] > 0}]

\* ADR 0001: polling, locks, lost sessions, retries and dead-lettering amount to
\* at-least-once delivery with a final verdict: an event is closed as PROCESSED
\* only when each of its handlers has taken effect, over however many dispatches
\* and workers, and whatever a worker that has lost its session still does.
ImplementsDelivery == Delivery!Spec

-----------------------------------------------------------------------------
(* Liveness.                                                                *)

SomeWorkerStaysUp == \E w \in Workers : <>[](pc[w] # "down")

\* Every published event is closed: no lock, lost notification, failing
\* handler or full batch keeps it PENDING for ever.
EventsAreClosed ==
  SomeWorkerStaysUp =>
    \A e \in Events : status[e] = "PENDING" ~> status[e] \in Terminal

=============================================================================
