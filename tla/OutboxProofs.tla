---------------------------- MODULE OutboxProofs ----------------------------
(***************************************************************************)
(* Theorems about Outbox, for any number of events, replicas, retries and  *)
(* stops.                                                                  *)
(***************************************************************************)
EXTENDS Outbox, FiniteSetTheorems, TLAPS

-----------------------------------------------------------------------------
(* Type correctness.                                                       *)

\* Bump stays within its cap.
LEMMA BumpType ==
  ASSUME NEW cap \in Nat, NEW n \in 0 .. cap
  PROVE  /\ Bump(n, cap) \in 0 .. cap
         /\ Bump(n, cap) = n \/ (n < cap /\ Bump(n, cap) = n + 1)
  BY DEF Bump

\* The events of a batch are PENDING rows.
LEMMA FetchedIsPending == Fetched \subseteq Pending /\ Pending \subseteq Events
  BY DEF Fetched, Oldest, Pending

\* The retry counts a batch carries are those of the table.
LEMMA SeenType ==
  ASSUME TypeOK
  PROVE  [e \in Events |-> IF e \in Fetched THEN retry_count[e] ELSE 0]
           \in [Events -> 0 .. MaxRetries]
  BY OutboxAssumption DEF TypeOK

LEMMA InitTypeOK == Init => TypeOK
  BY OutboxAssumption DEF Init, TypeOK, Statuses, Places, NoEvent

LEMMA NextTypeOK == TypeOK /\ [Next]_vars => TypeOK'
<1> SUFFICES ASSUME TypeOK, [Next]_vars
             PROVE  TypeOK'
  OBVIOUS
<1> USE OutboxAssumption
<1>1. ASSUME NEW e \in Events, Insert(e)
      PROVE  TypeOK'
  BY <1>1 DEF TypeOK, Insert, inMemory, Statuses
<1>2. ASSUME NEW w \in Workers, FetchPending(w)
      PROVE  TypeOK'
  <2>1. Fetched \in SUBSET Events
    BY FetchedIsPending
  <2>2. QED
    BY <1>2, <2>1, SeenType DEF TypeOK, FetchPending, table, Places
<1>3. ASSUME NEW w \in Workers, NextEvent(w)
      PROVE  TypeOK'
  BY <1>3 DEF TypeOK, NextEvent, table, Places
<1>4. ASSUME NEW w \in Workers, BatchDone(w)
      PROVE  TypeOK'
  BY <1>4 DEF TypeOK, BatchDone, AtRest, table, Places
<1>5. ASSUME NEW w \in Workers, PublishConfirmed(w)
      PROVE  TypeOK'
  <2>1. current[w] \in Events
    BY <1>5 DEF TypeOK, PublishConfirmed
  <2>2. Bump(accepted[current[w]], CopyCap) \in 0 .. CopyCap
    BY <2>1, BumpType DEF TypeOK
  <2>3. QED
    BY <1>5, <2>1, <2>2 DEF TypeOK, PublishConfirmed, table, Places
<1>6. ASSUME NEW w \in Workers, PublishAttemptFails(w)
      PROVE  TypeOK'
  <2>1. current[w] \in Events
    BY <1>6 DEF TypeOK, PublishAttemptFails
  <2>2. /\ Bump(accepted[current[w]], CopyCap) \in 0 .. CopyCap
        /\ Bump(failures[current[w]], MaxRetries) \in 0 .. MaxRetries
    BY <2>1, BumpType DEF TypeOK
  <2>3. accepted' \in [Events -> 0 .. CopyCap]
    BY <1>6, <2>1, <2>2 DEF TypeOK, PublishAttemptFails
  <2>4. CASE attempt[w] < PublishRetries /\ ~cancelled[w]
    <3>1. attempt' \in [Workers -> 0 .. PublishRetries]
      <4>1. attempt[w] \in 0 .. PublishRetries /\ attempt[w] < PublishRetries
        BY <2>4 DEF TypeOK
      <4>2. attempt[w] + 1 \in 0 .. PublishRetries
        BY <4>1
      <4>3. attempt' = [attempt EXCEPT ![w] = @ + 1]
        BY <1>6, <2>4 DEF PublishAttemptFails
      <4>4. QED
        BY <4>2, <4>3 DEF TypeOK
    <3>2. UNCHANGED <<table, pc, failures, todo, seen, current, cancelled, stops>>
      BY <1>6, <2>4 DEF PublishAttemptFails
    <3>3. QED
      BY <2>3, <3>1, <3>2 DEF TypeOK, table
  <2>5. CASE ~(attempt[w] < PublishRetries /\ ~cancelled[w])
    BY <1>6, <2>1, <2>2, <2>3, <2>5, ZenonT(60) DEF TypeOK, PublishAttemptFails, table, Places
  <2>6. QED
    BY <2>4, <2>5
<1>7. ASSUME NEW w \in Workers, IncrementRetry(w) \/ IncrementRetryError(w)
      PROVE  TypeOK'
  <2>1. current[w] \in Events
    BY <1>7 DEF TypeOK, IncrementRetry, IncrementRetryError
  <2>2. Bump(retry_count[current[w]], MaxRetries) \in 0 .. MaxRetries
    BY <2>1, BumpType DEF TypeOK
  <2>3. retry_count' \in [Events -> 0 .. MaxRetries]
    BY <1>7, <2>1, <2>2 DEF TypeOK, IncrementRetry, IncrementRetryError, table
  <2>4. AfterIncrement(w)
    BY <1>7 DEF IncrementRetry, IncrementRetryError
  <2>5. UNCHANGED <<status, accepted, failures, cancelled, stops>>
    BY <1>7 DEF IncrementRetry, IncrementRetryError, table
  <2>6. QED
    BY <2>1, <2>3, <2>4, <2>5 DEF TypeOK, AfterIncrement, EventDone, Places
<1>8. ASSUME NEW w \in Workers,
             \/ MarkFailed(w) \/ MarkFailedError(w)
             \/ MarkProcessed(w) \/ MarkProcessedError(w)
      PROVE  TypeOK'
  <2>1. status' \in [Events -> Statuses]
    BY <1>8 DEF TypeOK, MarkFailed, MarkFailedError, MarkProcessed, MarkProcessedError,
                SetStatus, Statuses, table
  <2>2. EventDone(w) /\ UNCHANGED <<retry_count, accepted, failures, cancelled, stops>>
    BY <1>8 DEF MarkFailed, MarkFailedError, MarkProcessed, MarkProcessedError, table
  <2>3. QED
    BY <2>1, <2>2 DEF TypeOK, EventDone, Places
<1>9. ASSUME NEW w \in Workers, CleanupProcessed(w)
      PROVE  TypeOK'
  BY <1>9 DEF TypeOK, CleanupProcessed, inMemory, Statuses
<1>10. ASSUME NEW w \in Workers, Lifecycle(w)
       PROVE  TypeOK'
  <2>1. UNCHANGED <<table, accepted, failures>>
    BY <1>10 DEF Lifecycle, Cancel, Stop, Crash, Restart, table
  <2>2. stops' \in 0 .. MaxStops
    BY <1>10 DEF TypeOK, Lifecycle, Cancel, Stop, Crash, Restart
  <2>3. cancelled' \in [Workers -> BOOLEAN]
    BY <1>10 DEF TypeOK, Lifecycle, Cancel, Stop, Crash, Restart
  <2>4. AtRest(w, "down") \/ AtRest(w, "idle") \/ UNCHANGED inMemory
    BY <1>10 DEF Lifecycle, Cancel, Stop, Crash, Restart
  <2>5. CASE AtRest(w, "down") \/ AtRest(w, "idle")
    <3>1. /\ pc' \in [Workers -> Places]
          /\ pc'[w] \in {"down", "idle"}
          /\ \A v \in Workers \ {w} : pc'[v] = pc[v] /\ current'[v] = current[v]
      BY <2>5 DEF TypeOK, AtRest, Places
    <3>2. /\ todo' \in [Workers -> SUBSET Events]
          /\ seen' \in [Workers -> [Events -> 0 .. MaxRetries]]
          /\ current' \in [Workers -> Events \union {NoEvent}]
          /\ attempt' \in [Workers -> 0 .. PublishRetries]
      <4>1. /\ 0 \in 0 .. PublishRetries
            /\ [e \in Events |-> 0] \in [Events -> 0 .. MaxRetries]
        OBVIOUS
      <4>2. /\ todo'    = [todo EXCEPT ![w] = {}]
            /\ seen'    = [seen EXCEPT ![w] = [e \in Events |-> 0]]
            /\ current' = [current EXCEPT ![w] = NoEvent]
            /\ attempt' = [attempt EXCEPT ![w] = 0]
        BY <2>5 DEF AtRest
      <4>3. QED
        BY <4>1, <4>2 DEF TypeOK
    <3>3. \A v \in Workers :
            pc'[v] \in {"publish", "confirmed", "publish_failed", "give_up"} => current'[v] \in Events
      <4> SUFFICES ASSUME NEW v \in Workers,
                          pc'[v] \in {"publish", "confirmed", "publish_failed", "give_up"}
                   PROVE  current'[v] \in Events
        OBVIOUS
      <4>1. v # w
        BY <3>1
      <4>2. pc'[v] = pc[v] /\ current'[v] = current[v]
        BY <3>1, <4>1
      <4>3. QED
        BY <4>2 DEF TypeOK
    <3>4. /\ status' \in [Events -> Statuses]
          /\ retry_count' \in [Events -> 0 .. MaxRetries]
          /\ accepted' \in [Events -> 0 .. CopyCap]
          /\ failures' \in [Events -> 0 .. MaxRetries]
      BY <2>1 DEF TypeOK, table
    <3>5. QED
      BY <2>2, <2>3, <3>1, <3>2, <3>3, <3>4 DEF TypeOK
  <2>6. CASE UNCHANGED inMemory
    BY <2>1, <2>2, <2>3, <2>6 DEF TypeOK, inMemory, table
  <2>7. QED
    BY <2>4, <2>5, <2>6
<1>11. CASE UNCHANGED vars
  BY <1>11 DEF TypeOK, vars
<1>12. QED
  BY <1>1, <1>2, <1>3, <1>4, <1>5, <1>6, <1>7, <1>8, <1>9, <1>10, <1>11 DEF Next, ProcessEvent

\* Every reachable state of the outbox has the types its code gives it.
THEOREM TypeCorrect == Spec => []TypeOK
  BY InitTypeOK, NextTypeOK, PTL DEF Spec

-----------------------------------------------------------------------------
(* Nothing is lost.  ConfirmedWasAccepted is the strengthening: the window  *)
(* between the confirm and MarkProcessed, which a crash may end.            *)

NothingLost == ConfirmedWasAccepted /\ ProcessedWasAccepted

\* A copy the broker has accepted is never taken back.
LEMMA AcceptedGrows ==
  ASSUME TypeOK, [Next]_vars, NEW e \in Events, accepted[e] > 0
  PROVE  accepted'[e] > 0
<1> USE OutboxAssumption
<1>1. CASE UNCHANGED accepted
  BY <1>1
<1>2. ASSUME NEW w \in Workers, pc[w] = "publish",
             accepted' = [accepted EXCEPT ![current[w]] = Bump(@, CopyCap)]
      PROVE  accepted'[e] > 0
  <2>1. current[w] \in Events
    BY <1>2 DEF TypeOK
  <2>2. Bump(accepted[current[w]], CopyCap) > 0
    BY <2>1 DEF TypeOK, Bump
  <2>3. QED
    BY <1>2, <2>1, <2>2 DEF TypeOK
<1>3. QED
  BY <1>1, <1>2
  DEF Next, vars, table, inMemory, Insert, FetchPending, NextEvent, BatchDone, ProcessEvent,
      PublishConfirmed, PublishAttemptFails, IncrementRetry, IncrementRetryError, MarkFailed,
      MarkFailedError, MarkProcessed, MarkProcessedError, CleanupProcessed, Lifecycle, Cancel,
      Stop, Crash, Restart

LEMMA NextNothingLost == TypeOK /\ NothingLost /\ [Next]_vars => NothingLost'
<1> SUFFICES ASSUME TypeOK, NothingLost, [Next]_vars
             PROVE  NothingLost'
  OBVIOUS
<1> USE OutboxAssumption
<1>1. ASSUME NEW w \in Workers, PublishConfirmed(w)
      PROVE  NothingLost'
  <2>1. current[w] \in Events /\ accepted' = [accepted EXCEPT ![current[w]] = Bump(@, CopyCap)]
    BY <1>1 DEF TypeOK, PublishConfirmed
  <2>2. accepted'[current[w]] > 0
    BY <2>1 DEF TypeOK, Bump
  <2>3. pc' = [pc EXCEPT ![w] = "confirmed"] /\ UNCHANGED <<status, current>>
    BY <1>1 DEF PublishConfirmed, table
  <2>4. ConfirmedWasAccepted'
    <3> SUFFICES ASSUME NEW v \in Workers, pc'[v] = "confirmed"
                 PROVE  accepted'[current'[v]] > 0
      BY DEF ConfirmedWasAccepted
    <3>1. CASE v = w
      BY <2>2, <2>3, <3>1
    <3>2. CASE v # w
      <4>1. pc[v] = "confirmed" /\ current'[v] = current[v]
        BY <2>3, <3>2 DEF TypeOK
      <4>2. current[v] \in Events /\ accepted[current[v]] > 0
        BY <4>1 DEF TypeOK, NothingLost, ConfirmedWasAccepted
      <4>3. QED
        BY <4>1, <4>2, AcceptedGrows
    <3>3. QED
      BY <3>1, <3>2
  <2>5. ProcessedWasAccepted'
    BY <2>3, AcceptedGrows DEF NothingLost, ProcessedWasAccepted
  <2>6. QED
    BY <2>4, <2>5 DEF NothingLost
<1>2. ASSUME NEW w \in Workers, MarkProcessed(w)
      PROVE  NothingLost'
  <2>1. pc[w] = "confirmed" /\ current[w] \in Events /\ accepted[current[w]] > 0
    BY <1>2 DEF TypeOK, MarkProcessed, NothingLost, ConfirmedWasAccepted
  <2>2. EventDone(w) /\ accepted' = accepted /\ SetStatus(current[w], "PROCESSED")
    BY <1>2 DEF MarkProcessed
  <2>3. ConfirmedWasAccepted'
    BY <2>2 DEF TypeOK, EventDone, NothingLost, ConfirmedWasAccepted
  <2>4. ProcessedWasAccepted'
    BY <2>1, <2>2 DEF TypeOK, SetStatus, NothingLost, ProcessedWasAccepted
  <2>5. QED
    BY <2>3, <2>4 DEF NothingLost
<1>3. ASSUME \A e \in Events :
               status'[e] \in {"PROCESSED", "CLEANED"} => status[e] \in {"PROCESSED", "CLEANED"},
             \A v \in Workers : pc'[v] = "confirmed" => pc[v] = "confirmed" /\ current'[v] = current[v]
      PROVE  NothingLost'
  <2>1. ConfirmedWasAccepted'
    <3> SUFFICES ASSUME NEW v \in Workers, pc'[v] = "confirmed"
                 PROVE  accepted'[current'[v]] > 0
      BY DEF ConfirmedWasAccepted
    <3>1. current[v] \in Events /\ accepted[current[v]] > 0 /\ current'[v] = current[v]
      BY <1>3 DEF TypeOK, NothingLost, ConfirmedWasAccepted
    <3>2. QED
      BY <3>1, AcceptedGrows
  <2>2. ProcessedWasAccepted'
    BY <1>3, AcceptedGrows DEF NothingLost, ProcessedWasAccepted
  <2>3. QED
    BY <2>1, <2>2 DEF NothingLost
<1>4. ASSUME NEW e \in Events, Insert(e)
      PROVE  NothingLost'
  BY <1>3, <1>4 DEF TypeOK, Insert, inMemory
<1>5. ASSUME NEW w \in Workers, FetchPending(w) \/ NextEvent(w) \/ BatchDone(w)
      PROVE  NothingLost'
  <2>1. status' = status
    BY <1>5 DEF FetchPending, NextEvent, BatchDone, table
  <2>2. ASSUME NEW v \in Workers, pc'[v] = "confirmed"
        PROVE  pc[v] = "confirmed" /\ current'[v] = current[v]
    BY <1>5, <2>2 DEF TypeOK, FetchPending, NextEvent, BatchDone, AtRest
  <2>3. QED
    BY <1>3, <2>1, <2>2
<1>6. ASSUME NEW w \in Workers, PublishAttemptFails(w)
      PROVE  NothingLost'
  BY <1>3, <1>6 DEF TypeOK, PublishAttemptFails, table
<1>7. ASSUME NEW w \in Workers, IncrementRetry(w) \/ IncrementRetryError(w)
      PROVE  NothingLost'
  <2>1. status' = status /\ AfterIncrement(w)
    BY <1>7 DEF IncrementRetry, IncrementRetryError, table
  <2>2. ASSUME NEW v \in Workers, pc'[v] = "confirmed"
        PROVE  pc[v] = "confirmed" /\ current'[v] = current[v]
    BY <2>1, <2>2 DEF TypeOK, AfterIncrement, EventDone
  <2>3. QED
    BY <1>3, <2>1, <2>2
<1>8. ASSUME NEW w \in Workers, MarkFailed(w) \/ MarkFailedError(w) \/ MarkProcessedError(w)
      PROVE  NothingLost'
  <2>1. EventDone(w) /\ (status' = status \/ SetStatus(current[w], "FAILED"))
    BY <1>8 DEF MarkFailed, MarkFailedError, MarkProcessedError, table
  <2>2. ASSUME NEW v \in Workers, pc'[v] = "confirmed"
        PROVE  pc[v] = "confirmed" /\ current'[v] = current[v]
    BY <2>1, <2>2 DEF TypeOK, EventDone
  <2>3. ASSUME NEW e \in Events, status'[e] \in {"PROCESSED", "CLEANED"}
        PROVE  status[e] \in {"PROCESSED", "CLEANED"}
    BY <2>1, <2>3 DEF TypeOK, SetStatus
  <2>4. QED
    BY <1>3, <2>2, <2>3
<1>9. ASSUME NEW w \in Workers, CleanupProcessed(w)
      PROVE  NothingLost'
  <2>1. UNCHANGED inMemory
    BY <1>9 DEF CleanupProcessed
  <2>2. ASSUME NEW e \in Events, status'[e] \in {"PROCESSED", "CLEANED"}
        PROVE  status[e] \in {"PROCESSED", "CLEANED"}
    BY <1>9, <2>2 DEF TypeOK, CleanupProcessed
  <2>3. QED
    BY <1>3, <2>1, <2>2 DEF inMemory
<1>10. ASSUME NEW w \in Workers, Lifecycle(w)
       PROVE  NothingLost'
  <2>1. status' = status
    BY <1>10 DEF Lifecycle, Cancel, Stop, Crash, Restart, table
  <2>2. ASSUME NEW v \in Workers, pc'[v] = "confirmed"
        PROVE  pc[v] = "confirmed" /\ current'[v] = current[v]
    BY <1>10, <2>2 DEF TypeOK, Lifecycle, Cancel, Stop, Crash, Restart, AtRest, inMemory
  <2>3. QED
    BY <1>3, <2>1, <2>2
<1>11. CASE UNCHANGED vars
  BY <1>3, <1>11 DEF vars
<1>12. QED
  BY <1>1, <1>2, <1>4, <1>5, <1>6, <1>7, <1>8, <1>9, <1>10, <1>11 DEF Next, ProcessEvent

\* A row that says PROCESSED, or was cleaned up, stands for an event the broker accepted,
\* for any number of replicas and whatever crashes, retries and failed statements occur.
THEOREM NoEventLost == Spec => []ProcessedWasAccepted
<1>1. Init => NothingLost
  BY DEF Init, NothingLost, ConfirmedWasAccepted, ProcessedWasAccepted
<1>2. NothingLost => ProcessedWasAccepted
  BY DEF NothingLost
<1>3. QED
  BY <1>1, <1>2, TypeCorrect, NextNothingLost, PTL DEF Spec

-----------------------------------------------------------------------------
(* No event is given up early.  RetryAccounting is the strengthening: a     *)
(* worker decides from the count it fetched, so the invariant has to say    *)
(* that this count is backed by that many failed publishes, the increments  *)
(* other workers have not written yet included.                             *)

Accounted == RetryAccounting /\ FailedOnlyAfterMaxRetries

\* Failing(e) is a finite set of workers.
LEMMA FailingFinite ==
  ASSUME NEW e \in Events
  PROVE  /\ Failing(e) \in SUBSET Workers
         /\ IsFiniteSet(Failing(e))
         /\ Cardinality(Failing(e)) \in Nat
  BY OutboxAssumption, FS_Subset, FS_CardinalityType DEF Failing

\* A worker in Failing(e) counts.
LEMMA FailingCounts ==
  ASSUME NEW e \in Events, NEW w \in Failing(e)
  PROVE  Cardinality(Failing(e)) >= 1
<1>1. Cardinality(Failing(e)) # 0
  BY FailingFinite, FS_EmptySet
<1>2. QED
  BY <1>1, FailingFinite

\* A step that changes neither count, adds no failing worker, and starts giving up or
\* marks FAILED only on the strength of what already holds, keeps the accounts.
LEMMA AccountingFrame ==
  ASSUME TypeOK, TypeOK', Accounted,
         UNCHANGED <<retry_count, failures>>,
         \A e \in Events : Failing(e)' \subseteq Failing(e),
         \A w \in Workers, e \in Events : seen'[w][e] <= retry_count[e],
         \A w \in Workers : pc'[w] = "give_up" => failures[current'[w]] = MaxRetries,
         \A e \in Events : status'[e] = "FAILED" => failures[e] = MaxRetries
  PROVE  Accounted'
<1>1. ASSUME NEW e \in Events
      PROVE  failures'[e] = MaxRetries \/ retry_count'[e] + Cardinality(Failing(e))' <= failures'[e]
  <2>1. Failing(e)' \in SUBSET Failing(e)
    OBVIOUS
  <2>2. /\ Cardinality(Failing(e)') <= Cardinality(Failing(e))
        /\ Cardinality(Failing(e)') \in Nat
        /\ Cardinality(Failing(e)) \in Nat
    BY <2>1, FailingFinite, FS_Subset, FS_CardinalityType
  <2>3. failures[e] = MaxRetries \/ retry_count[e] + Cardinality(Failing(e)) <= failures[e]
    BY DEF Accounted, RetryAccounting
  <2>4. retry_count[e] \in Nat /\ failures[e] \in Nat
    BY OutboxAssumption DEF TypeOK
  <2>5. QED
    BY <2>2, <2>3, <2>4
<1>2. RetryAccounting'
  BY <1>1 DEF RetryAccounting
<1>3. QED
  BY <1>2 DEF Accounted, FailedOnlyAfterMaxRetries

\* When Publish fails, the failure is counted before its increment is due.
LEMMA PublishFailureAccounted ==
  ASSUME TypeOK, TypeOK', Accounted, NEW w \in Workers, PublishAttemptFails(w)
  PROVE  Accounted'
<1> USE OutboxAssumption
<1>1. pc[w] = "publish" /\ current[w] \in Events /\ UNCHANGED <<status, retry_count, seen, current>>
  BY DEF TypeOK, PublishAttemptFails, table
<1>2. CASE UNCHANGED <<pc, failures>>
  BY <1>1, <1>2, AccountingFrame
  DEF Accounted, RetryAccounting, FailedOnlyAfterMaxRetries, Failing
<1>3. CASE /\ pc' = [pc EXCEPT ![w] = "publish_failed"]
           /\ failures' = [failures EXCEPT ![current[w]] = Bump(@, MaxRetries)]
  <2>1. ASSUME NEW e \in Events
        PROVE  failures'[e] = MaxRetries \/ retry_count'[e] + Cardinality(Failing(e))' <= failures'[e]
    <3>1. CASE e = current[w]
      <4>1. Failing(e)' = Failing(e) \union {w} /\ w \notin Failing(e)
        BY <1>1, <1>3, <3>1 DEF TypeOK, Failing
      <4>2. Cardinality(Failing(e)') = Cardinality(Failing(e)) + 1
        BY <4>1, FailingFinite, FS_AddElement
      <4>3. failures'[e] = Bump(failures[e], MaxRetries)
        BY <1>3, <3>1 DEF TypeOK
      <4>4. /\ retry_count[e] \in Nat /\ failures[e] \in 0 .. MaxRetries
            /\ Cardinality(Failing(e)) \in Nat
            /\ failures[e] = MaxRetries \/ retry_count[e] + Cardinality(Failing(e)) <= failures[e]
        BY FailingFinite DEF TypeOK, Accounted, RetryAccounting
      <4>5. failures'[e] = MaxRetries \/ (failures'[e] = failures[e] + 1 /\ failures[e] < MaxRetries)
        BY <4>3, <4>4 DEF Bump
      <4>6. QED
        BY <1>1, <4>2, <4>4, <4>5
    <3>2. CASE e # current[w]
      <4>1. Failing(e)' = Failing(e) /\ failures'[e] = failures[e]
        BY <1>1, <1>3, <3>2 DEF TypeOK, Failing
      <4>2. QED
        BY <1>1, <4>1 DEF Accounted, RetryAccounting
    <3>3. QED
      BY <3>1, <3>2
  <2>2. ASSUME NEW e \in Events, failures[e] = MaxRetries
        PROVE  failures'[e] = MaxRetries
    BY <1>1, <1>3, <2>2 DEF TypeOK, Bump
  <2>3. ASSUME NEW v \in Workers, pc'[v] = "give_up"
        PROVE  failures'[current'[v]] = MaxRetries
    <3>1. pc[v] = "give_up" /\ current[v] \in Events /\ current'[v] = current[v]
      BY <1>1, <1>3, <2>3 DEF TypeOK
    <3>2. QED
      BY <2>2, <3>1 DEF Accounted, RetryAccounting
  <2>4. \A v \in Workers, e \in Events : seen'[v][e] <= retry_count'[e]
    BY <1>1 DEF Accounted, RetryAccounting
  <2>5. RetryAccounting'
    BY <2>1, <2>3, <2>4 DEF RetryAccounting
  <2>6. FailedOnlyAfterMaxRetries'
    BY <1>1, <2>2 DEF Accounted, FailedOnlyAfterMaxRetries
  <2>7. QED
    BY <2>5, <2>6 DEF Accounted
<1>4. QED
  BY <1>2, <1>3 DEF PublishAttemptFails

\* A worker whose publish failed is backed by one failure more than it has seen.
LEMMA FailureBacksDecision ==
  ASSUME TypeOK, Accounted, NEW w \in Workers, pc[w] = "publish_failed",
         seen[w][current[w]] + 1 >= MaxRetries
  PROVE  failures[current[w]] = MaxRetries
<1> USE OutboxAssumption
<1> DEFINE e == current[w]
<1>1. e \in Events
  BY DEF TypeOK
<1>2. w \in Failing(e)
  BY DEF Failing
<1>3. Cardinality(Failing(e)) >= 1 /\ Cardinality(Failing(e)) \in Nat
  BY <1>1, <1>2, FailingCounts, FailingFinite
<1>4. /\ seen[w][e] \in Nat /\ retry_count[e] \in Nat /\ failures[e] \in 0 .. MaxRetries
      /\ seen[w][e] <= retry_count[e]
      /\ failures[e] = MaxRetries \/ retry_count[e] + Cardinality(Failing(e)) <= failures[e]
  BY <1>1 DEF TypeOK, Accounted, RetryAccounting
<1>5. QED
  BY <1>3, <1>4

\* IncrementRetry moves one failure from the pending increments to the row.
LEMMA IncrementAccounted ==
  ASSUME TypeOK, TypeOK', Accounted, NEW w \in Workers, IncrementRetry(w) \/ IncrementRetryError(w)
  PROVE  Accounted'
<1> USE OutboxAssumption
<1> DEFINE c == current[w]
<1>1. pc[w] = "publish_failed" /\ c \in Events /\ UNCHANGED <<status, failures, seen>> /\ AfterIncrement(w)
  BY DEF TypeOK, IncrementRetry, IncrementRetryError, AfterIncrement, EventDone, table
<1>2. retry_count' = retry_count \/ retry_count' = [retry_count EXCEPT ![c] = Bump(@, MaxRetries)]
  BY DEF IncrementRetry, IncrementRetryError, table
<1>3. ASSUME NEW v \in Workers, pc'[v] = "give_up"
      PROVE  failures'[current'[v]] = MaxRetries
  <2>1. CASE v = w
    <3>1. seen[w][c] + 1 >= MaxRetries /\ current' = current
      BY <1>1, <1>3, <2>1 DEF TypeOK, AfterIncrement, EventDone
    <3>2. QED
      BY <1>1, <2>1, <3>1, FailureBacksDecision
  <2>2. CASE v # w
    <3>1. pc[v] = "give_up" /\ current'[v] = current[v]
      BY <1>1, <1>3, <2>2 DEF TypeOK, AfterIncrement, EventDone
    <3>2. QED
      BY <1>1, <3>1 DEF Accounted, RetryAccounting
  <2>3. QED
    BY <2>1, <2>2
<1>4. ASSUME NEW e \in Events
      PROVE  /\ failures'[e] = MaxRetries \/ retry_count'[e] + Cardinality(Failing(e))' <= failures'[e]
             /\ retry_count[e] <= retry_count'[e]
  <2>1. /\ retry_count[e] \in 0 .. MaxRetries /\ failures[e] \in Nat
        /\ Cardinality(Failing(e)) \in Nat
        /\ failures[e] = MaxRetries \/ retry_count[e] + Cardinality(Failing(e)) <= failures[e]
    BY FailingFinite DEF TypeOK, Accounted, RetryAccounting
  <2>2. CASE e = c
    <3>1. Failing(e)' = Failing(e) \ {w} /\ w \in Failing(e)
      BY <1>1, <2>2 DEF TypeOK, Failing, AfterIncrement, EventDone, NoEvent
    <3>2. Cardinality(Failing(e)') = Cardinality(Failing(e)) - 1
      BY <3>1, FailingFinite, FS_RemoveElement
    <3>3. retry_count'[e] \in {retry_count[e], retry_count[e] + 1}
      BY <1>2, <2>2, <2>1 DEF TypeOK, Bump
    <3>4. QED
      BY <1>1, <2>1, <3>2, <3>3
  <2>3. CASE e # c
    <3>1. Failing(e)' = Failing(e) /\ retry_count'[e] = retry_count[e]
      BY <1>1, <1>2, <2>3 DEF TypeOK, Failing, AfterIncrement, EventDone
    <3>2. QED
      BY <1>1, <2>1, <3>1
  <2>4. QED
    BY <2>2, <2>3
<1>5. ASSUME NEW v \in Workers, NEW e \in Events
      PROVE  seen'[v][e] <= retry_count'[e]
  <2>1. seen[v][e] \in Nat /\ retry_count[e] \in Nat /\ retry_count'[e] \in Nat
    BY DEF TypeOK
  <2>2. seen[v][e] <= retry_count[e] /\ retry_count[e] <= retry_count'[e]
    BY <1>4 DEF Accounted, RetryAccounting
  <2>3. QED
    BY <1>1, <2>1, <2>2
<1>6. RetryAccounting'
  BY <1>3, <1>4, <1>5 DEF RetryAccounting
<1>7. QED
  BY <1>1, <1>6 DEF Accounted, FailedOnlyAfterMaxRetries

LEMMA NextAccounted == TypeOK /\ TypeOK' /\ Accounted /\ [Next]_vars => Accounted'
<1> SUFFICES ASSUME TypeOK, TypeOK', Accounted, [Next]_vars
             PROVE  Accounted'
  OBVIOUS
<1> USE OutboxAssumption
<1>1. /\ \A w \in Workers, e \in Events : seen[w][e] <= retry_count[e]
      /\ \A w \in Workers : pc[w] = "give_up" => failures[current[w]] = MaxRetries
      /\ \A e \in Events : status[e] = "FAILED" => failures[e] = MaxRetries
      /\ \A e \in Events : retry_count[e] \in Nat /\ 0 <= retry_count[e]
  BY DEF Accounted, RetryAccounting, FailedOnlyAfterMaxRetries, TypeOK
<1>2. ASSUME NEW e \in Events, Insert(e)
      PROVE  Accounted'
  BY <1>1, <1>2, AccountingFrame DEF TypeOK, Insert, inMemory, Failing
<1>3. ASSUME NEW w \in Workers, FetchPending(w)
      PROVE  Accounted'
  <2>1. UNCHANGED <<status, retry_count, failures, current>> /\ pc' = [pc EXCEPT ![w] = "loop"]
    BY <1>3 DEF FetchPending, table
  <2>2. \A v \in Workers, e \in Events : seen'[v][e] <= retry_count[e]
    BY <1>1, <1>3 DEF TypeOK, FetchPending
  <2>3. \A e \in Events : Failing(e)' \subseteq Failing(e)
    BY <2>1 DEF TypeOK, Failing
  <2>4. \A v \in Workers : pc'[v] = "give_up" => failures[current'[v]] = MaxRetries
    BY <1>1, <2>1 DEF TypeOK
  <2>5. QED
    BY <1>1, <2>1, <2>2, <2>3, <2>4, AccountingFrame
<1>4. ASSUME NEW w \in Workers, NextEvent(w)
      PROVE  Accounted'
  <2>1. UNCHANGED <<status, retry_count, failures, seen>> /\ pc' = [pc EXCEPT ![w] = "publish"]
    BY <1>4 DEF NextEvent, table
  <2>2. \A v \in Workers \ {w} : current'[v] = current[v]
    BY <1>4 DEF TypeOK, NextEvent
  <2>3. \A e \in Events : Failing(e)' \subseteq Failing(e)
    BY <2>1, <2>2 DEF TypeOK, Failing
  <2>4. \A v \in Workers : pc'[v] = "give_up" => failures[current'[v]] = MaxRetries
    BY <1>1, <2>1, <2>2 DEF TypeOK
  <2>5. QED
    BY <1>1, <2>1, <2>3, <2>4, AccountingFrame
<1>5. ASSUME NEW w \in Workers, PublishConfirmed(w)
      PROVE  Accounted'
  <2>1. UNCHANGED <<status, retry_count, failures, seen, current>> /\ pc' = [pc EXCEPT ![w] = "confirmed"]
    BY <1>5 DEF PublishConfirmed, table
  <2>2. \A e \in Events : Failing(e)' \subseteq Failing(e)
    BY <2>1 DEF TypeOK, Failing
  <2>3. \A v \in Workers : pc'[v] = "give_up" => failures[current'[v]] = MaxRetries
    BY <1>1, <2>1 DEF TypeOK
  <2>4. QED
    BY <1>1, <2>1, <2>2, <2>3, AccountingFrame
<1>6. ASSUME NEW w \in Workers, PublishAttemptFails(w)
      PROVE  Accounted'
  BY <1>6, PublishFailureAccounted
<1>7. ASSUME NEW w \in Workers, IncrementRetry(w) \/ IncrementRetryError(w)
      PROVE  Accounted'
  BY <1>7, IncrementAccounted
<1>8. ASSUME NEW w \in Workers,
             \/ MarkFailed(w) \/ MarkFailedError(w)
             \/ MarkProcessed(w) \/ MarkProcessedError(w)
      PROVE  Accounted'
  <2>1. EventDone(w) /\ UNCHANGED <<retry_count, failures>>
    BY <1>8 DEF MarkFailed, MarkFailedError, MarkProcessed, MarkProcessedError, table
  <2>2. UNCHANGED seen /\ pc' = [pc EXCEPT ![w] = "loop"] /\ current' = [current EXCEPT ![w] = NoEvent]
    BY <2>1 DEF EventDone
  <2>3. \A e \in Events : Failing(e)' \subseteq Failing(e)
    BY <2>2 DEF TypeOK, Failing, NoEvent
  <2>4. \A v \in Workers : pc'[v] = "give_up" => failures[current'[v]] = MaxRetries
    BY <1>1, <2>2 DEF TypeOK
  <2>5. ASSUME NEW e \in Events, status'[e] = "FAILED"
        PROVE  failures[e] = MaxRetries
    BY <1>1, <1>8, <2>5
    DEF TypeOK, MarkFailed, MarkFailedError, MarkProcessed, MarkProcessedError, SetStatus, table
  <2>6. QED
    BY <1>1, <2>1, <2>2, <2>3, <2>4, <2>5, AccountingFrame
<1>9. ASSUME NEW w \in Workers, CleanupProcessed(w)
      PROVE  Accounted'
  <2>1. UNCHANGED <<retry_count, failures, seen, pc, current>>
    BY <1>9 DEF CleanupProcessed, inMemory
  <2>2. \A e \in Events : status'[e] = "FAILED" => status[e] = "FAILED"
    BY <1>9 DEF TypeOK, CleanupProcessed
  <2>3. \A e \in Events : Failing(e)' \subseteq Failing(e)
    BY <2>1 DEF Failing
  <2>4. QED
    BY <1>1, <2>1, <2>2, <2>3, AccountingFrame
<1>10. ASSUME NEW w \in Workers, BatchDone(w) \/ Stop(w) \/ Crash(w) \/ Restart(w)
       PROVE  Accounted'
  <2>1. UNCHANGED <<status, retry_count, failures>> /\ (AtRest(w, "idle") \/ AtRest(w, "down"))
    BY <1>10 DEF BatchDone, Stop, Crash, Restart, table
  <2>2. /\ \A v \in Workers \ {w} : pc'[v] = pc[v] /\ current'[v] = current[v] /\ seen'[v] = seen[v]
        /\ pc'[w] \in {"idle", "down"}
        /\ seen'[w] = [e \in Events |-> 0]
    BY <2>1 DEF TypeOK, AtRest
  <2>3. \A v \in Workers, e \in Events : seen'[v][e] <= retry_count[e]
    BY <1>1, <2>2
  <2>4. \A e \in Events : Failing(e)' \subseteq Failing(e)
    BY <2>2 DEF Failing
  <2>5. \A v \in Workers : pc'[v] = "give_up" => failures[current'[v]] = MaxRetries
    BY <1>1, <2>2
  <2>6. QED
    BY <1>1, <2>1, <2>3, <2>4, <2>5, AccountingFrame
<1>11. ASSUME NEW w \in Workers, Cancel(w)
       PROVE  Accounted'
  BY <1>1, <1>11, AccountingFrame DEF Cancel, table, inMemory, Failing
<1>12. CASE UNCHANGED vars
  BY <1>1, <1>12, AccountingFrame DEF vars, Failing
<1>13. QED
  BY <1>2, <1>3, <1>4, <1>5, <1>6, <1>7, <1>8, <1>9, <1>10, <1>11, <1>12
  DEF Next, ProcessEvent, Lifecycle

\* An event is given up only after MaxRetries calls of Publish for it failed, with any
\* number of replicas deciding from counts they read before they published.
THEOREM GivenUpOnlyAfterMaxRetries == Spec => []FailedOnlyAfterMaxRetries
<1>1. Init => Accounted
  <2> SUFFICES ASSUME Init
               PROVE  Accounted
    OBVIOUS
  <2>1. \A e \in Events : Failing(e) = {}
    BY DEF Init, Failing
  <2>2. \A e \in Events : Cardinality(Failing(e)) = 0
    BY <2>1, FS_EmptySet
  <2>3. QED
    BY <2>2 DEF Init, Accounted, RetryAccounting, FailedOnlyAfterMaxRetries
<1>2. Accounted => FailedOnlyAfterMaxRetries
  BY DEF Accounted
<1>3. QED
  BY <1>1, <1>2, TypeCorrect, NextAccounted, PTL DEF Spec

-----------------------------------------------------------------------------
(* The outbox implements EventDelivery.                                    *)

\* A step that settles nothing and records nothing maps to an Accept or to a stutter.
LEMMA AcceptStep ==
  ASSUME TypeOK, UNCHANGED status,
         \/ UNCHANGED accepted
         \/ \E e \in Events : /\ status[e] # "none"
                              /\ accepted' = [accepted EXCEPT ![e] = Bump(@, CopyCap)]
  PROVE  Delivery!Next \/ UNCHANGED Delivery!abstractVars
<1> USE OutboxAssumption
<1>1. UNCHANGED <<RecordedEvents, [e \in Events |-> Outcome(status[e])]>>
  BY DEF RecordedEvents
<1>2. CASE UNCHANGED accepted
  BY <1>1, <1>2 DEF Delivery!abstractVars
<1>3. ASSUME NEW e \in Events, status[e] # "none",
             accepted' = [accepted EXCEPT ![e] = Bump(@, CopyCap)]
      PROVE  Delivery!Next \/ UNCHANGED Delivery!abstractVars
  <2>1. CASE accepted[e] < CopyCap
    <3>1. accepted' = [accepted EXCEPT ![e] = @ + 1] /\ e \in RecordedEvents
      BY <1>3, <2>1 DEF TypeOK, Bump, RecordedEvents
    <3>2. Delivery!Accept(e)
      BY <1>1, <2>1, <3>1 DEF Delivery!Accept
    <3>3. QED
      BY <3>2 DEF Delivery!Next
  <2>2. CASE ~(accepted[e] < CopyCap)
    <3>1. accepted' = accepted
      BY <1>3, <2>2 DEF TypeOK, Bump
    <3>2. QED
      BY <1>2, <3>1
  <2>3. QED
    BY <2>1, <2>2
<1>4. QED
  BY <1>2, <1>3

\* The rows a worker has in hand are those of committed transactions.
HoldsCommitted ==
  \A w \in Workers :
    /\ \A e \in todo[w] : status[e] # "none"
    /\ current[w] \in Events => status[current[w]] # "none"

LEMMA NextHoldsCommitted == TypeOK /\ HoldsCommitted /\ [Next]_vars => HoldsCommitted'
<1> SUFFICES ASSUME TypeOK, HoldsCommitted, [Next]_vars
             PROVE  HoldsCommitted'
  OBVIOUS
<1>1. ASSUME \A e \in Events : status[e] # "none" => status'[e] # "none",
             \A v \in Workers : todo'[v] \subseteq {e \in Events : status[e] # "none"},
             \A v \in Workers : current'[v] \in Events => status[current'[v]] # "none"
      PROVE  HoldsCommitted'
  BY <1>1 DEF HoldsCommitted
<1>2. /\ \A v \in Workers : todo[v] \subseteq {e \in Events : status[e] # "none"}
      /\ \A v \in Workers : current[v] \in Events => status[current[v]] # "none"
  BY DEF HoldsCommitted, TypeOK
<1>3. NoEvent \notin Events
  BY OutboxAssumption DEF NoEvent, Events
<1>4. ASSUME NEW e \in Events, Insert(e)
      PROVE  HoldsCommitted'
  BY <1>1, <1>2, <1>4 DEF TypeOK, Insert, inMemory
<1>5. ASSUME NEW w \in Workers, FetchPending(w)
      PROVE  HoldsCommitted'
  <2>1. Fetched \subseteq {e \in Events : status[e] # "none"}
    BY FetchedIsPending DEF Pending
  <2>2. QED
    BY <1>1, <1>2, <1>5, <2>1 DEF TypeOK, FetchPending, table
<1>6. ASSUME NEW w \in Workers, NextEvent(w)
      PROVE  HoldsCommitted'
  BY <1>1, <1>2, <1>6 DEF TypeOK, NextEvent, table
<1>7. ASSUME NEW w \in Workers, PublishConfirmed(w) \/ PublishAttemptFails(w)
      PROVE  HoldsCommitted'
  BY <1>1, <1>2, <1>7 DEF PublishConfirmed, PublishAttemptFails, table
<1>8. ASSUME NEW w \in Workers, EventDone(w) \/ UNCHANGED <<todo, current>>,
             \A e \in Events : status[e] # "none" => status'[e] # "none"
      PROVE  HoldsCommitted'
  BY <1>1, <1>2, <1>3, <1>8 DEF TypeOK, EventDone
<1>9. ASSUME NEW w \in Workers, IncrementRetry(w) \/ IncrementRetryError(w)
      PROVE  HoldsCommitted'
  BY <1>8, <1>9 DEF IncrementRetry, IncrementRetryError, AfterIncrement, table
<1>10. ASSUME NEW w \in Workers,
              \/ MarkFailed(w) \/ MarkFailedError(w)
              \/ MarkProcessed(w) \/ MarkProcessedError(w)
       PROVE  HoldsCommitted'
  BY <1>8, <1>10
  DEF TypeOK, MarkFailed, MarkFailedError, MarkProcessed, MarkProcessedError, SetStatus, table
<1>11. ASSUME NEW w \in Workers, CleanupProcessed(w)
       PROVE  HoldsCommitted'
  BY <1>8, <1>11 DEF TypeOK, CleanupProcessed, inMemory
<1>12. ASSUME NEW w \in Workers, BatchDone(w) \/ Lifecycle(w)
       PROVE  HoldsCommitted'
  <2>1. status' = status
    BY <1>12 DEF BatchDone, Lifecycle, Cancel, Stop, Crash, Restart, table
  <2>2. AtRest(w, "idle") \/ AtRest(w, "down") \/ UNCHANGED <<todo, current>>
    BY <1>12 DEF BatchDone, Lifecycle, Cancel, Stop, Crash, Restart, inMemory
  <2>3. QED
    BY <1>1, <1>2, <1>3, <2>1, <2>2 DEF TypeOK, AtRest
<1>13. CASE UNCHANGED vars
  BY <1>1, <1>2, <1>13 DEF vars
<1>14. QED
  BY <1>4, <1>5, <1>6, <1>7, <1>9, <1>10, <1>11, <1>12, <1>13 DEF Next, ProcessEvent

\* Every step of the outbox is a step of the abstract delivery, or a stutter.
LEMMA StepRefines ==
  ASSUME TypeOK, NothingLost, HoldsCommitted, [Next]_vars
  PROVE  Delivery!Next \/ UNCHANGED Delivery!abstractVars
<1> USE OutboxAssumption
<1>1. ASSUME NEW e \in Events, Insert(e)
      PROVE  Delivery!Next
  <2>1. RecordedEvents' = RecordedEvents \union {e} /\ e \notin RecordedEvents
    BY <1>1 DEF TypeOK, Insert, RecordedEvents
  <2>2. [d \in Events |-> Outcome(status[d])]' = [d \in Events |-> Outcome(status[d])]
    BY <1>1 DEF TypeOK, Insert, Outcome
  <2>3. Delivery!Record(e)
    BY <1>1, <2>1, <2>2 DEF Insert, Delivery!Record
  <2>4. QED
    BY <2>3 DEF Delivery!Next
<1>2. ASSUME NEW w \in Workers, PublishConfirmed(w) \/ PublishAttemptFails(w)
      PROVE  Delivery!Next \/ UNCHANGED Delivery!abstractVars
  <2>1. current[w] \in Events /\ status[current[w]] # "none"
    BY <1>2 DEF TypeOK, HoldsCommitted, PublishConfirmed, PublishAttemptFails
  <2>2. QED
    BY <1>2, <2>1, AcceptStep DEF PublishConfirmed, PublishAttemptFails, table
<1>3. ASSUME NEW w \in Workers, MarkProcessed(w) \/ MarkFailed(w)
      PROVE  Delivery!Next \/ UNCHANGED Delivery!abstractVars
  <2> DEFINE c == current[w]
  <2>1. c \in Events /\ status[c] # "none" /\ UNCHANGED accepted
    BY <1>3 DEF TypeOK, HoldsCommitted, MarkProcessed, MarkFailed
  <2>2. CASE UNCHANGED status
    BY <2>1, <2>2, AcceptStep
  <2>3. CASE MarkProcessed(w) /\ status' = [status EXCEPT ![c] = "PROCESSED"]
    <3>1. accepted[c] > 0
      BY <2>3 DEF MarkProcessed, NothingLost, ConfirmedWasAccepted
    <3>2. RecordedEvents' = RecordedEvents
      BY <2>1, <2>3 DEF TypeOK, RecordedEvents
    <3>3. [d \in Events |-> Outcome(status[d])]'
            = [[d \in Events |-> Outcome(status[d])] EXCEPT ![c] = "delivered"]
      BY <2>1, <2>3 DEF TypeOK, Outcome
    <3>4. Delivery!Deliver(c)
      BY <2>1, <3>1, <3>2, <3>3 DEF Delivery!Deliver
    <3>5. QED
      BY <2>1, <3>4 DEF Delivery!Next
  <2>4. CASE MarkFailed(w) /\ status' = [status EXCEPT ![c] = "FAILED"]
    <3>1. RecordedEvents' = RecordedEvents /\ c \in RecordedEvents
      BY <2>1, <2>4 DEF TypeOK, RecordedEvents
    <3>2. [d \in Events |-> Outcome(status[d])]'
            = [[d \in Events |-> Outcome(status[d])] EXCEPT ![c] = "abandoned"]
      BY <2>1, <2>4 DEF TypeOK, Outcome
    <3>3. Delivery!Abandon(c)
      BY <2>1, <3>1, <3>2 DEF Delivery!Abandon
    <3>4. QED
      BY <2>1, <3>3 DEF Delivery!Next
  <2>5. QED
    BY <1>3, <2>2, <2>3, <2>4 DEF MarkProcessed, MarkFailed, SetStatus
<1>4. ASSUME NEW w \in Workers, CleanupProcessed(w)
      PROVE  UNCHANGED Delivery!abstractVars
  <2>1. RecordedEvents' = RecordedEvents
    BY <1>4 DEF TypeOK, CleanupProcessed, RecordedEvents
  <2>2. \A e \in Events : Outcome(status[e])' = Outcome(status[e])
    BY <1>4 DEF TypeOK, CleanupProcessed, Outcome
  <2>3. QED
    BY <1>4, <2>1, <2>2 DEF CleanupProcessed, Delivery!abstractVars
<1>5. CASE UNCHANGED <<status, accepted>>
  BY <1>5, AcceptStep
<1>6. QED
  BY <1>1, <1>2, <1>3, <1>4, <1>5
  DEF Next, vars, table, ProcessEvent, FetchPending, NextEvent, BatchDone, IncrementRetry,
      IncrementRetryError, MarkFailedError, MarkProcessedError, Lifecycle, Cancel, Stop, Crash,
      Restart

\* The outbox, with any number of replicas, is an at-least-once delivery: what it calls
\* delivered the broker accepted, and what the broker accepted a transaction recorded.
THEOREM OutboxImplementsEventDelivery == Spec => ImplementsEventDelivery
<1>1. Init => NothingLost /\ HoldsCommitted
  BY OutboxAssumption
  DEF Init, NothingLost, ConfirmedWasAccepted, ProcessedWasAccepted, HoldsCommitted, NoEvent, Events
<1>2. Init => Delivery!Init
  BY DEF Init, Delivery!Init, RecordedEvents, Outcome
<1>3. TypeOK /\ NothingLost /\ HoldsCommitted /\ [Next]_vars => [Delivery!Next]_(Delivery!abstractVars)
  BY StepRefines
<1>4. QED
  BY <1>1, <1>2, <1>3, TypeCorrect, NextNothingLost, NextHoldsCommitted, PTL
  DEF Spec, ImplementsEventDelivery, Delivery!Spec

-----------------------------------------------------------------------------
(* With one replica a settled row is final.  HoldsPending is the            *)
(* strengthening: every row the replica has in hand is still PENDING, so no *)
(* statement of it can touch a settled one.                                 *)

InHandPlaces == {"publish", "confirmed", "publish_failed", "give_up"}

OneReplica == \A v, w \in Workers : v = w

LEMMA NextHoldsPending ==
  ASSUME OneReplica, TypeOK, HoldsPending, [Next]_vars
  PROVE  HoldsPending'
<1> USE OutboxAssumption DEF InHandPlaces
<1>1. NoEvent \notin Events
  BY DEF NoEvent, Events
<1>2. ASSUME NEW w \in Workers,
             todo'[w] \subseteq Pending',
             pc'[w] = "idle" => todo'[w] = {},
             pc'[w] \in InHandPlaces => status'[current'[w]] = "PENDING" /\ current'[w] \notin todo'[w]
      PROVE  HoldsPending'
  BY <1>2 DEF HoldsPending, OneReplica
<1>3. ASSUME NEW w \in Workers
      PROVE  /\ todo[w] \subseteq Pending
             /\ pc[w] = "idle" => todo[w] = {}
             /\ pc[w] \in InHandPlaces =>
                  status[current[w]] = "PENDING" /\ current[w] \notin todo[w] /\ current[w] \in Events
  BY DEF HoldsPending, TypeOK
<1>4. ASSUME NEW e \in Events, Insert(e)
      PROVE  HoldsPending'
  <2>1. \A d \in Events : status[d] = "PENDING" => status'[d] = "PENDING"
    BY <1>4 DEF TypeOK, Insert
  <2>2. UNCHANGED inMemory
    BY <1>4 DEF Insert
  <2>3. Pending \subseteq Pending'
    BY <2>1 DEF Pending
  <2>4. QED
    BY <1>3, <2>1, <2>2, <2>3 DEF HoldsPending, inMemory
<1>5. ASSUME NEW w \in Workers, FetchPending(w)
      PROVE  HoldsPending'
  <2>1. UNCHANGED status /\ pc'[w] = "loop" /\ todo'[w] = Fetched
    BY <1>5 DEF TypeOK, FetchPending, table
  <2>2. Fetched \subseteq Pending'
    BY <2>1, FetchedIsPending DEF Pending
  <2>3. QED
    BY <1>2, <2>1, <2>2
<1>6. ASSUME NEW w \in Workers, NextEvent(w)
      PROVE  HoldsPending'
  <2>1. PICK e \in todo[w] : /\ todo'    = [todo EXCEPT ![w] = @ \ {e}]
                             /\ current' = [current EXCEPT ![w] = e]
    BY <1>6 DEF NextEvent
  <2>2. UNCHANGED status /\ pc'[w] = "publish"
    BY <1>6 DEF TypeOK, NextEvent, table
  <2>3. /\ todo'[w] = todo[w] \ {e} /\ current'[w] = e
        /\ status[e] = "PENDING" /\ Pending' = Pending
    BY <1>3, <2>1, <2>2 DEF TypeOK, Pending
  <2>4. QED
    BY <1>2, <1>3, <2>2, <2>3
<1>7. ASSUME NEW w \in Workers,
             BatchDone(w) \/ Stop(w) \/ Crash(w) \/ Restart(w)
      PROVE  HoldsPending'
  <2>1. AtRest(w, "idle") \/ AtRest(w, "down")
    BY <1>7 DEF BatchDone, Stop, Crash, Restart
  <2>2. todo'[w] = {} /\ pc'[w] \in {"idle", "down"}
    BY <2>1 DEF TypeOK, AtRest
  <2>3. QED
    BY <1>2, <2>2
<1>8. ASSUME NEW w \in Workers, PublishConfirmed(w) \/ PublishAttemptFails(w)
      PROVE  HoldsPending'
  <2>1. /\ pc[w] = "publish"
        /\ UNCHANGED <<status, todo, current>>
        /\ pc'[w] \in InHandPlaces
    BY <1>8 DEF TypeOK, PublishConfirmed, PublishAttemptFails, table
  <2>2. QED
    BY <1>2, <1>3, <2>1 DEF Pending
<1>9. ASSUME NEW w \in Workers, IncrementRetry(w) \/ IncrementRetryError(w)
      PROVE  HoldsPending'
  <2>1. /\ pc[w] = "publish_failed"
        /\ UNCHANGED <<status, todo>>
        /\ pc'[w] = "loop" \/ (pc'[w] = "give_up" /\ current' = current)
    BY <1>9 DEF TypeOK, IncrementRetry, IncrementRetryError, AfterIncrement, EventDone, table
  <2>2. QED
    BY <1>2, <1>3, <2>1 DEF Pending
<1>10. ASSUME NEW w \in Workers,
              \/ MarkFailed(w) \/ MarkFailedError(w)
              \/ MarkProcessed(w) \/ MarkProcessedError(w)
       PROVE  HoldsPending'
  <2>1. pc[w] \in InHandPlaces /\ EventDone(w)
    BY <1>10 DEF MarkFailed, MarkFailedError, MarkProcessed, MarkProcessedError
  <2>2. pc'[w] = "loop" /\ todo' = todo
    BY <2>1 DEF TypeOK, EventDone
  <2>3. \A d \in Events : d # current[w] => status'[d] = status[d]
    BY <1>10 DEF TypeOK, MarkFailed, MarkFailedError, MarkProcessed, MarkProcessedError,
                 SetStatus, table
  <2>4. todo'[w] \subseteq Pending'
    BY <1>3, <2>1, <2>2, <2>3 DEF Pending
  <2>5. QED
    BY <1>2, <2>2, <2>4
<1>11. ASSUME NEW w \in Workers, CleanupProcessed(w)
       PROVE  HoldsPending'
  <2>1. pc[w] = "idle" /\ UNCHANGED inMemory
    BY <1>11 DEF CleanupProcessed
  <2>2. QED
    BY <1>2, <1>3, <2>1 DEF inMemory
<1>12. ASSUME NEW w \in Workers, Cancel(w)
       PROVE  HoldsPending'
  BY <1>12 DEF HoldsPending, Cancel, table, inMemory, Pending
<1>13. CASE UNCHANGED vars
  BY <1>13 DEF HoldsPending, vars, Pending
<1>14. QED
  BY <1>4, <1>5, <1>6, <1>7, <1>8, <1>9, <1>10, <1>11, <1>12, <1>13
  DEF Next, ProcessEvent, Lifecycle

\* One step of one replica leaves settled rows alone.
LEMMA SettledStep ==
  ASSUME TypeOK, HoldsPending, [Next]_vars, NEW e \in Events, Settled(e)
  PROVE  /\ status'[e] = status[e] \/ (status[e] = "PROCESSED" /\ status'[e] = "CLEANED")
         /\ accepted'[e] = accepted[e]
<1> USE OutboxAssumption
<1>1. status[e] \notin {"none", "PENDING"}
  BY DEF Settled
<1>2. ASSUME NEW w \in Workers, pc[w] \in InHandPlaces
      PROVE  current[w] # e
  BY <1>1, <1>2 DEF HoldsPending, InHandPlaces
<1>3. ASSUME NEW d \in Events, Insert(d)
      PROVE  status'[e] = status[e] /\ accepted'[e] = accepted[e]
  BY <1>1, <1>3 DEF TypeOK, Insert
<1>4. ASSUME NEW w \in Workers, PublishConfirmed(w) \/ PublishAttemptFails(w)
      PROVE  status'[e] = status[e] /\ accepted'[e] = accepted[e]
  <2>1. current[w] # e /\ UNCHANGED status
    BY <1>2, <1>4 DEF PublishConfirmed, PublishAttemptFails, InHandPlaces, table
  <2>2. QED
    BY <1>4, <2>1 DEF TypeOK, PublishConfirmed, PublishAttemptFails
<1>5. ASSUME NEW w \in Workers, MarkFailed(w) \/ MarkProcessed(w)
      PROVE  status'[e] = status[e] /\ accepted'[e] = accepted[e]
  <2>1. current[w] # e /\ UNCHANGED accepted
    BY <1>2, <1>5 DEF MarkFailed, MarkProcessed, InHandPlaces
  <2>2. QED
    BY <1>5, <2>1 DEF TypeOK, MarkFailed, MarkProcessed, SetStatus
<1>6. ASSUME NEW w \in Workers, CleanupProcessed(w)
      PROVE  /\ status'[e] = status[e] \/ (status[e] = "PROCESSED" /\ status'[e] = "CLEANED")
             /\ accepted'[e] = accepted[e]
  BY <1>6 DEF CleanupProcessed
<1>7. CASE UNCHANGED <<status, accepted>>
  BY <1>7
<1>8. QED
  BY <1>3, <1>4, <1>5, <1>6, <1>7
  DEF Next, vars, table, ProcessEvent, FetchPending, NextEvent, BatchDone, IncrementRetry,
      IncrementRetryError, MarkFailedError, MarkProcessedError, Lifecycle, Cancel, Stop, Crash,
      Restart

\* With one replica of the service, whatever stops it and whatever fails, a row that is
\* PROCESSED or FAILED keeps that status and its event is not published again.
THEOREM SingleReplicaSettlesOnce ==
  ASSUME OneReplica
  PROVE  Spec => SettledIsFinal
<1>1. Init => HoldsPending
  BY DEF Init, HoldsPending
<1>2. TypeOK /\ HoldsPending /\ [Next]_vars => HoldsPending'
  BY NextHoldsPending
<1> DEFINE Final ==
      \A e \in Events : Settled(e) =>
        /\ status'[e] = status[e] \/ (status[e] = "PROCESSED" /\ status'[e] = "CLEANED")
        /\ accepted'[e] = accepted[e]
<1>3. TypeOK /\ HoldsPending /\ [Next]_vars => [Final]_vars
  BY SettledStep
<1>4. QED
  BY <1>1, <1>2, <1>3, TypeCorrect, PTL DEF Spec, SettledIsFinal

=============================================================================
