------------------------------- MODULE Outbox -------------------------------
(***************************************************************************)
(* The transactional outbox of the order, product, user and payment        *)
(* services: a table of events written inside business transactions, and   *)
(* one polling worker per running replica of the service that publishes    *)
(* the PENDING rows to RabbitMQ and records the outcome.                   *)
(*                                                                         *)
(* Every SQL statement is a step of its own, as in the code, where no      *)
(* transaction spans FetchPending, Publish and the Mark* statements.  A    *)
(* statement fails when its context is cancelled and may fail otherwise.   *)
(***************************************************************************)
EXTENDS Naturals, FiniteSets

CONSTANTS
  NumEvents,      \* events the business transactions may record
  Workers,        \* replicas of the service, each running one outbox worker
  BatchSize,      \* cfg.BatchSize
  MaxRetries,     \* cfg.MaxRetries
  PublishRetries, \* maxRetries of the Publisher
  CopyCap,        \* bound: accepted copies are counted up to this number
  MaxStops        \* bound: crashes and SIGTERMs in one behaviour

ASSUME OutboxAssumption ==
  /\ NumEvents \in Nat
  /\ IsFiniteSet(Workers)
  /\ BatchSize \in Nat \ {0}
  /\ MaxRetries \in Nat \ {0}
  /\ PublishRetries \in Nat
  /\ CopyCap \in Nat \ {0}
  /\ MaxStops \in Nat

\* An event is named by its rank in created_at, the order FetchPending uses.
\* Commit may happen in any order: created_at is set before COMMIT.
Events == 1 .. NumEvents
NoEvent == 0

VARIABLES
  status,       \* status[e]: the row's status; "none": not committed; "CLEANED": soft-deleted
  retry_count,  \* retry_count[e], exact below MaxRetries, where the code's test saturates
  accepted,     \* accepted[e]: copies of e the broker has accepted
  failures,     \* history: Publish calls for e that returned an error, up to MaxRetries
  pc,           \* pc[w]: where the worker is in Start / processBatch / processEvent
  todo,         \* todo[w]: events of the fetched batch still to be processed
  seen,         \* seen[w][e]: event.RetryCount as fetched with the batch
  current,      \* current[w]: the event processEvent is working on
  attempt,      \* attempt[w]: the attempt Publish is in
  cancelled,    \* cancelled[w]: the worker's context is done
  stops         \* crashes and SIGTERMs so far

table     == <<status, retry_count>>
inMemory  == <<pc, todo, seen, current, attempt>>
vars      == <<status, retry_count, accepted, failures, pc, todo, seen, current,
               attempt, cancelled, stops>>

Statuses == {"none", "PENDING", "PROCESSED", "FAILED", "CLEANED"}
Places   == {"idle", "loop", "publish", "confirmed", "publish_failed", "give_up", "down"}

Bump(n, cap) == IF n < cap THEN n + 1 ELSE n

\* Seeded bug: FAILED rows are polled again.
Pending_WithFailed == {e \in Events : status[e] \in {"PENDING", "FAILED"}}

Pending == {e \in Events : status[e] = "PENDING"}

\* The n members of S created first.
Oldest(S, n) == {e \in S : Cardinality({d \in S : d < e}) < n}

\* gorm adds "deleted_at IS NULL" to every statement on the model.
Visible(e) == status[e] \notin {"none", "CLEANED"}

SetStatus(e, s) == status' = IF Visible(e) THEN [status EXCEPT ![e] = s] ELSE status

\* A worker with nothing in hand.
AtRest(w, place) ==
  /\ pc'      = [pc EXCEPT ![w] = place]
  /\ todo'    = [todo EXCEPT ![w] = {}]
  /\ seen'    = [seen EXCEPT ![w] = [e \in Events |-> 0]]
  /\ current' = [current EXCEPT ![w] = NoEvent]
  /\ attempt' = [attempt EXCEPT ![w] = 0]

\* processEvent returns to processBatch's loop.
EventDone(w) ==
  /\ pc'      = [pc EXCEPT ![w] = "loop"]
  /\ current' = [current EXCEPT ![w] = NoEvent]
  /\ UNCHANGED <<todo, seen, attempt>>

-----------------------------------------------------------------------------
Init ==
  /\ status      = [e \in Events |-> "none"]
  /\ retry_count = [e \in Events |-> 0]
  /\ accepted    = [e \in Events |-> 0]
  /\ failures    = [e \in Events |-> 0]
  /\ pc          = [w \in Workers |-> "idle"]
  /\ todo        = [w \in Workers |-> {}]
  /\ seen        = [w \in Workers |-> [e \in Events |-> 0]]
  /\ current     = [w \in Workers |-> NoEvent]
  /\ attempt     = [w \in Workers |-> 0]
  /\ cancelled   = [w \in Workers |-> FALSE]
  /\ stops       = 0

\* A business transaction that called Insert commits.
Insert(e) ==
  /\ status[e] = "none"
  /\ status' = [status EXCEPT ![e] = "PENDING"]
  /\ UNCHANGED <<retry_count, accepted, failures, inMemory, cancelled, stops>>

-----------------------------------------------------------------------------
(* The worker's loop.                                                      *)

\* The rows a poll returns.
Fetched == Oldest(Pending, BatchSize)

\* pollTicker fires: processBatch fetches a batch without claiming its rows.  An
\* empty batch or a failed query changes nothing.
FetchPending(w) ==
  /\ pc[w] = "idle"
  /\ ~cancelled[w]
  /\ Fetched # {}
  /\ pc'   = [pc EXCEPT ![w] = "loop"]
  /\ todo' = [todo EXCEPT ![w] = Fetched]
  /\ seen' = [seen EXCEPT ![w] = [e \in Events |-> IF e \in Fetched THEN retry_count[e] ELSE 0]]
  /\ UNCHANGED <<table, accepted, failures, current, attempt, cancelled, stops>>

\* Seeded bug: the row is marked before it is published.
NextEvent_MarksFirst(w) ==
  /\ pc[w] = "loop"
  /\ ~cancelled[w]
  /\ \E e \in todo[w] :
       /\ \A d \in todo[w] : e <= d
       /\ todo'    = [todo EXCEPT ![w] = @ \ {e}]
       /\ current' = [current EXCEPT ![w] = e]
  /\ pc'      = [pc EXCEPT ![w] = "confirmed"]
  /\ UNCHANGED <<table, accepted, failures, seen, attempt, cancelled, stops>>

\* processBatch takes the next event, in created_at order.
NextEvent(w) ==
  /\ pc[w] = "loop"
  /\ ~cancelled[w]
  /\ \E e \in todo[w] :
       /\ \A d \in todo[w] : e <= d
       /\ todo'    = [todo EXCEPT ![w] = @ \ {e}]
       /\ current' = [current EXCEPT ![w] = e]
  /\ pc'      = [pc EXCEPT ![w] = "publish"]
  /\ attempt' = [attempt EXCEPT ![w] = 0]
  /\ UNCHANGED <<table, accepted, failures, seen, cancelled, stops>>

\* The batch is finished, or abandoned because the context is done.
BatchDone(w) ==
  /\ pc[w] = "loop"
  /\ todo[w] = {} \/ cancelled[w]
  /\ AtRest(w, "idle")
  /\ UNCHANGED <<table, accepted, failures, cancelled, stops>>

-----------------------------------------------------------------------------
(* Publish, as the worker sees it.                                         *)

\* Seeded bug: the confirm is not waited for (WithFireAndForget).
PublishConfirmed_FireAndForget(w) ==
  /\ pc[w] = "publish"
  /\ \/ accepted' = [accepted EXCEPT ![current[w]] = Bump(@, CopyCap)]
     \/ UNCHANGED accepted
  /\ pc' = [pc EXCEPT ![w] = "confirmed"]
  /\ UNCHANGED <<table, failures, todo, seen, current, attempt, cancelled, stops>>

\* The broker's positive confirm arrives in time.
PublishConfirmed(w) ==
  /\ pc[w] = "publish"
  /\ accepted' = [accepted EXCEPT ![current[w]] = Bump(@, CopyCap)]
  /\ pc'       = [pc EXCEPT ![w] = "confirmed"]
  /\ UNCHANGED <<table, failures, todo, seen, current, attempt, cancelled, stops>>

\* Seeded bug: one attempt too many, "attempt <= maxRetries" tested after the increment.
PublishAttemptFails_OneMore(w) ==
  /\ pc[w] = "publish"
  /\ UNCHANGED accepted
  /\ IF attempt[w] <= PublishRetries /\ ~cancelled[w]
     THEN /\ attempt' = [attempt EXCEPT ![w] = @ + 1]
          /\ UNCHANGED <<pc, failures>>
     ELSE /\ pc'       = [pc EXCEPT ![w] = "publish_failed"]
          /\ failures' = [failures EXCEPT ![current[w]] = Bump(@, MaxRetries)]
          /\ UNCHANGED attempt
  /\ UNCHANGED <<table, todo, seen, current, cancelled, stops>>

\* An attempt ends in an error: no channel, a nack, or a confirm that did not
\* arrive in time, in which case the broker may well have accepted the message.
\* The last attempt, and a done context, make Publish return the error.
PublishAttemptFails(w) ==
  /\ pc[w] = "publish"
  /\ \/ accepted' = [accepted EXCEPT ![current[w]] = Bump(@, CopyCap)]
     \/ UNCHANGED accepted
  /\ IF attempt[w] < PublishRetries /\ ~cancelled[w]
     THEN /\ attempt' = [attempt EXCEPT ![w] = @ + 1]
          /\ UNCHANGED <<pc, failures>>
     ELSE /\ pc'       = [pc EXCEPT ![w] = "publish_failed"]
          /\ failures' = [failures EXCEPT ![current[w]] = Bump(@, MaxRetries)]
          /\ UNCHANGED attempt
  /\ UNCHANGED <<table, todo, seen, current, cancelled, stops>>

-----------------------------------------------------------------------------
(* The outcome is recorded; an error of any of these statements is logged  *)
(* and otherwise ignored.                                                  *)

\* Seeded bug: the fetched count is taken to include this failure already.
AfterIncrement_OffByOne(w) ==
  IF seen[w][current[w]] + 2 >= MaxRetries
  THEN /\ pc' = [pc EXCEPT ![w] = "give_up"]
       /\ UNCHANGED <<todo, seen, current, attempt>>
  ELSE EventDone(w)

\* Seeded bug: no limit on the retries.
AfterIncrement_NeverGivesUp(w) == EventDone(w)

\* The test after a failed publish reads the retry count fetched with the batch.
AfterIncrement(w) ==
  IF seen[w][current[w]] + 1 >= MaxRetries
  THEN /\ pc' = [pc EXCEPT ![w] = "give_up"]
       /\ UNCHANGED <<todo, seen, current, attempt>>
  ELSE EventDone(w)

IncrementRetry(w) ==
  /\ pc[w] = "publish_failed"
  /\ ~cancelled[w]
  /\ retry_count' = IF Visible(current[w])
                    THEN [retry_count EXCEPT ![current[w]] = Bump(@, MaxRetries)]
                    ELSE retry_count
  /\ AfterIncrement(w)
  /\ UNCHANGED <<status, accepted, failures, cancelled, stops>>

IncrementRetryError(w) ==
  /\ pc[w] = "publish_failed"
  /\ AfterIncrement(w)
  /\ UNCHANGED <<table, accepted, failures, cancelled, stops>>

MarkFailed(w) ==
  /\ pc[w] = "give_up"
  /\ ~cancelled[w]
  /\ SetStatus(current[w], "FAILED")
  /\ EventDone(w)
  /\ UNCHANGED <<retry_count, accepted, failures, cancelled, stops>>

MarkFailedError(w) ==
  /\ pc[w] = "give_up"
  /\ EventDone(w)
  /\ UNCHANGED <<table, accepted, failures, cancelled, stops>>

MarkProcessed(w) ==
  /\ pc[w] = "confirmed"
  /\ ~cancelled[w]
  /\ SetStatus(current[w], "PROCESSED")
  /\ EventDone(w)
  /\ UNCHANGED <<retry_count, accepted, failures, cancelled, stops>>

MarkProcessedError(w) ==
  /\ pc[w] = "confirmed"
  /\ EventDone(w)
  /\ UNCHANGED <<table, accepted, failures, cancelled, stops>>

\* cleanupTicker fires: old PROCESSED rows are soft-deleted.  Which rows are old
\* enough is left open.
CleanupProcessed(w) ==
  /\ pc[w] = "idle"
  /\ ~cancelled[w]
  /\ \E old \in SUBSET {e \in Events : status[e] = "PROCESSED"} :
       status' = [e \in Events |-> IF e \in old THEN "CLEANED" ELSE status[e]]
  /\ UNCHANGED <<retry_count, accepted, failures, inMemory, cancelled, stops>>

-----------------------------------------------------------------------------
(* The process around the worker.                                          *)

\* SIGTERM: the context is cancelled; the worker notices later.
Cancel(w) ==
  /\ pc[w] # "down"
  /\ ~cancelled[w]
  /\ stops < MaxStops
  /\ stops'     = stops + 1
  /\ cancelled' = [cancelled EXCEPT ![w] = TRUE]
  /\ UNCHANGED <<table, accepted, failures, inMemory>>

\* Start returns.
Stop(w) ==
  /\ pc[w] = "idle"
  /\ cancelled[w]
  /\ AtRest(w, "down")
  /\ UNCHANGED <<table, accepted, failures, cancelled, stops>>

\* The process dies between two steps; all it held in memory is gone.
Crash(w) ==
  /\ pc[w] # "down"
  /\ stops < MaxStops
  /\ stops' = stops + 1
  /\ AtRest(w, "down")
  /\ UNCHANGED <<table, accepted, failures, cancelled>>

Restart(w) ==
  /\ pc[w] = "down"
  /\ AtRest(w, "idle")
  /\ cancelled' = [cancelled EXCEPT ![w] = FALSE]
  /\ UNCHANGED <<table, accepted, failures, stops>>

-----------------------------------------------------------------------------
ProcessEvent(w) ==
  \/ PublishConfirmed(w)
  \/ PublishAttemptFails(w)
  \/ IncrementRetry(w)
  \/ IncrementRetryError(w)
  \/ MarkFailed(w)
  \/ MarkFailedError(w)
  \/ MarkProcessed(w)
  \/ MarkProcessedError(w)

Lifecycle(w) == Cancel(w) \/ Stop(w) \/ Crash(w) \/ Restart(w)

Next ==
  \/ \E e \in Events : Insert(e)
  \/ \E w \in Workers :
       \/ FetchPending(w)
       \/ NextEvent(w)
       \/ BatchDone(w)
       \/ ProcessEvent(w)
       \/ CleanupProcessed(w)
       \/ Lifecycle(w)

Spec == Init /\ [][Next]_vars

\* The Go scheduler and the tickers keep every worker running, an orchestrator
\* restarts a stopped one, and outages of the database are transient: a statement
\* that is tried again and again succeeds some time.
Fairness ==
  \A w \in Workers :
    /\ WF_vars(FetchPending(w))
    /\ WF_vars(NextEvent(w))
    /\ WF_vars(BatchDone(w))
    /\ WF_vars(ProcessEvent(w))
    /\ WF_vars(Stop(w))
    /\ WF_vars(Restart(w))
    /\ SF_vars(IncrementRetry(w))
    /\ SF_vars(MarkFailed(w))
    /\ SF_vars(MarkProcessed(w))

FairSpec == Spec /\ Fairness

-----------------------------------------------------------------------------
(* Properties.                                                             *)

TypeOK ==
  /\ status      \in [Events -> Statuses]
  /\ retry_count \in [Events -> 0 .. MaxRetries]
  /\ accepted    \in [Events -> 0 .. CopyCap]
  /\ failures    \in [Events -> 0 .. MaxRetries]
  /\ pc          \in [Workers -> Places]
  /\ todo        \in [Workers -> SUBSET Events]
  /\ seen        \in [Workers -> [Events -> 0 .. MaxRetries]]
  /\ current     \in [Workers -> Events \union {NoEvent}]
  /\ attempt     \in [Workers -> 0 .. PublishRetries]
  /\ cancelled   \in [Workers -> BOOLEAN]
  /\ stops       \in 0 .. MaxStops
  /\ \A w \in Workers :
       pc[w] \in {"publish", "confirmed", "publish_failed", "give_up"} => current[w] \in Events

\* Nothing is lost: a row that says PROCESSED, or that cleanup removed, stands for an
\* event the broker has accepted, whatever replicas, retries and crashes did between.
\* (processEvent marks a row only after a positive confirm.)
ProcessedWasAccepted ==
  \A e \in Events : status[e] \in {"PROCESSED", "CLEANED"} => accepted[e] > 0

\* An event is given up only after MaxRetries calls of Publish failed for it, although
\* each replica decides from the retry count it fetched before publishing and the
\* increments of others, or a failed increment, may lie between.
FailedOnlyAfterMaxRetries ==
  \A e \in Events : status[e] = "FAILED" => failures[e] = MaxRetries

\* The bookkeeping behind FailedOnlyAfterMaxRetries: retry_count never runs ahead of the
\* failed publishes, those whose increment is still pending included, and a worker acts
\* on a count the row has already reached.
Failing(e) == {w \in Workers : pc[w] = "publish_failed" /\ current[w] = e}

RetryAccounting ==
  /\ \A e \in Events :
       failures[e] = MaxRetries \/ retry_count[e] + Cardinality(Failing(e)) <= failures[e]
  /\ \A w \in Workers, e \in Events : seen[w][e] <= retry_count[e]
  /\ \A w \in Workers : pc[w] = "give_up" => failures[current[w]] = MaxRetries

\* A worker about to mark a row PROCESSED holds the broker's confirm for it.
ConfirmedWasAccepted ==
  \A w \in Workers : pc[w] = "confirmed" => accepted[current[w]] > 0

\* One replica holds only PENDING rows, each once.
HoldsPending ==
  \A w \in Workers :
    /\ todo[w] \subseteq Pending
    /\ pc[w] = "idle" => todo[w] = {}
    /\ pc[w] \in {"publish", "confirmed", "publish_failed", "give_up"} =>
         status[current[w]] = "PENDING" /\ current[w] \notin todo[w]

\* The comment in FetchPending: "FOR UPDATE SKIP LOCKED prevents multiple worker
\* instances from picking up the same rows".
InHand(w) == todo[w] \union ({current[w]} \ {NoEvent})

NoRowPickedUpTwice ==
  \A v, w \in Workers : v # w => InHand(v) \intersect InHand(w) = {}

\* With one replica a settled row stays settled: its status changes no more, except for
\* the cleanup of a PROCESSED row, and no further copy of the event reaches the broker.
Settled(e) == status[e] \in {"PROCESSED", "FAILED", "CLEANED"}

SettledIsFinal ==
  [][\A e \in Events : Settled(e) =>
       /\ status'[e] = status[e] \/ (status[e] = "PROCESSED" /\ status'[e] = "CLEANED")
       /\ accepted'[e] = accepted[e]]_vars

\* Every recorded event is settled in the end: neither an event that always fails at the
\* head of the batch nor a crash between two statements keeps a row PENDING forever.
EveryEventSettles ==
  \A e \in Events : (status[e] = "PENDING") ~> Settled(e)

-----------------------------------------------------------------------------
(* The outbox implements EventDelivery.                                    *)

RecordedEvents == {e \in Events : status[e] # "none"}

Outcome(s) ==
  CASE s \in {"PROCESSED", "CLEANED"} -> "delivered"
    [] s = "FAILED" -> "abandoned"
    [] OTHER -> "open"

Delivery == INSTANCE EventDelivery WITH
  recorded <- RecordedEvents,
  copies   <- accepted,
  outcome  <- [e \in Events |-> Outcome(status[e])]

\* The worker's loop, with any number of replicas, is an at-least-once delivery.
ImplementsEventDelivery == Delivery!Spec

=============================================================================
