------------------------------ MODULE Consumer ------------------------------
(***************************************************************************)
(* One durable RabbitMQ queue and the consumers subscribed to it, one per   *)
(* running replica of a service: prefetch window, worker pool, manual ack,  *)
(* retry by republishing, dead-letter queue, reconnection and shutdown.     *)
(*                                                                         *)
(* The broker side is modelled as far as the code relies on it: a delivery  *)
(* stays unacknowledged until an ack or nack frame arrives on the channel   *)
(* it was delivered on, a lost channel requeues what it had delivered, and  *)
(* the frames of one channel are processed in the order they were written.  *)
(* Copies of messages are identified so that each can be followed; the      *)
(* order of the queue is left open.                                        *)
(***************************************************************************)
EXTENDS Naturals, FiniteSets

CONSTANTS
  Messages,     \* the messages publishers send to the queue
  Consumers,    \* replicas, each with one Consumer on the queue
  NumCopies,    \* bound: copies of messages alive at the same time
  PoolSize,     \* workerPoolSize
  Prefetch,     \* prefetchCount
  MaxRetries,   \* maxRetries
  EnableDLQ,    \* enableDLQ
  MaxFaults,    \* bound: lost channels, crashes and SIGTERMs in one behaviour
  NoMessage, Nobody

ASSUME ConsumerAssumption ==
  /\ NumCopies \in Nat
  /\ PoolSize \in Nat \ {0}
  /\ Prefetch \in Nat \ {0}
  /\ MaxRetries \in Nat
  /\ EnableDLQ \in BOOLEAN
  /\ MaxFaults \in Nat
  /\ NoMessage \notin Messages
  /\ Nobody \notin Consumers

Copies == 1 .. NumCopies

VARIABLES
  (* the broker *)
  msg,        \* msg[k]: the message copy k carries, NoMessage if k is not in use
  retry,      \* retry[k]: its x-retry-count header
  holder,     \* holder[k]: the consumer k is unacknowledged at, Nobody if it is in the queue
  wire,       \* wire[k]: frames about k written to its holder's channel, not yet processed
  dead,       \* messages routed to the DLQ
  discarded,  \* messages rejected with no DLQ to go to
  (* the consumers *)
  phase,      \* phase[c]: where Start and run are
  open,       \* open[c]: the channel is open
  cancelled,  \* cancelled[c]: the context is done
  delivery,   \* delivery[c][k]: copy k as delivered to c, and how far c has got with it
  (* history *)
  sent,       \* messages published to the queue
  completed,  \* messages whose handler returned nil at least once
  failures,   \* failures[m]: handler errors for m, up to MaxRetries + 1
  faults      \* lost channels, crashes and SIGTERMs so far

broker   == <<msg, retry, holder, wire, dead, discarded>>
client   == <<phase, open, cancelled, delivery>>
history  == <<sent, completed, failures>>
vars     == <<msg, retry, holder, wire, dead, discarded, phase, open, cancelled, delivery,
              sent, completed, failures, faults>>

Phases == {"connecting", "running", "draining", "down"}
\* inbox: in the delivery channel of the client library; job: in the jobs channel;
\* handling: Handle is running; then the three ways processMessage can end.
Stages == {"none", "inbox", "job", "handling", "ack", "retry", "reject"}
Deliveries == [at : Stages, msg : Messages \union {NoMessage}, retry : 0 .. MaxRetries]
Frames == {"none", "republish", "republish_ack", "ack", "nack"}

Unacked(c) == {k \in Copies : holder[k] = c}
At(c, st)  == {k \in Copies : delivery[c][k].at = st}
NoDelivery == [at |-> "none", msg |-> NoMessage, retry |-> 0]

\* Jobs the worker pool of c still has to finish.
PoolWork(c) == UNION {At(c, st) : st \in {"job", "handling", "ack", "retry", "reject"}}
Busy(c) == PoolWork(c) \ At(c, "job")

\* A copy number that neither the broker nor a client refers to.
Unused(k) == msg[k] = NoMessage /\ \A c \in Consumers : delivery[c][k] = NoDelivery

Bump(n, cap) == IF n < cap THEN n + 1 ELSE n

\* The next unused copy, put in the queue.
Enqueue(m, r, k) ==
  /\ Unused(k)
  /\ \A j \in Copies : Unused(j) => k <= j
  /\ msg'   = [msg EXCEPT ![k] = m]
  /\ retry' = [retry EXCEPT ![k] = r]

Move(c, k, st) == delivery' = [delivery EXCEPT ![c][k].at = st]
Done(c, k) == delivery' = [delivery EXCEPT ![c][k] = NoDelivery]

-----------------------------------------------------------------------------
Init ==
  /\ msg       = [k \in Copies |-> NoMessage]
  /\ retry     = [k \in Copies |-> 0]
  /\ holder    = [k \in Copies |-> Nobody]
  /\ wire      = [k \in Copies |-> "none"]
  /\ dead      = {}
  /\ discarded = {}
  /\ phase     = [c \in Consumers |-> "connecting"]
  /\ open      = [c \in Consumers |-> FALSE]
  /\ cancelled = [c \in Consumers |-> FALSE]
  /\ delivery  = [c \in Consumers |-> [k \in Copies |-> NoDelivery]]
  /\ sent      = {}
  /\ completed = {}
  /\ failures  = [m \in Messages |-> 0]
  /\ faults    = 0

\* A publisher's message is accepted into the queue, without an x-retry-count.
Publish(m) ==
  /\ m \notin sent
  /\ \E k \in Copies : Enqueue(m, 0, k)
  /\ sent' = sent \union {m}
  /\ UNCHANGED <<holder, wire, dead, discarded, client, completed, failures, faults>>

-----------------------------------------------------------------------------
(* Start and run.                                                          *)

\* run opens a channel, declares the queue, sets the prefetch and subscribes.
Connect(c) ==
  /\ phase[c] = "connecting"
  /\ ~cancelled[c]
  /\ phase' = [phase EXCEPT ![c] = "running"]
  /\ open'  = [open EXCEPT ![c] = TRUE]
  /\ UNCHANGED <<broker, cancelled, delivery, history, faults>>

\* The select loop hands a delivery to the jobs channel.
Dispatch(c, k) ==
  /\ phase[c] = "running"
  /\ delivery[c][k].at = "inbox"
  /\ Move(c, k, "job")
  /\ UNCHANGED <<broker, phase, open, cancelled, history, faults>>

\* The loop sees a done context or a closed channel: jobs is closed, and what is still
\* in the delivery channel will not be dispatched any more.
LeaveLoop(c) ==
  /\ phase[c] = "running"
  /\ cancelled[c] \/ ~open[c]
  /\ phase' = [phase EXCEPT ![c] = "draining"]
  /\ UNCHANGED <<broker, open, cancelled, delivery, history, faults>>

\* wg.Wait returns, run returns and cleanup closes the channel.  The close is written
\* after every other frame, so the broker has processed those first.
Cleanup(c) ==
  /\ phase[c] = "draining"
  /\ PoolWork(c) = {}
  /\ \A k \in Unacked(c) : wire[k] = "none"
  /\ phase'  = [phase EXCEPT ![c] = IF cancelled[c] THEN "down" ELSE "connecting"]
  /\ open'   = [open EXCEPT ![c] = FALSE]
  /\ holder' = [k \in Copies |-> IF holder[k] = c THEN Nobody ELSE holder[k]]
  /\ delivery' = [delivery EXCEPT ![c] = [k \in Copies |-> NoDelivery]]
  /\ UNCHANGED <<msg, retry, wire, dead, discarded, cancelled, history, faults>>

\* The context is done while Start waits to reconnect.
StopConnecting(c) ==
  /\ phase[c] = "connecting"
  /\ cancelled[c]
  /\ phase' = [phase EXCEPT ![c] = "down"]
  /\ UNCHANGED <<broker, open, cancelled, delivery, history, faults>>

-----------------------------------------------------------------------------
(* processMessage and handleFailure, run by the worker pool.               *)

\* A free worker takes a job.
TakeJob(c, k) ==
  /\ delivery[c][k].at = "job"
  /\ Cardinality(Busy(c)) < PoolSize
  /\ Move(c, k, "handling")
  /\ UNCHANGED <<broker, phase, open, cancelled, history, faults>>

\* The handler succeeds; the delivery is still to be acknowledged.
HandleOk(c, k) ==
  /\ delivery[c][k].at = "handling"
  /\ completed' = completed \union {delivery[c][k].msg}
  /\ Move(c, k, "ack")
  /\ UNCHANGED <<broker, phase, open, cancelled, sent, failures, faults>>

\* Seeded bug: one retry too many, "retryCount <= c.maxRetries".
HandleError_OneMore(c, k) ==
  /\ delivery[c][k].at = "handling"
  /\ failures' = [failures EXCEPT ![delivery[c][k].msg] = Bump(@, MaxRetries + 1)]
  /\ Move(c, k, IF delivery[c][k].retry <= MaxRetries THEN "retry" ELSE "reject")
  /\ UNCHANGED <<broker, phase, open, cancelled, sent, completed, faults>>

\* Seeded bug: the retry about to be made is counted as made.
HandleError_OneLess(c, k) ==
  /\ delivery[c][k].at = "handling"
  /\ failures' = [failures EXCEPT ![delivery[c][k].msg] = Bump(@, MaxRetries + 1)]
  /\ Move(c, k, IF delivery[c][k].retry + 1 < MaxRetries THEN "retry" ELSE "reject")
  /\ UNCHANGED <<broker, phase, open, cancelled, sent, completed, faults>>

\* The handler fails, times out, or runs under a context that is already done.
HandleError(c, k) ==
  /\ delivery[c][k].at = "handling"
  /\ failures' = [failures EXCEPT ![delivery[c][k].msg] = Bump(@, MaxRetries + 1)]
  /\ Move(c, k, IF delivery[c][k].retry < MaxRetries THEN "retry" ELSE "reject")
  /\ UNCHANGED <<broker, phase, open, cancelled, sent, completed, faults>>

\* Seeded bug: handleFailure returns after the republish, without the ack.
Republish_NoAck(c, k) ==
  /\ delivery[c][k].at = "retry"
  /\ wire' = IF open[c] THEN [wire EXCEPT ![k] = "republish"] ELSE wire
  /\ Done(c, k)
  /\ UNCHANGED <<msg, retry, holder, dead, discarded, phase, open, cancelled, history,
                 faults>>

\* The copy with the incremented header is written to the channel, unconfirmed.  On a
\* closed channel this fails, and so does the Nack that follows.
Republish(c, k) ==
  /\ delivery[c][k].at = "retry"
  /\ IF open[c]
     THEN /\ wire' = [wire EXCEPT ![k] = "republish"]
          /\ Move(c, k, "ack")
     ELSE /\ Done(c, k)
          /\ UNCHANGED wire
  /\ UNCHANGED <<msg, retry, holder, dead, discarded, phase, open, cancelled, history,
                 faults>>

\* d.Ack; on a closed channel it fails and the error is only logged.
Ack(c, k) ==
  /\ delivery[c][k].at = "ack"
  /\ wire' = IF open[c]
             THEN [wire EXCEPT ![k] = IF @ = "republish" THEN "republish_ack" ELSE "ack"]
             ELSE wire
  /\ Done(c, k)
  /\ UNCHANGED <<msg, retry, holder, dead, discarded, phase, open, cancelled, history,
                 faults>>

\* d.Nack(false, false) once the retries are used up.
Reject(c, k) ==
  /\ delivery[c][k].at = "reject"
  /\ wire' = IF open[c] THEN [wire EXCEPT ![k] = "nack"] ELSE wire
  /\ Done(c, k)
  /\ UNCHANGED <<msg, retry, holder, dead, discarded, phase, open, cancelled, history,
                 faults>>

-----------------------------------------------------------------------------
(* The broker.                                                             *)

\* A copy leaves the broker.
Forget(k) ==
  /\ msg'    = [msg EXCEPT ![k] = NoMessage]
  /\ retry'  = [retry EXCEPT ![k] = 0]
  /\ holder' = [holder EXCEPT ![k] = Nobody]
  /\ wire'   = [wire EXCEPT ![k] = "none"]

\* Seeded bug: the subscription acknowledges automatically.
Deliver_AutoAck(c, k) ==
  /\ open[c]
  /\ msg[k] # NoMessage
  /\ holder[k] = Nobody
  /\ delivery[c][k].at = "none"
  /\ Forget(k)
  /\ delivery' = [delivery EXCEPT ![c][k] = [at |-> "inbox", msg |-> msg[k], retry |-> retry[k]]]
  /\ UNCHANGED <<dead, discarded, phase, open, cancelled, history, faults>>

\* Seeded bug: no prefetch limit (Qos is not called).
Deliver_NoQos(c, k) ==
  /\ open[c]
  /\ msg[k] # NoMessage
  /\ holder[k] = Nobody
  /\ delivery[c][k].at = "none"
  /\ holder' = [holder EXCEPT ![k] = c]
  /\ delivery' = [delivery EXCEPT ![c][k] = [at |-> "inbox", msg |-> msg[k], retry |-> retry[k]]]
  /\ UNCHANGED <<msg, retry, wire, dead, discarded, phase, open, cancelled, history, faults>>

\* A message is pushed to a consumer whose prefetch window has room.
Deliver(c, k) ==
  /\ open[c]
  /\ msg[k] # NoMessage
  /\ holder[k] = Nobody
  /\ delivery[c][k].at = "none"
  /\ Cardinality(Unacked(c)) < Prefetch
  /\ holder' = [holder EXCEPT ![k] = c]
  /\ delivery' = [delivery EXCEPT ![c][k] = [at |-> "inbox", msg |-> msg[k], retry |-> retry[k]]]
  /\ UNCHANGED <<msg, retry, wire, dead, discarded, phase, open, cancelled, history,
                 faults>>

\* The republished copy enters the queue.
AcceptRepublish(k) ==
  /\ wire[k] \in {"republish", "republish_ack"}
  /\ \E j \in Copies : Enqueue(msg[k], retry[k] + 1, j)
  /\ wire' = [wire EXCEPT ![k] = IF @ = "republish_ack" THEN "ack" ELSE "none"]
  /\ UNCHANGED <<holder, dead, discarded, client, history, faults>>

AcceptAck(k) ==
  /\ wire[k] = "ack"
  /\ Forget(k)
  /\ UNCHANGED <<dead, discarded, client, history, faults>>

\* A rejected message is dead-lettered if the queue was declared so.
AcceptNack(k) ==
  /\ wire[k] = "nack"
  /\ Forget(k)
  /\ IF EnableDLQ
     THEN dead' = dead \union {msg[k]} /\ UNCHANGED discarded
     ELSE discarded' = discarded \union {msg[k]} /\ UNCHANGED dead
  /\ UNCHANGED <<client, history, faults>>

\* The broker side of a channel that is gone: deliveries go back to the queue and the
\* frames it had not processed are lost.
Requeue(c) ==
  /\ holder' = [k \in Copies |-> IF holder[k] = c THEN Nobody ELSE holder[k]]
  /\ wire'   = [k \in Copies |-> IF holder[k] = c THEN "none" ELSE wire[k]]
  /\ UNCHANGED <<msg, retry, dead, discarded>>

ChannelLost(c) ==
  /\ open[c]
  /\ faults < MaxFaults
  /\ faults' = faults + 1
  /\ open'   = [open EXCEPT ![c] = FALSE]
  /\ Requeue(c)
  /\ UNCHANGED <<phase, cancelled, delivery, history>>

-----------------------------------------------------------------------------
(* The process around the consumer.                                        *)

Cancel(c) ==
  /\ phase[c] # "down"
  /\ ~cancelled[c]
  /\ faults < MaxFaults
  /\ faults' = faults + 1
  /\ cancelled' = [cancelled EXCEPT ![c] = TRUE]
  /\ UNCHANGED <<broker, phase, open, delivery, history>>

Crash(c) ==
  /\ phase[c] # "down"
  /\ faults < MaxFaults
  /\ faults' = faults + 1
  /\ phase' = [phase EXCEPT ![c] = "down"]
  /\ open'  = [open EXCEPT ![c] = FALSE]
  /\ delivery' = [delivery EXCEPT ![c] = [k \in Copies |-> NoDelivery]]
  /\ Requeue(c)
  /\ UNCHANGED <<cancelled, history>>

Restart(c) ==
  /\ phase[c] = "down"
  /\ phase'     = [phase EXCEPT ![c] = "connecting"]
  /\ cancelled' = [cancelled EXCEPT ![c] = FALSE]
  /\ UNCHANGED <<broker, open, delivery, history, faults>>

-----------------------------------------------------------------------------
RunLoop(c) == Connect(c) \/ LeaveLoop(c) \/ Cleanup(c) \/ StopConnecting(c) \/ Restart(c)

ProcessMessage(c, k) ==
  \/ HandleOk(c, k)
  \/ HandleError(c, k)
  \/ Republish(c, k)
  \/ Ack(c, k)
  \/ Reject(c, k)

BrokerStep(k) == AcceptRepublish(k) \/ AcceptAck(k) \/ AcceptNack(k)

\* What the code and the broker do when nobody interferes.
Progress ==
  \/ \E c \in Consumers : RunLoop(c)
  \/ \E c \in Consumers, k \in Copies :
       \/ Deliver(c, k)
       \/ Dispatch(c, k)
       \/ TakeJob(c, k)
       \/ ProcessMessage(c, k)
  \/ \E k \in Copies : BrokerStep(k)

Fault(c) == ChannelLost(c) \/ Cancel(c) \/ Crash(c)

Next ==
  \/ \E m \in Messages : Publish(m)
  \/ Progress
  \/ \E c \in Consumers : Fault(c)

Spec == Init /\ [][Next]_vars

\* Goroutines are scheduled, handlers end by their timeout, the broker serves its
\* channels and a stopped process is restarted: something that can move does.  Faults
\* are not fair, they need not happen.
Fairness == WF_vars(Progress)

FairSpec == Spec /\ Fairness

-----------------------------------------------------------------------------
(* Properties.                                                             *)

TypeOK ==
  /\ msg       \in [Copies -> Messages \union {NoMessage}]
  /\ retry     \in [Copies -> 0 .. MaxRetries]
  /\ holder    \in [Copies -> Consumers \union {Nobody}]
  /\ wire      \in [Copies -> Frames]
  /\ dead      \subseteq Messages
  /\ discarded \subseteq Messages
  /\ phase     \in [Consumers -> Phases]
  /\ open      \in [Consumers -> BOOLEAN]
  /\ cancelled \in [Consumers -> BOOLEAN]
  /\ delivery  \in [Consumers -> [Copies -> Deliveries]]
  /\ sent      \subseteq Messages
  /\ completed \subseteq Messages
  /\ failures  \in [Messages -> 0 .. MaxRetries + 1]
  /\ faults    \in 0 .. MaxFaults

\* A message that entered the queue is never lost: as long as no handler succeeded and it
\* is not in the DLQ, a copy of it is in the broker, whatever happens between the republish
\* of a failed message and the ack of the original.
NoMessageLost ==
  \A m \in sent : \/ m \in completed \union dead \union discarded
                  \/ \E k \in Copies : msg[k] = m

\* A message is dead-lettered only after its handler failed MaxRetries + 1 times, across
\* republished copies, redeliveries, reconnects and restarts.
DeadOnlyAfterMaxRetries ==
  \A m \in dead \union discarded : failures[m] = MaxRetries + 1

\* The jobs channel (capacity prefetchCount) always has room for a delivery the loop has
\* taken, so the loop is never stuck in "jobs <- d" while its channel is closed under it.
LoopNeverBlocks ==
  \A c \in Consumers :
    phase[c] = "running" => Cardinality(At(c, "inbox")) + Cardinality(PoolWork(c)) <= Prefetch

\* Every message is completed or dead-lettered in the end.
EveryMessageSettles ==
  \A m \in Messages : (m \in sent) ~> (m \in completed \union dead \union discarded)

=============================================================================
