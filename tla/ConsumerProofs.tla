--------------------------- MODULE ConsumerProofs ---------------------------
(***************************************************************************)
(* Theorems about Consumer, for any number of messages, replicas, workers,  *)
(* prefetched deliveries, retries and faults.                               *)
(*                                                                         *)
(* What a worker does with a delivery depends on what it was told of the    *)
(* copy when it was delivered, on a channel that may be gone by now; what a  *)
(* frame does to a copy was decided when it was written.  ConsumerInv says   *)
(* what remains true of the copies, the frames and the deliveries.          *)
(***************************************************************************)
EXTENDS Consumer, FiniteSetTheorems, TLAPS

-----------------------------------------------------------------------------
(* The inductive invariant.                                                *)

\* Nothing is lost with copy k: its message is settled, or a later copy of it is in the broker.
\* Later copies have more retries behind them, so copies cannot wait for each other in a circle.
Covered(k) ==
  \/ msg[k] \in completed \union dead \union discarded
  \/ \E j \in Copies : msg[j] = msg[k] /\ retry[j] > retry[k]

\* A copy and the frames about it: they exist while the channel they were written to is open,
\* and every retry is a failure.
CopyOK(k) ==
  /\ msg[k] = NoMessage => holder[k] = Nobody
  /\ holder[k] = Nobody => wire[k] = "none"
  /\ holder[k] # Nobody => open[holder[k]]
  /\ msg[k] # NoMessage => retry[k] <= failures[msg[k]]
  /\ wire[k] \in {"republish", "republish_ack"} =>
       retry[k] < MaxRetries /\ retry[k] < failures[msg[k]]
  /\ wire[k] = "nack" => failures[msg[k]] = MaxRetries + 1
  /\ wire[k] = "ack"  => Covered(k)

\* What c knows of a delivery, whether or not the channel it came on is still open.
DeliveryOK(c, k) ==
  LET d == delivery[c][k] IN
  d.at # "none" =>
    /\ d.msg \in Messages
    /\ d.retry <= failures[d.msg]
    /\ d.at = "retry"  => d.retry < MaxRetries /\ d.retry < failures[d.msg]
    /\ d.at = "reject" => failures[d.msg] = MaxRetries + 1

\* On an open channel a delivery is the copy it was made from.
OpenDeliveryOK(c, k) ==
  LET d == delivery[c][k] IN
  d.at # "none" /\ open[c] =>
    /\ holder[k] = c /\ msg[k] = d.msg /\ retry[k] = d.retry
    /\ wire[k] = "none" \/ (wire[k] = "republish" /\ d.at = "ack")
    /\ d.at = "ack" /\ wire[k] = "none" => Covered(k)

\* A consumer has no channel and no deliveries before it connects and after it stopped.
PhaseOK(c) ==
  phase[c] \in {"connecting", "down"} =>
    ~open[c] /\ \A k \in Copies : delivery[c][k].at = "none"

\* The deliveries c has got: the broker counts those of the open channel, and none are added
\* to what is left of a closed one.
Active(c) == {k \in Copies : delivery[c][k].at # "none"}
WindowOK(c) == Cardinality(Unacked(c)) <= Prefetch /\ Cardinality(Active(c)) <= Prefetch

CopiesInv     == \A k \in Copies : CopyOK(k)
DeliveriesInv == \A c \in Consumers, k \in Copies : DeliveryOK(c, k) /\ OpenDeliveryOK(c, k)
ChannelsInv   == \A c \in Consumers : PhaseOK(c) /\ WindowOK(c)

ConsumerInv ==
  /\ TypeOK /\ CopiesInv /\ DeliveriesInv /\ ChannelsInv
  /\ NoMessageLost /\ DeadOnlyAfterMaxRetries

-----------------------------------------------------------------------------
(* Type correctness.                                                       *)

\* Bump counts up to its cap.
LEMMA BumpType ==
  ASSUME NEW cap \in Nat, NEW n \in 0 .. cap
  PROVE  /\ Bump(n, cap) \in 0 .. cap
         /\ Bump(n, cap) >= n
         /\ \A r \in Nat : r < cap /\ r <= n => r < Bump(n, cap)
  BY DEF Bump

LEMMA InitTypeOK == Init => TypeOK
  BY ConsumerAssumption DEF Init, TypeOK, Frames, Phases, Deliveries, NoDelivery, Stages

\* Enqueue uses one free copy and leaves the others as they are.
LEMMA EnqueueFrame ==
  ASSUME TypeOK, NEW m \in Messages, NEW r \in 0 .. MaxRetries, NEW k \in Copies, Enqueue(m, r, k)
  PROVE  /\ msg[k] = NoMessage /\ \A c \in Consumers : delivery[c][k].at = "none"
         /\ msg'[k] = m /\ retry'[k] = r
         /\ \A j \in Copies \ {k} : msg'[j] = msg[j] /\ retry'[j] = retry[j]
         /\ msg' \in [Copies -> Messages \union {NoMessage}]
         /\ retry' \in [Copies -> 0 .. MaxRetries]
  BY DEF TypeOK, Enqueue, Unused, NoDelivery

\* Forget empties one copy and leaves the others as they are.
LEMMA ForgetFrame ==
  ASSUME TypeOK, NEW k \in Copies, Forget(k)
  PROVE  /\ msg'[k] = NoMessage /\ retry'[k] = 0 /\ holder'[k] = Nobody /\ wire'[k] = "none"
         /\ \A j \in Copies \ {k} : /\ msg'[j] = msg[j] /\ retry'[j] = retry[j]
                                    /\ holder'[j] = holder[j] /\ wire'[j] = wire[j]
         /\ msg' \in [Copies -> Messages \union {NoMessage}]
         /\ retry' \in [Copies -> 0 .. MaxRetries]
         /\ holder' \in [Copies -> Consumers \union {Nobody}]
         /\ wire' \in [Copies -> Frames]
  BY ConsumerAssumption DEF TypeOK, Forget, Frames

\* A worker's step is about one delivery of one consumer.
LEMMA MoveFrame ==
  ASSUME TypeOK, NEW c \in Consumers, NEW k \in Copies, NEW st \in Stages, Move(c, k, st)
  PROVE  /\ delivery' \in [Consumers -> [Copies -> Deliveries]]
         /\ delivery'[c][k].at = st
         /\ delivery'[c][k].msg = delivery[c][k].msg
         /\ delivery'[c][k].retry = delivery[c][k].retry
<1>1. delivery[c] \in [Copies -> Deliveries] /\ delivery[c][k] \in Deliveries
  BY DEF TypeOK
<1>2. [delivery[c][k] EXCEPT !.at = st] \in Deliveries
  BY <1>1 DEF Deliveries
<1>3. delivery' = [delivery EXCEPT ![c] = [delivery[c] EXCEPT ![k] = [delivery[c][k] EXCEPT !.at = st]]]
  BY DEF Move
<1>4. QED
  BY <1>1, <1>2, <1>3 DEF TypeOK, Deliveries

LEMMA DoneFrame ==
  ASSUME TypeOK, NEW c \in Consumers, NEW k \in Copies, Done(c, k)
  PROVE  /\ delivery' \in [Consumers -> [Copies -> Deliveries]]
         /\ delivery'[c][k].at = "none"
<1>1. NoDelivery \in Deliveries /\ NoDelivery.at = "none"
  BY ConsumerAssumption DEF NoDelivery, Deliveries, Stages
<1>2. QED
  BY <1>1 DEF Done, TypeOK

LEMMA OthersStay ==
  ASSUME TypeOK, NEW c \in Consumers, NEW k \in Copies, NEW st, Move(c, k, st) \/ Done(c, k),
         NEW b \in Consumers, NEW j \in Copies, b # c \/ j # k
  PROVE  delivery'[b][j] = delivery[b][j]
  BY DEF TypeOK, Move, Done

LEMMA OneFaultMore ==
  ASSUME TypeOK, faults < MaxFaults, faults' = faults + 1
  PROVE  faults' \in 0 .. MaxFaults
  BY ConsumerAssumption DEF TypeOK

LEMMA NextTypeOK == ConsumerInv /\ [Next]_vars => TypeOK'
<1> SUFFICES ASSUME ConsumerInv, [Next]_vars
             PROVE  TypeOK'
  OBVIOUS
<1>0. TypeOK
  BY DEF ConsumerInv
<1> USE <1>0, ConsumerAssumption
<1>1. ASSUME NEW m \in Messages, Publish(m)
      PROVE  TypeOK'
  <2>1. PICK k \in Copies : Enqueue(m, 0, k)
    BY <1>1 DEF Publish
  <2>2. msg' \in [Copies -> Messages \union {NoMessage}] /\ retry' \in [Copies -> 0 .. MaxRetries]
    BY <2>1, EnqueueFrame
  <2>3. QED
    BY <1>1, <2>2 DEF TypeOK, Publish, client
<1>2. ASSUME NEW c \in Consumers, Connect(c) \/ LeaveLoop(c) \/ StopConnecting(c) \/ Restart(c) \/ Cancel(c)
      PROVE  TypeOK'
  <2>1. faults' \in 0 .. MaxFaults
    BY <1>2, OneFaultMore DEF TypeOK, Connect, LeaveLoop, StopConnecting, Restart, Cancel
  <2>2. QED
    BY <1>2, <2>1
       DEF TypeOK, Connect, LeaveLoop, StopConnecting, Restart, Cancel, Phases, broker, history
<1>3. ASSUME NEW c \in Consumers, ChannelLost(c) \/ Cleanup(c) \/ Crash(c)
      PROVE  TypeOK'
  <2>1. /\ holder' \in [Copies -> Consumers \union {Nobody}]
        /\ wire' \in [Copies -> Frames]
        /\ UNCHANGED <<msg, retry, dead, discarded, sent, completed, failures>>
    BY <1>3 DEF TypeOK, ChannelLost, Cleanup, Crash, Requeue, history, Frames
  <2>2. delivery' \in [Consumers -> [Copies -> Deliveries]]
    <3>1. NoDelivery \in Deliveries
      BY DEF NoDelivery, Deliveries, Stages
    <3>2. [k \in Copies |-> NoDelivery] \in [Copies -> Deliveries]
      BY <3>1
    <3>3. QED
      BY <1>3, <3>2 DEF TypeOK, ChannelLost, Cleanup, Crash
  <2>3. /\ phase' \in [Consumers -> Phases]
        /\ open' \in [Consumers -> BOOLEAN]
        /\ cancelled' = cancelled
    BY <1>3 DEF TypeOK, ChannelLost, Cleanup, Crash, Phases
  <2>4. faults' \in 0 .. MaxFaults
    BY <1>3, OneFaultMore DEF TypeOK, ChannelLost, Cleanup, Crash
  <2>5. QED
    BY <2>1, <2>2, <2>3, <2>4 DEF TypeOK
<1>4. ASSUME NEW c \in Consumers, NEW k \in Copies, Dispatch(c, k) \/ TakeJob(c, k)
      PROVE  TypeOK'
  <2>1. \E st \in Stages : Move(c, k, st)
    BY <1>4 DEF Dispatch, TakeJob, Stages
  <2>2. delivery' \in [Consumers -> [Copies -> Deliveries]]
    BY <2>1, MoveFrame
  <2>3. QED
    BY <1>4, <2>2 DEF TypeOK, Dispatch, TakeJob, broker, history
<1>5. ASSUME NEW c \in Consumers, NEW k \in Copies, HandleOk(c, k) \/ HandleError(c, k)
      PROVE  TypeOK'
  <2>1. \E st \in Stages : Move(c, k, st)
    BY <1>5 DEF HandleOk, HandleError, Stages
  <2>2. delivery' \in [Consumers -> [Copies -> Deliveries]]
    BY <2>1, MoveFrame
  <2>3. delivery[c][k].msg \in Messages
    BY <1>5 DEF ConsumerInv, DeliveriesInv, DeliveryOK, HandleOk, HandleError
  <2>4. Bump(failures[delivery[c][k].msg], MaxRetries + 1) \in 0 .. MaxRetries + 1
    <3>1. failures[delivery[c][k].msg] \in 0 .. MaxRetries + 1
      BY <2>3 DEF TypeOK
    <3>2. MaxRetries + 1 \in Nat
      BY ConsumerAssumption
    <3>3. QED
      BY <3>1, <3>2, BumpType
  <2>5. completed' \subseteq Messages /\ failures' \in [Messages -> 0 .. MaxRetries + 1]
    BY <1>5, <2>3, <2>4 DEF TypeOK, HandleOk, HandleError
  <2>6. QED
    BY <1>5, <2>2, <2>5 DEF TypeOK, HandleOk, HandleError, broker
<1>6. ASSUME NEW c \in Consumers, NEW k \in Copies, Republish(c, k) \/ Ack(c, k) \/ Reject(c, k)
      PROVE  TypeOK'
  <2>1. Move(c, k, "ack") \/ Done(c, k)
    BY <1>6 DEF Republish, Ack, Reject
  <2>2. delivery' \in [Consumers -> [Copies -> Deliveries]]
    BY <2>1, MoveFrame, DoneFrame DEF Stages
  <2>3. wire' \in [Copies -> Frames]
    BY <1>6 DEF TypeOK, Republish, Ack, Reject, Frames
  <2>4. QED
    BY <1>6, <2>2, <2>3 DEF TypeOK, Republish, Ack, Reject, history
<1>7. ASSUME NEW c \in Consumers, NEW k \in Copies, Deliver(c, k)
      PROVE  TypeOK'
  <2>1. [at |-> "inbox", msg |-> msg[k], retry |-> retry[k]] \in Deliveries
    BY DEF TypeOK, Deliveries, Stages
  <2>2. QED
    BY <1>7, <2>1 DEF TypeOK, Deliver, history
<1>8. ASSUME NEW k \in Copies, AcceptRepublish(k)
      PROVE  TypeOK'
  <2>1. PICK j \in Copies : Enqueue(msg[k], retry[k] + 1, j)
    BY <1>8 DEF AcceptRepublish
  <2>2. msg[k] \in Messages /\ retry[k] + 1 \in 0 .. MaxRetries
    BY <1>8 DEF AcceptRepublish, ConsumerInv, CopiesInv, CopyOK, TypeOK
  <2>3. msg' \in [Copies -> Messages \union {NoMessage}] /\ retry' \in [Copies -> 0 .. MaxRetries]
    BY <2>1, <2>2, EnqueueFrame
  <2>4. wire' \in [Copies -> Frames]
    BY <1>8 DEF TypeOK, AcceptRepublish, Frames
  <2>5. QED
    BY <1>8, <2>3, <2>4 DEF TypeOK, AcceptRepublish, client, history
<1>9. ASSUME NEW k \in Copies, AcceptAck(k) \/ AcceptNack(k)
      PROVE  TypeOK'
  <2>1. /\ msg' \in [Copies -> Messages \union {NoMessage}]
        /\ retry' \in [Copies -> 0 .. MaxRetries]
        /\ holder' \in [Copies -> Consumers \union {Nobody}]
        /\ wire' \in [Copies -> Frames]
    BY <1>9, ForgetFrame DEF AcceptAck, AcceptNack
  <2>2. msg[k] \in Messages
    BY <1>9 DEF AcceptAck, AcceptNack, ConsumerInv, CopiesInv, CopyOK, TypeOK
  <2>3. dead' \subseteq Messages /\ discarded' \subseteq Messages
    BY <1>9, <2>2 DEF TypeOK, AcceptAck, AcceptNack
  <2>4. QED
    BY <1>9, <2>1, <2>3 DEF TypeOK, AcceptAck, AcceptNack, client, history
<1>10. CASE UNCHANGED vars
  BY <1>10 DEF TypeOK, vars
<1>11. QED
  BY <1>1, <1>2, <1>3, <1>4, <1>5, <1>6, <1>7, <1>8, <1>9, <1>10
     DEF Next, Progress, RunLoop, ProcessMessage, BrokerStep, Fault

-----------------------------------------------------------------------------
(* Facts the steps share.                                                  *)

\* A copy stays covered while copies are only added and settled messages only become more.
LEMMA CoveredStays ==
  ASSUME NEW k \in Copies, msg[k] # NoMessage, Covered(k),
         completed \subseteq completed', dead \subseteq dead', discarded \subseteq discarded',
         \A j \in Copies : msg[j] # NoMessage => msg'[j] = msg[j] /\ retry'[j] = retry[j]
  PROVE  Covered(k)'
  BY DEF Covered

\* A handler's error is counted; nothing forgets it.
LEMMA FailuresGrow ==
  ASSUME ConsumerInv, NEW c \in Consumers, NEW k \in Copies, HandleError(c, k)
  PROVE  /\ \A m \in Messages : failures'[m] >= failures[m]
         /\ \A r \in Nat : r <= MaxRetries /\ r <= failures[delivery[c][k].msg]
                         => r < failures'[delivery[c][k].msg]
<1> DEFINE m == delivery[c][k].msg
<1>1. m \in Messages /\ failures \in [Messages -> 0 .. MaxRetries + 1]
  BY DEF ConsumerInv, TypeOK, DeliveriesInv, DeliveryOK, HandleError
<1>2. failures' = [failures EXCEPT ![m] = Bump(@, MaxRetries + 1)]
  BY DEF HandleError
<1>3. /\ MaxRetries + 1 \in Nat /\ failures[m] \in 0 .. MaxRetries + 1
      /\ failures'[m] = Bump(failures[m], MaxRetries + 1)
  BY <1>1, <1>2, ConsumerAssumption
<1>4. /\ failures'[m] >= failures[m]
      /\ \A r \in Nat : r < MaxRetries + 1 /\ r <= failures[m] => r < failures'[m]
  BY <1>3, BumpType
<1>5. \A n \in Messages : failures'[n] >= failures[n]
  BY <1>1, <1>2, <1>4, ConsumerAssumption
<1>6. QED
  BY <1>4, <1>5, ConsumerAssumption

\* And when an acknowledged or rejected copy goes: a copy it covered is covered by what covers it.
LEMMA CoveredAfterForget ==
  ASSUME ConsumerInv, NEW j \in Copies, NEW k \in Copies, j # k,
         AcceptAck(j) \/ AcceptNack(j), msg[k] # NoMessage, Covered(k)
  PROVE  Covered(k)'
<1>0. TypeOK /\ CopyOK(j)
  BY DEF ConsumerInv, CopiesInv
<1>1. /\ completed' = completed /\ dead \subseteq dead' /\ discarded \subseteq discarded'
      /\ \A i \in Copies \ {j} : msg'[i] = msg[i] /\ retry'[i] = retry[i]
  BY <1>0, ForgetFrame DEF AcceptAck, AcceptNack, history
<1>2. CASE msg[k] \in completed \union dead \union discarded
  BY <1>1, <1>2 DEF Covered
<1>3. ASSUME NEW i \in Copies, i # j, msg[i] = msg[k], retry[i] > retry[k]
      PROVE  Covered(k)'
  BY <1>1, <1>3 DEF Covered
<1>4. CASE msg[j] = msg[k] /\ retry[j] > retry[k]
  <2>1. CASE AcceptNack(j)
    BY <1>1, <1>4, <2>1 DEF AcceptNack, Covered
  <2>2. CASE AcceptAck(j) /\ msg[k] \notin completed \union dead \union discarded
    <3>1. Covered(j)
      BY <1>0, <2>2 DEF AcceptAck, CopyOK
    <3>2. PICK i \in Copies : msg[i] = msg[k] /\ retry[i] > retry[j]
      BY <1>4, <2>2, <3>1 DEF Covered
    <3>3. i # j /\ retry[i] > retry[k]
      <4>1. retry[i] \in Nat /\ retry[j] \in Nat /\ retry[k] \in Nat
        BY <1>0, ConsumerAssumption DEF TypeOK
      <4>2. QED
        BY <1>4, <3>2, <4>1
    <3>4. QED
      BY <1>3, <3>2, <3>3
  <2>3. QED
    BY <1>2, <2>1, <2>2
<1>5. QED
  BY <1>2, <1>3, <1>4 DEF Covered

-----------------------------------------------------------------------------
(* The copies in the broker.                                               *)

LEMMA NextCopiesInv == ConsumerInv /\ [Next]_vars => CopiesInv'
<1> SUFFICES ASSUME ConsumerInv, [Next]_vars, NEW k \in Copies
             PROVE  CopyOK(k)'
  BY DEF CopiesInv
<1>0. TypeOK /\ TypeOK' /\ CopyOK(k)
  BY NextTypeOK DEF ConsumerInv, CopiesInv
<1>1. wire[k] = "ack" => msg[k] # NoMessage
  BY <1>0 DEF CopyOK
<1> USE ConsumerAssumption
<1>2. ASSUME NEW m \in Messages, Publish(m)
      PROVE  CopyOK(k)'
  <2>1. PICK j \in Copies : Enqueue(m, 0, j)
    BY <1>2 DEF Publish
  <2>2. /\ msg[j] = NoMessage /\ msg'[j] = m /\ retry'[j] = 0
        /\ \A i \in Copies \ {j} : msg'[i] = msg[i] /\ retry'[i] = retry[i]
    BY <1>0, <2>1, EnqueueFrame
  <2>3. /\ UNCHANGED <<holder, wire, dead, discarded, open, completed, failures>>
    BY <1>2 DEF Publish, client
  <2>4. CASE j = k
    BY <1>0, <2>2, <2>3, <2>4 DEF CopyOK, TypeOK
  <2>5. CASE j # k
    <3>1. wire[k] = "ack" => Covered(k)'
      BY <1>0, <1>1, <2>2, <2>3, CoveredStays DEF CopyOK
    <3>2. QED
      BY <1>0, <2>2, <2>3, <2>5, <3>1 DEF CopyOK
  <2>6. QED
    BY <2>4, <2>5
<1>3. ASSUME NEW c \in Consumers, Connect(c) \/ LeaveLoop(c) \/ StopConnecting(c) \/ Restart(c) \/ Cancel(c)
      PROVE  CopyOK(k)'
  <2>1. UNCHANGED <<msg, retry, holder, wire, dead, discarded, completed, failures>>
    BY <1>3 DEF Connect, LeaveLoop, StopConnecting, Restart, Cancel, broker, history
  <2>2. \A b \in Consumers : open[b] => open'[b]
    BY <1>0, <1>3 DEF TypeOK, Connect, LeaveLoop, StopConnecting, Restart, Cancel
  <2>3. QED
    BY <1>0, <2>1, <2>2 DEF TypeOK, CopyOK, Covered
<1>4. ASSUME NEW c \in Consumers, ChannelLost(c) \/ Cleanup(c) \/ Crash(c)
      PROVE  CopyOK(k)'
  <2>1. UNCHANGED <<msg, retry, dead, discarded, completed, failures>>
    BY <1>4 DEF ChannelLost, Cleanup, Crash, Requeue, history
  <2>2. \A b \in Consumers \ {c} : open'[b] = open[b]
    BY <1>0, <1>4 DEF TypeOK, ChannelLost, Cleanup, Crash
  <2>3. IF holder[k] = c THEN holder'[k] = Nobody /\ wire'[k] = "none"
                         ELSE holder'[k] = holder[k] /\ wire'[k] = wire[k]
    BY <1>0, <1>4 DEF TypeOK, ChannelLost, Cleanup, Crash, Requeue, Unacked
  <2>4. QED
    BY <1>0, <2>1, <2>2, <2>3 DEF TypeOK, CopyOK, Covered
<1>5. ASSUME NEW c \in Consumers, NEW j \in Copies, Dispatch(c, j) \/ TakeJob(c, j)
      PROVE  CopyOK(k)'
  BY <1>0, <1>5 DEF Dispatch, TakeJob, CopyOK, Covered, broker, history
<1>6. ASSUME NEW c \in Consumers, NEW j \in Copies, HandleOk(c, j)
      PROVE  CopyOK(k)'
  BY <1>0, <1>6 DEF HandleOk, CopyOK, Covered, broker
<1>7. ASSUME NEW c \in Consumers, NEW j \in Copies, HandleError(c, j)
      PROVE  CopyOK(k)'
  <2>1. UNCHANGED <<msg, retry, holder, wire, dead, discarded, open, completed>>
    BY <1>7 DEF HandleError, broker
  <2>2. \A m \in Messages : failures'[m] \in 0 .. MaxRetries + 1 /\ failures'[m] >= failures[m]
    BY <1>0, <1>7, FailuresGrow DEF TypeOK
  <2>3. \A m \in Messages : failures[m] \in 0 .. MaxRetries + 1
    BY <1>0 DEF TypeOK
  <2>4. msg[k] \in Messages \union {NoMessage} /\ retry[k] \in Nat
        /\ (wire[k] # "none" => msg[k] # NoMessage)
    BY <1>0 DEF TypeOK, CopyOK
  <2>5. QED
    BY <1>0, <2>1, <2>2, <2>3, <2>4 DEF CopyOK, Covered
<1>8. ASSUME NEW c \in Consumers, NEW j \in Copies, Republish(c, j) \/ Ack(c, j) \/ Reject(c, j)
      PROVE  CopyOK(k)'
  <2>1. UNCHANGED <<msg, retry, holder, dead, discarded, open, completed, failures>>
    BY <1>8 DEF Republish, Ack, Reject, history
  <2>2. CASE wire'[k] = wire[k]
    BY <1>0, <2>1, <2>2 DEF CopyOK, Covered
  <2>3. CASE wire'[k] # wire[k]
    <3>1. k = j /\ open[c]
      BY <1>0, <1>8, <2>3 DEF TypeOK, Republish, Ack, Reject
    <3>2. DeliveryOK(c, k) /\ OpenDeliveryOK(c, k)
      BY DEF ConsumerInv, DeliveriesInv
    <3>3. CASE Republish(c, k)
      BY <1>0, <2>1, <3>1, <3>2, <3>3 DEF TypeOK, CopyOK, DeliveryOK, OpenDeliveryOK, Republish
    <3>4. CASE Ack(c, k)
      BY <1>0, <2>1, <3>1, <3>2, <3>4 DEF TypeOK, CopyOK, Covered, OpenDeliveryOK, Ack
    <3>5. CASE Reject(c, k)
      BY <1>0, <2>1, <3>1, <3>2, <3>5 DEF TypeOK, CopyOK, DeliveryOK, OpenDeliveryOK, Reject
    <3>6. QED
      BY <1>8, <3>1, <3>3, <3>4, <3>5
  <2>4. QED
    BY <2>2, <2>3
<1>9. ASSUME NEW c \in Consumers, NEW j \in Copies, Deliver(c, j)
      PROVE  CopyOK(k)'
  BY <1>0, <1>9 DEF Deliver, TypeOK, CopyOK, Covered, history
<1>10. ASSUME NEW j \in Copies, AcceptRepublish(j)
       PROVE  CopyOK(k)'
  <2>1. PICK i \in Copies : Enqueue(msg[j], retry[j] + 1, i)
    BY <1>10 DEF AcceptRepublish
  <2>2. /\ msg[j] \in Messages /\ retry[j] \in Nat /\ retry[j] + 1 \in 0 .. MaxRetries
        /\ retry[j] + 1 <= failures[msg[j]]
    <3>1. CopyOK(j) /\ retry[j] \in 0 .. MaxRetries /\ msg[j] \in Messages \union {NoMessage}
      BY <1>0 DEF ConsumerInv, CopiesInv, TypeOK
    <3>2. msg[j] \in Messages /\ retry[j] < MaxRetries /\ retry[j] < failures[msg[j]]
      BY <1>10, <3>1 DEF AcceptRepublish, CopyOK
    <3>3. failures[msg[j]] \in Nat
      BY <1>0, <3>2 DEF TypeOK
    <3>4. QED
      BY <3>1, <3>2, <3>3
  <2>3. /\ msg[i] = NoMessage /\ msg'[i] = msg[j] /\ retry'[i] = retry[j] + 1
        /\ \A l \in Copies \ {i} : msg'[l] = msg[l] /\ retry'[l] = retry[l]
    BY <1>0, <2>1, <2>2, EnqueueFrame
  <2>4. /\ UNCHANGED <<holder, dead, discarded, open, completed, failures>>
        /\ wire' = [wire EXCEPT ![j] = IF @ = "republish_ack" THEN "ack" ELSE "none"]
    BY <1>10 DEF AcceptRepublish, client, history
  <2>5. CASE k = i
    BY <1>0, <2>2, <2>3, <2>4, <2>5 DEF CopyOK, TypeOK
  <2>6. CASE k = j
    <3>1. Covered(k)'
      BY <2>2, <2>3, <2>6 DEF Covered
    <3>2. QED
      BY <1>0, <1>10, <2>2, <2>3, <2>4, <2>6, <3>1 DEF CopyOK, TypeOK, AcceptRepublish
  <2>7. CASE k # i /\ k # j
    <3>1. wire[k] = "ack" => Covered(k)'
      BY <1>0, <1>1, <2>3, <2>4, CoveredStays DEF CopyOK
    <3>2. QED
      BY <1>0, <2>3, <2>4, <2>7, <3>1 DEF CopyOK, TypeOK
  <2>8. QED
    BY <2>5, <2>6, <2>7
<1>11. ASSUME NEW j \in Copies, AcceptAck(j) \/ AcceptNack(j)
       PROVE  CopyOK(k)'
  <2>1. Forget(j) /\ UNCHANGED <<open, completed, failures>>
    BY <1>11 DEF AcceptAck, AcceptNack, client, history
  <2>2. CASE k = j
    BY <1>0, <2>1, <2>2, ForgetFrame DEF CopyOK
  <2>3. CASE k # j
    <3>1. wire[k] = "ack" => Covered(k)'
      BY <1>0, <1>1, <1>11, <2>3, CoveredAfterForget DEF CopyOK
    <3>2. /\ msg'[k] = msg[k] /\ retry'[k] = retry[k]
          /\ holder'[k] = holder[k] /\ wire'[k] = wire[k]
      BY <1>0, <2>1, <2>3, ForgetFrame
    <3>3. QED
      BY <1>0, <2>1, <3>1, <3>2 DEF CopyOK
  <2>4. QED
    BY <2>2, <2>3
<1>12. CASE UNCHANGED vars
  BY <1>0, <1>12 DEF vars, CopyOK, Covered
<1>13. QED
  BY <1>2, <1>3, <1>4, <1>5, <1>6, <1>7, <1>8, <1>9, <1>10, <1>11, <1>12
     DEF Next, Progress, RunLoop, ProcessMessage, BrokerStep, Fault

-----------------------------------------------------------------------------
(* The deliveries.                                                         *)

LEMMA NextDeliveriesInv == ConsumerInv /\ [Next]_vars => DeliveriesInv'
<1> SUFFICES ASSUME ConsumerInv, [Next]_vars, NEW c \in Consumers, NEW k \in Copies
             PROVE  DeliveryOK(c, k)' /\ OpenDeliveryOK(c, k)'
  BY DEF DeliveriesInv
<1>0. /\ TypeOK /\ TypeOK' /\ CopyOK(k)
      /\ DeliveryOK(c, k) /\ OpenDeliveryOK(c, k) /\ PhaseOK(c)
  BY NextTypeOK DEF ConsumerInv, CopiesInv, DeliveriesInv, ChannelsInv
<1>1. /\ delivery[c][k].at # "none" /\ open[c] => msg[k] \in Messages /\ msg[k] # NoMessage
      /\ delivery[c][k].at \in Stages /\ delivery[c][k].retry \in 0 .. MaxRetries
  BY <1>0, ConsumerAssumption DEF TypeOK, Deliveries, DeliveryOK, OpenDeliveryOK
<1> USE ConsumerAssumption
<1>2. ASSUME NEW m \in Messages, Publish(m)
      PROVE  DeliveryOK(c, k)' /\ OpenDeliveryOK(c, k)'
  <2>1. PICK j \in Copies : Enqueue(m, 0, j)
    BY <1>2 DEF Publish
  <2>2. /\ msg[j] = NoMessage
        /\ \A i \in Copies \ {j} : msg'[i] = msg[i] /\ retry'[i] = retry[i]
    BY <1>0, <2>1, EnqueueFrame
  <2>3. UNCHANGED <<holder, wire, dead, discarded, open, delivery, completed, failures>>
    BY <1>2 DEF Publish, client
  <2>4. delivery[c][k].at # "none" /\ open[c] /\ Covered(k) => Covered(k)'
    BY <1>1, <2>2, <2>3, CoveredStays
  <2>5. QED
    BY <1>0, <1>1, <2>2, <2>3, <2>4 DEF DeliveryOK, OpenDeliveryOK
<1>3. ASSUME NEW b \in Consumers, Connect(b) \/ LeaveLoop(b) \/ StopConnecting(b) \/ Restart(b) \/ Cancel(b)
      PROVE  DeliveryOK(c, k)' /\ OpenDeliveryOK(c, k)'
  <2>1. UNCHANGED <<msg, retry, holder, wire, dead, discarded, delivery, completed, failures>>
    BY <1>3 DEF Connect, LeaveLoop, StopConnecting, Restart, Cancel, broker, history
  <2>2. open'[c] = open[c] \/ delivery[c][k].at = "none"
    BY <1>0, <1>3 DEF TypeOK, PhaseOK, Connect, LeaveLoop, StopConnecting, Restart, Cancel
  <2>3. QED
    BY <1>0, <2>1, <2>2 DEF DeliveryOK, OpenDeliveryOK, Covered
<1>4. ASSUME NEW b \in Consumers, ChannelLost(b) \/ Cleanup(b) \/ Crash(b)
      PROVE  DeliveryOK(c, k)' /\ OpenDeliveryOK(c, k)'
  <2>1. UNCHANGED <<msg, retry, dead, discarded, completed, failures>>
    BY <1>4 DEF ChannelLost, Cleanup, Crash, Requeue, history
  <2>2. delivery'[c][k] = delivery[c][k] \/ delivery'[c][k].at = "none"
    BY <1>0, <1>4 DEF TypeOK, ChannelLost, Cleanup, Crash, NoDelivery
  <2>3. ~open'[c] \/ (c # b /\ open'[c] = open[c])
    BY <1>0, <1>4 DEF TypeOK, ChannelLost, Cleanup, Crash
  <2>4. holder[k] # b => holder'[k] = holder[k] /\ wire'[k] = wire[k]
    BY <1>0, <1>4 DEF TypeOK, ChannelLost, Cleanup, Crash, Requeue
  <2>5. QED
    BY <1>0, <2>1, <2>2, <2>3, <2>4 DEF DeliveryOK, OpenDeliveryOK, Covered
<1>5. ASSUME NEW b \in Consumers, NEW j \in Copies, Dispatch(b, j) \/ TakeJob(b, j)
      PROVE  DeliveryOK(c, k)' /\ OpenDeliveryOK(c, k)'
  <2>0. PICK st \in {"job", "handling"} : Move(b, j, st)
    BY <1>5 DEF Dispatch, TakeJob
  <2>1. /\ UNCHANGED <<msg, retry, holder, wire, dead, discarded, open, completed, failures>>
        /\ delivery[b][j].at \in {"inbox", "job"}
    BY <1>5 DEF Dispatch, TakeJob, broker, history
  <2>2. CASE b = c /\ j = k
    <3>1. /\ delivery'[c][k].at \in {"job", "handling"}
          /\ delivery'[c][k].msg = delivery[c][k].msg
          /\ delivery'[c][k].retry = delivery[c][k].retry
      BY <1>0, <2>0, <2>2, MoveFrame DEF Stages
    <3>2. QED
      BY <1>0, <2>1, <2>2, <3>1 DEF DeliveryOK, OpenDeliveryOK
  <2>3. CASE b # c \/ j # k
    <3>1. delivery'[c][k] = delivery[c][k]
      BY <1>0, <2>0, <2>3, OthersStay
    <3>2. QED
      BY <1>0, <2>1, <3>1 DEF DeliveryOK, OpenDeliveryOK, Covered
  <2>4. QED
    BY <2>2, <2>3
<1>6. ASSUME NEW b \in Consumers, NEW j \in Copies, HandleOk(b, j) \/ HandleError(b, j)
      PROVE  DeliveryOK(c, k)' /\ OpenDeliveryOK(c, k)'
  <2>0. PICK st \in {"ack", "retry", "reject"} : Move(b, j, st)
    BY <1>6 DEF HandleOk, HandleError
  <2>1. /\ UNCHANGED <<msg, retry, holder, wire, dead, discarded, open>>
        /\ completed \subseteq completed'
        /\ delivery[b][j].at = "handling"
    BY <1>6 DEF HandleOk, HandleError, broker
  <2>2. \A m \in Messages : /\ failures[m] \in 0 .. MaxRetries + 1
                            /\ failures'[m] \in 0 .. MaxRetries + 1
                            /\ failures'[m] >= failures[m]
    BY <1>0, <1>6, FailuresGrow DEF HandleOk, TypeOK
  <2>3. delivery[c][k].at # "none" /\ open[c] /\ Covered(k) => Covered(k)'
    BY <1>1, <2>1, CoveredStays
  <2>4. CASE b # c \/ j # k
    <3>1. delivery'[c][k] = delivery[c][k]
      BY <1>0, <2>0, <2>4, OthersStay
    <3>2. DeliveryOK(c, k)'
      BY <1>0, <1>1, <2>2, <3>1 DEF DeliveryOK
    <3>3. QED
      BY <1>0, <2>1, <2>3, <3>1, <3>2 DEF OpenDeliveryOK
  <2>5. CASE b = c /\ j = k
    <3> DEFINE d == delivery[c][k]
    <3>1. /\ delivery'[c][k].at \in {"ack", "retry", "reject"}
          /\ delivery'[c][k].msg = d.msg /\ delivery'[c][k].retry = d.retry
          /\ d.msg \in Messages /\ d.retry <= failures[d.msg] /\ d.retry <= MaxRetries
          /\ d.retry \in Nat
      BY <1>0, <1>1, <2>0, <2>1, <2>5, MoveFrame DEF Stages, DeliveryOK
    <3>2. CASE HandleOk(c, k)
      <4>1. /\ delivery'[c][k].at = "ack" /\ d.msg \in completed' /\ failures' = failures
        <5>1. Move(c, k, "ack") /\ d.msg \in completed' /\ failures' = failures
          BY <3>2 DEF HandleOk
        <5>2. QED
          BY <1>0, <5>1, MoveFrame DEF Stages
      <4>2. QED
        BY <1>0, <2>1, <2>5, <3>1, <4>1 DEF DeliveryOK, OpenDeliveryOK, Covered
    <3>3. CASE HandleError(c, k)
      <4>1. delivery'[c][k].at = IF d.retry < MaxRetries THEN "retry" ELSE "reject"
        <5>1. Move(c, k, IF d.retry < MaxRetries THEN "retry" ELSE "reject")
          BY <3>3 DEF HandleError
        <5>2. QED
          BY <1>0, <5>1, MoveFrame DEF Stages
      <4>2. d.retry < failures'[d.msg]
        BY <3>1, <3>3, FailuresGrow
      <4>3. DeliveryOK(c, k)'
        BY <2>2, <3>1, <4>1, <4>2 DEF DeliveryOK
      <4>4. OpenDeliveryOK(c, k)'
        BY <1>0, <2>1, <2>5, <3>1, <4>1 DEF OpenDeliveryOK
      <4>5. QED
        BY <4>3, <4>4
    <3>4. QED
      BY <1>6, <2>5, <3>2, <3>3
  <2>6. QED
    BY <2>4, <2>5
<1>7. ASSUME NEW b \in Consumers, NEW j \in Copies, Republish(b, j) \/ Ack(b, j) \/ Reject(b, j)
      PROVE  DeliveryOK(c, k)' /\ OpenDeliveryOK(c, k)'
  <2>1. /\ UNCHANGED <<msg, retry, holder, dead, discarded, open, completed, failures>>
        /\ Move(b, j, "ack") \/ Done(b, j)
        /\ delivery[b][j].at # "none"
    BY <1>7 DEF Republish, Ack, Reject, history
  <2>2. CASE b = c /\ j = k
    <3>1. CASE Move(c, k, "ack") /\ Republish(c, k) /\ open[c]
      <4>1. /\ delivery'[c][k].at = "ack" /\ delivery'[c][k].msg = delivery[c][k].msg
            /\ delivery'[c][k].retry = delivery[c][k].retry
        BY <1>0, <3>1 DEF Move, TypeOK, Deliveries
      <4>2. wire'[k] = "republish"
        BY <1>0, <3>1 DEF Republish, TypeOK
      <4>3. QED
        BY <1>0, <2>1, <2>2, <4>1, <4>2 DEF DeliveryOK, OpenDeliveryOK
    <3>2. CASE Done(c, k)
      <4>1. delivery'[c][k].at = "none"
        BY <1>0, <3>2 DEF Done, NoDelivery, TypeOK
      <4>2. QED
        BY <4>1 DEF DeliveryOK, OpenDeliveryOK
    <3>3. QED
      BY <1>7, <2>2, <3>1, <3>2 DEF Republish, Ack, Reject
  <2>3. CASE b # c \/ j # k
    <3>1. delivery'[c][k] = delivery[c][k]
      BY <1>0, <2>1, <2>3, OthersStay
    <3>2. wire'[k] = wire[k] \/ (k = j /\ open[b] /\ holder[k] = b)
      <4>1. OpenDeliveryOK(b, j)
        BY DEF ConsumerInv, DeliveriesInv
      <4>2. QED
        BY <1>0, <1>7, <2>1, <4>1 DEF Republish, Ack, Reject, OpenDeliveryOK, TypeOK
    <3>3. QED
      BY <1>0, <2>1, <2>3, <3>1, <3>2 DEF DeliveryOK, OpenDeliveryOK, Covered
  <2>4. QED
    BY <2>2, <2>3
<1>8. ASSUME NEW b \in Consumers, NEW j \in Copies, Deliver(b, j)
      PROVE  DeliveryOK(c, k)' /\ OpenDeliveryOK(c, k)'
  <2>1. /\ UNCHANGED <<msg, retry, wire, dead, discarded, open, completed, failures>>
        /\ open[b] /\ msg[j] # NoMessage /\ holder[j] = Nobody /\ delivery[b][j].at = "none"
        /\ holder' = [holder EXCEPT ![j] = b]
    BY <1>8 DEF Deliver, history
  <2>2. CASE b = c /\ j = k
    <3>1. delivery'[c][k] = [at |-> "inbox", msg |-> msg[k], retry |-> retry[k]]
      BY <1>0, <1>8, <2>2 DEF Deliver, TypeOK
    <3>2. holder'[k] = c /\ msg[k] \in Messages /\ retry[k] <= failures[msg[k]] /\ wire[k] = "none"
      BY <1>0, <2>1, <2>2 DEF TypeOK, CopyOK
    <3>3. QED
      BY <2>1, <3>1, <3>2 DEF DeliveryOK, OpenDeliveryOK
  <2>3. CASE b # c \/ j # k
    <3>1. delivery'[c][k] = delivery[c][k]
      BY <1>0, <1>8, <2>3 DEF Deliver, TypeOK
    <3>2. k = j => ~(delivery[c][k].at # "none" /\ open[c])
      BY <1>0, <2>1 DEF OpenDeliveryOK
    <3>3. QED
      BY <1>0, <2>1, <3>1, <3>2 DEF DeliveryOK, OpenDeliveryOK, Covered, TypeOK
  <2>4. QED
    BY <2>2, <2>3
<1>9. ASSUME NEW j \in Copies, AcceptRepublish(j)
      PROVE  DeliveryOK(c, k)' /\ OpenDeliveryOK(c, k)'
  <2>1. PICK i \in Copies : Enqueue(msg[j], retry[j] + 1, i)
    BY <1>9 DEF AcceptRepublish
  <2>2. msg[j] \in Messages /\ retry[j] \in Nat /\ retry[j] + 1 \in 0 .. MaxRetries
    BY <1>0, <1>9 DEF ConsumerInv, CopiesInv, CopyOK, AcceptRepublish, TypeOK
  <2>3. /\ msg[i] = NoMessage /\ msg'[i] = msg[j] /\ retry'[i] = retry[j] + 1
        /\ \A l \in Copies \ {i} : msg'[l] = msg[l] /\ retry'[l] = retry[l]
    BY <1>0, <2>1, <2>2, EnqueueFrame
  <2>4. /\ UNCHANGED <<holder, dead, discarded, open, delivery, completed, failures>>
        /\ wire' = [wire EXCEPT ![j] = IF @ = "republish_ack" THEN "ack" ELSE "none"]
        /\ wire[j] # "none"
    BY <1>9 DEF AcceptRepublish, client, history
  <2>5. delivery[c][k].at # "none" /\ open[c] => k # i
    BY <1>1, <2>3
  <2>6. CASE k = j
    <3>1. Covered(k)'
      BY <2>2, <2>3, <2>6 DEF Covered
    <3>2. QED
      BY <1>0, <2>3, <2>4, <2>5, <2>6, <3>1 DEF DeliveryOK, OpenDeliveryOK, TypeOK
  <2>7. CASE k # j
    <3>1. delivery[c][k].at # "none" /\ open[c] /\ Covered(k) => Covered(k)'
      BY <1>1, <2>3, <2>4, CoveredStays
    <3>2. QED
      BY <1>0, <2>3, <2>4, <2>5, <2>7, <3>1 DEF DeliveryOK, OpenDeliveryOK, TypeOK
  <2>8. QED
    BY <2>6, <2>7
<1>10. ASSUME NEW j \in Copies, AcceptAck(j) \/ AcceptNack(j)
       PROVE  DeliveryOK(c, k)' /\ OpenDeliveryOK(c, k)'
  <2>1. Forget(j) /\ UNCHANGED <<open, delivery, completed, failures>> /\ wire[j] \in {"ack", "nack"}
    BY <1>10 DEF AcceptAck, AcceptNack, client, history
  <2>2. DeliveryOK(c, k)'
    BY <1>0, <2>1 DEF DeliveryOK
  <2>3. delivery[c][k].at # "none" /\ open[c] => k # j
    BY <1>0, <2>1 DEF OpenDeliveryOK
  <2>4. delivery[c][k].at # "none" /\ open[c] /\ Covered(k) => Covered(k)'
    BY <1>1, <1>10, <2>3, CoveredAfterForget
  <2>5. k # j => /\ msg'[k] = msg[k] /\ retry'[k] = retry[k]
                 /\ holder'[k] = holder[k] /\ wire'[k] = wire[k]
    BY <1>0, <2>1, ForgetFrame
  <2>6. OpenDeliveryOK(c, k)'
    BY <1>0, <2>1, <2>3, <2>4, <2>5 DEF OpenDeliveryOK
  <2>7. QED
    BY <2>2, <2>6
<1>11. CASE UNCHANGED vars
  BY <1>0, <1>11 DEF vars, DeliveryOK, OpenDeliveryOK, Covered
<1>12. QED
  BY <1>2, <1>3, <1>4, <1>5, <1>6, <1>7, <1>8, <1>9, <1>10, <1>11
     DEF Next, Progress, RunLoop, ProcessMessage, BrokerStep, Fault

-----------------------------------------------------------------------------
(* The channels and their prefetch windows.                                *)

LEMMA CopiesFinite ==
  ASSUME NEW S \in SUBSET Copies
  PROVE  IsFiniteSet(S) /\ Cardinality(S) \in Nat
<1>1. IsFiniteSet(Copies)
  BY FS_Interval, ConsumerAssumption DEF Copies
<1>2. QED
  BY <1>1, FS_Subset, FS_CardinalityType

\* A window holds no more while it only shrinks.
LEMMA WindowStays ==
  ASSUME ConsumerInv, NEW c \in Consumers,
         Unacked(c)' \subseteq Unacked(c), Active(c)' \subseteq Active(c)
  PROVE  WindowOK(c)'
<1>1. Unacked(c) \subseteq Copies /\ Active(c) \subseteq Copies
  BY DEF Unacked, Active
<1>2. /\ IsFiniteSet(Unacked(c)) /\ Cardinality(Unacked(c)) \in Nat
      /\ IsFiniteSet(Active(c)) /\ Cardinality(Active(c)) \in Nat
  BY <1>1, CopiesFinite
<1>3. /\ Cardinality(Unacked(c)') <= Cardinality(Unacked(c)) /\ Cardinality(Unacked(c)') \in Nat
      /\ Cardinality(Active(c)') <= Cardinality(Active(c)) /\ Cardinality(Active(c)') \in Nat
  BY <1>1, <1>2, FS_Subset, CopiesFinite
<1>4. WindowOK(c)
  BY DEF ConsumerInv, ChannelsInv
<1>5. QED
  BY <1>2, <1>3, <1>4, ConsumerAssumption DEF WindowOK

\* A delivery finds room in the window, which holds every delivery of the open channel.
LEMMA DeliverInWindow ==
  ASSUME ConsumerInv, NEW c \in Consumers, NEW k \in Copies, Deliver(c, k)
  PROVE  WindowOK(c)'
<1>0. TypeOK
  BY DEF ConsumerInv
<1>1. Unacked(c) \in SUBSET Copies /\ Unacked(c)' \in SUBSET Copies /\ Active(c)' \in SUBSET Copies
  BY DEF Unacked, Active
<1>2. k \notin Unacked(c) /\ Unacked(c)' = Unacked(c) \union {k}
  BY <1>0, ConsumerAssumption DEF Unacked, Deliver, TypeOK
<1>3. Active(c)' \subseteq Unacked(c)'
  <2>1. \A j \in Copies : OpenDeliveryOK(c, j) /\ open[c]
    BY DEF ConsumerInv, DeliveriesInv, Deliver
  <2>2. Active(c) \subseteq Unacked(c)
    BY <2>1 DEF Active, Unacked, OpenDeliveryOK
  <2>3. Active(c)' \subseteq Active(c) \union {k}
    BY <1>0 DEF Active, Deliver, TypeOK
  <2>4. QED
    BY <1>2, <2>2, <2>3
<1>4. /\ Cardinality(Unacked(c)') = Cardinality(Unacked(c)) + 1
      /\ Cardinality(Unacked(c)) \in Nat /\ Cardinality(Unacked(c)) < Prefetch
  BY <1>1, <1>2, CopiesFinite, FS_AddElement DEF Deliver
<1>5. Cardinality(Active(c)') <= Cardinality(Unacked(c)') /\ Cardinality(Active(c)') \in Nat
  BY <1>1, <1>3, CopiesFinite, FS_Subset
<1>6. QED
  BY <1>4, <1>5, ConsumerAssumption DEF WindowOK

LEMMA NextChannelsInv == ConsumerInv /\ [Next]_vars => ChannelsInv'
<1> SUFFICES ASSUME ConsumerInv, [Next]_vars, NEW c \in Consumers
             PROVE  PhaseOK(c)' /\ WindowOK(c)'
  BY DEF ChannelsInv
<1>0. TypeOK /\ PhaseOK(c) /\ WindowOK(c)
  BY DEF ConsumerInv, ChannelsInv
<1> USE ConsumerAssumption
<1>1. ASSUME UNCHANGED <<phase, open, holder, delivery>>
      PROVE  PhaseOK(c)' /\ WindowOK(c)'
  <2>1. Unacked(c)' \subseteq Unacked(c) /\ Active(c)' \subseteq Active(c)
    BY <1>1 DEF Unacked, Active
  <2>2. QED
    BY <1>0, <1>1, <2>1, WindowStays DEF PhaseOK
<1>2. ASSUME NEW m \in Messages, Publish(m)
      PROVE  PhaseOK(c)' /\ WindowOK(c)'
  BY <1>1, <1>2 DEF Publish, client
<1>3. ASSUME NEW b \in Consumers, Connect(b) \/ LeaveLoop(b) \/ StopConnecting(b) \/ Restart(b) \/ Cancel(b)
      PROVE  PhaseOK(c)' /\ WindowOK(c)'
  <2>1. Unacked(c)' \subseteq Unacked(c) /\ Active(c)' \subseteq Active(c)
    BY <1>3 DEF Unacked, Active, Connect, LeaveLoop, StopConnecting, Restart, Cancel, broker
  <2>2. PhaseOK(c)'
    BY <1>0, <1>3 DEF PhaseOK, TypeOK, Connect, LeaveLoop, StopConnecting, Restart, Cancel
  <2>3. QED
    BY <2>1, <2>2, WindowStays
<1>4. ASSUME NEW b \in Consumers, ChannelLost(b) \/ Cleanup(b) \/ Crash(b)
      PROVE  PhaseOK(c)' /\ WindowOK(c)'
  <2>1. Unacked(c)' \subseteq Unacked(c)
    BY <1>0, <1>4 DEF Unacked, TypeOK, ChannelLost, Cleanup, Crash, Requeue
  <2>2. Active(c)' \subseteq Active(c)
    BY <1>0, <1>4 DEF Active, NoDelivery, TypeOK, ChannelLost, Cleanup, Crash
  <2>3. PhaseOK(c)'
    BY <1>0, <1>4 DEF PhaseOK, NoDelivery, TypeOK, ChannelLost, Cleanup, Crash
  <2>4. QED
    BY <2>1, <2>2, <2>3, WindowStays
<1>5. ASSUME NEW b \in Consumers, NEW j \in Copies, Dispatch(b, j) \/ TakeJob(b, j) \/ ProcessMessage(b, j)
      PROVE  PhaseOK(c)' /\ WindowOK(c)'
  <2>1. UNCHANGED <<phase, open, holder>> /\ delivery[b][j].at # "none"
    BY <1>5 DEF Dispatch, TakeJob, ProcessMessage, HandleOk, HandleError, Republish, Ack, Reject,
                broker
  <2>2. PICK st \in Stages : Move(b, j, st) \/ Done(b, j)
    BY <1>5 DEF Dispatch, TakeJob, ProcessMessage, HandleOk, HandleError, Republish, Ack, Reject,
                Stages
  <2>3. \A k \in Copies : delivery'[c][k] = delivery[c][k] \/ (c = b /\ k = j)
    BY <1>0, <2>2, OthersStay
  <2>4. Unacked(c)' \subseteq Unacked(c) /\ Active(c)' \subseteq Active(c)
    BY <2>1, <2>3 DEF Unacked, Active
  <2>5. PhaseOK(c)'
    BY <1>0, <2>1, <2>3 DEF PhaseOK
  <2>6. QED
    BY <2>4, <2>5, WindowStays
<1>6. ASSUME NEW b \in Consumers, NEW j \in Copies, Deliver(b, j)
      PROVE  PhaseOK(c)' /\ WindowOK(c)'
  <2>1. PhaseOK(c)'
    BY <1>0, <1>6 DEF PhaseOK, Deliver, TypeOK
  <2>2. CASE b # c
    <3>1. Unacked(c)' \subseteq Unacked(c) /\ Active(c)' \subseteq Active(c)
      BY <1>0, <1>6, <2>2 DEF Unacked, Active, Deliver, TypeOK
    <3>2. QED
      BY <2>1, <3>1, WindowStays
  <2>3. CASE b = c
    BY <1>6, <2>1, <2>3, DeliverInWindow
  <2>4. QED
    BY <2>2, <2>3
<1>7. ASSUME NEW j \in Copies, AcceptRepublish(j)
      PROVE  PhaseOK(c)' /\ WindowOK(c)'
  BY <1>1, <1>7 DEF AcceptRepublish, client
<1>8. ASSUME NEW j \in Copies, AcceptAck(j) \/ AcceptNack(j)
      PROVE  PhaseOK(c)' /\ WindowOK(c)'
  <2>1. Forget(j) /\ UNCHANGED <<phase, open, delivery>>
    BY <1>8 DEF AcceptAck, AcceptNack, client
  <2>2. Unacked(c)' \subseteq Unacked(c) /\ Active(c)' \subseteq Active(c)
    BY <1>0, <2>1 DEF Unacked, Active, Forget, TypeOK
  <2>3. QED
    BY <1>0, <2>1, <2>2, WindowStays DEF PhaseOK
<1>9. CASE UNCHANGED vars
  BY <1>1, <1>9 DEF vars
<1>10. QED
  BY <1>2, <1>3, <1>4, <1>5, <1>6, <1>7, <1>8, <1>9
     DEF Next, Progress, RunLoop, BrokerStep, Fault

-----------------------------------------------------------------------------
(* What is lost and what is given up.                                      *)

LEMMA NextNoMessageLost == ConsumerInv /\ [Next]_vars => NoMessageLost'
<1> SUFFICES ASSUME ConsumerInv, [Next]_vars, NEW m \in sent'
             PROVE  \/ m \in completed' \union dead' \union discarded'
                    \/ \E k \in Copies : msg'[k] = m
  BY DEF NoMessageLost
<1>0. TypeOK /\ NoMessageLost
  BY DEF ConsumerInv
<1> USE ConsumerAssumption
<1>1. ASSUME NEW n \in Messages, Publish(n)
      PROVE  \/ m \in completed' \union dead' \union discarded'
             \/ \E k \in Copies : msg'[k] = m
  <2>1. PICK j \in Copies : Enqueue(n, 0, j)
    BY <1>1 DEF Publish
  <2>2. /\ msg[j] = NoMessage /\ msg'[j] = n
        /\ \A i \in Copies \ {j} : msg'[i] = msg[i]
    BY <1>0, <2>1, EnqueueFrame
  <2>3. sent' = sent \union {n} /\ UNCHANGED <<completed, dead, discarded>> /\ m # NoMessage
    BY <1>0, <1>1 DEF Publish, TypeOK
  <2>4. QED
    BY <1>0, <2>2, <2>3 DEF NoMessageLost
<1>2. ASSUME NEW j \in Copies, AcceptRepublish(j)
      PROVE  \/ m \in completed' \union dead' \union discarded'
             \/ \E k \in Copies : msg'[k] = m
  <2>1. PICK i \in Copies : Enqueue(msg[j], retry[j] + 1, i)
    BY <1>2 DEF AcceptRepublish
  <2>2. /\ msg[i] = NoMessage
        /\ \A l \in Copies \ {i} : msg'[l] = msg[l]
    BY <1>0, <2>1 DEF Enqueue, Unused, TypeOK
  <2>3. UNCHANGED <<sent, completed, dead, discarded>> /\ m \in Messages
    BY <1>0, <1>2 DEF AcceptRepublish, history, TypeOK
  <2>4. QED
    BY <1>0, <2>2, <2>3 DEF NoMessageLost
<1>3. ASSUME NEW j \in Copies, AcceptAck(j) \/ AcceptNack(j)
      PROVE  \/ m \in completed' \union dead' \union discarded'
             \/ \E k \in Copies : msg'[k] = m
  <2>1. /\ sent' = sent /\ completed' = completed /\ dead \subseteq dead' /\ discarded \subseteq discarded'
        /\ \A i \in Copies \ {j} : msg'[i] = msg[i]
    BY <1>0, <1>3, ForgetFrame DEF AcceptAck, AcceptNack, history
  <2>2. CASE m \in completed \union dead \union discarded
    BY <2>1, <2>2
  <2>3. ASSUME NEW i \in Copies \ {j}, msg[i] = m
        PROVE  \E k \in Copies : msg'[k] = m
    BY <2>1, <2>3
  <2>4. CASE msg[j] = m
    <3>1. CASE AcceptNack(j)
      BY <2>4, <3>1 DEF AcceptNack
    <3>2. CASE AcceptAck(j)
      <4>1. Covered(j)
        BY <3>2 DEF AcceptAck, ConsumerInv, CopiesInv, CopyOK
      <4>2. CASE m \notin completed \union dead \union discarded
        <5>1. PICK i \in Copies : msg[i] = m /\ retry[i] > retry[j]
          BY <2>4, <4>1, <4>2 DEF Covered
        <5>2. i # j
          BY <1>0, <5>1 DEF TypeOK
        <5>3. QED
          BY <2>3, <5>1, <5>2
      <4>3. QED
        BY <2>2, <4>2
    <3>3. QED
      BY <1>3, <3>1, <3>2
  <2>5. QED
    BY <1>0, <2>1, <2>2, <2>3, <2>4 DEF NoMessageLost
<1>4. CASE msg' = msg /\ sent' = sent /\ completed \subseteq completed'
           /\ UNCHANGED <<dead, discarded>>
  BY <1>0, <1>4 DEF NoMessageLost
<1>5. ASSUME NEW c \in Consumers, RunLoop(c) \/ Fault(c)
      PROVE  UNCHANGED <<msg, sent, completed, dead, discarded>>
  BY <1>5 DEF RunLoop, Fault, Connect, LeaveLoop, Cleanup, StopConnecting, Restart, ChannelLost,
     Cancel, Crash, Requeue, broker, history
<1>6. ASSUME NEW c \in Consumers, NEW k \in Copies,
             Deliver(c, k) \/ Dispatch(c, k) \/ TakeJob(c, k) \/ ProcessMessage(c, k)
      PROVE  UNCHANGED <<msg, sent, dead, discarded>> /\ completed \subseteq completed'
  BY <1>6 DEF Deliver, Dispatch, TakeJob, ProcessMessage, HandleOk, HandleError, Republish, Ack,
     Reject, broker, history
<1>7. CASE UNCHANGED vars
  BY <1>4, <1>7 DEF vars
<1>8. QED
  BY <1>1, <1>2, <1>3, <1>4, <1>5, <1>6, <1>7 DEF Next, Progress, BrokerStep

LEMMA NextDeadOnlyAfterMaxRetries == ConsumerInv /\ [Next]_vars => DeadOnlyAfterMaxRetries'
<1> SUFFICES ASSUME ConsumerInv, [Next]_vars, NEW m \in dead' \union discarded'
             PROVE  failures'[m] = MaxRetries + 1
  BY DEF DeadOnlyAfterMaxRetries
<1>0. TypeOK /\ TypeOK' /\ DeadOnlyAfterMaxRetries
  BY NextTypeOK DEF ConsumerInv
<1> USE ConsumerAssumption
<1>1. ASSUME NEW c \in Consumers, NEW k \in Copies, HandleError(c, k)
      PROVE  failures'[m] = MaxRetries + 1
  <2>1. m \in dead \union discarded /\ m \in Messages
    BY <1>0, <1>1 DEF HandleError, broker, TypeOK
  <2>2. failures[m] = MaxRetries + 1 /\ failures'[m] >= failures[m] /\ failures'[m] \in 0 .. MaxRetries + 1
    BY <1>0, <1>1, <2>1, FailuresGrow DEF DeadOnlyAfterMaxRetries, TypeOK
  <2>3. QED
    BY <2>2
<1>2. ASSUME NEW j \in Copies, AcceptNack(j)
      PROVE  failures'[m] = MaxRetries + 1
  <2>1. failures' = failures /\ m \in dead \union discarded \union {msg[j]}
    BY <1>2 DEF AcceptNack, history
  <2>2. failures[msg[j]] = MaxRetries + 1
    BY <1>2 DEF AcceptNack, ConsumerInv, CopiesInv, CopyOK
  <2>3. QED
    BY <1>0, <2>1, <2>2 DEF DeadOnlyAfterMaxRetries
<1>3. CASE UNCHANGED <<dead, discarded, failures>>
  BY <1>0, <1>3 DEF DeadOnlyAfterMaxRetries
<1>4. ASSUME NEW c \in Consumers, RunLoop(c) \/ Fault(c)
      PROVE  UNCHANGED <<dead, discarded, failures>>
  BY <1>4 DEF RunLoop, Fault, Connect, LeaveLoop, Cleanup, StopConnecting, Restart, ChannelLost,
     Cancel, Crash, Requeue, broker, history
<1>5. ASSUME NEW c \in Consumers, NEW k \in Copies,
             \/ Deliver(c, k) \/ Dispatch(c, k) \/ TakeJob(c, k)
             \/ HandleOk(c, k) \/ Republish(c, k) \/ Ack(c, k) \/ Reject(c, k)
      PROVE  UNCHANGED <<dead, discarded, failures>>
  BY <1>5 DEF Deliver, Dispatch, TakeJob, HandleOk, Republish, Ack, Reject, broker, history
<1>6. ASSUME NEW k \in Copies, AcceptRepublish(k) \/ AcceptAck(k)
      PROVE  UNCHANGED <<dead, discarded, failures>>
  BY <1>6 DEF AcceptRepublish, AcceptAck, history
<1>7. ASSUME NEW n \in Messages, Publish(n)
      PROVE  UNCHANGED <<dead, discarded, failures>>
  BY <1>7 DEF Publish
<1>8. CASE UNCHANGED vars
  BY <1>3, <1>8 DEF vars
<1>9. QED
  BY <1>1, <1>2, <1>3, <1>4, <1>5, <1>6, <1>7, <1>8
     DEF Next, Progress, ProcessMessage, BrokerStep

-----------------------------------------------------------------------------
(* The theorems.                                                           *)

LEMMA InitConsumerInv == Init => ConsumerInv
<1> SUFFICES ASSUME Init
             PROVE  ConsumerInv
  OBVIOUS
<1>1. TypeOK
  BY InitTypeOK
<1>2. CopiesInv
  BY ConsumerAssumption DEF Init, CopiesInv, CopyOK
<1>3. DeliveriesInv
  BY DEF Init, DeliveriesInv, DeliveryOK, OpenDeliveryOK, NoDelivery
<1>4. ChannelsInv
  <2>1. \A c \in Consumers : Unacked(c) = {} /\ Active(c) = {}
    BY ConsumerAssumption DEF Init, Unacked, Active, NoDelivery
  <2>2. \A c \in Consumers : WindowOK(c)
    BY <2>1, FS_EmptySet, ConsumerAssumption DEF WindowOK
  <2>3. \A c \in Consumers : PhaseOK(c)
    BY DEF Init, PhaseOK, NoDelivery
  <2>4. QED
    BY <2>2, <2>3 DEF ChannelsInv
<1>5. NoMessageLost /\ DeadOnlyAfterMaxRetries
  BY DEF Init, NoMessageLost, DeadOnlyAfterMaxRetries
<1>6. QED
  BY <1>1, <1>2, <1>3, <1>4, <1>5 DEF ConsumerInv

LEMMA Invariance == Spec => []ConsumerInv
<1>1. ConsumerInv /\ [Next]_vars => ConsumerInv'
  BY NextTypeOK, NextCopiesInv, NextDeliveriesInv, NextChannelsInv, NextNoMessageLost,
     NextDeadOnlyAfterMaxRetries DEF ConsumerInv
<1>2. QED
  BY InitConsumerInv, <1>1, PTL DEF Spec

\* The variables stay in their types: no retry count passes maxRetries, no frame is about a copy
\* that does not exist.
THEOREM TypeCorrect == Spec => []TypeOK
<1>1. ConsumerInv => TypeOK
  BY DEF ConsumerInv
<1>2. QED
  BY Invariance, <1>1, PTL

\* The republish of a failed message and the ack of the original are two frames with no confirm
\* between them, and the channel may be lost before, between or after them: the message is in the
\* queue, completed or dead-lettered all the same.
THEOREM NothingIsLost == Spec => []NoMessageLost
<1>1. ConsumerInv => NoMessageLost
  BY DEF ConsumerInv
<1>2. QED
  BY Invariance, <1>1, PTL

\* handleFailure gives a message up only after maxRetries + 1 errors of its handler, whatever
\* copies, redeliveries and restarts there were.
THEOREM GivenUpAfterMaxRetries == Spec => []DeadOnlyAfterMaxRetries
<1>1. ConsumerInv => DeadOnlyAfterMaxRetries
  BY DEF ConsumerInv
<1>2. QED
  BY Invariance, <1>1, PTL

\* run's "jobs <- d" never blocks: the channel's capacity is the prefetch count, and no more
\* deliveries than that are in the client's and the jobs channel and at the workers.
THEOREM JobsHasRoom == Spec => []LoopNeverBlocks
<1>1. ASSUME ConsumerInv, NEW c \in Consumers
      PROVE  Cardinality(At(c, "inbox")) + Cardinality(PoolWork(c)) <= Prefetch
  <2>1. TypeOK /\ WindowOK(c)
    BY <1>1 DEF ConsumerInv, ChannelsInv
  <2>2. At(c, "inbox") \in SUBSET Copies /\ PoolWork(c) \in SUBSET Copies /\ Active(c) \in SUBSET Copies
    BY DEF At, PoolWork, Active
  <2>3. At(c, "inbox") \cap PoolWork(c) = {}
    BY DEF At, PoolWork
  <2>4. At(c, "inbox") \union PoolWork(c) \subseteq Active(c)
    BY DEF At, PoolWork, Active
  <2>5. /\ Cardinality(At(c, "inbox") \union PoolWork(c))
             = Cardinality(At(c, "inbox")) + Cardinality(PoolWork(c)) - Cardinality({})
        /\ Cardinality({}) = 0
    BY <2>2, <2>3, CopiesFinite, FS_Union, FS_EmptySet
  <2>6. Cardinality(At(c, "inbox") \union PoolWork(c)) <= Cardinality(Active(c))
    BY <2>2, <2>4, CopiesFinite, FS_Subset
  <2>7. /\ Cardinality(At(c, "inbox")) \in Nat /\ Cardinality(PoolWork(c)) \in Nat
        /\ Cardinality(Active(c)) \in Nat /\ Cardinality(Active(c)) <= Prefetch
    BY <2>1, <2>2, CopiesFinite DEF WindowOK
  <2>8. QED
    BY <2>5, <2>6, <2>7, ConsumerAssumption
<1>2. ConsumerInv => LoopNeverBlocks
  BY <1>1 DEF LoopNeverBlocks
<1>3. QED
  BY Invariance, <1>2, PTL

=============================================================================
