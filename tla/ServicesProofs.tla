--------------------------- MODULE ServicesProofs ---------------------------
(***************************************************************************)
(* Theorems about Services, for any number of orders, requests, messages,   *)
(* products, channels and faults. The parts share no state, so a behaviour  *)
(* of Services is one of each part, and what holds of a part alone, the     *)
(* payments of PaymentsProofs among them, holds in Services.                *)
(***************************************************************************)
EXTENDS Services, PaymentsProofs, SequenceTheorems

NoticeSpec == NoticeInit /\ [][NoticeNext]_noticeVars
CartSpec   == CartInit   /\ [][CartNext]_cartVars
WireSpec   == WireInit   /\ [][WireNext]_wireVars

\* The other parts neither move a part nor begin it elsewhere.
LEMMA PartsRunAlone == Spec => PaySpec /\ NoticeSpec /\ CartSpec /\ WireSpec
<1>1. Init => PayInit /\ NoticeInit /\ CartInit /\ WireInit
  BY DEF Init
<1>2. [Next]_vars => [PayNext]_payVars /\ [NoticeNext]_noticeVars /\ [CartNext]_cartVars /\ [WireNext]_wireVars
  BY DEF Next, vars
<1>3. QED
  BY <1>1, <1>2, PTL DEF Spec, PaySpec, NoticeSpec, CartSpec, WireSpec

-----------------------------------------------------------------------------
(* The publisher: a channel is in the pool, once, or in the hands of the    *)
(* call that runs.                                                         *)

Distinct(s) == \A i, j \in 1 .. Len(s) : s[i] = s[j] => i = j
InSeq(s)    == {s[i] : i \in 1 .. Len(s)}

PublisherInv ==
  /\ PublisherTypeOK /\ pool \in Seq(Channels) /\ Distinct(pool)
  /\ open \subseteq Pooled \union {call.ch} /\ call.ch \notin Pooled
  /\ call.ch # NoChannel <=> call.pc \in {"use", "confirm", "return"}
  /\ call.pc = "open" => pool = <<>>
  /\ closed => call.pc = "idle"
  /\ call.ok => call.pc \in {"idle", "return"}
  /\ call.op = "publish" /\ call.ok => confirmed
  /\ call.pc # "idle" => call.op # "none"

LEMMA RestOfSeq ==
  ASSUME NEW S, NEW s \in Seq(S), s # <<>>, Distinct(s)
  PROVE  /\ Head(s) \in S /\ Head(s) \in InSeq(s) /\ Tail(s) \in Seq(S) /\ Len(Tail(s)) = Len(s) - 1
         /\ Len(s) \in Nat \ {0} /\ Distinct(Tail(s)) /\ InSeq(Tail(s)) = InSeq(s) \ {Head(s)}
<1> DEFINE n == Len(s)
           t == Tail(s)
<1>1. n \in Nat \ {0} /\ Head(s) = s[1] /\ Head(s) \in S
  BY EmptySeq, HeadTailProperties
<1>2. /\ t \in Seq(S) /\ Len(t) = n - 1
      /\ \A i \in 1 .. n - 1 : t[i] = s[i + 1]
  BY HeadTailProperties
<1> HIDE DEF n, t
<1>3. \A i, j \in 1 .. n : s[i] = s[j] => i = j
  BY DEF Distinct, n
<1>4. ASSUME NEW i \in 1 .. n - 1, NEW j \in 1 .. n - 1, t[i] = t[j]
      PROVE  i = j
  <2>1. i + 1 \in 1 .. n /\ j + 1 \in 1 .. n
    BY <1>1
  <2>2. s[i + 1] = s[j + 1]
    BY <1>2, <1>4
  <2>3. i + 1 = j + 1
    BY <1>3, <2>1, <2>2
  <2>4. QED
    BY <2>3
<1>5. Distinct(t)
  BY <1>2, <1>4 DEF Distinct
<1>6. InSeq(t) = InSeq(s) \ {Head(s)}
  <2>1. ASSUME NEW i \in 1 .. n - 1
        PROVE  t[i] \in InSeq(s) \ {Head(s)}
    <3>1. i + 1 \in 1 .. n /\ 1 \in 1 .. n /\ i + 1 # 1
      BY <1>1
    <3>2. s[i + 1] # s[1]
      BY <1>3, <3>1
    <3>3. QED
      BY <1>1, <1>2, <3>1, <3>2 DEF InSeq, n
  <2>2. ASSUME NEW i \in 1 .. n, s[i] # Head(s)
        PROVE  s[i] \in InSeq(t)
    <3>1. i # 1
      BY <1>1, <2>2
    <3>2. i - 1 \in 1 .. n - 1 /\ (i - 1) + 1 = i
      BY <1>1, <3>1
    <3>3. t[i - 1] = s[i]
      BY <1>2, <3>2
    <3>4. QED
      BY <1>2, <3>2, <3>3 DEF InSeq
  <2>3. InSeq(t) \subseteq InSeq(s) \ {Head(s)}
    BY <1>2, <2>1 DEF InSeq
  <2>4. InSeq(s) \ {Head(s)} \subseteq InSeq(t)
    BY <2>2 DEF InSeq, n
  <2>5. QED
    BY <2>3, <2>4
<1>7. Head(s) \in InSeq(s)
  BY <1>1 DEF InSeq, n
<1>8. QED
  BY <1>1, <1>2, <1>5, <1>6, <1>7 DEF n, t

LEMMA SeqAndOne ==
  ASSUME NEW S, NEW s \in Seq(S), NEW x \in S, x \notin InSeq(s), Distinct(s)
  PROVE  /\ Append(s, x) \in Seq(S) /\ Len(Append(s, x)) = Len(s) + 1 /\ Len(s) \in Nat
         /\ Distinct(Append(s, x)) /\ InSeq(Append(s, x)) = InSeq(s) \union {x}
<1> DEFINE n == Len(s)
           t == Append(s, x)
<1>1. /\ n \in Nat /\ t \in Seq(S) /\ Len(t) = n + 1 /\ t[n + 1] = x
      /\ \A i \in 1 .. n : t[i] = s[i]
  BY AppendProperties, LenProperties
<1>2. \A i \in 1 .. n : s[i] # x
  BY DEF InSeq, n
<1>3. \A i, j \in 1 .. n : s[i] = s[j] => i = j
  BY DEF Distinct, n
<1> HIDE DEF n, t
<1>4. 1 .. n + 1 = (1 .. n) \union {n + 1}
  BY <1>1
<1>5. \A i, j \in (1 .. n) \union {n + 1} : t[i] = t[j] => i = j
  BY <1>1, <1>2, <1>3
<1>6. Distinct(t)
  BY <1>1, <1>4, <1>5 DEF Distinct
<1>7. InSeq(t) = {t[i] : i \in (1 .. n) \union {n + 1}}
  BY <1>1, <1>4 DEF InSeq
<1>8. InSeq(t) = InSeq(s) \union {x}
  BY <1>1, <1>7 DEF InSeq, n
<1>9. QED
  BY <1>1, <1>6, <1>8 DEF n, t

LEMMA CountDistinct ==
  ASSUME NEW S, NEW s \in Seq(S), Distinct(s)
  PROVE  Cardinality(InSeq(s)) = Len(s)
<1>1. Len(s) \in Nat /\ s \in [1 .. Len(s) -> S]
  BY LenProperties
<1>2. s \in Bijection(1 .. Len(s), InSeq(s))
  <2>1. s \in [1 .. Len(s) -> InSeq(s)]
    BY <1>1 DEF InSeq
  <2>2. s \in Injection(1 .. Len(s), InSeq(s))
    BY <2>1 DEF Injection, IsInjective, Distinct
  <2>3. s \in Surjection(1 .. Len(s), InSeq(s))
    BY <2>1 DEF Surjection, InSeq
  <2>4. QED
    BY <2>2, <2>3 DEF Bijection
<1>3. QED
  BY <1>1, <1>2, FS_CountingElements DEF ExistsBijection

WireCalls == [pc : {"idle", "borrow", "open", "use", "confirm", "return"},
              op : {"none", "setup", "publish"}, ch : Channels \union {NoChannel},
              tries : 0 .. MaxAttempts - 1, ok : BOOLEAN]

LEMMA WireBounds ==
  /\ NoChannel \notin Channels /\ Channels # {} /\ PoolSize \in Nat \ {0} /\ MaxAttempts \in Nat \ {0}
  /\ MaxPublishes \in Nat \ {0} /\ MaxWireFaults \in Nat \ {0} /\ Idle \in WireCalls
  BY PublisherAssumption DEF Channels, NoChannel, Idle, WireCalls

\* What the rest of the invariant needs of a step that leaves the pool as it is.
LEMMA PoolStays ==
  ASSUME PublisherInv, UNCHANGED <<pool, closed>>, call' \in WireCalls, connected' \in BOOLEAN,
         confirmed' \in BOOLEAN, open' \subseteq Channels,
         calls' \in 0 .. MaxPublishes, wireFaults' \in 0 .. MaxWireFaults,
         open' \subseteq Pooled \union {call'.ch}, call'.ch \notin Pooled,
         call'.ch # NoChannel <=> call'.pc \in {"use", "confirm", "return"},
         call'.pc = "open" => pool = <<>>, closed => call'.pc = "idle",
         call'.ok => call'.pc \in {"idle", "return"}, call'.op = "publish" /\ call'.ok => confirmed',
         call'.pc # "idle" => call'.op # "none"
  PROVE  PublisherInv'
<1>1. Pooled' = Pooled
  BY DEF Pooled
<1>2. PublisherTypeOK'
  BY <1>1 DEF PublisherInv, PublisherTypeOK, WireCalls
<1>3. QED
  BY <1>1, <1>2 DEF PublisherInv, Distinct

\* The counters.
LEMMA WireFaultBound ==
  ASSUME PublisherInv, UNCHANGED wireFaults \/ WireFault
  PROVE  wireFaults' \in 0 .. MaxWireFaults
  BY WireBounds DEF PublisherInv, PublisherTypeOK, WireFault

\* A failed attempt holds no channel.
LEMMA FailAttemptEnds ==
  ASSUME PublisherInv, FailAttempt, ~ call.ok, call.pc # "idle"
  PROVE  /\ call' \in WireCalls /\ call'.ch = NoChannel /\ call'.pc \in {"idle", "borrow"}
         /\ ~ call'.ok /\ call'.op = call.op
<1>1. call \in WireCalls /\ MaxAttempts \in Nat \ {0}
  BY WireBounds DEF PublisherInv, PublisherTypeOK, WireCalls
<1>2. CASE call' = [Idle EXCEPT !.op = call.op, !.ok = FALSE]
  BY <1>1, <1>2, WireBounds DEF Idle, WireCalls
<1>3. CASE call.tries + 1 # MaxAttempts /\ call' = [call EXCEPT !.pc = "borrow", !.ch = NoChannel, !.tries = @ + 1]
  <2>1. call.tries + 1 \in 0 .. MaxAttempts - 1
    BY <1>1, <1>3 DEF WireCalls
  <2>2. QED
    BY <1>1, <1>3, <2>1 DEF WireCalls
<1>4. QED
  BY <1>2, <1>3 DEF FailAttempt, Finish

LEMMA FailedAttempt ==
  ASSUME PublisherInv, FailAttempt, ~ call.ok, call.pc # "idle", UNCHANGED <<pool, closed, calls>>,
         open' \subseteq open \ {call.ch}, connected' \in BOOLEAN, confirmed' \in BOOLEAN,
         UNCHANGED wireFaults \/ WireFault
  PROVE  PublisherInv'
<1>1. /\ call' \in WireCalls /\ call'.ch = NoChannel /\ call'.pc \in {"idle", "borrow"}
      /\ ~ call'.ok /\ call'.op = call.op
  BY FailAttemptEnds
<1>2. NoChannel \notin Pooled /\ open \subseteq Channels /\ calls' \in 0 .. MaxPublishes /\ ~ closed /\ call.op # "none"
  BY WireBounds DEF PublisherInv, PublisherTypeOK
<1>3. open' \subseteq Pooled
  BY DEF PublisherInv
<1>4. QED
  BY <1>1, <1>2, <1>3, PoolStays, WireFaultBound

LEMMA WireCallKept ==
  ASSUME PublisherInv, NEW op \in {"setup", "publish"}, Call(op)
  PROVE  PublisherInv'
<1>1. call' = [Idle EXCEPT !.op = op, !.pc = "borrow"]
  BY DEF Call
<1>2. /\ call' \in WireCalls /\ call'.ch = NoChannel /\ call'.pc = "borrow" /\ ~ call'.ok /\ call'.op = op
  BY <1>1, WireBounds DEF Idle, WireCalls
<1>3. calls' \in 0 .. MaxPublishes
  BY WireBounds DEF Call, PublisherInv, PublisherTypeOK
<1>4. NoChannel \notin Pooled /\ call.ch = NoChannel
  BY WireBounds DEF Call, PublisherInv, PublisherTypeOK
<1>5. QED
  BY <1>2, <1>3, <1>4, PoolStays DEF Call, PublisherInv, PublisherTypeOK

LEMMA CancelBackoffKept ==
  ASSUME PublisherInv, CancelBackoff
  PROVE  PublisherInv'
<1>1. call' = [Idle EXCEPT !.op = call.op, !.ok = FALSE] /\ call.op = "publish"
  BY DEF CancelBackoff, Finish
<1>2. call' \in WireCalls /\ call'.ch = NoChannel /\ call'.pc = "idle" /\ ~ call'.ok
  BY <1>1, WireBounds DEF Idle, WireCalls
<1>3. NoChannel \notin Pooled /\ call.ch = NoChannel
  BY WireBounds DEF CancelBackoff, PublisherInv, PublisherTypeOK
<1>4. QED
  BY <1>2, <1>3, PoolStays DEF CancelBackoff, PublisherInv, PublisherTypeOK

LEMMA BorrowChannelKept ==
  ASSUME PublisherInv, BorrowChannel
  PROVE  PublisherInv'
<1>1. /\ call \in WireCalls /\ call.pc = "borrow" /\ call.ch = NoChannel /\ ~ call.ok /\ ~ closed
      /\ call.op # "none" /\ UNCHANGED <<connected, open, calls, confirmed, closed, wireFaults>>
  BY DEF BorrowChannel, PublisherInv, PublisherTypeOK, WireCalls
<1>2. CASE pool = <<>>
  <2>1. UNCHANGED pool /\ call' = [call EXCEPT !.pc = "open"]
    BY <1>2 DEF BorrowChannel, Go
  <2>2. call' \in WireCalls /\ call'.ch = NoChannel /\ call'.pc = "open" /\ ~ call'.ok /\ call'.op = call.op
    BY <1>1, <2>1 DEF WireCalls
  <2>3. QED
    BY <1>1, <1>2, <2>1, <2>2, PoolStays DEF PublisherInv, PublisherTypeOK
<1>3. CASE pool # <<>>
  <2> DEFINE ch == Head(pool)
  <2>1. pool' = Tail(pool) /\ call' = [call EXCEPT !.ch = ch, !.pc = "use"]
    BY <1>3 DEF BorrowChannel, Hold
  <2>2. pool \in Seq(Channels) /\ Distinct(pool) /\ Pooled = InSeq(pool) /\ Pooled' = InSeq(pool')
    BY DEF PublisherInv, Pooled, InSeq
  <2>3. /\ ch \in Channels /\ ch \in Pooled /\ pool' \in Seq(Channels) /\ Len(pool') = Len(pool) - 1
        /\ Len(pool) \in Nat \ {0} /\ Distinct(pool') /\ Pooled' = Pooled \ {ch}
    BY <1>3, <2>1, <2>2, RestOfSeq
  <2> HIDE DEF ch
  <2>4. call' \in WireCalls /\ call'.ch = ch /\ call'.pc = "use" /\ ~ call'.ok /\ call'.op = call.op
    BY <1>1, <2>1, <2>3 DEF WireCalls
  <2>5. open' \subseteq Pooled' \union {ch} /\ ch \notin Pooled' /\ ch # NoChannel
    BY <1>1, <2>3, WireBounds DEF PublisherInv, PublisherTypeOK
  <2>6. Len(pool') <= PoolSize
    BY <2>3, WireBounds DEF PublisherInv, PublisherTypeOK
  <2>7. PublisherTypeOK'
    BY <1>1, <2>3, <2>4, <2>6 DEF PublisherInv, PublisherTypeOK, WireCalls
  <2>8. QED
    BY <1>1, <2>3, <2>4, <2>5, <2>7 DEF PublisherInv, Distinct
<1>4. QED
  BY <1>2, <1>3

LEMMA CreateConfirmChannelKept ==
  ASSUME PublisherInv, CreateConfirmChannel
  PROVE  PublisherInv'
<1>1. /\ call \in WireCalls /\ call.pc = "open" /\ call.ch = NoChannel /\ ~ call.ok /\ ~ closed
      /\ call.op # "none" /\ pool = <<>> /\ UNCHANGED <<pool, calls, confirmed, closed>>
  BY DEF CreateConfirmChannel, PublisherInv, PublisherTypeOK, WireCalls
<1>2. Pooled = {} /\ open = {}
  <2>1. Pooled = {}
    BY <1>1 DEF Pooled
  <2>2. QED
    BY <1>1, <2>1, WireBounds DEF PublisherInv, PublisherTypeOK
<1>3. connected' \in BOOLEAN /\ (UNCHANGED wireFaults \/ WireFault)
  BY DEF CreateConfirmChannel, OpenChannel, PublisherInv, PublisherTypeOK
<1>4. ASSUME NEW ch \in Channels, NEW alive \in SUBSET open, FreshChannel(ch),
             open' = alive \union {ch}, Hold(ch, "use")
      PROVE  PublisherInv'
  <2>1. call' = [call EXCEPT !.ch = ch, !.pc = "use"]
    BY <1>4 DEF Hold
  <2>2. call' \in WireCalls /\ call'.ch = ch /\ call'.pc = "use" /\ ~ call'.ok /\ call'.op = call.op
    BY <1>1, <2>1 DEF WireCalls
  <2>3. open' = {ch} /\ ch # NoChannel
    BY <1>2, <1>4, WireBounds
  <2>4. QED
    BY <1>1, <1>2, <1>3, <2>2, <2>3, PoolStays, WireFaultBound DEF PublisherInv, PublisherTypeOK
<1>5. ASSUME FailAttempt, open' \subseteq open
      PROVE  PublisherInv'
  BY <1>1, <1>2, <1>3, <1>5, FailedAttempt DEF PublisherInv, PublisherTypeOK
<1>6. QED
  BY <1>4, <1>5 DEF CreateConfirmChannel

\* The call keeps its channel and goes on with it.
LEMMA CallGoesOn ==
  ASSUME PublisherInv, call.pc \in {"use", "confirm"}, NEW pc \in {"confirm", "return"}, NEW ok \in BOOLEAN,
         call' = [call EXCEPT !.pc = pc, !.ok = ok], ok => pc = "return",
         call.op = "publish" /\ ok => confirmed', connected' \in BOOLEAN, confirmed' \in BOOLEAN,
         open' \subseteq open, UNCHANGED <<pool, calls, closed>>, UNCHANGED wireFaults \/ WireFault
  PROVE  PublisherInv'
<1>1. call \in WireCalls /\ call.ch # NoChannel /\ ~ closed /\ call.op # "none" /\ open' \subseteq Channels
  BY DEF PublisherInv, PublisherTypeOK, WireCalls
<1>2. call' \in WireCalls /\ call'.ch = call.ch /\ call'.pc = pc /\ call'.ok = ok /\ call'.op = call.op
  BY <1>1 DEF WireCalls
<1>3. open' \subseteq Pooled \union {call.ch} /\ call.ch \notin Pooled /\ calls' \in 0 .. MaxPublishes
  BY DEF PublisherInv, PublisherTypeOK
<1>4. QED
  BY <1>1, <1>2, <1>3, PoolStays, WireFaultBound

\* What Go does to a call that has not succeeded yet.
LEMMA GoGoesOn ==
  ASSUME PublisherInv, call.pc \in {"use", "confirm"}, NEW pc, Go(pc)
  PROVE  call' = [call EXCEPT !.pc = pc, !.ok = FALSE]
<1>1. call \in WireCalls /\ ~ call.ok
  BY DEF PublisherInv, PublisherTypeOK, WireCalls
<1>2. QED
  BY <1>1 DEF Go, WireCalls

LEMMA PublishMessageKept ==
  ASSUME PublisherInv, PublishMessage
  PROVE  PublisherInv'
<1>1. /\ call.pc = "use" /\ ~ call.ok /\ connected' \in BOOLEAN /\ confirmed' \in BOOLEAN
      /\ UNCHANGED <<pool, calls, closed, wireFaults>>
  BY DEF PublishMessage, PublisherInv, PublisherTypeOK
<1>2. CASE Go("confirm") /\ UNCHANGED open
  BY <1>1, <1>2, GoGoesOn, CallGoesOn
<1>3. CASE CloseChannel /\ FailAttempt
  BY <1>1, <1>3, FailedAttempt DEF CloseChannel
<1>4. QED
  BY <1>2, <1>3 DEF PublishMessage

LEMMA WaitConfirmKept ==
  ASSUME PublisherInv, WaitConfirm
  PROVE  PublisherInv'
<1>1. /\ call.pc = "confirm" /\ ~ call.ok /\ connected' \in BOOLEAN /\ confirmed' \in BOOLEAN
      /\ UNCHANGED <<pool, calls, closed>> /\ (UNCHANGED wireFaults \/ WireFault)
  BY DEF WaitConfirm, PublisherInv, PublisherTypeOK
<1>2. CASE confirmed' = TRUE /\ call' = [call EXCEPT !.pc = "return", !.ok = TRUE] /\ UNCHANGED open
  BY <1>1, <1>2, CallGoesOn
<1>3. CASE Go("return") /\ UNCHANGED open
  BY <1>1, <1>3, GoGoesOn, CallGoesOn
<1>4. CASE CloseChannel /\ FailAttempt
  BY <1>1, <1>4, FailedAttempt DEF CloseChannel
<1>5. QED
  BY <1>2, <1>3, <1>4 DEF WaitConfirm

LEMMA DeclareQueueKept ==
  ASSUME PublisherInv, DeclareQueue
  PROVE  PublisherInv'
<1>1. /\ call.pc = "use" /\ call.op = "setup" /\ connected' \in BOOLEAN /\ confirmed' \in BOOLEAN
      /\ UNCHANGED <<pool, calls, closed>> /\ (UNCHANGED wireFaults \/ WireFault)
  BY DEF DeclareQueue, PublisherInv, PublisherTypeOK
<1>2. open' \subseteq open
  BY DEF DeclareQueue, CloseChannel
<1>3. CASE call' = [call EXCEPT !.pc = "return", !.ok = TRUE]
  BY <1>1, <1>2, <1>3, CallGoesOn
<1>4. CASE Go("return")
  BY <1>1, <1>2, <1>4, GoGoesOn, CallGoesOn
<1>5. QED
  BY <1>3, <1>4 DEF DeclareQueue

LEMMA ReturnChannelKept ==
  ASSUME PublisherInv, ReturnChannel
  PROVE  PublisherInv'
<1>1. /\ call \in WireCalls /\ call.pc = "return" /\ call.ch \in Channels /\ call.ch \notin Pooled /\ ~ closed
      /\ call.op # "none" /\ UNCHANGED <<connected, calls, confirmed, closed, wireFaults>>
  BY DEF ReturnChannel, PublisherInv, PublisherTypeOK, WireCalls
<1>2. /\ call' \in WireCalls /\ call'.ch = NoChannel /\ call'.pc \in {"idle", "borrow"} /\ call'.op = call.op
      /\ call'.ok => call'.pc = "idle" /\ call.ok
  <2>1. CASE call.ok
    <3>1. call' = [Idle EXCEPT !.op = call.op, !.ok = TRUE]
      BY <2>1 DEF ReturnChannel, Finish
    <3>2. QED
      BY <1>1, <2>1, <3>1, WireBounds DEF Idle, WireCalls
  <2>2. CASE ~ call.ok
    <3>1. FailAttempt
      BY <2>2 DEF ReturnChannel
    <3>2. QED
      BY <1>1, <2>2, <3>1, FailAttemptEnds
  <2>3. QED
    BY <2>1, <2>2
<1>3. call'.op = "publish" /\ call'.ok => confirmed'
  BY <1>1, <1>2 DEF PublisherInv
<1>4. CASE CloseChannel /\ UNCHANGED pool
  <2>1. open' \subseteq Pooled \union {call'.ch} /\ call'.ch \notin Pooled /\ open' \subseteq Channels
    BY <1>2, <1>4, WireBounds DEF CloseChannel, PublisherInv, PublisherTypeOK
  <2>2. QED
    BY <1>1, <1>2, <1>3, <1>4, <2>1, PoolStays DEF PublisherInv, PublisherTypeOK
<1>5. ASSUME Len(pool) # PoolSize, pool' = Append(pool, call.ch), UNCHANGED open
      PROVE  PublisherInv'
  <2>1. pool \in Seq(Channels) /\ Distinct(pool) /\ Pooled = InSeq(pool) /\ Pooled' = InSeq(pool')
    BY DEF PublisherInv, Pooled, InSeq
  <2>2. /\ pool' \in Seq(Channels) /\ Len(pool') = Len(pool) + 1 /\ Len(pool) \in Nat
        /\ Distinct(pool') /\ Pooled' = Pooled \union {call.ch}
    BY <1>1, <1>5, <2>1, SeqAndOne
  <2>3. Len(pool') <= PoolSize
    BY <1>5, <2>2, WireBounds DEF PublisherInv, PublisherTypeOK
  <2>4. open' \subseteq Pooled' \union {call'.ch} /\ call'.ch \notin Pooled'
    BY <1>1, <1>2, <1>5, <2>2, WireBounds DEF PublisherInv, PublisherTypeOK
  <2>5. PublisherTypeOK'
    BY <1>1, <1>2, <1>5, <2>2, <2>3 DEF PublisherInv, PublisherTypeOK, WireCalls
  <2>6. QED
    BY <1>1, <1>2, <1>3, <1>5, <2>2, <2>4, <2>5 DEF PublisherInv, Distinct
<1>6. QED
  BY <1>4, <1>5 DEF ReturnChannel

LEMMA DrainPoolKept ==
  ASSUME PublisherInv, DrainPool
  PROVE  PublisherInv'
<1>1. /\ closed /\ call.pc = "idle" /\ call.ch = NoChannel /\ pool # <<>> /\ pool' = Tail(pool)
      /\ open' = open \ {Head(pool)} /\ UNCHANGED <<connected, call, calls, confirmed, closed, wireFaults>>
  BY DEF DrainPool, PublisherInv
<1>2. pool \in Seq(Channels) /\ Distinct(pool) /\ Pooled = InSeq(pool) /\ Pooled' = InSeq(pool')
  BY DEF PublisherInv, Pooled, InSeq
<1> DEFINE ch == Head(pool)
<1>3. /\ pool' \in Seq(Channels) /\ Len(pool') = Len(pool) - 1
      /\ Len(pool) \in Nat \ {0} /\ Distinct(pool') /\ Pooled' = Pooled \ {ch}
  BY <1>1, <1>2, RestOfSeq
<1> HIDE DEF ch
<1>4. open' = open \ {ch}
  BY <1>1 DEF ch
<1>5. Len(pool') <= PoolSize
  BY <1>3, WireBounds DEF PublisherInv, PublisherTypeOK
<1>6. PublisherTypeOK'
  BY <1>1, <1>3, <1>4, <1>5 DEF PublisherInv, PublisherTypeOK
<1>7. QED
  BY <1>1, <1>3, <1>4, <1>6 DEF PublisherInv, Distinct

\* The connection, the other channels on it, and Close.
LEMMA SurroundingsKept ==
  ASSUME PublisherInv, ClosePublisher \/ ConsumerOpensChannel \/ ConnectionLost \/ UNCHANGED wireVars
  PROVE  PublisherInv'
<1>1. /\ UNCHANGED <<pool, call, calls, confirmed>> /\ open' \subseteq open /\ connected' \in BOOLEAN
      /\ closed' \in BOOLEAN /\ (closed' => call.pc = "idle") /\ (UNCHANGED wireFaults \/ WireFault)
  <2>1. connected \in BOOLEAN /\ closed \in BOOLEAN /\ (closed => call.pc = "idle")
    BY DEF PublisherInv, PublisherTypeOK
  <2>2. CASE ConsumerOpensChannel
    <3>1. PICK ok \in BOOLEAN, alive \in SUBSET open : OpenChannel(ok, alive) /\ open' = alive
      BY <2>2 DEF ConsumerOpensChannel
    <3>2. connected' \in BOOLEAN /\ (UNCHANGED wireFaults \/ WireFault)
      BY <2>1, <3>1 DEF OpenChannel
    <3>3. QED
      BY <2>1, <2>2, <3>1, <3>2 DEF ConsumerOpensChannel
  <2>3. CASE ClosePublisher
    BY <2>1, <2>3 DEF ClosePublisher
  <2>4. CASE ConnectionLost
    BY <2>1, <2>4 DEF ConnectionLost
  <2>5. CASE UNCHANGED wireVars
    BY <2>1, <2>5 DEF wireVars
  <2>6. QED
    BY <2>2, <2>3, <2>4, <2>5
<1>2. wireFaults' \in 0 .. MaxWireFaults
  BY <1>1, WireFaultBound
<1>3. Pooled' = Pooled
  BY <1>1 DEF Pooled
<1>4. PublisherTypeOK'
  BY <1>1, <1>2, <1>3 DEF PublisherInv, PublisherTypeOK
<1>5. QED
  BY <1>1, <1>3, <1>4 DEF PublisherInv, Distinct

LEMMA PublisherStarts ==
  ASSUME WireInit
  PROVE  PublisherInv
<1>1. 1 .. PoolSize \subseteq Channels
  BY PublisherAssumption DEF Channels
<1>2. pool \in [1 .. PoolSize -> Channels] /\ PoolSize \in Nat
  BY <1>1, WireBounds DEF WireInit
<1>3. pool \in Seq(Channels) /\ Len(pool) = PoolSize
  BY <1>2
<1>4. Pooled = 1 .. PoolSize /\ Distinct(pool)
  BY <1>3 DEF WireInit, Pooled, Distinct
<1>5. call = Idle /\ Idle.ch = NoChannel /\ Idle.pc = "idle" /\ Idle.ok = FALSE /\ Idle \in WireCalls
  BY WireBounds DEF WireInit, Idle
<1>6. PublisherTypeOK
  <2>1. calls \in 0 .. MaxPublishes /\ wireFaults \in 0 .. MaxWireFaults /\ Len(pool) <= PoolSize
    BY <1>2, <1>3, WireBounds DEF WireInit
  <2>2. connected \in BOOLEAN /\ confirmed \in BOOLEAN /\ closed \in BOOLEAN /\ open \subseteq Channels
    BY <1>1 DEF WireInit
  <2>3. QED
    BY <1>1, <1>4, <1>5, <2>1, <2>2 DEF PublisherTypeOK, WireCalls
<1>7. NoChannel \notin Pooled
  BY <1>1, <1>4, WireBounds
<1>8. QED
  BY <1>3, <1>4, <1>5, <1>6, <1>7 DEF WireInit, PublisherInv

LEMMA PublisherInvariance == WireSpec => []PublisherInv
<1>1. ASSUME PublisherInv, [WireNext]_wireVars
      PROVE  PublisherInv'
  BY <1>1, WireCallKept, CancelBackoffKept, BorrowChannelKept, CreateConfirmChannelKept, PublishMessageKept,
     WaitConfirmKept, DeclareQueueKept, ReturnChannelKept, DrainPoolKept, SurroundingsKept DEF WireNext
<1>2. PublisherInv /\ [WireNext]_wireVars => PublisherInv'
  BY <1>1
<1>3. QED
  BY PublisherStarts, <1>2, PTL DEF WireSpec

(* The pool, its size and the connection: a channel of the pool is in it    *)
(* once, or in the hands of the call, not both, and no other is open (so    *)
(* Close, which drains the pool, leaves none behind); and a Publish that    *)
(* returns no error was confirmed by the broker (publisher.go:27, :273).    *)
THEOREM NoChannelIsLost == Spec => []PublisherKeepsChannels
<1>1. ASSUME PublisherInv
      PROVE  PublisherKeepsChannels
  <2>1. pool \in Seq(Channels) /\ Distinct(pool) /\ Pooled = InSeq(pool)
    BY <1>1 DEF PublisherInv, Pooled, InSeq
  <2>2. Cardinality(Pooled) = Len(pool)
    BY <2>1, CountDistinct
  <2>3. QED
    BY <1>1, <2>2 DEF PublisherInv, PublisherKeepsChannels, ChannelsAreOwned, AcceptedIsStored
<1>2. PublisherInv => PublisherKeepsChannels
  BY <1>1
<1>3. QED
  BY <1>2, PartsRunAlone, PublisherInvariance, PTL

-----------------------------------------------------------------------------
(* Notifications: what was stored of a message, and what was sent.          *)

\* A copy that will make a row of its message, or a retry that will.
Storing(c) == c.at \in {"queued", "create"} \/ (c.at = "failed" /\ c.held)
ToStore(m) == {k \in NoticeCopies : copies[k].msg = m /\ Storing(copies[k])}
ToMail(m)  == {k \in NoticeCopies : copies[k].msg = m /\ copies[k].at = "send"}

\* The rows a message has and the copies of it that will make one are at most one and one for
\* each repetition; the e-mail of a handling goes out after the handling's row was stored.
NoticeOK(m) ==
  /\ Cardinality(RowsOf(m)) + Cardinality(ToStore(m)) <= again[m] + IF noticeKind[m] = "none" THEN 0 ELSE 1
  /\ mails[m] + Cardinality(ToMail(m)) <= Cardinality(RowsOf(m))
  /\ m \in noticeDone => RowsOf(m) # {}

CopyOK(k) ==
  /\ copies[k].at # "free" => copies[k].msg \in Notices /\ noticeKind[copies[k].msg] # "none"
  /\ copies[k].at = "ack" => RowsOf(copies[k].msg) # {}

NoticesInv ==
  /\ NotificationsTypeOK /\ IsFiniteSet(stored)
  /\ \A a \in stored : a.id <= Cardinality(stored)
  /\ \A a, b \in stored : a.id = b.id => a = b
  /\ \A k \in NoticeCopies : CopyOK(k)
  /\ \A m \in Notices : NoticeOK(m)

NoticeRows == [id : Nat \ {0}, msg : Notices, status : {"SENT", "PENDING"}, read : BOOLEAN]

LEMMA RowsFinite ==
  ASSUME NoticesInv
  PROVE  /\ Cardinality(stored) \in Nat
         /\ \A m \in Notices : IsFiniteSet(RowsOf(m)) /\ Cardinality(RowsOf(m)) \in Nat
<1>1. \A m \in Notices : RowsOf(m) \subseteq stored
  BY DEF RowsOf
<1>2. QED
  BY <1>1, FS_Subset, FS_CardinalityType DEF NoticesInv

\* The table, and how many rows each message has: what a write of the table does to them.
TableOK ==
  /\ stored \subseteq NoticeRows /\ IsFiniteSet(stored)
  /\ \A a \in stored : a.id <= Cardinality(stored)
  /\ \A a, b \in stored : a.id = b.id => a = b

LEMMA RowAdded ==
  ASSUME NoticesInv, NEW m \in Notices, NEW row \in NoticeRows,
         row.id = Cardinality(stored) + 1, row.msg = m, stored' = stored \union {row}
  PROVE  /\ TableOK' /\ Cardinality(RowsOf(m)') = Cardinality(RowsOf(m)) + 1
         /\ \A k \in Notices \ {m} : RowsOf(k)' = RowsOf(k)
<1> DEFINE n == Cardinality(stored)
<1>1. n \in Nat /\ IsFiniteSet(stored) /\ \A a \in stored : a.id \in Nat /\ a.id <= n
  BY RowsFinite DEF NoticesInv, NotificationsTypeOK
<1>2. row.id = n + 1
  OBVIOUS
<1> HIDE DEF n
<1>3. \A a \in stored : a.id # row.id
  BY <1>1, <1>2
<1>4. row \notin stored
  BY <1>3
<1>5. IsFiniteSet(stored') /\ Cardinality(stored') = n + 1
  BY <1>1, <1>4, FS_AddElement DEF n
<1>6. \A a \in stored' : a.id <= n + 1
  BY <1>1, <1>2
<1>7. TableOK'
  BY <1>3, <1>5, <1>6 DEF TableOK, NoticesInv, NotificationsTypeOK, NoticeRows
<1>8. RowsOf(m)' = RowsOf(m) \union {row} /\ row \notin RowsOf(m)
  BY <1>4 DEF RowsOf
<1>9. Cardinality(RowsOf(m)') = Cardinality(RowsOf(m)) + 1
  BY <1>8, RowsFinite, FS_AddElement, SMTT(30)
<1>10. \A k \in Notices \ {m} : RowsOf(k)' = RowsOf(k)
  BY DEF RowsOf
<1>11. QED
  BY <1>7, <1>9, <1>10

\* Two finite sets, one with another element in the place of one.
LEMMA ReplaceOne ==
  ASSUME NEW S, IsFiniteSet(S), NEW x \in S, NEW y, y \notin S \ {x}
  PROVE  IsFiniteSet((S \ {x}) \union {y}) /\ Cardinality((S \ {x}) \union {y}) = Cardinality(S)
<1>1. IsFiniteSet(S \ {x}) /\ Cardinality(S \ {x}) = Cardinality(S) - 1 /\ Cardinality(S) \in Nat
  BY FS_RemoveElement, FS_CardinalityType
<1>2. /\ IsFiniteSet((S \ {x}) \union {y})
      /\ Cardinality((S \ {x}) \union {y}) = Cardinality(S \ {x}) + 1
  BY <1>1, FS_AddElement
<1>3. QED
  BY <1>1, <1>2

LEMMA RowMarked ==
  ASSUME NoticesInv, NEW n \in stored, SetReadAt(n)
  PROVE  TableOK' /\ \A k \in Notices : Cardinality(RowsOf(k)') = Cardinality(RowsOf(k))
<1> DEFINE marked == [n EXCEPT !.read = TRUE]
<1>1. n \in NoticeRows /\ marked \in NoticeRows /\ marked.id = n.id /\ marked.msg = n.msg
  BY DEF NoticesInv, NotificationsTypeOK, NoticeRows
<1>2. stored' = (stored \ {n}) \union {marked}
  BY DEF SetReadAt
<1> HIDE DEF marked
<1>3. \A a \in stored \ {n} : a.id # marked.id
  BY <1>1 DEF NoticesInv
<1>4. marked \notin stored \ {n}
  BY <1>3
<1>5. IsFiniteSet(stored') /\ Cardinality(stored') = Cardinality(stored)
  BY <1>2, <1>4, ReplaceOne DEF NoticesInv
<1>6. TableOK'
  BY <1>1, <1>2, <1>3, <1>5 DEF TableOK, NoticesInv, NotificationsTypeOK, NoticeRows
<1>7. ASSUME NEW k \in Notices
      PROVE  Cardinality(RowsOf(k)') = Cardinality(RowsOf(k))
  <2>1. CASE n.msg # k
    <3>1. RowsOf(k)' = RowsOf(k)
      BY <1>1, <1>2, <2>1 DEF RowsOf
    <3>2. QED
      BY <3>1
  <2>2. CASE n.msg = k
    <3>1. RowsOf(k)' = (RowsOf(k) \ {n}) \union {marked} /\ n \in RowsOf(k) /\ marked \notin RowsOf(k) \ {n}
      BY <1>1, <1>2, <1>4, <2>2 DEF RowsOf
    <3>2. QED
      BY <3>1, ReplaceOne, RowsFinite
  <2>3. QED
    BY <2>1, <2>2
<1>8. QED
  BY <1>6, <1>7

LEMMA TableStays ==
  ASSUME NoticesInv, UNCHANGED stored
  PROVE  TableOK' /\ \A k \in Notices : RowsOf(k)' = RowsOf(k)
  BY DEF NoticesInv, NotificationsTypeOK, TableOK, NoticeRows, RowsOf

-----------------------------------------------------------------------------
(* Copies: what moving one of them, or two, does to the counts.             *)

\* Every copy outside of i and j stays, and these are of m.
AboutCopies(m, i, j) ==
  /\ copies' \in [NoticeCopies -> CopyStates]
  /\ \A k \in NoticeCopies \ {i, j} : copies'[k] = copies[k]
  /\ {copies[i].msg, copies[j].msg, copies'[i].msg, copies'[j].msg} \subseteq {m, NoNotice}

\* What a copy in state c adds to the two counts of m.
Stores(c, m) == IF c.msg = m /\ Storing(c) THEN 1 ELSE 0
Sends(c, m)  == IF c.msg = m /\ c.at = "send" THEN 1 ELSE 0

LEMMA CountOne ==
  ASSUME NEW S, NEW T, IsFiniteSet(S), IsFiniteSet(T), NEW j, S \ {j} = T \ {j}
  PROVE  Cardinality(T) + (IF j \in S THEN 1 ELSE 0) = Cardinality(S) + (IF j \in T THEN 1 ELSE 0)
<1>1. ASSUME NEW U, IsFiniteSet(U)
      PROVE  /\ Cardinality(U) \in Nat /\ IsFiniteSet(U \ {j}) /\ Cardinality(U \ {j}) \in Nat
             /\ Cardinality(U) = Cardinality(U \ {j}) + (IF j \in U THEN 1 ELSE 0)
  <2>1. /\ IsFiniteSet(U \ {j})
        /\ Cardinality(U \ {j}) = IF j \in U THEN Cardinality(U) - 1 ELSE Cardinality(U)
    BY <1>1, FS_RemoveElement
  <2>2. Cardinality(U) \in Nat /\ Cardinality(U \ {j}) \in Nat
    BY <1>1, <2>1, FS_CardinalityType
  <2>3. PICK a, b : a = Cardinality(U) /\ b = Cardinality(U \ {j})
    OBVIOUS
  <2>4. a = b + (IF j \in U THEN 1 ELSE 0)
    BY <2>1, <2>2, <2>3
  <2>5. QED
    BY <2>1, <2>2, <2>3, <2>4
<1>2. PICK a, b, c : /\ a = Cardinality(S) /\ b = Cardinality(T) /\ c = Cardinality(S \ {j})
                     /\ c = Cardinality(T \ {j})
  OBVIOUS
<1>3. /\ a \in Nat /\ b \in Nat /\ c \in Nat
      /\ a = c + (IF j \in S THEN 1 ELSE 0) /\ b = c + (IF j \in T THEN 1 ELSE 0)
  BY <1>1, <1>2
<1>4. QED
  BY <1>2, <1>3

LEMMA CopiesFinite ==
  ASSUME NEW m
  PROVE  /\ IsFiniteSet(ToStore(m)) /\ IsFiniteSet(ToMail(m))
         /\ IsFiniteSet(ToStore(m)') /\ IsFiniteSet(ToMail(m)')
         /\ Cardinality(ToStore(m)) \in Nat /\ Cardinality(ToMail(m)) \in Nat
         /\ Cardinality(ToStore(m)') \in Nat /\ Cardinality(ToMail(m)') \in Nat
<1>1. IsFiniteSet(NoticeCopies)
  BY FS_Interval, NotificationsAssumption DEF NoticeCopies
<1>2. /\ ToStore(m) \subseteq NoticeCopies /\ ToMail(m) \subseteq NoticeCopies
      /\ ToStore(m)' \subseteq NoticeCopies /\ ToMail(m)' \subseteq NoticeCopies
  BY DEF ToStore, ToMail
<1>3. QED
  BY <1>1, <1>2, FS_Subset, FS_CardinalityType

LEMMA OneCopyCounted ==
  ASSUME NoticesInv, NEW m \in Notices, NEW k \in NoticeCopies, NEW c \in CopyStates, SetCopy(k, c),
         copies[k].msg \in {m, NoNotice}, c.msg \in {m, NoNotice}
  PROVE  /\ AboutCopies(m, k, k) /\ copies'[k] = c
         /\ Cardinality(ToStore(m)') + Stores(copies[k], m) = Cardinality(ToStore(m)) + Stores(c, m)
         /\ Cardinality(ToMail(m)') + Sends(copies[k], m) = Cardinality(ToMail(m)) + Sends(c, m)
<1>1. copies \in [NoticeCopies -> CopyStates]
  BY DEF NoticesInv, NotificationsTypeOK
<1>2. /\ copies' \in [NoticeCopies -> CopyStates] /\ copies'[k] = c
      /\ \A j \in NoticeCopies \ {k} : copies'[j] = copies[j]
  BY <1>1 DEF SetCopy
<1>3. ToStore(m) \ {k} = ToStore(m)' \ {k} /\ ToMail(m) \ {k} = ToMail(m)' \ {k}
  BY <1>2 DEF ToStore, ToMail
<1>4. /\ Cardinality(ToStore(m)') + (IF k \in ToStore(m) THEN 1 ELSE 0)
           = Cardinality(ToStore(m)) + (IF k \in ToStore(m)' THEN 1 ELSE 0)
      /\ Cardinality(ToMail(m)') + (IF k \in ToMail(m) THEN 1 ELSE 0)
           = Cardinality(ToMail(m)) + (IF k \in ToMail(m)' THEN 1 ELSE 0)
  BY <1>3, CopiesFinite, CountOne
<1>5. /\ k \in ToStore(m) <=> copies[k].msg = m /\ Storing(copies[k])
      /\ k \in ToStore(m)' <=> c.msg = m /\ Storing(c)
      /\ k \in ToMail(m) <=> copies[k].msg = m /\ copies[k].at = "send"
      /\ k \in ToMail(m)' <=> c.msg = m /\ c.at = "send"
  BY <1>2 DEF ToStore, ToMail
<1>6. AboutCopies(m, k, k)
  BY <1>2 DEF AboutCopies
<1>7. QED
  BY <1>2, <1>4, <1>5, <1>6 DEF Stores, Sends

\* The broker makes a copy while another one moves.
SetBoth(k, c, j, tries) == copies' = [copies EXCEPT ![k] = c, ![j] = Queued(copies[k].msg, tries)]

LEMMA TwoCopiesCounted ==
  ASSUME NoticesInv, NEW m \in Notices, NEW k \in NoticeCopies, NEW c \in CopyStates, NEW j \in NoticeCopies,
         NEW tries \in 0 .. MaxNoticeTries, NextCopy(j), copies[k].msg = m, c.msg = m,
         SetBoth(k, c, j, tries)
  PROVE  /\ AboutCopies(m, k, j) /\ copies'[k] = c /\ copies'[j] = Queued(m, tries) /\ j # k
         /\ Cardinality(ToStore(m)') + Stores(copies[k], m) = Cardinality(ToStore(m)) + Stores(c, m) + 1
         /\ Cardinality(ToMail(m)') + Sends(copies[k], m) = Cardinality(ToMail(m)) + Sends(c, m)
<1>1. /\ copies \in [NoticeCopies -> CopyStates] /\ copies[j] = Free /\ j # k
      /\ Queued(m, tries) \in CopyStates /\ Queued(m, tries).msg = m /\ Queued(m, tries).at = "queued"
      /\ Free.msg = NoNotice /\ m # NoNotice
  BY NotificationsAssumption DEF NoticesInv, NotificationsTypeOK, NextCopy, Free, Queued, CopyStates
<1>2. /\ copies' \in [NoticeCopies -> CopyStates] /\ copies'[k] = c /\ copies'[j] = Queued(m, tries)
      /\ \A i \in NoticeCopies \ {k, j} : copies'[i] = copies[i]
  BY <1>1 DEF SetBoth
<1>3. AboutCopies(m, k, j)
  BY <1>1, <1>2 DEF AboutCopies
<1>4. /\ j \notin ToStore(m) /\ j \in ToStore(m)' /\ j \notin ToMail(m) /\ j \notin ToMail(m)'
      /\ k \in ToStore(m) <=> Storing(copies[k])
      /\ k \in ToStore(m)' <=> Storing(c)
      /\ k \in ToMail(m) <=> copies[k].at = "send"
      /\ k \in ToMail(m)' <=> c.at = "send"
  BY <1>1, <1>2 DEF ToStore, ToMail, Storing
\* First the other copy moves, then the new one is queued.
<1> DEFINE S == ToStore(m)
           T == ToStore(m)' \ {j}
<1>5. /\ IsFiniteSet(T) /\ Cardinality(T) \in Nat /\ Cardinality(ToStore(m)') = Cardinality(T) + 1
  <2>1. IsFiniteSet(T) /\ Cardinality(T) = Cardinality(ToStore(m)') - 1 /\ Cardinality(ToStore(m)') \in Nat
    BY <1>4, CopiesFinite, FS_RemoveElement
  <2>2. Cardinality(T) \in Nat
    BY <2>1, FS_CardinalityType
  <2> HIDE DEF T
  <2>3. QED
    BY <2>1, <2>2
<1>6. S \ {k} = T \ {k}
  BY <1>2, <1>4 DEF ToStore
<1>7. Cardinality(T) + (IF k \in S THEN 1 ELSE 0) = Cardinality(S) + (IF k \in T THEN 1 ELSE 0)
  BY <1>5, <1>6, CopiesFinite, CountOne
<1>8. ToMail(m) \ {k} = ToMail(m)' \ {k}
  BY <1>2, <1>4 DEF ToMail
<1>9. Cardinality(ToMail(m)') + (IF k \in ToMail(m) THEN 1 ELSE 0)
        = Cardinality(ToMail(m)) + (IF k \in ToMail(m)' THEN 1 ELSE 0)
  BY <1>8, CopiesFinite, CountOne
<1>10. k \in S <=> Storing(copies[k])
  BY <1>4
<1>11. k \in T <=> Storing(c)
  BY <1>1, <1>4
<1>12. Cardinality(S) \in Nat /\ S = ToStore(m)
  BY CopiesFinite
<1> HIDE DEF S, T
<1>13. Cardinality(ToStore(m)') + (IF Storing(copies[k]) THEN 1 ELSE 0)
         = Cardinality(ToStore(m)) + (IF Storing(c) THEN 1 ELSE 0) + 1
  BY <1>5, <1>7, <1>10, <1>11, <1>12
<1>14. QED
  BY <1>1, <1>2, <1>3, <1>4, <1>9, <1>13 DEF Stores, Sends

-----------------------------------------------------------------------------
(* One step of the handling of m.                                          *)

\* Nothing changes but what is known of m, and that does not go back.
AboutMessage(m) ==
  /\ UNCHANGED noticeHttp /\ (UNCHANGED noticeFaults \/ NoticeFault) /\ TableOK'
  /\ noticeKind' \in [Notices -> Kinds \union {"none"}]
  /\ mails' \in [Notices -> Nat] /\ again' \in [Notices -> Nat]
  /\ noticeDone' \in {noticeDone, noticeDone \union {m}}
  /\ \A n \in Notices \ {m} : /\ noticeKind'[n] = noticeKind[n] /\ mails'[n] = mails[n]
                              /\ again'[n] = again[n] /\ RowsOf(n)' = RowsOf(n)
  /\ noticeKind[m] # "none" => noticeKind'[m] # "none"
  /\ RowsOf(m) # {} => RowsOf(m)' # {}

LEMMA HandlingKept ==
  ASSUME NoticesInv, NEW m \in Notices, NEW i \in NoticeCopies, NEW j \in NoticeCopies,
         AboutCopies(m, i, j), AboutMessage(m), CopyOK(i)', CopyOK(j)', NoticeOK(m)'
  PROVE  NoticesInv'
<1>1. NotificationsTypeOK'
  BY NotificationsAssumption
     DEF AboutCopies, AboutMessage, NoticesInv, NotificationsTypeOK, NoticeFault, TableOK, NoticeRows
<1>2. ASSUME NEW k \in NoticeCopies
      PROVE  CopyOK(k)'
  <2>1. CASE k \in {i, j}
    BY <2>1
  <2>2. CASE k \notin {i, j}
    <3>1. copies'[k] = copies[k] /\ CopyOK(k) /\ copies[k].msg \in Notices \union {NoNotice}
      BY <2>2 DEF AboutCopies, NoticesInv, NotificationsTypeOK, CopyStates
    <3>2. ASSUME NEW n \in Notices
          PROVE  /\ noticeKind[n] # "none" => noticeKind'[n] # "none"
                 /\ RowsOf(n) # {} => RowsOf(n)' # {}
      BY DEF AboutMessage
    <3>3. copies[k].at = "ack" => copies[k].at # "free"
      OBVIOUS
    <3>4. copies[k].at # "free" => copies[k].msg \in Notices
      BY <3>1 DEF CopyOK
    <3>5. copies[k].at = "ack" => RowsOf(copies[k].msg)' # {}
      BY <3>1, <3>2, <3>3, <3>4 DEF CopyOK
    <3>6. copies[k].at # "free" => noticeKind'[copies[k].msg] # "none"
      BY <3>1, <3>2, <3>4 DEF CopyOK
    <3>7. RowsOf(copies[k].msg)' = {n \in stored' : n.msg = copies'[k].msg}
      BY <3>1 DEF RowsOf
    <3>8. QED
      BY <3>1, <3>4, <3>5, <3>6, <3>7 DEF CopyOK, RowsOf
  <2>3. QED
    BY <2>1, <2>2
<1>3. ASSUME NEW n \in Notices
      PROVE  NoticeOK(n)'
  <2>1. CASE n = m
    BY <2>1
  <2>2. CASE n # m
    <3>1. n # NoNotice
      BY NotificationsAssumption
    <3>2. ToStore(n)' = ToStore(n) /\ ToMail(n)' = ToMail(n)
      BY <2>2, <3>1 DEF AboutCopies, ToStore, ToMail
    <3>3. /\ noticeKind'[n] = noticeKind[n] /\ mails'[n] = mails[n] /\ again'[n] = again[n]
          /\ RowsOf(n)' = RowsOf(n) /\ (n \in noticeDone' <=> n \in noticeDone) /\ NoticeOK(n)
      BY <2>2 DEF AboutMessage, NoticesInv
    <3>4. QED
      BY <3>2, <3>3 DEF NoticeOK
  <2>3. QED
    BY <2>1, <2>2
<1>4. QED
  BY <1>1, <1>2, <1>3 DEF NoticesInv, AboutMessage, TableOK

\* What is known of m before a step.
LEMMA MessageFacts ==
  ASSUME NoticesInv, NEW m \in Notices
  PROVE  /\ again[m] \in Nat /\ mails[m] \in Nat /\ Cardinality(RowsOf(m)) \in Nat
         /\ Cardinality(ToStore(m)) \in Nat /\ Cardinality(ToMail(m)) \in Nat
         /\ NoticeOK(m) /\ (Cardinality(RowsOf(m)) # 0 <=> RowsOf(m) # {})
<1>1. /\ again[m] \in Nat /\ mails[m] \in Nat /\ NoticeOK(m)
  BY DEF NoticesInv, NotificationsTypeOK
<1>2. Cardinality(RowsOf(m)) \in Nat /\ (Cardinality(RowsOf(m)) # 0 <=> RowsOf(m) # {})
  BY RowsFinite, FS_EmptySet
<1>3. QED
  BY <1>1, <1>2, CopiesFinite

\* The copy of a handling.
LEMMA CopyFacts ==
  ASSUME NoticesInv, NEW k \in NoticeCopies, copies[k].at # "free"
  PROVE  /\ copies[k] \in CopyStates /\ copies[k].msg \in Notices /\ copies[k].msg # NoNotice
         /\ noticeKind[copies[k].msg] # "none"
         /\ copies[k].at = "ack" => RowsOf(copies[k].msg) # {}
<1>1. copies[k] \in CopyStates /\ CopyOK(k)
  BY DEF NoticesInv, NotificationsTypeOK
<1>2. QED
  BY <1>1, NotificationsAssumption DEF CopyOK

\* A step that stores and mails nothing: with n more repetitions there may be n more copies.
LEMMA QuietKept ==
  ASSUME NoticesInv, NEW m \in Notices, NEW i \in NoticeCopies, NEW j \in NoticeCopies, AboutCopies(m, i, j),
         UNCHANGED <<noticeKind, stored, mails, noticeHttp>>, UNCHANGED noticeFaults \/ NoticeFault,
         NEW n \in Nat, Repeat(m, n),
         noticeDone' \in {noticeDone, noticeDone \union {m}}, m \in noticeDone' => m \in noticeDone \/ RowsOf(m) # {},
         Cardinality(ToStore(m)') <= Cardinality(ToStore(m)) + n,
         Cardinality(ToMail(m)') <= Cardinality(ToMail(m)),
         CopyOK(i)', CopyOK(j)'
  PROVE  NoticesInv'
<1>1. TableOK' /\ \A k \in Notices : RowsOf(k)' = RowsOf(k)
  BY TableStays
<1>2. /\ noticeKind \in [Notices -> Kinds \union {"none"}] /\ mails \in [Notices -> Nat]
      /\ again \in [Notices -> Nat] /\ again[m] \in Nat
  BY DEF NoticesInv, NotificationsTypeOK
<1>3. again' \in [Notices -> Nat] /\ again'[m] = again[m] + n /\ \A k \in Notices \ {m} : again'[k] = again[k]
  BY <1>2 DEF Repeat
<1>4. AboutMessage(m)
  BY <1>1, <1>2, <1>3 DEF AboutMessage
<1>5. NoticeOK(m)'
  <2>1. PICK r, s, t, u, v : /\ r = Cardinality(RowsOf(m)) /\ s = Cardinality(ToStore(m)) /\ t = Cardinality(ToMail(m))
                             /\ u = Cardinality(ToStore(m)') /\ v = Cardinality(ToMail(m)')
    OBVIOUS
  <2>2. /\ r \in Nat /\ s \in Nat /\ t \in Nat /\ u \in Nat /\ v \in Nat /\ mails[m] \in Nat
        /\ r + s <= again[m] + IF noticeKind[m] = "none" THEN 0 ELSE 1
        /\ mails[m] + t <= r /\ (m \in noticeDone => RowsOf(m) # {})
        /\ u <= s + n /\ v <= t
    <3>1. /\ Cardinality(RowsOf(m)) \in Nat /\ Cardinality(ToStore(m)) \in Nat
          /\ Cardinality(ToMail(m)) \in Nat /\ mails[m] \in Nat /\ NoticeOK(m)
      BY MessageFacts
    <3>2. Cardinality(ToStore(m)') \in Nat /\ Cardinality(ToMail(m)') \in Nat
      BY CopiesFinite
    <3>3. QED
      BY <2>1, <3>1, <3>2 DEF NoticeOK
  <2>3. /\ r + u <= again'[m] + IF noticeKind'[m] = "none" THEN 0 ELSE 1
        /\ mails'[m] + v <= r /\ (m \in noticeDone' => RowsOf(m)' # {})
    BY <1>1, <1>2, <1>3, <2>2
  <2>4. Cardinality(RowsOf(m)') = r
    BY <1>1, <2>1
  <2>5. QED
    BY <2>1, <2>3, <2>4 DEF NoticeOK
<1>6. QED
  BY <1>4, <1>5, HandlingKept

-----------------------------------------------------------------------------
(* The actions.                                                            *)

NoOneKnows == UNCHANGED <<noticeKind, stored, mails, noticeHttp>>

\* A copy moves on or is gone, with nothing stored or mailed.
LEMMA CopyMovedKept ==
  ASSUME NoticesInv, NEW k \in NoticeCopies, NEW c \in CopyStates, SetCopy(k, c), copies[k].at # "free",
         c = Free \/ (c.msg = copies[k].msg /\ c.at \notin {"free", "send", "ack"}),
         NoOneKnows, UNCHANGED noticeFaults \/ NoticeFault, NEW n \in Nat, Repeat(copies[k].msg, n),
         Storing(c) => Storing(copies[k]) \/ n = 1,
         noticeDone' = noticeDone \/ (copies[k].at = "ack" /\ noticeDone' = noticeDone \union {copies[k].msg})
  PROVE  NoticesInv'
<1>0. PICK m \in Notices : m = copies[k].msg
  BY CopyFacts
<1>1. /\ m \in Notices /\ m # NoNotice /\ noticeKind[m] # "none"
      /\ copies[k].at = "ack" => RowsOf(m) # {}
  BY <1>0, CopyFacts
<1>2. c.msg \in {m, NoNotice} /\ c.at \notin {"send", "ack"} /\ (c.at # "free" => c.msg = m)
  BY <1>0 DEF Free
<1>3. /\ AboutCopies(m, k, k) /\ copies'[k] = c
      /\ Cardinality(ToStore(m)') + Stores(copies[k], m) = Cardinality(ToStore(m)) + Stores(c, m)
      /\ Cardinality(ToMail(m)') + Sends(copies[k], m) = Cardinality(ToMail(m)) + Sends(c, m)
  BY <1>0, <1>1, <1>2, OneCopyCounted
<1>4. /\ Stores(c, m) \in {0, 1} /\ Stores(copies[k], m) \in {0, 1} /\ Stores(c, m) <= Stores(copies[k], m) + n
      /\ Sends(c, m) = 0 /\ Sends(copies[k], m) \in {0, 1}
  BY <1>0, <1>2 DEF Stores, Sends
<1>5. /\ Cardinality(ToStore(m)') <= Cardinality(ToStore(m)) + n
      /\ Cardinality(ToMail(m)') <= Cardinality(ToMail(m))
  <2>1. PICK s, t, u, v : /\ s = Cardinality(ToStore(m)) /\ t = Cardinality(ToMail(m))
                          /\ u = Cardinality(ToStore(m)') /\ v = Cardinality(ToMail(m)')
    OBVIOUS
  <2>2. PICK a, b, d : a = Stores(c, m) /\ b = Stores(copies[k], m) /\ d = Sends(copies[k], m)
    OBVIOUS
  <2>3. /\ s \in Nat /\ t \in Nat /\ u \in Nat /\ v \in Nat /\ a \in {0, 1} /\ b \in {0, 1} /\ d \in {0, 1}
        /\ a <= b + n /\ u + b = s + a /\ v + d = t + 0
    BY <1>3, <1>4, <2>1, <2>2, CopiesFinite
  <2>4. u <= s + n /\ v <= t
    BY <2>3
  <2>5. QED
    BY <2>1, <2>4
<1>6. CopyOK(k)'
  BY <1>1, <1>2, <1>3 DEF CopyOK, NoOneKnows, RowsOf
<1>7. noticeDone' \in {noticeDone, noticeDone \union {m}} /\ (m \in noticeDone' => m \in noticeDone \/ RowsOf(m) # {})
  BY <1>0, <1>1
<1>8. Repeat(m, n) /\ UNCHANGED <<noticeKind, stored, mails, noticeHttp>>
  BY <1>0 DEF NoOneKnows
<1>9. QED
  BY <1>1, <1>3, <1>5, <1>6, <1>7, <1>8, QuietKept

\* A copy moves on while the broker queues another one.
LEMMA CopyDoubledKept ==
  ASSUME NoticesInv, NEW k \in NoticeCopies, NEW c \in CopyStates, NEW j \in NoticeCopies,
         NEW tries \in 0 .. MaxNoticeTries, NextCopy(j), copies[k].at # "free",
         SetBoth(k, c, j, tries), c.msg = copies[k].msg, c.at = copies[k].at \/ c.at = "republished",
         NoOneKnows, UNCHANGED noticeFaults \/ NoticeFault, UNCHANGED noticeDone,
         NEW n \in Nat, Repeat(copies[k].msg, n), Stores(c, c.msg) + 1 <= Stores(copies[k], c.msg) + n
  PROVE  NoticesInv'
<1>0. PICK m \in Notices : m = copies[k].msg
  BY CopyFacts
<1>1. /\ m \in Notices /\ m # NoNotice /\ noticeKind[m] # "none" /\ c.msg = m
      /\ copies[k].at = "ack" => RowsOf(m) # {}
  BY <1>0, CopyFacts
<1>2. /\ AboutCopies(m, k, j) /\ copies'[k] = c /\ copies'[j] = Queued(m, tries) /\ j # k
      /\ Cardinality(ToStore(m)') + Stores(copies[k], m) = Cardinality(ToStore(m)) + Stores(c, m) + 1
      /\ Cardinality(ToMail(m)') + Sends(copies[k], m) = Cardinality(ToMail(m)) + Sends(c, m)
  BY <1>0, <1>1, TwoCopiesCounted
<1>3. /\ Stores(c, m) \in {0, 1} /\ Stores(copies[k], m) \in {0, 1}
      /\ Stores(c, m) + 1 <= Stores(copies[k], m) + n
      /\ Sends(c, m) \in {0, 1} /\ Sends(copies[k], m) \in {0, 1} /\ Sends(c, m) <= Sends(copies[k], m)
  BY <1>0, <1>1 DEF Stores, Sends
<1>4. /\ Cardinality(ToStore(m)') <= Cardinality(ToStore(m)) + n
      /\ Cardinality(ToMail(m)') <= Cardinality(ToMail(m))
  <2>1. PICK s, t, u, v : /\ s = Cardinality(ToStore(m)) /\ t = Cardinality(ToMail(m))
                          /\ u = Cardinality(ToStore(m)') /\ v = Cardinality(ToMail(m)')
    OBVIOUS
  <2>2. PICK a, b, d, e : /\ a = Stores(c, m) /\ b = Stores(copies[k], m)
                          /\ d = Sends(c, m) /\ e = Sends(copies[k], m)
    OBVIOUS
  <2>3. /\ s \in Nat /\ t \in Nat /\ u \in Nat /\ v \in Nat
        /\ a \in {0, 1} /\ b \in {0, 1} /\ d \in {0, 1} /\ e \in {0, 1}
        /\ a + 1 <= b + n /\ d <= e /\ u + b = s + a + 1 /\ v + e = t + d
    BY <1>2, <1>3, <2>1, <2>2, CopiesFinite
  <2>4. u <= s + n /\ v <= t
    BY <2>3
  <2>5. QED
    BY <2>1, <2>4
<1>5. CopyOK(k)' /\ CopyOK(j)'
  <2>1. copies'[j].msg = m /\ copies'[j].at = "queued"
    BY <1>2 DEF Queued
  <2>2. CopyOK(j)'
    BY <1>1, <2>1 DEF CopyOK, NoOneKnows
  <2>3. CopyOK(k)'
    BY <1>0, <1>1, <1>2 DEF CopyOK, NoOneKnows, RowsOf
  <2>4. QED
    BY <2>2, <2>3
<1>6. Repeat(m, n) /\ UNCHANGED <<noticeKind, stored, mails, noticeHttp>>
  BY <1>0 DEF NoOneKnows
<1>7. QED
  BY <1>1, <1>2, <1>4, <1>5, <1>6, QuietKept

LEMMA NoRepetition ==
  ASSUME NoticesInv, UNCHANGED again
  PROVE  \A m \in Notices : Repeat(m, 0)
<1>1. again \in [Notices -> Nat]
  BY DEF NoticesInv, NotificationsTypeOK
<1>2. QED
  BY <1>1 DEF Repeat

LEMMA FreeIsAState == Free \in CopyStates /\ Free.msg = NoNotice /\ Free.at = "free" /\ ~Storing(Free)
  BY NotificationsAssumption DEF Free, CopyStates, Storing

LEMMA HandleNoticeKept ==
  ASSUME NoticesInv, NEW k \in NoticeCopies, HandleNotice(k)
  PROVE  NoticesInv'
<1> DEFINE s == IF noticeKind[copies[k].msg] = "garbled" THEN "failed" ELSE "create"
           c == [copies[k] EXCEPT !.held = TRUE, !.at = s]
<1>1. /\ copies[k].at = "queued" /\ SetCopy(k, c) /\ UNCHANGED <<noticeDone, again, noticeFaults>> /\ NoOneKnows
  BY DEF HandleNotice, NoOneKnows
<1>2. copies[k] \in CopyStates /\ copies[k].msg \in Notices /\ s \in {"failed", "create"}
  BY <1>1, CopyFacts
<1> HIDE DEF s
<1>3. c \in CopyStates /\ c.msg = copies[k].msg /\ c.at = s
  BY <1>2 DEF CopyStates, Handling
<1>4. Repeat(copies[k].msg, 0)
  BY <1>1, <1>2, NoRepetition
<1> HIDE DEF c
<1>5. Storing(copies[k])
  BY <1>1 DEF Storing
<1>6. QED
  BY <1>1, <1>2, <1>3, <1>4, <1>5, CopyMovedKept

\* The copy is gone: acked, rejected, or given up because the channel is lost.
LEMMA CopyEndsKept ==
  ASSUME NoticesInv, NEW k \in NoticeCopies,
         AckNotice(k) \/ AckOriginal(k) \/ RejectNotice(k) \/ EndLost(k)
  PROVE  NoticesInv'
<1>1. /\ copies[k].at # "free" /\ SetCopy(k, Free) /\ UNCHANGED <<again, noticeFaults>> /\ NoOneKnows
      /\ noticeDone' = noticeDone \/ (copies[k].at = "ack" /\ noticeDone' = noticeDone \union {copies[k].msg})
  BY DEF AckNotice, AckOriginal, RejectNotice, EndLost, NoOneKnows
<1>2. Repeat(copies[k].msg, 0)
  BY <1>1, CopyFacts, NoRepetition
<1>3. QED
  BY <1>1, <1>2, FreeIsAState, CopyMovedKept

LEMMA LoseProcessKept ==
  ASSUME NoticesInv, NEW k \in NoticeCopies, LoseProcess(k)
  PROVE  NoticesInv'
<1> DEFINE c == IF copies[k].held THEN Queued(copies[k].msg, copies[k].tries) ELSE Free
           n == IF copies[k].held /\ copies[k].at \in {"send", "ack", "republished"} THEN 1 ELSE 0
<1>1. /\ copies[k].at \in Handling /\ NoticeFault /\ SetCopy(k, c) /\ Repeat(copies[k].msg, n)
      /\ UNCHANGED noticeDone /\ NoOneKnows
  BY DEF LoseProcess, NoOneKnows
<1>2. copies[k].at # "free" /\ copies[k] \in CopyStates /\ copies[k].msg \in Notices
  BY <1>1, CopyFacts DEF Handling
<1>3. /\ c \in CopyStates /\ (c = Free \/ (c.msg = copies[k].msg /\ c.at = "queued"))
      /\ Storing(c) => copies[k].held
  BY <1>2, FreeIsAState DEF Queued, CopyStates
<1>4. n \in Nat /\ (copies[k].held => Storing(copies[k]) \/ n = 1)
  BY <1>1 DEF Storing, Handling
<1> HIDE DEF c, n
<1>5. QED
  BY <1>1, <1>2, <1>3, <1>4, CopyMovedKept

LEMMA RetryNoticeKept ==
  ASSUME NoticesInv, NEW k \in NoticeCopies, RetryNotice(k)
  PROVE  NoticesInv'
<1> DEFINE c == [copies[k] EXCEPT !.at = "republished"]
           tries == copies[k].tries + 1
<1>1. PICK j \in NoticeCopies :
        NextCopy(j) /\ copies' = [copies EXCEPT ![k].at = "republished", ![j] = Queued(copies[k].msg, tries)]
  BY DEF RetryNotice
<1>2. /\ copies[k].at = "failed" /\ copies[k].held /\ copies[k].tries < MaxNoticeTries
      /\ UNCHANGED <<noticeDone, again, noticeFaults>> /\ NoOneKnows
  BY DEF RetryNotice, NoOneKnows
<1>3. copies \in [NoticeCopies -> CopyStates] /\ copies[k] \in CopyStates /\ copies[k].msg \in Notices
  BY <1>2, CopyFacts DEF NoticesInv, NotificationsTypeOK
<1>4. tries \in 0 .. MaxNoticeTries
  BY <1>2, <1>3, NotificationsAssumption DEF CopyStates
<1>5. c \in CopyStates /\ c.msg = copies[k].msg /\ c.at = "republished"
  BY <1>3 DEF CopyStates, Handling
<1>6. SetBoth(k, c, j, tries)
  BY <1>1, <1>3 DEF SetBoth
<1> HIDE DEF c, tries
<1>7. Stores(c, c.msg) = 0 /\ Stores(copies[k], c.msg) = 1
  BY <1>2, <1>5 DEF Stores, Storing
<1>8. Repeat(copies[k].msg, 0)
  BY <1>2, <1>3, NoRepetition
<1>9. Stores(c, c.msg) + 1 <= Stores(copies[k], c.msg) + 0
  BY <1>7
<1>10. QED
  BY <1>1, <1>2, <1>4, <1>5, <1>6, <1>8, <1>9, CopyDoubledKept

LEMMA LoseChannelKept ==
  ASSUME NoticesInv, NEW k \in NoticeCopies, LoseChannel(k)
  PROVE  NoticesInv'
<1> DEFINE c == [copies[k] EXCEPT !.held = FALSE]
           n == IF copies[k].at = "failed" THEN 0 ELSE 1
<1>1. PICK j \in NoticeCopies :
        NextCopy(j) /\ copies' = [copies EXCEPT ![k].held = FALSE, ![j] = Queued(copies[k].msg, copies[k].tries)]
  BY DEF LoseChannel
<1>2. /\ copies[k].at \in Handling /\ copies[k].held /\ NoticeFault /\ Repeat(copies[k].msg, n)
      /\ UNCHANGED noticeDone /\ NoOneKnows
  BY DEF LoseChannel, NoOneKnows
<1>3. /\ copies \in [NoticeCopies -> CopyStates] /\ copies[k] \in CopyStates /\ copies[k].at # "free"
      /\ copies[k].tries \in 0 .. MaxNoticeTries
  BY <1>2 DEF NoticesInv, NotificationsTypeOK, CopyStates, Handling
<1>4. c \in CopyStates /\ c.msg = copies[k].msg /\ c.at = copies[k].at /\ c.held = FALSE
  BY <1>3 DEF CopyStates
<1>5. SetBoth(k, c, j, copies[k].tries)
  BY <1>1, <1>3 DEF SetBoth
<1> HIDE DEF c
<1>6. n \in Nat /\ Stores(c, c.msg) + 1 <= Stores(copies[k], c.msg) + n
  BY <1>2, <1>4 DEF Stores, Storing, Handling
<1> HIDE DEF n
<1>7. QED
  BY <1>1, <1>2, <1>3, <1>4, <1>5, <1>6, CopyDoubledKept

LEMMA NoticeArrivesKept ==
  ASSUME NoticesInv, NEW m \in Notices, NoticeArrives(m)
  PROVE  NoticesInv'
<1>1. PICK k \in NoticeCopies : NextCopy(k) /\ SetCopy(k, Queued(m, 0))
  BY DEF NoticeArrives
<1>2. PICK kind \in Kinds : noticeKind' = [noticeKind EXCEPT ![m] = kind]
  BY DEF NoticeArrives
<1>3. noticeKind[m] = "none" /\ UNCHANGED <<stored, mails, noticeHttp, noticeDone, again, noticeFaults>>
  BY DEF NoticeArrives
<1>4. PICK c : c = Queued(m, 0)
  OBVIOUS
<1>5. /\ c \in CopyStates /\ c.msg = m /\ c.at = "queued" /\ m # NoNotice
      /\ copies[k].msg = NoNotice
  BY <1>1, <1>4, NotificationsAssumption DEF Queued, CopyStates, NextCopy, Free
<1>6. /\ AboutCopies(m, k, k) /\ copies'[k] = c
      /\ Cardinality(ToStore(m)') + Stores(copies[k], m) = Cardinality(ToStore(m)) + Stores(c, m)
      /\ Cardinality(ToMail(m)') + Sends(copies[k], m) = Cardinality(ToMail(m)) + Sends(c, m)
  BY <1>1, <1>4, <1>5, OneCopyCounted
<1>7. Stores(copies[k], m) = 0 /\ Stores(c, m) = 1 /\ Sends(copies[k], m) = 0 /\ Sends(c, m) = 0
  BY <1>5 DEF Stores, Sends, Storing
<1>8. /\ Cardinality(ToStore(m)') = Cardinality(ToStore(m)) + 1 /\ Cardinality(ToMail(m)') = Cardinality(ToMail(m))
  BY <1>6, <1>7, CopiesFinite
<1>9. TableOK' /\ \A n \in Notices : RowsOf(n)' = RowsOf(n)
  BY <1>3, TableStays
<1>10. /\ noticeKind \in [Notices -> Kinds \union {"none"}] /\ mails \in [Notices -> Nat]
       /\ again \in [Notices -> Nat] /\ noticeKind'[m] \in Kinds
  BY <1>2 DEF NoticesInv, NotificationsTypeOK
<1>11. AboutMessage(m)
  BY <1>2, <1>3, <1>9, <1>10 DEF AboutMessage
<1>12. CopyOK(k)'
  BY <1>5, <1>6, <1>10 DEF CopyOK, Kinds
<1>13. NoticeOK(m)'
  <2>1. PICK r, s, t : r = Cardinality(RowsOf(m)) /\ s = Cardinality(ToStore(m)) /\ t = Cardinality(ToMail(m))
    OBVIOUS
  <2>2. /\ r \in Nat /\ s \in Nat /\ t \in Nat /\ again[m] \in Nat /\ mails[m] \in Nat
        /\ r + s <= again[m] /\ mails[m] + t <= r /\ (m \in noticeDone => RowsOf(m) # {})
    BY <1>3, <2>1, MessageFacts DEF NoticeOK
  <2>3. noticeKind'[m] # "none"
    BY <1>10 DEF Kinds
  <2>4. r + (s + 1) <= again'[m] + IF noticeKind'[m] = "none" THEN 0 ELSE 1
    BY <1>3, <2>2, <2>3
  <2>5. /\ Cardinality(RowsOf(m)') = r /\ Cardinality(ToStore(m)') = s + 1 /\ Cardinality(ToMail(m)') = t
        /\ mails'[m] = mails[m] /\ noticeDone' = noticeDone /\ RowsOf(m)' = RowsOf(m)
    BY <1>3, <1>8, <1>9, <2>1
  <2>6. QED
    BY <2>2, <2>4, <2>5 DEF NoticeOK
<1>14. QED
  BY <1>6, <1>11, <1>12, <1>13, HandlingKept

\* The INSERT took effect: the handling goes on, or the message will be tried again.
LEMMA RowStoredKept ==
  ASSUME NoticesInv, NEW k \in NoticeCopies, copies[k].at = "create", NEW c \in CopyStates, SetCopy(k, c),
         c.msg = copies[k].msg, c.at \in {"send", "failed"}, NEW n \in {0, 1}, Storing(c) => n = 1,
         Repeat(copies[k].msg, n), UNCHANGED noticeFaults \/ NoticeFault,
         UNCHANGED <<noticeKind, mails, noticeHttp, noticeDone>>,
         NEW row \in NoticeRows, row.id = Cardinality(stored) + 1, row.msg = copies[k].msg,
         stored' = stored \union {row}
  PROVE  NoticesInv'
<1>1. PICK m \in Notices : m = copies[k].msg
  BY CopyFacts
<1>2. m # NoNotice /\ noticeKind[m] # "none" /\ c.msg = m /\ row.msg = m
  BY <1>1, CopyFacts
<1>3. /\ AboutCopies(m, k, k) /\ copies'[k] = c
      /\ Cardinality(ToStore(m)') + Stores(copies[k], m) = Cardinality(ToStore(m)) + Stores(c, m)
      /\ Cardinality(ToMail(m)') + Sends(copies[k], m) = Cardinality(ToMail(m)) + Sends(c, m)
  BY <1>1, <1>2, OneCopyCounted
<1>4. /\ Stores(copies[k], m) = 1 /\ Stores(c, m) \in {0, 1} /\ Stores(c, m) <= n
      /\ Sends(copies[k], m) = 0 /\ Sends(c, m) \in {0, 1}
  BY <1>1, <1>2 DEF Stores, Sends, Storing
<1>5. /\ TableOK' /\ Cardinality(RowsOf(m)') = Cardinality(RowsOf(m)) + 1
      /\ \A i \in Notices \ {m} : RowsOf(i)' = RowsOf(i)
  BY <1>2, RowAdded
<1>6. /\ noticeKind \in [Notices -> Kinds \union {"none"}] /\ mails \in [Notices -> Nat]
      /\ again \in [Notices -> Nat] /\ again[m] \in Nat
  BY DEF NoticesInv, NotificationsTypeOK
<1>7. again' \in [Notices -> Nat] /\ again'[m] = again[m] + n /\ \A i \in Notices \ {m} : again'[i] = again[i]
  BY <1>1, <1>6 DEF Repeat
<1>8. RowsOf(m)' # {}
  BY <1>2 DEF RowsOf
<1>9. AboutMessage(m)
  BY <1>5, <1>6, <1>7, <1>8 DEF AboutMessage
<1>10. CopyOK(k)'
  BY <1>2, <1>3 DEF CopyOK
<1>11. NoticeOK(m)'
  <2>1. PICK r, s, t, u, v : /\ r = Cardinality(RowsOf(m)) /\ s = Cardinality(ToStore(m)) /\ t = Cardinality(ToMail(m))
                             /\ u = Cardinality(ToStore(m)') /\ v = Cardinality(ToMail(m)')
    OBVIOUS
  <2>2. PICK a, d : a = Stores(c, m) /\ d = Sends(c, m)
    OBVIOUS
  <2>3. /\ r \in Nat /\ s \in Nat /\ t \in Nat /\ u \in Nat /\ v \in Nat /\ mails[m] \in Nat /\ again[m] \in Nat
        /\ r + s <= again[m] + 1 /\ mails[m] + t <= r
    <3>1. /\ again[m] \in Nat /\ mails[m] \in Nat /\ r \in Nat /\ s \in Nat /\ t \in Nat /\ NoticeOK(m)
      BY <2>1, MessageFacts
    <3>2. u \in Nat /\ v \in Nat
      BY <2>1, CopiesFinite
    <3>3. QED
      BY <1>2, <2>1, <3>1, <3>2 DEF NoticeOK
  <2>4. a \in {0, 1} /\ a <= n /\ d \in {0, 1} /\ u + 1 = s + a /\ v = t + d
    <3>1. u + 1 = s + a /\ v + 0 = t + d
      BY <1>3, <1>4, <2>1, <2>2
    <3>2. QED
      BY <1>4, <2>2, <2>3, <3>1
  <2>5. r + 1 + u <= again'[m] + 1 /\ mails'[m] + v <= r + 1
    BY <1>7, <2>3, <2>4
  <2>6. noticeKind'[m] # "none" /\ Cardinality(RowsOf(m)') = r + 1
    BY <1>2, <1>5, <2>1
  <2>7. QED
    BY <1>8, <2>1, <2>5, <2>6 DEF NoticeOK
<1>12. QED
  BY <1>3, <1>9, <1>10, <1>11, HandlingKept

LEMMA CreateNotificationKept ==
  ASSUME NoticesInv, NEW k \in NoticeCopies, CreateNotification(k)
  PROVE  NoticesInv'
<1> DEFINE row == [id |-> Cardinality(stored) + 1, msg |-> copies[k].msg,
                   status |-> StatusAtCreation(copies[k].msg), read |-> FALSE]
           n == IF copies[k].held THEN 1 ELSE 0
<1>1. /\ copies[k].at = "create" /\ copies[k] \in CopyStates /\ copies[k].msg \in Notices
      /\ UNCHANGED <<noticeKind, mails, noticeHttp, noticeDone>>
  BY CopyFacts DEF CreateNotification
<1>2. /\ row \in NoticeRows /\ row.id = Cardinality(stored) + 1 /\ row.msg = copies[k].msg
  BY <1>1, RowsFinite DEF NoticeRows, StatusAtCreation
<1>3. PICK c : /\ c \in {[copies[k] EXCEPT !.at = "send"], [copies[k] EXCEPT !.at = "failed"]} /\ SetCopy(k, c)
               /\ \/ /\ c = [copies[k] EXCEPT !.at = "send"] /\ stored' = stored \union {row}
                     /\ UNCHANGED <<again, noticeFaults>>
                  \/ /\ c = [copies[k] EXCEPT !.at = "failed"] /\ UNCHANGED <<stored, again, noticeFaults>>
                  \/ /\ c = [copies[k] EXCEPT !.at = "failed"] /\ stored' = stored \union {row}
                     /\ NoticeFault /\ Repeat(copies[k].msg, n)
  BY DEF CreateNotification, NoticeGo
<1>4. /\ c \in CopyStates /\ c.msg = copies[k].msg /\ c.at \in {"send", "failed"} /\ c.held = copies[k].held
      /\ (c = [copies[k] EXCEPT !.at = "send"] => c.at = "send")
      /\ (c = [copies[k] EXCEPT !.at = "failed"] => c.at = "failed")
  BY <1>1, <1>3 DEF CopyStates, Handling
<1>5. UNCHANGED again => Repeat(copies[k].msg, 0)
  BY <1>1, NoRepetition
<1>6. Storing(copies[k]) /\ (c.at = "send" => ~Storing(c)) /\ (Storing(c) => n = 1) /\ n \in {0, 1}
  BY <1>1, <1>4 DEF Storing
<1> HIDE DEF row, n
<1>7. CASE c.at = "failed" /\ UNCHANGED <<stored, again, noticeFaults>>
  <2>1. NoOneKnows
    BY <1>1, <1>7 DEF NoOneKnows
  <2>2. QED
    BY <1>1, <1>3, <1>4, <1>5, <1>6, <1>7, <2>1, CopyMovedKept
<1>8. CASE c.at = "send" /\ stored' = stored \union {row} /\ UNCHANGED <<again, noticeFaults>>
  BY <1>1, <1>2, <1>3, <1>4, <1>5, <1>6, <1>8, RowStoredKept
<1>9. CASE c.at = "failed" /\ stored' = stored \union {row} /\ NoticeFault /\ Repeat(copies[k].msg, n)
  BY <1>1, <1>2, <1>3, <1>4, <1>6, <1>9, RowStoredKept
<1>10. QED
  BY <1>3, <1>4, <1>7, <1>8, <1>9

LEMMA SendNotificationKept ==
  ASSUME NoticesInv, NEW k \in NoticeCopies, SendNotification(k)
  PROVE  NoticesInv'
<1>1. PICK m \in Notices : m = copies[k].msg
  BY CopyFacts DEF SendNotification
<1>2. PICK c : c = [copies[k] EXCEPT !.at = "ack"]
  OBVIOUS
<1>3. /\ copies[k].at = "send" /\ SetCopy(k, c)
      /\ UNCHANGED <<noticeKind, stored, noticeHttp, noticeDone, again, noticeFaults>>
      /\ UNCHANGED mails \/ mails' = [mails EXCEPT ![m] = @ + 1]
  BY <1>1, <1>2 DEF SendNotification, SendEmailNotif, SendPushNotification, AfterSending, NoticeGo
<1>4. copies[k] \in CopyStates /\ m # NoNotice /\ noticeKind[m] # "none"
  BY <1>1, <1>3, CopyFacts
<1>5. c \in CopyStates /\ c.msg = m /\ c.at = "ack"
  BY <1>1, <1>2, <1>4 DEF CopyStates, Handling
<1>6. /\ AboutCopies(m, k, k) /\ copies'[k] = c
      /\ Cardinality(ToStore(m)') + Stores(copies[k], m) = Cardinality(ToStore(m)) + Stores(c, m)
      /\ Cardinality(ToMail(m)') + Sends(copies[k], m) = Cardinality(ToMail(m)) + Sends(c, m)
  BY <1>1, <1>3, <1>5, OneCopyCounted
<1>7. Stores(copies[k], m) = 0 /\ Stores(c, m) = 0 /\ Sends(copies[k], m) = 1 /\ Sends(c, m) = 0
  BY <1>1, <1>3, <1>5 DEF Stores, Sends, Storing
<1>8. TableOK' /\ \A n \in Notices : RowsOf(n)' = RowsOf(n)
  BY <1>3, TableStays
<1>9. PICK r, s, t, u, v : /\ r = Cardinality(RowsOf(m)) /\ s = Cardinality(ToStore(m)) /\ t = Cardinality(ToMail(m))
                           /\ u = Cardinality(ToStore(m)') /\ v = Cardinality(ToMail(m)')
  OBVIOUS
<1>10. /\ r \in Nat /\ s \in Nat /\ t \in Nat /\ u \in Nat /\ v \in Nat /\ mails[m] \in Nat /\ again[m] \in Nat
       /\ r + s <= again[m] + 1 /\ mails[m] + t <= r /\ (r # 0 <=> RowsOf(m) # {})
  <2>1. /\ again[m] \in Nat /\ mails[m] \in Nat /\ r \in Nat /\ s \in Nat /\ t \in Nat /\ NoticeOK(m)
        /\ (r # 0 <=> RowsOf(m) # {})
    BY <1>9, MessageFacts
  <2>2. u \in Nat /\ v \in Nat
    BY <1>9, CopiesFinite
  <2>3. QED
    BY <1>4, <1>9, <2>1, <2>2 DEF NoticeOK
<1>11. u = s /\ v + 1 = t
  <2>1. u + 0 = s + 0 /\ v + 1 = t + 0
    BY <1>6, <1>7, <1>9
  <2>2. QED
    BY <1>10, <2>1
<1>12. RowsOf(m) # {}
  BY <1>10, <1>11
<1>13. /\ mails \in [Notices -> Nat] /\ again \in [Notices -> Nat]
       /\ noticeKind \in [Notices -> Kinds \union {"none"}]
  BY DEF NoticesInv, NotificationsTypeOK
<1>14. /\ mails' \in [Notices -> Nat] /\ mails'[m] \in {mails[m], mails[m] + 1}
       /\ \A n \in Notices \ {m} : mails'[n] = mails[n]
  BY <1>3, <1>13
<1>15. AboutMessage(m)
  BY <1>3, <1>8, <1>13, <1>14 DEF AboutMessage
<1>16. CopyOK(k)'
  BY <1>3, <1>4, <1>5, <1>6, <1>12 DEF CopyOK, RowsOf
<1>17. NoticeOK(m)'
  <2>1. r + u <= again'[m] + 1 /\ mails'[m] + v <= r /\ noticeKind'[m] # "none"
    BY <1>3, <1>4, <1>10, <1>11, <1>14
  <2>2. Cardinality(RowsOf(m)') = r /\ RowsOf(m)' # {}
    BY <1>8, <1>9, <1>12
  <2>3. QED
    BY <1>9, <2>1, <2>2 DEF NoticeOK
<1>18. QED
  BY <1>6, <1>15, <1>16, <1>17, HandlingKept

\* Requests of users, which at most mark a row.
LEMMA NoticeRequestsKept ==
  ASSUME NoticesInv, \/ \E q \in NoticeRequests : MarkAsRead(q) \/ NoticeByID(q) \/ AllNotices(q)
                     \/ UNCHANGED noticeVars
  PROVE  NoticesInv'
<1>1. UNCHANGED <<noticeKind, copies, mails, noticeDone, again, noticeFaults>>
  BY DEF MarkAsRead, NoticeByID, AllNotices, noticeVars
<1>2. UNCHANGED stored \/ \E n \in stored : SetReadAt(n)
  BY DEF MarkAsRead, NoticeByID, AllNotices, SelectNotice, noticeVars
<1>3. TableOK' /\ \A m \in Notices : Cardinality(RowsOf(m)') = Cardinality(RowsOf(m))
  BY <1>2, TableStays, RowMarked
<1>4. noticeHttp' \in [NoticeRequests -> {"none", "ok", "notfound", "error"}]
  <2>1. noticeHttp \in [NoticeRequests -> {"none", "ok", "notfound", "error"}]
    BY DEF NoticesInv, NotificationsTypeOK
  <2>2. UNCHANGED noticeHttp \/ \E q \in NoticeRequests, code \in {"ok", "notfound", "error"} : NoticeAnswer(q, code)
    BY DEF MarkAsRead, NoticeByID, AllNotices, noticeVars
  <2>3. QED
    BY <2>1, <2>2 DEF NoticeAnswer
<1>5. NotificationsTypeOK'
  BY <1>1, <1>3, <1>4 DEF NotificationsTypeOK, TableOK, NoticesInv, NoticeRows
<1>6. \A m \in Notices : RowsOf(m) # {} => RowsOf(m)' # {}
  BY <1>3, RowsFinite, FS_EmptySet
<1>7. ASSUME NEW m \in Notices
      PROVE  NoticeOK(m)'
  <2>1. ToStore(m)' = ToStore(m) /\ ToMail(m)' = ToMail(m) /\ NoticeOK(m)
    BY <1>1 DEF ToStore, ToMail, NoticesInv
  <2>2. QED
    BY <1>1, <1>3, <1>6, <2>1 DEF NoticeOK
<1>8. ASSUME NEW k \in NoticeCopies
      PROVE  CopyOK(k)'
  <2>1. CopyOK(k)
    BY DEF NoticesInv
  <2>2. PICK m : m = copies[k].msg
    OBVIOUS
  <2>3. copies'[k] = copies[k] /\ copies'[k].msg = m /\ noticeKind' = noticeKind
    BY <1>1, <2>2
  <2>4. copies[k].at = "ack" => m \in Notices /\ RowsOf(m) # {}
    BY <2>1, <2>2 DEF CopyOK
  <2>5. copies[k].at = "ack" => RowsOf(m)' # {}
    BY <1>6, <2>4
  <2>6. QED
    BY <2>1, <2>2, <2>3, <2>5 DEF CopyOK, RowsOf
<1>9. QED
  BY <1>3, <1>5, <1>7, <1>8 DEF NoticesInv, TableOK

LEMMA NoticesStart ==
  ASSUME NoticeInit
  PROVE  NoticesInv
<1>1. stored = {} /\ Cardinality(stored) = 0 /\ IsFiniteSet(stored) /\ \A m \in Notices : RowsOf(m) = {}
  BY FS_EmptySet DEF NoticeInit, RowsOf
<1>2. \A k \in NoticeCopies : copies[k] = Free /\ copies[k].at = "free" /\ ~Storing(copies[k])
  BY FreeIsAState DEF NoticeInit
<1>3. \A m \in Notices : ToStore(m) = {} /\ ToMail(m) = {}
  BY <1>2 DEF ToStore, ToMail
<1>4. NotificationsTypeOK
  <2>1. /\ noticeKind \in [Notices -> Kinds \union {"none"}] /\ copies \in [NoticeCopies -> CopyStates]
        /\ mails \in [Notices -> Nat] /\ again \in [Notices -> Nat] /\ noticeFaults \in 0 .. MaxNoticeFaults
    BY FreeIsAState, NotificationsAssumption DEF NoticeInit
  <2>2. noticeHttp \in [NoticeRequests -> {"none", "ok", "notfound", "error"}] /\ noticeDone = {}
    BY DEF NoticeInit
  <2>3. QED
    BY <1>1, <2>1, <2>2 DEF NotificationsTypeOK
<1>5. \A k \in NoticeCopies : CopyOK(k)
  BY <1>2 DEF CopyOK
<1>6. ASSUME NEW m \in Notices
      PROVE  NoticeOK(m)
  <2>1. noticeKind[m] = "none" /\ mails[m] = 0 /\ again[m] = 0 /\ noticeDone = {}
    BY DEF NoticeInit
  <2>2. Cardinality(RowsOf(m)) = 0 /\ Cardinality(ToStore(m)) = 0 /\ Cardinality(ToMail(m)) = 0
    BY <1>1, <1>3, FS_EmptySet
  <2>3. QED
    BY <2>1, <2>2 DEF NoticeOK
<1>7. QED
  BY <1>1, <1>4, <1>5, <1>6 DEF NoticesInv

LEMMA NoticesInvariance == NoticeSpec => []NoticesInv
<1>1. ASSUME NoticesInv, [NoticeNext]_noticeVars
      PROVE  NoticesInv'
  BY <1>1, NoticeArrivesKept, HandleNoticeKept, CreateNotificationKept, SendNotificationKept, CopyEndsKept,
     RetryNoticeKept, LoseChannelKept, LoseProcessKept, NoticeRequestsKept DEF NoticeNext
<1>2. NoticesInv /\ [NoticeNext]_noticeVars => NoticesInv'
  BY <1>1
<1>3. QED
  BY NoticesStart, <1>2, PTL DEF NoticeSpec

(* A message is stored once, and once more for each fault that queued it    *)
(* again although it was stored, would be by a handling that goes on, or    *)
(* was queued as a retry; no e-mail goes out without its row, and a message *)
(* whose handling succeeded is stored (handler.go:42): for any number of    *)
(* messages, copies, retries, lost channels and crashes.                    *)
THEOREM NoticesAreStored == Spec => []StoredOncePerHandling
<1>1. ASSUME NoticesInv
      PROVE  StoredOncePerHandling
  <2>1. ASSUME NEW m \in Notices
        PROVE  /\ Cardinality(RowsOf(m)) <= 1 + again[m]
               /\ mails[m] <= Cardinality(RowsOf(m))
               /\ m \in noticeDone => RowsOf(m) # {}
    <3>1. PICK r, s, t : r = Cardinality(RowsOf(m)) /\ s = Cardinality(ToStore(m)) /\ t = Cardinality(ToMail(m))
      OBVIOUS
    <3>2. /\ r \in Nat /\ s \in Nat /\ t \in Nat /\ again[m] \in Nat /\ mails[m] \in Nat
          /\ r + s <= again[m] + (IF noticeKind[m] = "none" THEN 0 ELSE 1) /\ mails[m] + t <= r
          /\ (m \in noticeDone => RowsOf(m) # {})
      BY <1>1, <3>1, MessageFacts DEF NoticeOK
    <3>3. r <= 1 + again[m] /\ mails[m] <= r
      BY <3>2
    <3>4. QED
      BY <3>1, <3>2, <3>3
  <2>2. QED
    BY <2>1 DEF StoredOncePerHandling
<1>2. NoticesInv => StoredOncePerHandling
  BY <1>1
<1>3. QED
  BY <1>2, PartsRunAlone, NoticesInvariance, PTL

-----------------------------------------------------------------------------
(* The cart. While its requests do not overlap, what a writer is going to   *)
(* write is what the finished requests ask for, and its own; and in any     *)
(* case neither the cart nor what a request is going to write holds more of *)
(* a product than was added of it, less what is waiting to be read.         *)

Carts == UNION {[d -> Int] : d \in SUBSET CartProducts}
CartRecords ==
  [pc : {"new", "get", "del", "set", "products", "done"}, op : Writers \union {"none", "show"},
   prod : CartProducts \union {NoProductId}, qty : Int, held : Carts,
   code : {"none", "ok", "refused", "error", "lost"}]

CartRequestOK(r) ==
  LET h == cartHttp[r] IN
  /\ h.pc = "new" => h.op = "none"
  /\ h.pc = "get" => h.op \in {"add", "remove", "show"}
  /\ h.pc = "del" => h.op \in {"remove", "clear"}
  /\ h.pc = "set" => h.op \in {"add", "remove"}
  /\ h.pc = "products" => h.op = "show"
  /\ h.op = "add" => h.prod \in CartProducts /\ h.qty \in Quantities

\* What a writer is going to write.
HeldOK(r) ==
  LET h == cartHttp[r] IN
  /\ h.op = "add" /\ h.pc = "set" => h.held = Merged(expected, h.prod, h.qty)
  /\ h.op = "remove" /\ h.pc \in {"del", "set"} => h.held = Without(expected, h.prod)

AloneOK ==
  ~ cartRaced =>
    /\ \A r, s \in CartRequests : Writing(r) /\ Writing(s) => r = s
    /\ \A r \in CartRequests : HeldOK(r)
    /\ Emptied \/ cart = expected

\* The units of p that were added and not merged into a cart yet, one by one: a sum as a count.
Waiting(p) == {r \in CartRequests : cartHttp[r].op = "add" /\ cartHttp[r].pc = "get" /\ cartHttp[r].prod = p}
Units(p)   == UNION {{r} \X (1 .. cartHttp[r].qty) : r \in Waiting(p)}
Count(c, p) == IF p \in DOMAIN c THEN c[p] ELSE 0

NoMoreThanAdded(p) ==
  LET u == Cardinality(Units(p)) IN
  /\ IsFiniteSet(Units(p)) /\ u <= added[p] /\ Count(cart, p) + u <= added[p]
  /\ \A r \in CartRequests : Count(cartHttp[r].held, p) + u <= added[p]

CartInv ==
  /\ cartHttp \in [CartRequests -> CartRecords] /\ cart \in Carts /\ expected \in Carts
  /\ onSale \subseteq CartProducts /\ added \in [CartProducts -> Int]
  /\ cartRaced \in BOOLEAN /\ cartFaults \in 0 .. MaxCartFaults
  /\ \A r \in CartRequests : CartRequestOK(r)
  /\ AloneOK
  /\ Quantities \subseteq Nat => \A p \in CartProducts : NoMoreThanAdded(p)

\* What a step of a request does.
CartMoves(r) ==
  /\ cartHttp' \in [CartRequests -> CartRecords] /\ cartHttp[r].pc # "done"
  /\ \A q \in CartRequests \ {r} : cartHttp'[q] = cartHttp[q]
SameRequest(r) ==
  /\ cartHttp'[r].op = cartHttp[r].op /\ cartHttp'[r].prod = cartHttp[r].prod
  /\ cartHttp'[r].qty = cartHttp[r].qty
CartBegins(r) ==
  LET n == cartHttp'[r] IN
  /\ CartMoves(r) /\ cartHttp[r].pc = "new" /\ n.held = cartHttp[r].held
  /\ n.op \in Writers \union {"show"} /\ n.pc = IF n.op = "clear" THEN "del" ELSE "get"
  /\ n.op = "add" => n.prod \in CartProducts /\ n.qty \in Quantities
  /\ added' = IF n.op = "add" THEN [added EXCEPT ![n.prod] = @ + n.qty] ELSE added
  /\ cartRaced' = (cartRaced \/ (n.op \in Writers /\ \E s \in CartRequests : Writing(s)))
  /\ UNCHANGED <<cart, expected>>
CartEnds(r) ==
  /\ CartMoves(r) /\ SameRequest(r) /\ cartHttp[r].pc \in {"new", "get", "products"}
  /\ cartHttp'[r].pc = "done" /\ cartHttp'[r].held = EmptyCart
  /\ UNCHANGED <<cart, expected, added, cartRaced>>
CartReads(r) ==
  LET h == cartHttp[r]
      n == cartHttp'[r]
  IN
  /\ CartMoves(r) /\ SameRequest(r) /\ h.pc = "get" /\ UNCHANGED <<cart, expected, added, cartRaced>>
  /\ \/ h.op = "add" /\ n.pc = "set" /\ n.held = Merged(cart, h.prod, h.qty)
     \/ h.op = "remove" /\ n.pc = "del" /\ n.held = Without(cart, h.prod)
     \/ h.op = "show" /\ n.pc = "products" /\ n.held = cart
CartDels(r) ==
  LET h == cartHttp[r]
      n == cartHttp'[r]
  IN
  /\ CartMoves(r) /\ SameRequest(r) /\ h.pc = "del" /\ UNCHANGED added
  /\ \/ /\ h.op = "clear" /\ n.pc = "done" /\ n.held = EmptyCart
        /\ cart' = EmptyCart /\ expected' = EmptyCart /\ UNCHANGED cartRaced
     \/ /\ h.op = "remove" /\ n.pc = "set" /\ n.held = h.held
        /\ cart' = EmptyCart /\ UNCHANGED <<expected, cartRaced>>
     \/ /\ n.pc = "done" /\ n.held = EmptyCart
        /\ cart' \in {cart, EmptyCart} /\ UNCHANGED expected /\ cartRaced'
CartSets(r) ==
  LET h == cartHttp[r] IN
  /\ CartMoves(r) /\ SameRequest(r) /\ h.pc = "set" /\ UNCHANGED added
  /\ cartHttp'[r].pc = "done" /\ cartHttp'[r].held = EmptyCart
  /\ \/ /\ cart' = h.held /\ UNCHANGED cartRaced
        /\ expected' = IF h.op = "remove" THEN Without(expected, h.prod) ELSE Merged(expected, h.prod, h.qty)
     \/ cart' \in {cart, h.held} /\ UNCHANGED expected /\ cartRaced'
CartStep(r) == CartBegins(r) \/ CartEnds(r) \/ CartReads(r) \/ CartDels(r) \/ CartSets(r)

\* The crash, and what is no step of a request.
CartCut ==
  /\ cartHttp' \in [CartRequests -> CartRecords] /\ UNCHANGED <<cart, expected, added>>
  /\ UNCHANGED <<cartHttp, cartRaced>> \/ cartRaced' = (cartRaced \/ Emptied)
  /\ \A r \in CartRequests :
       \/ cartHttp'[r] = cartHttp[r]
       \/ /\ SameRequest(r) /\ cartHttp[r].pc \notin {"new", "done"}
          /\ cartHttp'[r].pc = "done" /\ cartHttp'[r].held = EmptyCart
  /\ \A r \in CartRequests : cartHttp' = cartHttp \/ cartHttp'[r].pc \in {"new", "done"}

\* The operators on carts.
LEMMA CartsAre ==
  /\ EmptyCart \in Carts /\ \A p : Count(EmptyCart, p) = 0
  /\ \A c \in Carts : DOMAIN c \subseteq CartProducts /\ \A p \in DOMAIN c : c[p] \in Int
  /\ \A c \in Carts, p \in CartProducts : Count(c, p) \in Int
<1>1. EmptyCart \in [{} -> Int] /\ DOMAIN EmptyCart = {}
  BY DEF EmptyCart
<1>2. \A c \in Carts : \E d \in SUBSET CartProducts : c \in [d -> Int]
  BY DEF Carts
<1>3. \A c \in Carts : DOMAIN c \subseteq CartProducts /\ \A p \in DOMAIN c : c[p] \in Int
  BY <1>2
<1>4. QED
  BY <1>1, <1>3, SMTT(30) DEF Carts, Count

LEMMA MergedIs ==
  ASSUME NEW c \in Carts, NEW p \in CartProducts, NEW q \in Int
  PROVE  /\ Merged(c, p, q) \in Carts
         /\ \A x \in CartProducts : Count(Merged(c, p, q), x) = IF x = p THEN Count(c, x) + q ELSE Count(c, x)
<1>1. PICK d \in SUBSET CartProducts : c \in [d -> Int]
  BY DEF Carts
<1>2. CASE p \in d
  <2>1. Merged(c, p, q) = [c EXCEPT ![p] = @ + q]
    BY <1>1, <1>2 DEF Merged
  <2>2. [c EXCEPT ![p] = @ + q] \in [d -> Int]
    BY <1>1, <1>2
  <2>3. QED
    BY <1>1, <1>2, <2>1, <2>2 DEF Carts, Count
<1>3. CASE p \notin d
  <2> DEFINE m == [x \in d \union {p} |-> IF x = p THEN q ELSE c[x]]
  <2>1. Merged(c, p, q) = m
    BY <1>1, <1>3 DEF Merged
  <2>2. m \in [d \union {p} -> Int] /\ d \union {p} \in SUBSET CartProducts
    BY <1>1, <1>3
  <2>3. \A x \in d : m[x] = c[x]
    BY <1>3
  <2>4. m[p] = q /\ DOMAIN m = d \union {p}
    OBVIOUS
  <2> HIDE DEF m
  <2>5. QED
    BY <1>1, <1>3, <2>1, <2>2, <2>3, <2>4 DEF Carts, Count
<1>4. QED
  BY <1>2, <1>3

LEMMA WithoutIs ==
  ASSUME NEW c \in Carts, NEW p
  PROVE  /\ Without(c, p) \in Carts
         /\ \A x \in CartProducts : Count(Without(c, p), x) = IF x = p THEN 0 ELSE Count(c, x)
<1>1. PICK d \in SUBSET CartProducts : c \in [d -> Int]
  BY DEF Carts
<1>2. Without(c, p) = [x \in d \ {p} |-> c[x]]
  BY <1>1 DEF Without, Restrict
<1>3. [x \in d \ {p} |-> c[x]] \in [d \ {p} -> Int] /\ d \ {p} \in SUBSET CartProducts
  BY <1>1
<1>4. QED
  BY <1>1, <1>2, <1>3 DEF Carts, Count

LEMMA NewCartRecord ==
  ASSUME CartInv, NEW r \in CartRequests, cartHttp[r].pc # "done", NEW h \in CartRecords,
         cartHttp' = [cartHttp EXCEPT ![r] = h]
  PROVE  CartMoves(r) /\ cartHttp'[r] = h
  BY DEF CartInv, CartMoves

\* A change of the fields that change once a request has begun.
CartBecomes(r, pc, held, code) ==
  cartHttp' = [cartHttp EXCEPT ![r] = [@ EXCEPT !.pc = pc, !.held = held, !.code = code]]

LEMMA NewCartState ==
  ASSUME CartInv, NEW r \in CartRequests, cartHttp[r].pc # "done",
         NEW pc \in {"new", "get", "del", "set", "products", "done"}, NEW held \in Carts,
         NEW code \in {"none", "ok", "refused", "error", "lost"}, CartBecomes(r, pc, held, code)
  PROVE  CartMoves(r) /\ SameRequest(r) /\ cartHttp'[r].pc = pc /\ cartHttp'[r].held = held
<1> DEFINE h == [cartHttp[r] EXCEPT !.pc = pc, !.held = held, !.code = code]
<1>1. /\ h \in CartRecords /\ h.pc = pc /\ h.held = held
      /\ h.op = cartHttp[r].op /\ h.prod = cartHttp[r].prod /\ h.qty = cartHttp[r].qty
  BY DEF CartInv, CartRecords
<1>2. cartHttp' = [cartHttp EXCEPT ![r] = h]
  BY DEF CartBecomes
<1> HIDE DEF h
<1>3. CartMoves(r) /\ cartHttp'[r] = h
  BY <1>1, <1>2, NewCartRecord
<1>4. QED
  BY <1>1, <1>3 DEF SameRequest

LEMMA CartAnswers ==
  ASSUME CartInv, NEW r \in CartRequests, cartHttp[r].pc # "done",
         NEW code \in {"none", "ok", "refused", "error", "lost"}, CartAnswer(r, code)
  PROVE  CartMoves(r) /\ SameRequest(r) /\ cartHttp'[r].pc = "done" /\ cartHttp'[r].held = EmptyCart
<1>1. PICK pc \in {"new", "get", "del", "set", "products", "done"}, held \in Carts :
        pc = "done" /\ held = EmptyCart
  BY CartsAre
<1>2. CartBecomes(r, pc, held, code)
  BY <1>1 DEF CartBecomes, CartAnswer, CartInv, CartRecords
<1>3. QED
  BY <1>1, <1>2, NewCartState

CartHolds(r, pc, held) == cartHttp' = [cartHttp EXCEPT ![r].held = held, ![r].pc = pc]

LEMMA CartGoes ==
  ASSUME CartInv, NEW r \in CartRequests, cartHttp[r].pc # "done",
         NEW pc \in {"del", "set", "products"}, NEW held \in Carts,
         CartHolds(r, pc, held)
  PROVE  CartMoves(r) /\ SameRequest(r) /\ cartHttp'[r].pc = pc /\ cartHttp'[r].held = held
<1>1. PICK s \in {"new", "get", "del", "set", "products", "done"}, code \in {"none", "ok", "refused", "error", "lost"} :
        s = pc /\ code = cartHttp[r].code
  BY DEF CartInv, CartRecords
<1>2. CartBecomes(r, s, held, code)
  BY <1>1 DEF CartHolds, CartBecomes, CartInv, CartRecords
<1>3. CartMoves(r) /\ SameRequest(r) /\ cartHttp'[r].pc = s /\ cartHttp'[r].held = held
  BY <1>2, NewCartState
<1>4. QED
  BY <1>1, <1>3

LEMMA PostCartBegins ==
  ASSUME CartInv, NEW r \in CartRequests, NEW op \in {"add", "remove", "clear", "show"},
         NEW p \in CartProducts \union {NoProductId}, NEW q \in Int, PostCart(r, op, p, q),
         op = "add" => p \in CartProducts /\ q \in Quantities,
         added' = IF op = "add" THEN [added EXCEPT ![p] = @ + q] ELSE added
  PROVE  CartBegins(r)
<1> DEFINE h == [cartHttp[r] EXCEPT !.op = op, !.prod = p, !.qty = q,
                                    !.pc = IF op = "clear" THEN "del" ELSE "get"]
<1>1. cartHttp[r] \in CartRecords /\ cartHttp[r].pc = "new"
  BY DEF CartInv, PostCart, CartAt
<1>2. /\ h \in CartRecords /\ h.op = op /\ h.prod = p /\ h.qty = q /\ h.held = cartHttp[r].held
      /\ h.pc = IF op = "clear" THEN "del" ELSE "get"
  BY <1>1 DEF CartRecords, Writers
<1>3. cartHttp' = [cartHttp EXCEPT ![r] = h]
  BY DEF PostCart, CartInv
<1> HIDE DEF h
<1>4. CartMoves(r) /\ cartHttp'[r] = h
  BY <1>1, <1>2, <1>3, NewCartRecord
<1>5. /\ cartRaced' = (cartRaced \/ (op \in Writers /\ \E s \in CartRequests : Writing(s)))
      /\ UNCHANGED <<cart, expected>>
  BY DEF PostCart
<1>6. QED
  BY <1>1, <1>2, <1>4, <1>5 DEF CartBegins, Writers

LEMMA CartActionsStep ==
  ASSUME CartInv, NEW r \in CartRequests,
         \/ AddToCart(r) \/ RemoveFromCart(r) \/ RemoveAllCart(r) \/ ShowCart(r) \/ RefuseCart(r)
         \/ GetCart(r) \/ DelCart(r) \/ SetCart(r) \/ GetCartProducts(r)
  PROVE  CartStep(r)
<1> DEFINE h == cartHttp[r]
<1>1. CASE AddToCart(r)
  <2>1. PICK p \in CartProducts, q \in Quantities : PostCart(r, "add", p, q) /\ added' = [added EXCEPT ![p] = @ + q]
    BY <1>1 DEF AddToCart
  <2>2. q \in Int
    BY CartAssumption
  <2>3. CartBegins(r)
    BY <2>1, <2>2, PostCartBegins
  <2>4. QED
    BY <2>3 DEF CartStep
<1>2. CASE RemoveFromCart(r) \/ RemoveAllCart(r) \/ ShowCart(r)
  <2>1. CartBegins(r)
    BY <1>2, PostCartBegins DEF RemoveFromCart, RemoveAllCart, ShowCart
  <2>2. QED
    BY <2>1 DEF CartStep
<1>3. CASE RefuseCart(r) \/ GetCartProducts(r)
  <2>1. CartEnds(r)
    BY <1>3, CartAnswers DEF RefuseCart, GetCartProducts, CartAt, CartEnds
  <2>2. QED
    BY <2>1 DEF CartStep
<1>4. CASE GetCart(r)
  <2>1. h.pc = "get" /\ CartRequestOK(r) /\ h \in CartRecords /\ cart \in Carts
        /\ UNCHANGED <<cart, expected, added, cartRaced>>
    BY <1>4 DEF GetCart, CartAt, CartInv
  <2>2. CASE CartAnswer(r, "error")
    <3>1. CartEnds(r)
      BY <2>1, <2>2, CartAnswers DEF CartEnds
    <3>2. QED
      BY <3>1 DEF CartStep
  <2>3. ASSUME h.op = "add", cartHttp' = [cartHttp EXCEPT ![r].held = Merged(cart, h.prod, h.qty), ![r].pc = "set"]
        PROVE  CartStep(r)
    <3> DEFINE m == Merged(cart, h.prod, h.qty)
    <3>1. m \in Carts
      BY <2>1, <2>3, MergedIs, CartAssumption DEF CartRequestOK
    <3>2. CartHolds(r, "set", m)
      BY <2>3 DEF CartHolds
    <3> HIDE DEF m
    <3>3. CartMoves(r) /\ SameRequest(r) /\ cartHttp'[r].pc = "set" /\ cartHttp'[r].held = m
      BY <2>1, <3>1, <3>2, CartGoes
    <3>4. CartReads(r)
      BY <2>1, <2>3, <3>3 DEF CartReads, m
    <3>5. QED
      BY <3>4 DEF CartStep
  <2>4. ASSUME h.op = "remove", cartHttp' = [cartHttp EXCEPT ![r].held = Without(cart, h.prod), ![r].pc = "del"]
        PROVE  CartStep(r)
    <3> DEFINE m == Without(cart, h.prod)
    <3>1. m \in Carts
      BY <2>1, WithoutIs
    <3>2. CartHolds(r, "del", m)
      BY <2>4 DEF CartHolds
    <3> HIDE DEF m
    <3>3. CartMoves(r) /\ SameRequest(r) /\ cartHttp'[r].pc = "del" /\ cartHttp'[r].held = m
      BY <2>1, <3>1, <3>2, CartGoes
    <3>4. CartReads(r)
      BY <2>1, <2>4, <3>3 DEF CartReads, m
    <3>5. QED
      BY <3>4 DEF CartStep
  <2>5. ASSUME h.op = "show", cartHttp' = [cartHttp EXCEPT ![r].held = cart, ![r].pc = "products"]
        PROVE  CartStep(r)
    <3>1. CartMoves(r) /\ SameRequest(r) /\ cartHttp'[r].pc = "products" /\ cartHttp'[r].held = cart
      BY <2>1, <2>5, CartGoes DEF CartHolds
    <3>2. CartReads(r)
      BY <2>1, <2>5, <3>1 DEF CartReads
    <3>3. QED
      BY <3>2 DEF CartStep
  <2>6. QED
    BY <1>4, <2>2, <2>3, <2>4, <2>5 DEF GetCart
<1>5. CASE DelCart(r)
  <2>1. h.pc = "del" /\ h \in CartRecords /\ UNCHANGED added /\ TRUE \in BOOLEAN
    BY <1>5 DEF DelCart, CartAt, CartInv
  <2>2. CASE h.op = "remove" /\ cartHttp' = [cartHttp EXCEPT ![r].pc = "set"]
             /\ cart' = EmptyCart /\ UNCHANGED <<expected, cartRaced>>
    <3>1. PICK held \in Carts, code \in {"none", "ok", "refused", "error", "lost"} : held = h.held /\ code = h.code
      BY <2>1 DEF CartRecords
    <3>2. CartBecomes(r, "set", held, code)
      BY <2>1, <2>2, <3>1 DEF CartBecomes, CartRecords
    <3>3. CartMoves(r) /\ SameRequest(r) /\ cartHttp'[r].pc = "set" /\ cartHttp'[r].held = h.held
      BY <2>1, <3>1, <3>2, NewCartState
    <3>4. CartDels(r)
      BY <2>1, <2>2, <3>3 DEF CartDels
    <3>5. QED
      BY <3>4 DEF CartStep
  <2>3. ASSUME NEW code \in {"ok", "error"}, CartAnswer(r, code)
        PROVE  CartMoves(r) /\ SameRequest(r) /\ cartHttp'[r].pc = "done" /\ cartHttp'[r].held = EmptyCart
    BY <2>1, <2>3, CartAnswers
  <2>4. CASE h.op = "clear" /\ CartAnswer(r, "ok") /\ cart' = EmptyCart /\ expected' = EmptyCart /\ UNCHANGED cartRaced
    <3>1. CartDels(r)
      BY <2>1, <2>3, <2>4 DEF CartDels
    <3>2. QED
      BY <3>1 DEF CartStep
  <2>5. CASE cart' \in {cart, EmptyCart} /\ CartAnswer(r, "error") /\ cartRaced' = TRUE /\ UNCHANGED expected
    <3>1. CartDels(r)
      BY <2>1, <2>3, <2>5 DEF CartDels
    <3>2. QED
      BY <3>1 DEF CartStep
  <2>6. QED
    BY <1>5, <2>2, <2>4, <2>5 DEF DelCart
<1>6. CASE SetCart(r)
  <2>1. h.pc = "set" /\ UNCHANGED added /\ CartRequestOK(r)
    BY <1>6 DEF SetCart, CartAt, CartInv
  <2>2. CartMoves(r) /\ SameRequest(r) /\ cartHttp'[r].pc = "done" /\ cartHttp'[r].held = EmptyCart
    BY <1>6, <2>1, CartAnswers DEF SetCart
  <2>3. CASE cart' \in {cart, h.held} /\ cartRaced' = TRUE /\ UNCHANGED expected
    <3>1. CartSets(r)
      BY <2>1, <2>2, <2>3 DEF CartSets
    <3>2. QED
      BY <3>1 DEF CartStep
  <2>4. CASE /\ cart' = h.held /\ UNCHANGED cartRaced
             /\ expected' = IF h.op = "remove" THEN Without(expected, h.prod)
                            ELSE IF h.prod \in DOMAIN expected THEN [expected EXCEPT ![h.prod] = @ + h.qty]
                            ELSE [x \in DOMAIN expected \union {h.prod} |->
                                    IF x = h.prod THEN h.qty ELSE expected[x]]
    <3>1. expected' = IF h.op = "remove" THEN Without(expected, h.prod) ELSE Merged(expected, h.prod, h.qty)
      BY <2>4 DEF Merged
    <3>2. CartSets(r)
      BY <2>1, <2>2, <2>4, <3>1 DEF CartSets
    <3>3. QED
      BY <3>2 DEF CartStep
  <2>5. QED
    BY <1>6, <2>3, <2>4 DEF SetCart
<1>7. QED
  BY <1>1, <1>2, <1>3, <1>4, <1>5, <1>6

LEMMA CartNextSteps ==
  ASSUME CartInv, [CartNext]_cartVars
  PROVE  (\E r \in CartRequests : CartStep(r)) \/ CartCut
<1>1. ASSUME UNCHANGED <<cart, cartHttp, expected, added, cartRaced>>
      PROVE  CartCut
  BY <1>1 DEF CartInv, CartCut
<1>2. CASE CartCrash
  <2> DEFINE Cut(r) == [cartHttp[r] EXCEPT !.pc = "done", !.code = "lost", !.held = EmptyCart]
  <2>1. /\ cartHttp \in [CartRequests -> CartRecords] /\ UNCHANGED <<cart, expected, added>>
        /\ cartRaced' = (cartRaced \/ Emptied)
    BY <1>2 DEF CartCrash, CartInv
  <2>2. \A r \in CartRequests :
          /\ Cut(r) \in CartRecords /\ Cut(r).pc = "done" /\ Cut(r).held = EmptyCart
          /\ Cut(r).op = cartHttp[r].op /\ Cut(r).prod = cartHttp[r].prod /\ Cut(r).qty = cartHttp[r].qty
    BY <2>1, CartsAre DEF CartRecords
  <2>3. cartHttp' = [r \in CartRequests |-> IF cartHttp[r].pc \in {"new", "done"} THEN cartHttp[r] ELSE Cut(r)]
    BY <1>2 DEF CartCrash
  <2> HIDE DEF Cut
  <2>4. /\ cartHttp' \in [CartRequests -> CartRecords]
        /\ \A r \in CartRequests :
             cartHttp'[r] = IF cartHttp[r].pc \in {"new", "done"} THEN cartHttp[r] ELSE Cut(r)
    BY <2>1, <2>2, <2>3
  <2>5. CartCut
    BY <2>1, <2>2, <2>4 DEF CartCut, SameRequest
  <2>6. QED
    BY <2>5
<1>3. QED
  BY <1>1, <1>2, CartActionsStep DEF CartNext, ProductGone, cartVars

\* What is not in the shapes of the steps.
LEMMA CartBounds ==
  ASSUME CartInv, [CartNext]_cartVars
  PROVE  onSale' \subseteq CartProducts /\ cartRaced' \in BOOLEAN /\ cartFaults' \in 0 .. MaxCartFaults
<1>1. onSale \subseteq CartProducts /\ cartRaced \in BOOLEAN /\ cartFaults \in 0 .. MaxCartFaults
  BY DEF CartInv
<1>2. onSale' \subseteq CartProducts
  BY <1>1, ZenonT(60) DEF CartNext, cartVars, AddToCart, RemoveFromCart, RemoveAllCart, ShowCart, PostCart, RefuseCart,
              GetCart, DelCart, SetCart, GetCartProducts, ProductGone, CartCrash
<1>3. cartRaced' \in BOOLEAN
  BY <1>1, ZenonT(60) DEF CartNext, cartVars, AddToCart, RemoveFromCart, RemoveAllCart, ShowCart, PostCart, RefuseCart,
              GetCart, DelCart, SetCart, GetCartProducts, ProductGone, CartCrash
<1>4. UNCHANGED cartFaults \/ CartFault
  BY ZenonT(60) DEF CartNext, cartVars, AddToCart, RemoveFromCart, RemoveAllCart, ShowCart, PostCart, RefuseCart,
         GetCart, DelCart, SetCart, GetCartProducts, ProductGone, CartCrash
<1>5. QED
  BY <1>1, <1>2, <1>3, <1>4, CartAssumption DEF CartFault

LEMMA CartTypesKept ==
  ASSUME CartInv, (\E r \in CartRequests : CartStep(r)) \/ CartCut
  PROVE  /\ cartHttp' \in [CartRequests -> CartRecords] /\ cart' \in Carts /\ expected' \in Carts
         /\ added' \in [CartProducts -> Int]
<1>1. /\ cartHttp \in [CartRequests -> CartRecords] /\ cart \in Carts /\ expected \in Carts
      /\ added \in [CartProducts -> Int] /\ EmptyCart \in Carts
      /\ \A r \in CartRequests : CartRequestOK(r) /\ cartHttp[r].held \in Carts
  BY CartsAre DEF CartInv, CartRecords
<1>2. CASE CartCut
  BY <1>1, <1>2 DEF CartCut
<1>3. ASSUME NEW r \in CartRequests, CartStep(r)
      PROVE  /\ cartHttp' \in [CartRequests -> CartRecords] /\ cart' \in Carts /\ expected' \in Carts
             /\ added' \in [CartProducts -> Int]
  <2>1. cartHttp' \in [CartRequests -> CartRecords]
    BY <1>3 DEF CartStep, CartBegins, CartEnds, CartReads, CartDels, CartSets, CartMoves
  <2>2. cart' \in Carts
    BY <1>1, <1>3 DEF CartStep, CartBegins, CartEnds, CartReads, CartDels, CartSets
  <2>3. expected' \in Carts
    <3>1. CASE CartSets(r)
      <4>1. /\ Without(expected, cartHttp[r].prod) \in Carts
            /\ cartHttp[r].op = "add" => Merged(expected, cartHttp[r].prod, cartHttp[r].qty) \in Carts
        BY <1>1, CartAssumption, WithoutIs, MergedIs DEF CartRequestOK
      <4>2. cartHttp[r].op \in {"add", "remove"}
        BY <1>1, <3>1 DEF CartSets, CartRequestOK
      <4>3. QED
        BY <1>1, <3>1, <4>1, <4>2 DEF CartSets
    <3>2. QED
      BY <1>1, <1>3, <3>1 DEF CartStep, CartBegins, CartEnds, CartReads, CartDels
  <2>4. added' \in [CartProducts -> Int]
    <3>1. CASE CartBegins(r)
      BY <1>1, <3>1, CartAssumption DEF CartBegins
    <3>2. QED
      BY <1>1, <1>3, <3>1 DEF CartStep, CartEnds, CartReads, CartDels, CartSets
  <2>5. QED
    BY <2>1, <2>2, <2>3, <2>4
<1>4. QED
  BY <1>2, <1>3

LEMMA CartRequestsKept ==
  ASSUME CartInv, (\E r \in CartRequests : CartStep(r)) \/ CartCut
  PROVE  \A q \in CartRequests : CartRequestOK(q)'
<1>1. \A q \in CartRequests : CartRequestOK(q) /\ cartHttp[q] \in CartRecords
  BY DEF CartInv
<1>2. ASSUME CartCut, NEW q \in CartRequests
      PROVE  CartRequestOK(q)'
  BY <1>1, <1>2 DEF CartCut, CartRequestOK, SameRequest
<1>3. ASSUME NEW r \in CartRequests, CartStep(r), NEW q \in CartRequests
      PROVE  CartRequestOK(q)'
  <2>1. CASE q # r
    BY <1>1, <1>3, <2>1
    DEF CartStep, CartBegins, CartEnds, CartReads, CartDels, CartSets, CartMoves, CartRequestOK
  <2>2. CASE q = r
    <3>1. CASE CartBegins(r)
      BY <1>1, <2>2, <3>1 DEF CartBegins, CartRequestOK, Writers
    <3>2. CASE CartEnds(r) \/ CartReads(r) \/ CartDels(r) \/ CartSets(r)
      BY <1>1, <2>2, <3>2 DEF CartEnds, CartReads, CartDels, CartSets, SameRequest, CartRequestOK
    <3>3. QED
      BY <1>3, <3>1, <3>2 DEF CartStep
  <2>3. QED
    BY <2>1, <2>2
<1>4. QED
  BY <1>2, <1>3

\* While the writers take turns, what the one that is under way will write is known.
LEMMA AloneKeptByStep ==
  ASSUME CartInv, NEW r \in CartRequests, CartStep(r)
  PROVE  AloneOK'
<1>1. /\ CartRequestOK(r) /\ cartHttp[r].pc # "done" /\ AloneOK
      /\ \A q \in CartRequests \ {r} : cartHttp'[q] = cartHttp[q]
      /\ cartRaced => cartRaced'
  BY DEF CartInv, CartStep, CartBegins, CartEnds, CartReads, CartDels, CartSets, CartMoves
<1> SUFFICES ASSUME ~ cartRaced'
             PROVE  /\ \A q, s \in CartRequests : Writing(q)' /\ Writing(s)' => q = s
                    /\ \A q \in CartRequests : HeldOK(q)'
                    /\ Emptied' \/ cart' = expected'
  BY DEF AloneOK
<1>2. /\ \A q, s \in CartRequests : Writing(q) /\ Writing(s) => q = s
      /\ \A q \in CartRequests : HeldOK(q)
      /\ Emptied \/ cart = expected
  BY <1>1 DEF AloneOK
<1>3. \A q \in CartRequests \ {r} : Writing(q)' <=> Writing(q)
  BY <1>1 DEF Writing
<1>4. \A q \in CartRequests : cartHttp[q].op = "remove" /\ cartHttp[q].pc \in {"del", "set"} => Writing(q)
  BY DEF Writing, Writers
<1>5. \A q \in CartRequests : cartHttp[q].op = "add" /\ cartHttp[q].pc = "set" => Writing(q)
  BY DEF Writing, Writers
<1>6. ASSUME cartHttp[r].pc # "set", Emptied
      PROVE  Emptied'
  BY <1>1, <1>6 DEF Emptied
<1>7. ASSUME UNCHANGED expected, NEW q \in CartRequests \ {r}
      PROVE  HeldOK(q)'
  BY <1>1, <1>2, <1>7 DEF HeldOK
<1>8. CASE CartBegins(r)
  <2>1. /\ cartHttp'[r].op \in Writers => \A q \in CartRequests : ~ Writing(q)
        /\ UNCHANGED <<cart, expected>> /\ cartHttp[r].pc = "new"
        /\ cartHttp'[r].op \in Writers \union {"show"}
        /\ cartHttp'[r].pc = IF cartHttp'[r].op = "clear" THEN "del" ELSE "get"
    BY <1>8 DEF CartBegins
  <2>2. \A q, s \in CartRequests : Writing(q)' /\ Writing(s)' => q = s
    BY <1>2, <1>3, <2>1 DEF Writing
  <2>3. HeldOK(r)'
    BY <2>1 DEF HeldOK
  <2>4. QED
    BY <1>2, <1>6, <1>7, <2>1, <2>2, <2>3
<1>9. CASE CartEnds(r)
  <2>1. /\ UNCHANGED <<cart, expected>> /\ cartHttp[r].pc # "set"
        /\ cartHttp'[r].pc = "done"
    BY <1>9 DEF CartEnds
  <2>2. \A q, s \in CartRequests : Writing(q)' /\ Writing(s)' => q = s
    BY <1>2, <1>3, <2>1 DEF Writing
  <2>3. HeldOK(r)'
    BY <2>1 DEF HeldOK
  <2>4. QED
    BY <1>2, <1>6, <1>7, <2>1, <2>2, <2>3
<1>10. CASE CartReads(r)
  <2>1. /\ UNCHANGED <<cart, expected>> /\ cartHttp[r].pc = "get" /\ SameRequest(r)
        /\ cartHttp'[r].pc # "done"
    BY <1>10 DEF CartReads
  <2>2. Writing(r)' => Writing(r)
    BY <2>1 DEF Writing, SameRequest
  <2>3. \A q, s \in CartRequests : Writing(q)' /\ Writing(s)' => q = s
    BY <1>2, <1>3, <2>2
  <2>4. Writing(r) => ~ Emptied
    BY <1>2, <1>4, <2>1 DEF Emptied
  <2>5. Writing(r) => cart = expected
    BY <1>2, <2>4
  <2>6. cartHttp'[r].op \in {"add", "remove"} => Writing(r)
    BY <2>1 DEF Writing, Writers, SameRequest
  <2>7. HeldOK(r)'
    BY <1>10, <2>1, <2>5, <2>6 DEF HeldOK, CartReads, SameRequest
  <2>8. QED
    BY <1>2, <1>6, <1>7, <2>1, <2>3, <2>7
<1>11. CASE CartDels(r)
  <2>1. /\ cartHttp[r].pc = "del" /\ SameRequest(r) /\ cartHttp[r].op \in {"remove", "clear"}
    BY <1>1, <1>11 DEF CartDels, CartRequestOK
  <2>2. Writing(r)
    BY <2>1 DEF Writing, Writers
  <2>3. \A q, s \in CartRequests : Writing(q)' /\ Writing(s)' => q = s
    BY <1>2, <1>3, <2>2
  <2>4. ASSUME NEW q \in CartRequests \ {r}
        PROVE  HeldOK(q)'
    <3>1. ~ Writing(q) /\ cartHttp'[q] = cartHttp[q]
      BY <1>1, <1>2, <2>2
    <3>2. QED
      BY <1>4, <1>5, <3>1 DEF HeldOK
  <2>5. CASE cartHttp'[r].pc = "done"
    <3>1. cart' = expected'
      BY <1>11, <2>5 DEF CartDels
    <3>2. HeldOK(r)'
      BY <2>5 DEF HeldOK
    <3>3. QED
      BY <2>3, <2>4, <3>1, <3>2
  <2>6. CASE cartHttp'[r].pc # "done"
    <3>1. /\ cartHttp'[r].pc = "set" /\ cartHttp'[r].held = cartHttp[r].held
          /\ cartHttp[r].op = "remove" /\ UNCHANGED expected
      BY <1>11, <2>6 DEF CartDels
    <3>2. HeldOK(r)'
      BY <1>2, <2>1, <3>1 DEF HeldOK, SameRequest
    <3>3. Emptied'
      BY <2>1, <3>1 DEF Emptied, SameRequest
    <3>4. QED
      BY <2>3, <2>4, <3>2, <3>3
  <2>7. QED
    BY <2>5, <2>6
<1>12. CASE CartSets(r)
  <2>1. /\ cartHttp[r].pc = "set" /\ cartHttp[r].op \in {"add", "remove"}
        /\ cartHttp'[r].pc = "done" /\ cart' = cartHttp[r].held
        /\ expected' = IF cartHttp[r].op = "remove" THEN Without(expected, cartHttp[r].prod)
                       ELSE Merged(expected, cartHttp[r].prod, cartHttp[r].qty)
    BY <1>1, <1>12 DEF CartSets, CartRequestOK
  <2>2. Writing(r) /\ HeldOK(r)
    BY <1>2, <1>4, <1>5, <2>1
  <2>3. cart' = expected'
    BY <2>1, <2>2 DEF HeldOK
  <2>4. \A q, s \in CartRequests : Writing(q)' /\ Writing(s)' => q = s
    BY <1>2, <1>3, <2>2
  <2>5. ASSUME NEW q \in CartRequests \ {r}
        PROVE  HeldOK(q)'
    <3>1. ~ Writing(q) /\ cartHttp'[q] = cartHttp[q]
      BY <1>1, <1>2, <2>2
    <3>2. QED
      BY <1>4, <1>5, <3>1 DEF HeldOK
  <2>6. HeldOK(r)'
    BY <2>1 DEF HeldOK
  <2>7. QED
    BY <2>3, <2>4, <2>5, <2>6
<1>13. QED
  BY <1>8, <1>9, <1>10, <1>11, <1>12 DEF CartStep

LEMMA AloneKeptByCut ==
  ASSUME CartInv, CartCut
  PROVE  AloneOK'
<1>1. CASE UNCHANGED <<cartHttp, cartRaced>>
  BY <1>1 DEF CartInv, CartCut, AloneOK, Writing, HeldOK, Emptied
<1>2. ASSUME cartRaced' = (cartRaced \/ Emptied), ~ cartRaced'
      PROVE  /\ \A q, s \in CartRequests : Writing(q)' /\ Writing(s)' => q = s
             /\ \A q \in CartRequests : HeldOK(q)'
             /\ Emptied' \/ cart' = expected'
  <2>1. /\ \A q, s \in CartRequests : Writing(q) /\ Writing(s) => q = s
        /\ \A q \in CartRequests : HeldOK(q)
        /\ cart' = expected' /\ UNCHANGED expected
    BY <1>2 DEF CartInv, CartCut, AloneOK
  <2>2. \A q \in CartRequests : cartHttp'[q] = cartHttp[q] \/ cartHttp'[q].pc = "done"
    BY DEF CartCut
  <2>3. \A q \in CartRequests : Writing(q)' => Writing(q)
    BY <2>2 DEF Writing
  <2>4. \A q \in CartRequests : HeldOK(q)'
    BY <2>1, <2>2 DEF HeldOK
  <2>5. QED
    BY <2>1, <2>3, <2>4
<1>3. QED
  BY <1>1, <1>2 DEF CartCut, AloneOK

\* The units that wait never become more but by an addition.
LEMMA UnitsLess ==
  ASSUME CartInv, Quantities \subseteq Nat, NEW p \in CartProducts,
         \A r \in Waiting(p)' : r \in Waiting(p) /\ cartHttp'[r].qty = cartHttp[r].qty,
         added' \in [CartProducts -> Int], added'[p] = added[p], cart' \in Carts, cartHttp' \in [CartRequests -> CartRecords],
         \A c \in {cart'} \union {cartHttp'[r].held : r \in CartRequests} :
           \/ Count(c, p) = 0
           \/ Count(c, p) = Count(cart, p)
           \/ \E r \in CartRequests : Count(c, p) = Count(cartHttp[r].held, p)
  PROVE  NoMoreThanAdded(p)'
<1> DEFINE u == Cardinality(Units(p))
           v == Cardinality(Units(p)')
<1>1. /\ IsFiniteSet(Units(p)) /\ u <= added[p] /\ Count(cart, p) + u <= added[p]
      /\ \A r \in CartRequests : Count(cartHttp[r].held, p) + u <= added[p]
      /\ added'[p] \in Int /\ added'[p] = added[p]
      /\ cart \in Carts /\ \A r \in CartRequests : cartHttp[r].held \in Carts /\ cartHttp'[r].held \in Carts
  BY DEF CartInv, NoMoreThanAdded, CartRecords
<1>3. Units(p)' \subseteq Units(p)
  BY DEF Units
<1>4. IsFiniteSet(Units(p)') /\ v <= u /\ v \in Nat /\ u \in Nat
  BY <1>1, <1>3, FS_Subset, FS_CardinalityType
<1>5. \A c \in {cart'} \union {cartHttp'[r].held : r \in CartRequests} : Count(c, p) + v <= added'[p]
  <2> HIDE DEF u, v
  <2>1. ASSUME NEW c \in {cart'} \union {cartHttp'[r].held : r \in CartRequests}
        PROVE  Count(c, p) + v <= added'[p]
    <3>1. c \in Carts /\ Count(c, p) \in Int
      BY <1>1, <2>1, CartsAre
    <3>2. /\ Count(cart, p) \in Int
          /\ \A r \in CartRequests : Count(cartHttp[r].held, p) \in Int
      BY <1>1, CartsAre
    <3>3. QED
      BY <1>1, <1>4, <2>1, <3>1, <3>2
  <2>2. QED
    BY <2>1
<1>6. v <= added'[p]
  <2> HIDE DEF u, v
  <2>1. QED
    BY <1>1, <1>4
<1>7. Count(cart, p)' = Count(cart', p) /\ \A r \in CartRequests : Count(cartHttp[r].held, p)' = Count(cartHttp'[r].held, p)
  BY DEF Count
<1>8. QED
  BY <1>4, <1>5, <1>6, <1>7 DEF NoMoreThanAdded

\* The units of one addition.
LEMMA UnitsOf ==
  ASSUME NEW r, NEW q \in Nat
  PROVE  IsFiniteSet({r} \X (1 .. q)) /\ Cardinality({r} \X (1 .. q)) = q
<1>1. IsFiniteSet({r}) /\ Cardinality({r}) = 1
  BY FS_Singleton
<1>2. IsFiniteSet(1 .. q) /\ Cardinality(1 .. q) = q
  BY FS_Interval
<1> DEFINE A == {r}
           B == 1 .. q
<1>3. IsFiniteSet(A) /\ Cardinality(A) = 1 /\ IsFiniteSet(B) /\ Cardinality(B) = q
  BY <1>1, <1>2
<1> HIDE DEF A, B
<1>4. IsFiniteSet(A \X B) /\ Cardinality(A \X B) = Cardinality(A) * Cardinality(B)
  BY <1>3, FS_Product
<1>5. Cardinality(A \X B) = q
  BY <1>3, <1>4
<1>6. QED
  BY <1>4, <1>5 DEF A, B

LEMMA AddedTogether ==
  ASSUME NEW S, IsFiniteSet(S), NEW r, NEW q \in Nat, \A x \in S : x[1] # r,
         NEW T, T = S \union ({r} \X (1 .. q))
  PROVE  IsFiniteSet(T) /\ Cardinality(T) = Cardinality(S) + q /\ Cardinality(S) \in Nat
<1> DEFINE U == {r} \X (1 .. q)
<1>1. S \cap U = {}
  OBVIOUS
<1>2. IsFiniteSet(U) /\ Cardinality(U) = q
  BY UnitsOf
<1> HIDE DEF U
<1>3. IsFiniteSet(S \union U) /\ Cardinality(S \union U) = Cardinality(S) + Cardinality(U) - Cardinality(S \cap U)
  BY <1>2, FS_Union
<1>4. Cardinality({}) = 0 /\ Cardinality(S) \in Nat
  BY FS_EmptySet, FS_CardinalityType
<1>5. QED
  BY <1>1, <1>2, <1>3, <1>4 DEF U

LEMMA MoreWaits ==
  ASSUME CartInv, Quantities \subseteq Nat, NEW p \in CartProducts, NEW r \in CartRequests,
         CartBegins(r), cartHttp'[r].op = "add", cartHttp'[r].prod = p
  PROVE  NoMoreThanAdded(p)'
<1> DEFINE q == cartHttp'[r].qty
           u == Cardinality(Units(p))
           v == Cardinality(Units(p)')
<1>1. /\ IsFiniteSet(Units(p)) /\ u <= added[p] /\ Count(cart, p) + u <= added[p]
      /\ \A s \in CartRequests : Count(cartHttp[s].held, p) + u <= added[p]
      /\ added \in [CartProducts -> Int]
      /\ cart \in Carts /\ \A s \in CartRequests : cartHttp[s].held \in Carts
  BY DEF CartInv, NoMoreThanAdded, CartRecords
<1>2. /\ q \in Nat /\ added' = [added EXCEPT ![p] = @ + q] /\ UNCHANGED cart
      /\ cartHttp[r].pc = "new" /\ cartHttp'[r].pc = "get" /\ cartHttp'[r].held = cartHttp[r].held
      /\ \A s \in CartRequests \ {r} : cartHttp'[s] = cartHttp[s]
  BY DEF CartBegins, CartMoves
<1>3. added'[p] = added[p] + q /\ added[p] \in Int
  BY <1>1, <1>2
<1>4. Waiting(p)' = Waiting(p) \union {r} /\ r \notin Waiting(p)
  BY <1>2 DEF Waiting
<1>5. Units(p)' = Units(p) \union ({r} \X (1 .. q))
  <2>1. \A s \in Waiting(p) : s # r /\ cartHttp'[s].qty = cartHttp[s].qty
    BY <1>2, <1>4 DEF Waiting
  <2>2. Units(p)' = UNION {{s} \X (1 .. cartHttp'[s].qty) : s \in Waiting(p) \union {r}}
    BY <1>4 DEF Units
  <2>3. QED
    BY <2>1, <2>2 DEF Units
<1>6. \A x \in Units(p) : x[1] # r
  BY <1>4 DEF Units
<1>7. IsFiniteSet(Units(p)') /\ v = u + q /\ u \in Nat
  <2> DEFINE S == Units(p)
             T == Units(p)'
  <2>1. IsFiniteSet(S) /\ q \in Nat /\ (\A x \in S : x[1] # r) /\ T = S \union ({r} \X (1 .. q))
    BY <1>1, <1>2, <1>5, <1>6
  <2> HIDE DEF S, T, q
  <2>2. IsFiniteSet(T) /\ Cardinality(T) = Cardinality(S) + q /\ Cardinality(S) \in Nat
    BY <2>1, AddedTogether
  <2>3. QED
    BY <2>2 DEF S, T
<1> HIDE DEF q, u, v
<1>8. v <= added'[p] /\ Count(cart', p) + v <= added'[p]
  <2>1. Count(cart, p) \in Int
    BY <1>1, CartsAre
  <2>2. QED
    BY <1>1, <1>2, <1>3, <1>7, <2>1
<1>9. ASSUME NEW s \in CartRequests
      PROVE  Count(cartHttp'[s].held, p) + v <= added'[p]
  <2>1. Count(cartHttp[s].held, p) \in Int
    BY <1>1, CartsAre
  <2>2. cartHttp'[s].held = cartHttp[s].held
    BY <1>2
  <2>3. QED
    BY <1>1, <1>2, <1>3, <1>7, <2>1, <2>2
<1>10. Count(cart, p)' = Count(cart', p) /\ \A s \in CartRequests : Count(cartHttp[s].held, p)' = Count(cartHttp'[s].held, p)
  BY DEF Count
<1>11. QED
  BY <1>7, <1>8, <1>9, <1>10 DEF NoMoreThanAdded, v

LEMMA NoLongerWaits ==
  ASSUME CartInv, Quantities \subseteq Nat, NEW p \in CartProducts, NEW r \in CartRequests,
         CartReads(r), cartHttp[r].op = "add", cartHttp[r].prod = p
  PROVE  NoMoreThanAdded(p)'
<1> DEFINE q == cartHttp[r].qty
           u == Cardinality(Units(p))
           v == Cardinality(Units(p)')
<1>1. /\ IsFiniteSet(Units(p)) /\ u <= added[p] /\ Count(cart, p) + u <= added[p]
      /\ \A s \in CartRequests : Count(cartHttp[s].held, p) + u <= added[p]
      /\ added \in [CartProducts -> Int] /\ q \in Nat
      /\ cart \in Carts /\ \A s \in CartRequests : cartHttp[s].held \in Carts
  BY DEF CartInv, NoMoreThanAdded, CartRecords, CartRequestOK
<1>2. /\ UNCHANGED <<cart, added>> /\ cartHttp[r].pc = "get" /\ cartHttp'[r].pc = "set"
      /\ cartHttp'[r].held = Merged(cart, p, q)
      /\ \A s \in CartRequests \ {r} : cartHttp'[s] = cartHttp[s]
  BY DEF CartReads, CartMoves
<1>3. added'[p] = added[p] /\ added[p] \in Int
  BY <1>1, <1>2
<1>4. Waiting(p) = Waiting(p)' \union {r} /\ r \notin Waiting(p)'
  BY <1>2 DEF Waiting
<1>5. Units(p) = Units(p)' \union ({r} \X (1 .. q))
  <2>1. \A s \in Waiting(p)' : s # r /\ cartHttp'[s].qty = cartHttp[s].qty
    BY <1>2, <1>4 DEF Waiting
  <2>2. Units(p)' = UNION {{s} \X (1 .. cartHttp'[s].qty) : s \in Waiting(p)'}
    BY DEF Units
  <2>3. QED
    BY <1>4, <2>1, <2>2 DEF Units
<1>6. \A x \in Units(p)' : x[1] # r
  BY <1>4 DEF Units
<1>7. IsFiniteSet(Units(p)') /\ u = v + q /\ v \in Nat
  <2>1. IsFiniteSet(Units(p)')
    BY <1>1, <1>5, FS_Subset
  <2> DEFINE S == Units(p)'
             T == Units(p)
  <2>2. IsFiniteSet(S) /\ q \in Nat /\ (\A x \in S : x[1] # r) /\ T = S \union ({r} \X (1 .. q))
    BY <1>1, <1>5, <1>6, <2>1
  <2> HIDE DEF S, T, q
  <2>3. IsFiniteSet(T) /\ Cardinality(T) = Cardinality(S) + q /\ Cardinality(S) \in Nat
    BY <2>2, AddedTogether
  <2>4. QED
    BY <2>1, <2>3 DEF S, T
<1>8. Count(Merged(cart, p, q), p) = Count(cart, p) + q
  BY <1>1, MergedIs
<1> HIDE DEF q, u, v
<1>9. v <= added'[p] /\ Count(cart', p) + v <= added'[p]
  <2>1. Count(cart, p) \in Int
    BY <1>1, CartsAre
  <2>2. QED
    BY <1>1, <1>2, <1>3, <1>7, <2>1
<1>10. ASSUME NEW s \in CartRequests
       PROVE  Count(cartHttp'[s].held, p) + v <= added'[p]
  <2>1. Count(cartHttp[s].held, p) \in Int /\ Count(cart, p) \in Int
    BY <1>1, CartsAre
  <2>2. CASE s = r
    BY <1>1, <1>2, <1>3, <1>7, <1>8, <2>1, <2>2
  <2>3. CASE s # r
    BY <1>1, <1>2, <1>3, <1>7, <2>1, <2>3
  <2>4. QED
    BY <2>2, <2>3
<1>11. Count(cart, p)' = Count(cart', p) /\ \A s \in CartRequests : Count(cartHttp[s].held, p)' = Count(cartHttp'[s].held, p)
  BY DEF Count
<1>12. QED
  BY <1>7, <1>9, <1>10, <1>11 DEF NoMoreThanAdded, v

LEMMA NoMoreThanAddedKept ==
  ASSUME CartInv, (\E r \in CartRequests : CartStep(r)) \/ CartCut, Quantities \subseteq Nat,
         NEW p \in CartProducts
  PROVE  NoMoreThanAdded(p)'
<1> DEFINE News == {cart'} \union {cartHttp'[q].held : q \in CartRequests}
           Known(c) == \/ Count(c, p) = 0
                       \/ Count(c, p) = Count(cart, p)
                       \/ \E q \in CartRequests : Count(c, p) = Count(cartHttp[q].held, p)
           StillWaits == \A q \in Waiting(p)' : q \in Waiting(p) /\ cartHttp'[q].qty = cartHttp[q].qty
<1>1. /\ cartHttp' \in [CartRequests -> CartRecords] /\ cart' \in Carts /\ cart \in Carts
      /\ added' \in [CartProducts -> Int] /\ added \in [CartProducts -> Int]
      /\ Count(EmptyCart, p) = 0
      /\ \A q \in CartRequests : CartRequestOK(q)
  BY CartTypesKept, CartsAre DEF CartInv
<1>2. ASSUME StillWaits, added'[p] = added[p], \A c \in News : Known(c)
      PROVE  NoMoreThanAdded(p)'
  BY <1>1, <1>2, UnitsLess
<1>3. CASE CartCut
  <2>1. StillWaits /\ added'[p] = added[p]
    BY <1>3 DEF CartCut, Waiting, SameRequest
  <2>2. ASSUME NEW c \in News
        PROVE  Known(c)
    BY <1>1, <1>3 DEF CartCut
  <2>3. QED
    BY <1>2, <2>1, <2>2
<1>4. ASSUME NEW r \in CartRequests, CartStep(r)
      PROVE  NoMoreThanAdded(p)'
  <2>1. /\ CartRequestOK(r) /\ \A q \in CartRequests \ {r} : cartHttp'[q] = cartHttp[q]
    BY <1>1, <1>4 DEF CartStep, CartBegins, CartEnds, CartReads, CartDels, CartSets, CartMoves
  <2>2. ASSUME Known(cart'), Known(cartHttp'[r].held), NEW c \in News
        PROVE  Known(c)
    BY <2>1, <2>2
  <2>3. CASE CartBegins(r)
    <3>1. ASSUME ~ (cartHttp'[r].op = "add" /\ cartHttp'[r].prod = p)
          PROVE  NoMoreThanAdded(p)'
      <4>1. StillWaits
        BY <2>1, <3>1 DEF Waiting
      <4>2. added'[p] = added[p]
        BY <1>1, <2>3, <3>1 DEF CartBegins
      <4>3. Known(cart') /\ Known(cartHttp'[r].held)
        BY <2>3 DEF CartBegins
      <4>4. QED
        BY <1>2, <2>2, <4>1, <4>2, <4>3
    <3>2. QED
      BY <2>3, <3>1, MoreWaits
  <2>4. CASE CartEnds(r)
    <3>1. StillWaits /\ added'[p] = added[p]
      BY <2>1, <2>4 DEF CartEnds, Waiting
    <3>2. Known(cart') /\ Known(cartHttp'[r].held)
      BY <1>1, <2>4 DEF CartEnds
    <3>3. QED
      BY <1>2, <2>2, <3>1, <3>2
  <2>5. CASE CartReads(r)
    <3>1. ASSUME ~ (cartHttp[r].op = "add" /\ cartHttp[r].prod = p)
          PROVE  NoMoreThanAdded(p)'
      <4>1. StillWaits /\ added'[p] = added[p]
        BY <2>1, <2>5 DEF CartReads, Waiting
      <4>2. Count(Without(cart, cartHttp[r].prod), p) \in {0, Count(cart, p)}
        BY <1>1, WithoutIs
      <4>3. ASSUME cartHttp[r].op = "add"
            PROVE  Count(Merged(cart, cartHttp[r].prod, cartHttp[r].qty), p) = Count(cart, p)
        <5>1. cartHttp[r].prod \in CartProducts /\ cartHttp[r].qty \in Int /\ cartHttp[r].prod # p
          BY <2>1, <3>1, <4>3, CartAssumption DEF CartRequestOK
        <5>2. QED
          BY <1>1, <5>1, MergedIs
      <4>4. Known(cart') /\ Known(cartHttp'[r].held)
        BY <2>5, <4>2, <4>3 DEF CartReads
      <4>5. QED
        BY <1>2, <2>2, <4>1, <4>4
    <3>2. QED
      BY <2>5, <3>1, NoLongerWaits
  <2>6. CASE CartDels(r)
    <3>1. StillWaits /\ added'[p] = added[p]
      BY <2>1, <2>6 DEF CartDels, Waiting
    <3>2. Known(cart') /\ Known(cartHttp'[r].held)
      BY <1>1, <2>6 DEF CartDels
    <3>3. QED
      BY <1>2, <2>2, <3>1, <3>2
  <2>7. CASE CartSets(r)
    <3>1. StillWaits /\ added'[p] = added[p]
      BY <2>1, <2>7 DEF CartSets, Waiting
    <3>2. Known(cart') /\ Known(cartHttp'[r].held)
      BY <1>1, <2>7 DEF CartSets
    <3>3. QED
      BY <1>2, <2>2, <3>1, <3>2
  <2>8. QED
    BY <1>4, <2>3, <2>4, <2>5, <2>6, <2>7 DEF CartStep
<1>5. QED
  BY <1>3, <1>4

LEMMA CartStarts ==
  ASSUME CartInit
  PROVE  CartInv
<1>1. /\ NewCartRequest \in CartRecords /\ NewCartRequest.pc = "new" /\ NewCartRequest.op = "none"
      /\ NewCartRequest.held = EmptyCart
  BY CartsAre DEF NewCartRequest, CartRecords
<1>2. /\ cart = EmptyCart /\ expected = EmptyCart /\ cartHttp = [r \in CartRequests |-> NewCartRequest]
      /\ onSale = CartProducts /\ added = [p \in CartProducts |-> 0] /\ cartRaced = FALSE /\ cartFaults = 0
  BY DEF CartInit
<1>3. /\ cartHttp \in [CartRequests -> CartRecords] /\ cart \in Carts /\ expected \in Carts
      /\ onSale \subseteq CartProducts /\ added \in [CartProducts -> Int]
      /\ cartRaced \in BOOLEAN /\ cartFaults \in 0 .. MaxCartFaults
  <2>1. cartHttp \in [CartRequests -> CartRecords]
    BY <1>1, <1>2
  <2>2. added \in [CartProducts -> Int]
    BY <1>2
  <2>3. cartFaults \in 0 .. MaxCartFaults
    BY <1>2, CartAssumption
  <2>4. QED
    BY <1>2, <2>1, <2>2, <2>3, CartsAre
<1>4. \A r \in CartRequests : cartHttp[r].pc = "new" /\ cartHttp[r].op = "none" /\ cartHttp[r].held = EmptyCart
  BY <1>1, <1>2
<1>5. \A r \in CartRequests : CartRequestOK(r)
  BY <1>4 DEF CartRequestOK
<1>6. AloneOK
  BY <1>2, <1>4 DEF AloneOK, HeldOK, Writing, Writers
<1>7. ASSUME NEW p \in CartProducts
      PROVE  NoMoreThanAdded(p)
  <2>1. Units(p) = {}
    BY <1>4 DEF Units, Waiting
  <2>2. IsFiniteSet(Units(p)) /\ Cardinality(Units(p)) = 0
    BY <2>1, FS_EmptySet
  <2>3. Count(cart, p) = 0 /\ (\A r \in CartRequests : Count(cartHttp[r].held, p) = 0) /\ added[p] = 0
    BY <1>2, <1>4, CartsAre
  <2>4. QED
    BY <2>2, <2>3 DEF NoMoreThanAdded
<1>8. QED
  BY <1>3, <1>5, <1>6, <1>7 DEF CartInv

LEMMA CartInvariance == CartSpec => []CartInv
<1>1. CartInit => CartInv
  BY CartStarts
<1>2. ASSUME CartInv, [CartNext]_cartVars
      PROVE  CartInv'
  <2>1. (\E r \in CartRequests : CartStep(r)) \/ CartCut
    BY <1>2, CartNextSteps
  <2>2. AloneOK'
    BY <1>2, <2>1, AloneKeptByStep, AloneKeptByCut
  <2>3. ASSUME Quantities \subseteq Nat, NEW p \in CartProducts
        PROVE  NoMoreThanAdded(p)'
    BY <1>2, <2>1, <2>3, NoMoreThanAddedKept
  <2>4. QED
    BY <1>2, <2>1, <2>2, <2>3, CartBounds, CartTypesKept, CartRequestsKept DEF CartInv
<1>3. QED
  BY <1>1, <1>2, PTL DEF CartSpec

(* The cart is what the requests that did not overlap ask for, and never    *)
(* holds more of a product than was added of it, whatever overlaps or fails *)
(* (cart_service.go:34, cart_repository.go:60).                             *)
THEOREM CartHoldsWhatWasAsked == Spec => []CartIsWhatWasAsked
<1>1. ASSUME CartInv
      PROVE  CartIsWhatWasAsked
  <2>1. cartRaced \/ Emptied \/ cart = expected
    BY <1>1 DEF CartInv, AloneOK
  <2>2. ASSUME Quantities \subseteq Nat, NEW p \in DOMAIN cart
        PROVE  cart[p] <= added[p]
    <3>1. /\ p \in CartProducts /\ cart[p] \in Int /\ Count(cart, p) = cart[p]
      BY <1>1, CartsAre DEF CartInv, Count
    <3>2. IsFiniteSet(Units(p)) /\ Count(cart, p) + Cardinality(Units(p)) <= added[p] /\ added[p] \in Int
      BY <1>1, <2>2, <3>1 DEF CartInv, NoMoreThanAdded
    <3>3. Cardinality(Units(p)) \in Nat
      BY <3>2, FS_CardinalityType
    <3>4. QED
      BY <3>1, <3>2, <3>3
  <2>3. QED
    BY <2>1, <2>2 DEF CartIsWhatWasAsked
<1>2. CartInv => CartIsWhatWasAsked
  BY <1>1
<1>3. QED
  BY <1>2, PartsRunAlone, CartInvariance, PTL

-----------------------------------------------------------------------------
(* The parts together.                                                      *)

(* Every field of the four parts has its type in every state of every       *)
(* behaviour of the services.                                               *)
THEOREM TypeCorrect == Spec => []TypesOK
<1>1. CartInv => CartTypeOK
  <2>1. ASSUME CartInv
        PROVE  CartTypeOK
    <3>1. /\ cart \in Carts /\ expected \in Carts
          /\ \A r \in CartRequests : cartHttp[r] \in CartRecords /\ cartHttp[r].held \in Carts
      BY <2>1 DEF CartInv, CartRecords
    <3>2. \A c \in {cart, expected} \union {cartHttp[r].held : r \in CartRequests} :
            DOMAIN c \subseteq CartProducts /\ \A p \in DOMAIN c : c[p] \in Int
      BY <3>1, CartsAre
    <3>3. QED
      BY <2>1, <3>1, <3>2 DEF CartInv, CartRecords, CartTypeOK
  <2>2. QED
    BY <2>1
<1>2. NoticesInv => NotificationsTypeOK
  BY DEF NoticesInv
<1>3. PublisherInv => PublisherTypeOK
  BY DEF PublisherInv
<1>4. PaymentsTypeOK /\ NotificationsTypeOK /\ CartTypeOK /\ PublisherTypeOK => TypesOK
  BY DEF TypesOK
<1>5. QED
  BY <1>1, <1>2, <1>3, <1>4, PartsRunAlone, PaymentsTypeCorrect, NoticesInvariance, CartInvariance,
     PublisherInvariance, PTL

(* PaymentsProofs is about the payments alone; they behave the same among   *)
(* the other services: an order has one payment, unless two requests for it *)
(* overlapped or a look-up failed (payment_service.go:130).                 *)
THEOREM PaidForOnceTogether == Spec => []OnePaymentPerOrder
  BY PartsRunAlone, PaidForOnce, PTL

(* And the payments, their logs, their events and Midtrans' transactions    *)
(* fit together (createPaymentWithOutbox, the webhook).                     *)
THEOREM PaymentsFitTogetherToo == Spec => []PaymentsAreWhole
  BY PartsRunAlone, PaymentsFitTogether, PTL

=============================================================================
