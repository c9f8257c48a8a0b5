------------------------------ MODULE Publisher ------------------------------
(***************************************************************************)
(* The publisher's pool of confirm-mode channels and the connection it      *)
(* shares with the consumers of its process. One goroutine publishes, the   *)
(* outbox worker, after the queues were declared at startup; Close comes    *)
(* after that goroutine has ended (app.go waits for it). The consumers open *)
(* channels of their own on the same connection.                            *)
(***************************************************************************)
EXTENDS Naturals, Sequences, FiniteSets, FiniteSetsExt

CONSTANTS
  MaxChannels,   \* bound: names for channels; the name of a forgotten one is used again
  PoolSize,      \* PublisherPoolSize
  MaxAttempts,   \* PublisherMaxRetries + 1
  MaxPublishes,  \* bound: calls of SetupQueue and Publish
  MaxWireFaults  \* bound: what goes wrong between the process and the broker

ASSUME PublisherAssumption ==
  /\ {PoolSize, MaxAttempts, MaxPublishes, MaxWireFaults} \subseteq Nat \ {0}
  /\ MaxChannels \in Nat /\ MaxChannels > PoolSize

VARIABLES
  connected,  \* the shared connection is up
  open,       \* the publisher's channels that are open
  pool,       \* p.pool, a buffered Go channel
  call,       \* the call that is running, and the last one's result
  calls,      \* how many calls were made
  confirmed,  \* the broker took the message of this call
  closed,     \* Close has been called
  wireFaults

wireVars == <<connected, open, pool, call, calls, confirmed, closed, wireFaults>>

Channels  == 1 .. MaxChannels
NoChannel == 0
Idle == [pc |-> "idle", op |-> "none", ch |-> NoChannel, tries |-> 0, ok |-> FALSE]

\* NewPublisher: the pool is filled, or the process does not start.
WireInit ==
  /\ connected = TRUE
  /\ pool = [i \in 1 .. PoolSize |-> i] /\ open = 1 .. PoolSize
  /\ call = Idle /\ calls = 0 /\ confirmed = FALSE /\ closed = FALSE /\ wireFaults = 0

Pooled    == {pool[i] : i \in 1 .. Len(pool)}

\* A name that nobody uses.
FreshChannel(ch) == ch = Min(Channels \ (open \union Pooled))
WireFault == wireFaults < MaxWireFaults /\ wireFaults' = wireFaults + 1
Go(pc)    == call' = [call EXCEPT !.pc = pc]
Hold(ch, pc) == call' = [call EXCEPT !.ch = ch, !.pc = pc]
Finish(ok) == call' = [Idle EXCEPT !.op = call.op, !.ok = ok]

-----------------------------------------------------------------------------
\* At startup SetupQueue, then Publish for one event after the other.
Call(op) ==
  /\ call.pc = "idle" /\ ~closed /\ calls < MaxPublishes
  /\ op = "setup" => call.op # "publish"
  /\ call' = [Idle EXCEPT !.op = op, !.pc = "borrow"]
  /\ calls' = calls + 1 /\ confirmed' = FALSE
  /\ UNCHANGED <<connected, open, pool, closed, wireFaults>>

\* After a failed attempt: another one, or give up.
FailAttempt ==
  IF call.op = "setup" \/ call.tries + 1 = MaxAttempts THEN Finish(FALSE)
  ELSE call' = [call EXCEPT !.pc = "borrow", !.ch = NoChannel, !.tries = @ + 1]

\* The worker's context ends while Publish waits to try again.
CancelBackoff ==
  /\ call.op = "publish" /\ call.pc = "borrow" /\ call.tries > 0
  /\ Finish(FALSE)
  /\ UNCHANGED <<connected, open, pool, calls, confirmed, closed, wireFaults>>

\* The head of the pool, open or not; a new channel if the pool is empty.
BorrowChannel ==
  /\ call.pc = "borrow"
  /\ IF pool = <<>> THEN Go("open") /\ UNCHANGED pool
     ELSE Hold(Head(pool), "use") /\ pool' = Tail(pool)
  /\ UNCHANGED <<connected, open, calls, confirmed, closed, wireFaults>>

\* OpenChannel, under its mutex: whether it succeeds, and the channels that outlive it. A
\* connection that is down is dialled. A channel that cannot be opened takes the connection
\* down, with all that is on it, and the connection is dialled again.
OpenChannel(ok, alive) ==
  \/ connected  /\ ok  /\ alive = open /\ UNCHANGED <<connected, wireFaults>>
  \/ ~connected /\ ok  /\ alive = {}   /\ connected' = TRUE /\ UNCHANGED wireFaults
  \/ ~connected /\ ~ok /\ alive = {}   /\ UNCHANGED connected /\ WireFault
  \/ connected  /\ alive = {} /\ connected' = ok /\ WireFault

\* A new channel in confirm mode, or a failed attempt.
CreateConfirmChannel ==
  /\ call.pc = "open"
  /\ \/ \E ch \in Channels, alive \in SUBSET open :
          /\ FreshChannel(ch) /\ OpenChannel(TRUE, alive)
          /\ open' = alive \union {ch} /\ Hold(ch, "use")
     \/ /\ OpenChannel(FALSE, {}) /\ open' = {} /\ FailAttempt
     \/ \* Confirm fails, and the new channel is closed
        /\ connected /\ WireFault /\ UNCHANGED <<connected, open>> /\ FailAttempt
  /\ UNCHANGED <<pool, calls, confirmed, closed>>

\* Seeded bug: an attempt that fails drops its channel without closing it.
X_ForgetChannel == UNCHANGED open
CloseChannel == open' = open \ {call.ch}

\* Publish on the channel: an error if it is not open, and then it is not returned.
PublishMessage ==
  /\ call.op = "publish" /\ call.pc = "use"
  /\ \/ call.ch \in open    /\ Go("confirm") /\ UNCHANGED open
     \/ call.ch \notin open /\ CloseChannel /\ FailAttempt
  /\ UNCHANGED <<connected, pool, calls, confirmed, closed, wireFaults>>

\* The broker confirms, refuses, or says nothing until the timeout. A channel that closes
\* settles its open confirmations as not acked, whether the broker took the message or not.
WaitConfirm ==
  /\ call.pc = "confirm"
  /\ \/ /\ call.ch \in open /\ confirmed' = TRUE
        /\ call' = [call EXCEPT !.pc = "return", !.ok = TRUE] /\ UNCHANGED <<open, wireFaults>>
     \/ /\ call.ch \in open /\ WireFault
        /\ Go("return") /\ UNCHANGED <<open, confirmed>>
     \/ /\ call.ch \in open /\ WireFault
        /\ confirmed' \in {confirmed, TRUE} /\ CloseChannel /\ FailAttempt
     \/ /\ call.ch \notin open /\ confirmed' \in {confirmed, TRUE}
        /\ Go("return") /\ UNCHANGED <<open, wireFaults>>
  /\ UNCHANGED <<connected, pool, calls, closed>>

\* QueueDeclare. A broker that refuses closes the channel, which is returned all the same.
DeclareQueue ==
  /\ call.op = "setup" /\ call.pc = "use"
  /\ \/ /\ call.ch \in open
        /\ call' = [call EXCEPT !.pc = "return", !.ok = TRUE] /\ UNCHANGED <<open, wireFaults>>
     \/ call.ch \in open /\ WireFault /\ CloseChannel /\ Go("return")
     \/ call.ch \notin open /\ Go("return") /\ UNCHANGED <<open, wireFaults>>
  /\ UNCHANGED <<connected, pool, calls, confirmed, closed>>

\* Back to the pool, open or not; closed if the publisher is closed or the pool is full.
ReturnChannel ==
  /\ call.pc = "return"
  /\ IF closed \/ Len(pool) = PoolSize THEN CloseChannel /\ UNCHANGED pool
     ELSE pool' = Append(pool, call.ch) /\ UNCHANGED open
  /\ IF call.ok THEN Finish(TRUE) ELSE FailAttempt
  /\ UNCHANGED <<connected, calls, confirmed, closed, wireFaults>>

-----------------------------------------------------------------------------
(* Shutdown: the worker has ended, the pool is drained. *)
ClosePublisher ==
  /\ call.pc = "idle" /\ ~closed /\ closed' = TRUE
  /\ UNCHANGED <<connected, open, pool, call, calls, confirmed, wireFaults>>

DrainPool ==
  /\ closed /\ pool # <<>>
  /\ open' = open \ {Head(pool)} /\ pool' = Tail(pool)
  /\ UNCHANGED <<connected, call, calls, confirmed, closed, wireFaults>>

\* A consumer that lost its channel opens another one, at any moment.
ConsumerOpensChannel ==
  /\ \E ok \in BOOLEAN, alive \in SUBSET open : OpenChannel(ok, alive) /\ open' = alive
  /\ UNCHANGED <<pool, call, calls, confirmed, closed>>

ConnectionLost ==
  /\ connected /\ WireFault /\ connected' = FALSE /\ open' = {}
  /\ UNCHANGED <<pool, call, calls, confirmed, closed>>

WireNext ==
  \/ \E op \in {"setup", "publish"} : Call(op)
  \/ CancelBackoff \/ BorrowChannel \/ CreateConfirmChannel
  \/ PublishMessage \/ WaitConfirm \/ DeclareQueue \/ ReturnChannel
  \/ ClosePublisher \/ DrainPool \/ ConsumerOpensChannel \/ ConnectionLost

-----------------------------------------------------------------------------
PublisherTypeOK ==
  /\ connected \in BOOLEAN /\ confirmed \in BOOLEAN /\ closed \in BOOLEAN
  /\ open \subseteq Channels
  /\ Pooled \subseteq Channels /\ Len(pool) <= PoolSize
  /\ call \in [pc : {"idle", "borrow", "open", "use", "confirm", "return"},
               op : {"none", "setup", "publish"}, ch : Channels \union {NoChannel},
               tries : 0 .. MaxAttempts - 1, ok : BOOLEAN]
  /\ calls \in 0 .. MaxPublishes /\ wireFaults \in 0 .. MaxWireFaults

\* No channel is lost: each is in the pool, once, or in the hands of the call, not both. So a
\* drained publisher has none open (Close, publisher.go:273).
ChannelsAreOwned ==
  /\ open \subseteq Pooled \union {call.ch}
  /\ Cardinality(Pooled) = Len(pool)
  /\ call.ch \notin Pooled

\* "Every successful Publish guarantees the broker has accepted the message" (publisher.go:27).
AcceptedIsStored == call.pc = "idle" /\ call.op = "publish" /\ call.ok => confirmed

(* Connections that are lost, or taken down by a consumer's OpenChannel,    *)
(* and broker answers that come late or not at all neither leak a channel   *)
(* nor make Publish report a message the broker does not have.              *)
PublisherKeepsChannels == ChannelsAreOwned /\ AcceptedIsStored
=============================================================================
