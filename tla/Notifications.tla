---------------------------- MODULE Notifications ----------------------------
(***************************************************************************)
(* notification-service: the handler of the five queues, which stores a     *)
(* notification and then delivers it, and the requests of users. The        *)
(* consumer is the one of module Consumer as far as the handler sees it: a  *)
(* message may be in several copies, queued or being handled, because a     *)
(* retry publishes a copy before it acks the original, and because the      *)
(* broker queues a delivery again when its channel is lost, which does not  *)
(* end the handling. NewWebSocketHandler is not called by app.go, so no     *)
(* user ever has a connection.                                             *)
(***************************************************************************)
EXTENDS Naturals, FiniteSets

CONSTANTS
  Notices,         \* messages of the queues
  NoticeRequests,  \* HTTP requests, each handled once
  NumNoticeCopies, \* bound: copies of messages queued or being handled at the same time
  MaxNoticeTries,  \* MaxRetries of the consumer
  MaxNoticeFaults, \* bound: handlings that lose their channel, their process or the answer of the INSERT
  NoNotice         \* no message

ASSUME NotificationsAssumption ==
  /\ NumNoticeCopies \in Nat /\ MaxNoticeTries \in Nat /\ MaxNoticeFaults \in Nat
  /\ NoNotice \notin Notices

VARIABLES
  noticeKind,   \* noticeKind[m]: what kind of message m is, "none" before it is sent
  copies,       \* copies[k]: the message of copy k, its x-retry-count and where it is
  stored,       \* the table notifications: [id, msg, status, read]
  mails,        \* mails[m]: e-mails handed to the SMTP server
  noticeHttp,   \* the answers of the requests
  noticeDone,   \* history: messages of which a handling succeeded and was acked
  again,        \* history: how often a fault queued m again although it was stored, would be, or was queued
  noticeFaults

noticeVars == <<noticeKind, copies, stored, mails, noticeHttp, noticeDone, again, noticeFaults>>

Kinds == {"EMAIL", "PUSH", "unknown", "garbled"}
NoticeCopies == 1 .. NumNoticeCopies
\* The steps of a handling: what it does next, or "republished" when only the ack of the original is left.
Handling == {"create", "send", "ack", "failed", "republished"}
\* held: the channel of the delivery is open, so the broker does not queue the copy again.
CopyStates == [msg : Notices \union {NoNotice}, tries : 0 .. MaxNoticeTries,
               at : {"free", "queued"} \union Handling, held : BOOLEAN]
Free == [msg |-> NoNotice, tries |-> 0, at |-> "free", held |-> FALSE]
Queued(m, tries) == [msg |-> m, tries |-> tries, at |-> "queued", held |-> FALSE]

NoticeInit ==
  /\ noticeKind = [m \in Notices |-> "none"]
  /\ copies = [k \in NoticeCopies |-> Free]
  /\ stored = {}
  /\ mails = [m \in Notices |-> 0]
  /\ noticeHttp = [q \in NoticeRequests |-> "none"]
  /\ noticeDone = {}
  /\ again = [m \in Notices |-> 0]
  /\ noticeFaults = 0

NoticeFault == noticeFaults < MaxNoticeFaults /\ noticeFaults' = noticeFaults + 1
SetCopy(k, c)  == copies' = [copies EXCEPT ![k] = c]
NoticeGo(k, s) == SetCopy(k, [copies[k] EXCEPT !.at = s])
Repeat(m, n)   == again' = [again EXCEPT ![m] = @ + n]
RowsOf(m)      == {n \in stored : n.msg = m}

\* The copy the broker makes next.
NextCopy(k) == copies[k] = Free /\ \A j \in NoticeCopies : copies[j] = Free => k <= j

-----------------------------------------------------------------------------
(* A message of some service reaches its queue. *)
NoticeArrives(m) ==
  /\ noticeKind[m] = "none"
  /\ \E kind \in Kinds : noticeKind' = [noticeKind EXCEPT ![m] = kind]
  /\ \E k \in NoticeCopies : NextCopy(k) /\ SetCopy(k, Queued(m, 0))
  /\ UNCHANGED <<stored, mails, noticeHttp, noticeDone, again, noticeFaults>>

\* A worker gets the message and unmarshals it.
HandleNotice(k) ==
  /\ copies[k].at = "queued"
  /\ SetCopy(k, [copies[k] EXCEPT !.held = TRUE,
                   !.at = IF noticeKind[copies[k].msg] = "garbled" THEN "failed" ELSE "create"])
  /\ UNCHANGED <<noticeKind, stored, mails, noticeHttp, noticeDone, again, noticeFaults>>

\* An e-mail is stored as sent before it is sent, everything else as pending.
StatusAtCreation(m) == IF noticeKind[m] = "EMAIL" THEN "SENT" ELSE "PENDING"

\* INSERT: done, failed, or done and the answer is lost. After an error the message is tried
\* again, if its channel is still there.
CreateNotification(k) ==
  LET m   == copies[k].msg
      row == [id |-> Cardinality(stored) + 1, msg |-> m, status |-> StatusAtCreation(m), read |-> FALSE]
  IN /\ copies[k].at = "create"
     /\ \/ stored' = stored \union {row} /\ NoticeGo(k, "send") /\ UNCHANGED <<again, noticeFaults>>
        \/ UNCHANGED stored /\ NoticeGo(k, "failed") /\ UNCHANGED <<again, noticeFaults>>
        \/ /\ stored' = stored \union {row} /\ NoticeGo(k, "failed")
           /\ NoticeFault /\ Repeat(m, IF copies[k].held THEN 1 ELSE 0)
     /\ UNCHANGED <<noticeKind, mails, noticeHttp, noticeDone>>

\* Seeded bug: a failed delivery is an error of the handler.
X_RetryDelivery(k, sent) == IF sent THEN NoticeGo(k, "ack") ELSE NoticeGo(k, "failed")

\* What Handle does with the outcome of the delivery: a failure is logged, no more.
AfterSending(k, sent) == NoticeGo(k, "ack")

\* The SMTP server takes the e-mail, or it does not (no receiver or subject, no server).
SendEmailNotif(k) ==
  \/ mails' = [mails EXCEPT ![copies[k].msg] = @ + 1] /\ AfterSending(k, TRUE)
  \/ UNCHANGED mails /\ AfterSending(k, FALSE)

\* No receiver, or no connection of the receiver: nothing is sent and nothing marked.
SendPushNotification(k) == UNCHANGED mails /\ AfterSending(k, TRUE)

SendNotification(k) ==
  LET kind == noticeKind[copies[k].msg] IN
  /\ copies[k].at = "send"
  /\ \/ kind = "EMAIL" /\ SendEmailNotif(k)
     \/ kind = "PUSH" /\ SendPushNotification(k)
     \/ kind = "unknown" /\ UNCHANGED mails /\ AfterSending(k, TRUE)
  /\ UNCHANGED <<noticeKind, stored, noticeHttp, noticeDone, again, noticeFaults>>

-----------------------------------------------------------------------------
(* What the consumer does with the outcome. A frame is written and taken by *)
(* the broker in one step: a frame lost with its channel is a channel lost  *)
(* before the step.                                                        *)

\* The ack after a success.
AckNotice(k) ==
  /\ copies[k].at = "ack" /\ copies[k].held
  /\ SetCopy(k, Free)
  /\ noticeDone' = noticeDone \union {copies[k].msg}
  /\ UNCHANGED <<noticeKind, stored, mails, noticeHttp, again, noticeFaults>>

\* Seeded bug: one retry too many.
X_RetryOnceMore(k) ==
  /\ copies[k].at = "failed" /\ copies[k].held /\ copies[k].tries <= MaxNoticeTries
  /\ \E j \in NoticeCopies :
       /\ NextCopy(j)
       /\ copies' = [copies EXCEPT ![k].at = "republished",
                                   ![j] = Queued(copies[k].msg, copies[k].tries + 1)]
  /\ UNCHANGED <<noticeKind, stored, mails, noticeHttp, noticeDone, again, noticeFaults>>

\* handleFailure publishes a copy with one more retry; the original is not acked yet.
RetryNotice(k) ==
  /\ copies[k].at = "failed" /\ copies[k].held /\ copies[k].tries < MaxNoticeTries
  /\ \E j \in NoticeCopies :
       /\ NextCopy(j)
       /\ copies' = [copies EXCEPT ![k].at = "republished",
                                   ![j] = Queued(copies[k].msg, copies[k].tries + 1)]
  /\ UNCHANGED <<noticeKind, stored, mails, noticeHttp, noticeDone, again, noticeFaults>>

\* The ack of the original after the republish.
AckOriginal(k) ==
  /\ copies[k].at = "republished" /\ copies[k].held
  /\ SetCopy(k, Free)
  /\ UNCHANGED <<noticeKind, stored, mails, noticeHttp, noticeDone, again, noticeFaults>>

\* Nack when the retries are used up: the copy goes to the dead-letter queue.
RejectNotice(k) ==
  /\ copies[k].at = "failed" /\ copies[k].held /\ copies[k].tries >= MaxNoticeTries
  /\ SetCopy(k, Free)
  /\ UNCHANGED <<noticeKind, stored, mails, noticeHttp, noticeDone, again, noticeFaults>>

\* On a lost channel Ack, the republish and the Nack that follows a failed republish all fail,
\* and the errors are only logged. A republish fails for no other reason.
EndLost(k) ==
  /\ copies[k].at \in {"ack", "failed", "republished"} /\ ~copies[k].held
  /\ SetCopy(k, Free)
  /\ UNCHANGED <<noticeKind, stored, mails, noticeHttp, noticeDone, again, noticeFaults>>

\* The channel of a delivery is lost: the broker queues the copy again, for this replica or
\* another, and the handling goes on. Only a handling that has failed stores nothing more and
\* has no copy elsewhere.
LoseChannel(k) ==
  LET c == copies[k] IN
  /\ c.at \in Handling /\ c.held /\ NoticeFault
  /\ \E j \in NoticeCopies :
       /\ NextCopy(j)
       /\ copies' = [copies EXCEPT ![k].held = FALSE, ![j] = Queued(c.msg, c.tries)]
  /\ Repeat(c.msg, IF c.at = "failed" THEN 0 ELSE 1)
  /\ UNCHANGED <<noticeKind, stored, mails, noticeHttp, noticeDone>>

\* The process of a handling dies: the copy is queued again unless it was already. A process
\* with several handlings loses one after the other.
LoseProcess(k) ==
  LET c == copies[k] IN
  /\ c.at \in Handling /\ NoticeFault
  /\ SetCopy(k, IF c.held THEN Queued(c.msg, c.tries) ELSE Free)
  /\ Repeat(c.msg, IF c.held /\ c.at \in {"send", "ack", "republished"} THEN 1 ELSE 0)
  /\ UNCHANGED <<noticeKind, stored, mails, noticeHttp, noticeDone>>

-----------------------------------------------------------------------------
(* Requests: a notification is shown, listed or marked as read. *)
NoticeAnswer(q, code) == noticeHttp[q] = "none" /\ noticeHttp' = [noticeHttp EXCEPT ![q] = code]

\* First by the id in the path, whoever the user is.
SelectNotice(id) == {n \in stored : n.id = id}
Ids == 1 .. Cardinality(stored) + 1

\* UpdateColumns of the row that First read; nothing else writes a stored row.
SetReadAt(n) == stored' = (stored \ {n}) \union {[n EXCEPT !.read = TRUE]}

MarkAsRead(q) ==
  /\ \E id \in Ids :
       \/ \E n \in SelectNotice(id) : SetReadAt(n) /\ NoticeAnswer(q, "ok")
       \/ SelectNotice(id) = {} /\ UNCHANGED stored /\ NoticeAnswer(q, "notfound")
  /\ UNCHANGED <<noticeKind, copies, mails, noticeDone, again, noticeFaults>>

\* The handler formats read_at, which is nil until the notification was marked: a panic, answered 500.
NoticeByID(q) ==
  /\ \E id \in Ids :
       \/ \E n \in SelectNotice(id) : NoticeAnswer(q, IF n.read THEN "ok" ELSE "error")
       \/ SelectNotice(id) = {} /\ NoticeAnswer(q, "notfound")
  /\ UNCHANGED <<noticeKind, copies, stored, mails, noticeDone, again, noticeFaults>>

\* The rows that match the user, the search and the page.
SelectNotices == SUBSET stored

AllNotices(q) ==
  /\ \E rows \in SelectNotices : NoticeAnswer(q, IF rows = {} THEN "notfound" ELSE "ok")
  /\ UNCHANGED <<noticeKind, copies, stored, mails, noticeDone, again, noticeFaults>>

NoticeNext ==
  \/ \E m \in Notices : NoticeArrives(m)
  \/ \E k \in NoticeCopies :
       \/ HandleNotice(k) \/ CreateNotification(k) \/ SendNotification(k)
       \/ AckNotice(k) \/ RetryNotice(k) \/ AckOriginal(k) \/ RejectNotice(k) \/ EndLost(k)
       \/ LoseChannel(k) \/ LoseProcess(k)
  \/ \E q \in NoticeRequests : MarkAsRead(q) \/ NoticeByID(q) \/ AllNotices(q)

-----------------------------------------------------------------------------
NotificationsTypeOK ==
  /\ noticeKind \in [Notices -> Kinds \union {"none"}]
  /\ copies \in [NoticeCopies -> CopyStates]
  /\ stored \subseteq [id : Nat \ {0}, msg : Notices, status : {"SENT", "PENDING"}, read : BOOLEAN]
  /\ mails \in [Notices -> Nat] /\ again \in [Notices -> Nat]
  /\ noticeHttp \in [NoticeRequests -> {"none", "ok", "notfound", "error"}]
  /\ noticeDone \subseteq Notices
  /\ noticeFaults \in 0 .. MaxNoticeFaults

(* A notification is stored once, whatever fails and is retried, and once   *)
(* more for each fault that queued it again when it was stored already,     *)
(* would be by a handling that goes on, or was queued as a retry; no e-mail *)
(* goes out that is not stored, and a message whose handling succeeded is   *)
(* stored. In particular a mail server that is down makes no second record  *)
(* (handler.go:42, "the record already exists").                            *)
StoredOncePerHandling ==
  \A m \in Notices :
    /\ Cardinality(RowsOf(m)) <= 1 + again[m]
    /\ mails[m] <= Cardinality(RowsOf(m))
    /\ m \in noticeDone => RowsOf(m) # {}
=============================================================================
