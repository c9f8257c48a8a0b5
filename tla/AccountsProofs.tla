--------------------------- MODULE AccountsProofs ---------------------------
(***************************************************************************)
(* Theorems about Accounts, for any number of users, addresses, requests    *)
(* and faults.                                                             *)
(*                                                                         *)
(* A request reads a row, and writes it back in a later step.  AccountsInv  *)
(* says what the row it holds has to do with the table by then, and what    *)
(* the sessions, tokens and e-mails have to do with the users.             *)
(***************************************************************************)
EXTENDS Accounts, TLAPS

-----------------------------------------------------------------------------
(* The inductive invariant.                                                *)

HttpRequests ==
  [pc : Pcs, op : Ops, of : Users \union {Nil}, email : Emails \union {Nil}, secret : Writers,
   row : Rows, result : Codes, did : BOOLEAN, code : Codes]

\* The operations that write back a row they read; a request at "save" or "session" is about a
\* user that it has read.
Rewriters == {"updatePassword", "verify", "profile", "updateCustomer"}
Reader(r) == http[r].pc \in {"save", "session"}

\* What a request holds: unless another one got in between, the row as it is.
RequestOK(r) ==
  LET h == http[r] IN
  /\ Reader(r) => h.of \in Users /\ user[h.of].state # "none"
  /\ h.pc \in {"bound", "service"} /\ h.op \in {"profile", "updateCustomer", "delete"} => h.of \in Users
  /\ h.pc = "session" => h.op = "verify"
  /\ h.pc = "save" /\ h.op \in Rewriters =>
       h.row.state = "live" /\ (h.of \notin raced => h.row = user[h.of])

\* Two requests that read one user count as overlapping.
Overlap(q, r) == Reader(q) /\ Reader(r) /\ http[q].of = http[r].of => http[r].of \in raced

\* The row of u, and the e-mail that announced it.
UserOK(u) ==
  /\ u \notin raced => user[u] = intended[u] /\ (Live(u) => user[u].role)
  /\ user[u].state # "none" => \E m \in mails : m.to = u

\* A session of a JWT: the request that got it is over, nobody else has the same, and its user
\* is still verified.
SessionOK(s) ==
  s.key.kind = "jwt" =>
    /\ s.key.name \in Requests /\ http[s.key.name].pc = "done"
    /\ \A t \in sessions : t.key = s.key => t = s
    /\ user[s.of].state # "none"
    /\ Live(s.of) /\ s.of \notin raced => user[s.of].verified

\* A request that runs alone is the only one in flight, and what it stored and what it will
\* answer agree at every step.
AloneOK(r) ==
  r \in InFlight \ mixed =>
    /\ InFlight = {r}
    /\ http[r].pc \in {"returned", "assigned"} => (http[r].result = "ok" <=> http[r].did)
    /\ http[r].pc = "assigned" => err = http[r].result

RequestsInv == http \in [Requests -> HttpRequests] /\ \A r \in Requests : RequestOK(r)
OverlapInv  == \A q, r \in Requests : q # r => Overlap(q, r)
UsersInv    == \A u \in Users : UserOK(u)
SessionsInv == \A s \in sessions : SessionOK(s)
MailsInv    == MailedLinksWork /\ \A m \in mails : user[m.to].state # "none"
AnswersInv  == AnswersMatchEffects /\ \A r \in Requests : AloneOK(r)

AccountsInv ==
  TypeOK /\ RequestsInv /\ OverlapInv /\ UsersInv /\ SessionsInv /\ MailsInv /\ AnswersInv

-----------------------------------------------------------------------------
(* How a request moves on.                                                  *)

HttpType == http \in [Requests -> HttpRequests]

\* Nobody but r moves.
OthersWait(r) == \A q \in Requests \ {r} : http'[q] = http[q]

LEMMA NewRequestType ==
  /\ NewRequest \in HttpRequests /\ NoRow \in Rows
  /\ NewRequest.pc = "new" /\ NewRequest.op = "none" /\ NewRequest.of = Nil
  BY DEF NewRequest, NoRow, HttpRequests, Rows, Pcs, Ops, Codes, States, Writers

LEMMA BeginFrame ==
  ASSUME HttpType, NEW r \in Requests, NEW h \in HttpRequests, Begin(r, h)
  PROVE  HttpType' /\ OthersWait(r) /\ http[r].pc = "new" /\ http'[r] = h
  BY DEF HttpType, Begin, OthersWait

LEMMA AnswerFrame ==
  ASSUME HttpType, NEW r \in Requests, NEW code \in Codes, NEW did \in BOOLEAN,
         Answer(r, code, did)
  PROVE  /\ HttpType' /\ OthersWait(r)
         /\ http'[r].pc = "done" /\ http'[r].op = http[r].op
         /\ http'[r].did = did /\ http'[r].code = code
<1>1. http[r].op \in Ops
  BY DEF HttpType, HttpRequests
<1> DEFINE h == [NewRequest EXCEPT !.pc = "done", !.op = http[r].op, !.did = did, !.code = code]
<1>2. h \in HttpRequests /\ h.pc = "done" /\ h.op = http[r].op /\ h.did = did /\ h.code = code
  BY <1>1, NewRequestType DEF HttpRequests, Pcs
<1>3. http' = [http EXCEPT ![r] = h]
  BY DEF Answer
<1> HIDE DEF h
<1>4. QED
  BY <1>2, <1>3 DEF HttpType, OthersWait

LEMMA ReturnFrame ==
  ASSUME HttpType, NEW r \in Requests, NEW result \in Codes, NEW did \in BOOLEAN,
         Return(r, result, did)
  PROVE  /\ HttpType' /\ OthersWait(r)
         /\ http'[r].op = http[r].op /\ http'[r].did = did
         /\ \/ http'[r].pc = "returned" /\ http'[r].result = result
            \/ http'[r].pc = "done" /\ http[r].op \notin SharedResult
<1>1. CASE http[r].op \in SharedResult
  <2> DEFINE h == [http[r] EXCEPT !.pc = "returned", !.result = result, !.did = did, !.row = NoRow]
  <2>1. /\ h \in HttpRequests /\ h.pc = "returned" /\ h.result = result /\ h.did = did
        /\ h.op = http[r].op
    BY NewRequestType DEF HttpType, HttpRequests, Pcs
  <2>2. http' = [http EXCEPT ![r] = h]
    BY <1>1 DEF Return, HttpType
  <2> HIDE DEF h
  <2>3. QED
    BY <2>1, <2>2 DEF HttpType, OthersWait
<1>2. CASE http[r].op \notin SharedResult
  BY <1>2, AnswerFrame DEF Return
<1>3. QED
  BY <1>1, <1>2

\* The process ends: whoever is in flight is done.
LEMMA ExitFrame ==
  ASSUME HttpType, Exit
  PROVE  /\ HttpType'
         /\ \A r \in Requests : \/ http'[r] = http[r] /\ r \notin InFlight
                                \/ r \in InFlight /\ http'[r].pc = "done" /\ http'[r].code = "lost"
<1>1. ASSUME NEW r \in Requests
      PROVE  /\ http'[r] \in HttpRequests
             /\ \/ http'[r] = http[r] /\ r \notin InFlight
                \/ r \in InFlight /\ http'[r].pc = "done" /\ http'[r].code = "lost"
  <2>1. CASE r \in InFlight
    <3>1. http'[r] = [NewRequest EXCEPT !.pc = "done", !.op = http[r].op, !.did = http[r].did,
                                        !.code = "lost"]
      BY <2>1 DEF Exit
    <3>2. http[r] \in HttpRequests
      BY DEF HttpType
    <3>3. QED
      BY <2>1, <3>1, <3>2, NewRequestType DEF HttpRequests, Pcs, Codes
  <2>2. CASE r \notin InFlight
    BY <2>2 DEF Exit, HttpType
  <2>3. QED
    BY <2>1, <2>2
<1>2. http' = [r \in Requests |-> http'[r]]
  BY DEF Exit
<1>3. QED
  BY <1>1, <1>2 DEF HttpType

\* What a step of r does to r: it goes to wait for the service, ends, reads a user (and counts
\* those in flight on the user as overlapping), or stores the session of the user it verified.
Waits(r)  == /\ http'[r].pc \in {"bound", "service"}
             /\ http'[r].op \in {"profile", "updateCustomer", "delete"} => http'[r].of \in Users
Ends(r)   == http'[r].pc \in {"returned", "assigned", "done"}
Reads(r)  == /\ http'[r].pc = "save" /\ http'[r].of \in Users /\ Live(http'[r].of)
             /\ OnUser(r, http'[r].of) /\ user' = user
             /\ http'[r].op \in Rewriters => http'[r].row = user[http'[r].of]
Stores(r) == /\ http'[r].pc = "session" /\ http'[r].op = "verify"
             /\ Reader(r) /\ http'[r].of = http[r].of /\ user'[http[r].of].state # "none"

Moved(r) ==
  /\ HttpType' /\ OthersWait(r) /\ http[r].pc # "done" /\ http'[r].pc # "new"
  /\ Waits(r) \/ Ends(r) \/ Reads(r) \/ Stores(r)

LEMMA LoadMoves ==
  ASSUME TypeOK, HttpType, NEW r \in Requests, http[r].pc = "service", NEW u \in Users,
         Load(r, u), user' = user
  PROVE  Moved(r)
<1>1. CASE Live(u)
  <2> DEFINE h == [http[r] EXCEPT !.pc = "save", !.of = u, !.row = user[u]]
  <2>1. h \in HttpRequests /\ h.pc = "save" /\ h.of = u /\ h.row = user[u]
    BY DEF HttpType, HttpRequests, Pcs, TypeOK
  <2>2. http' = [http EXCEPT ![r] = h] /\ OnUser(r, u)
    BY <1>1 DEF Load, HttpType
  <2> HIDE DEF h
  <2>3. QED
    BY <1>1, <2>1, <2>2 DEF Moved, Reads, HttpType, OthersWait
<1>2. CASE ~Live(u)
  <2>1. Return(r, "notfound", FALSE) /\ "notfound" \in Codes
    BY <1>2 DEF Load, Codes
  <2>2. QED
    BY <2>1, ReturnFrame DEF Moved, Ends
<1>3. QED
  BY <1>1, <1>2

\* The address, password, token or user that a request names.
LEMMA ReceiveMoves ==
  ASSUME TypeOK, HttpType, NEW r \in Requests, Receive(r)
  PROVE  Moved(r)
<1> DEFINE ofUser == {"profile", "updateCustomer", "delete"}
<1>1. ASSUME NEW h \in HttpRequests, h.pc \in {"bound", "service", "done"},
             h.pc # "done" /\ h.op \in ofUser => h.of \in Users, Begin(r, h)
      PROVE  Moved(r)
  BY <1>1, BeginFrame DEF Moved, Waits, Ends
<1>2. ASSUME NEW h \in HttpRequests, h.op \in ofUser => h.of \in Users, Bind(r, h) \/ Start(r, h)
      PROVE  Moved(r)
  <2>1. [h EXCEPT !.pc = "bound"] \in HttpRequests /\ [h EXCEPT !.pc = "service"] \in HttpRequests
    BY DEF HttpRequests, Pcs
  <2>2. CASE Bind(r, h)
    <3>1. Begin(r, [h EXCEPT !.pc = "bound"])
      BY <2>2 DEF Bind
    <3>2. [h EXCEPT !.pc = "bound"].pc = "bound" /\ [h EXCEPT !.pc = "bound"].op = h.op
          /\ [h EXCEPT !.pc = "bound"].of = h.of
      BY DEF HttpRequests
    <3> QED
      BY <1>1, <1>2, <2>1, <3>1, <3>2
  <2>3. CASE Start(r, h)
    <3>1. Begin(r, [h EXCEPT !.pc = "service"])
      BY <2>3 DEF Start
    <3>2. [h EXCEPT !.pc = "service"].pc = "service" /\ [h EXCEPT !.pc = "service"].op = h.op
          /\ [h EXCEPT !.pc = "service"].of = h.of
      BY DEF HttpRequests
    <3> QED
      BY <1>1, <1>2, <2>1, <3>1, <3>2
  <2>4. QED
    BY <1>2, <2>2, <2>3
<1>3. \A n \in Writers : CheckToken(n) \subseteq Users
  BY DEF TypeOK, CheckToken, Sessions
<1>4. ASSUME NEW op \in Ops \ ofUser, NEW e \in Emails \union {Nil}, NEW n \in Writers
      PROVE  /\ [NewRequest EXCEPT !.op = op, !.email = e, !.secret = n] \in HttpRequests
             /\ [NewRequest EXCEPT !.op = op, !.email = e, !.secret = n].op = op
             /\ [NewRequest EXCEPT !.op = op, !.email = e] \in HttpRequests
             /\ [NewRequest EXCEPT !.op = op, !.email = e].op = op
             /\ [NewRequest EXCEPT !.op = op, !.secret = n] \in HttpRequests
             /\ [NewRequest EXCEPT !.op = op, !.secret = n].op = op
  BY NewRequestType DEF HttpRequests
<1>5. ASSUME NEW op \in ofUser, NEW u \in Users
      PROVE  /\ [NewRequest EXCEPT !.op = op, !.of = u] \in HttpRequests
             /\ [NewRequest EXCEPT !.op = op, !.of = u].of = u
  BY NewRequestType DEF HttpRequests, Ops
<1>6. Seed \in Writers /\ {"signUp", "createCustomer", "signIn", "forgotPassword",
                           "updatePassword", "verify"} \subseteq Ops \ ofUser
  BY DEF Writers, Ops
<1>7. CASE PostSignUp(r) \/ PostCustomer(r) \/ PostForgotPassword(r)
  BY <1>2, <1>4, <1>6, <1>7, ZenonT(60) DEF PostSignUp, PostCustomer, PostForgotPassword
<1>8. CASE PostSignIn(r)
  BY <1>2, <1>4, <1>6, <1>8 DEF PostSignIn
<1>9. CASE PutUpdatePassword(r) \/ GetVerifyAccount(r)
  BY <1>2, <1>4, <1>6, <1>9 DEF PutUpdatePassword, GetVerifyAccount
<1>10. CASE PutCustomer(r) \/ PutProfile(r) \/ DeleteCustomerByID(r)
  BY <1>2, <1>3, <1>5, <1>10 DEF PutCustomer, PutProfile, DeleteCustomerByID
<1>11. CASE RoleByID(r)
  <2> DEFINE h == [NewRequest EXCEPT !.pc = "done", !.code = "refused"]
  <2>1. h \in HttpRequests /\ h.pc = "done"
    BY NewRequestType DEF HttpRequests, Pcs, Codes
  <2>2. Begin(r, h)
    BY <1>11 DEF RoleByID, Refuse
  <2> HIDE DEF h
  <2>3. QED
    BY <1>1, <2>1, <2>2
<1>12. QED
  BY <1>7, <1>8, <1>9, <1>10, <1>11 DEF Receive

LEMMA AnswerMoves ==
  ASSUME HttpType, NEW r \in Requests, http[r].pc # "done", NEW code \in Codes, NEW did \in BOOLEAN,
         Answer(r, code, did) \/ Return(r, code, did)
  PROVE  Moved(r)
  BY AnswerFrame, ReturnFrame DEF Moved, Ends

LEMMA ProceedMoves ==
  ASSUME TypeOK, RequestsInv, NEW r \in Requests, Proceed(r) \/ CallFails(r)
  PROVE  Moved(r) \/ Exit
<1>0. HttpType /\ http[r] \in HttpRequests /\ RequestOK(r) /\ {"ok", "refused", "notfound", "error"} \subseteq Codes
      /\ err \in Codes
  BY DEF RequestsInv, HttpType, Codes, TypeOK
<1> USE <1>0
<1>1. CASE CheckBind(r)
  <2>1. CASE err = "ok"
    <3> DEFINE h == [http[r] EXCEPT !.pc = "service"]
    <3>1. h \in HttpRequests /\ h.pc = "service" /\ h.op = http[r].op /\ h.of = http[r].of
      BY DEF HttpRequests, Pcs
    <3>2. http' = [http EXCEPT ![r] = h] /\ http[r].pc = "bound"
      BY <1>1, <2>1 DEF CheckBind, HttpType
    <3> HIDE DEF h
    <3>3. QED
      BY <3>1, <3>2 DEF Moved, Waits, HttpType, OthersWait, RequestOK
  <2>2. CASE err # "ok"
    BY <1>1, <2>2, AnswerMoves DEF CheckBind
  <2>3. QED
    BY <2>1, <2>2
<1>2. CASE AssignErr(r)
  <2> DEFINE h == [http[r] EXCEPT !.pc = "assigned"]
  <2>1. h \in HttpRequests /\ h.pc = "assigned"
    BY DEF HttpRequests, Pcs
  <2>2. http' = [http EXCEPT ![r] = h] /\ http[r].pc = "returned"
    BY <1>2 DEF AssignErr, HttpType
  <2> HIDE DEF h
  <2>3. QED
    BY <2>1, <2>2 DEF Moved, Ends, HttpType, OthersWait
<1>3. CASE TestErr(r)
  <2>1. Exit \/ (Answer(r, err, http[r].did) /\ http[r].pc # "done" /\ http[r].did \in BOOLEAN)
    BY <1>3 DEF TestErr, HttpRequests
  <2>2. QED
    BY <2>1, AnswerMoves
<1>4. CASE CreateUserAccount(r) \/ CreateCustomer(r)
  <2>1. http[r].pc # "done" /\ (Return(r, "error", FALSE) \/ Return(r, "ok", TRUE))
    BY <1>4 DEF CreateUserAccount, CreateCustomer, Insert
  <2>2. QED
    BY <2>1, AnswerMoves
<1>5. CASE SignIn(r)
  <2>1. http[r].pc # "done"
        /\ (Answer(r, "notfound", FALSE) \/ Answer(r, "ok", TRUE) \/ Answer(r, "error", FALSE))
    BY <1>5 DEF SignIn
  <2>2. QED
    BY <2>1, AnswerMoves
<1>6. CASE ForgotPassword(r)
  <2>1. CASE Return(r, "notfound", FALSE) \/ Answer(r, "error", FALSE)
    BY <1>6, <2>1, AnswerMoves DEF ForgotPassword
  <2>2. ASSUME NEW u \in GetUserByEmail(http[r].email),
               http' = [http EXCEPT ![r].pc = "save", ![r].of = u], OnUser(r, u)
        PROVE  Moved(r)
    <3> DEFINE h == [http[r] EXCEPT !.pc = "save", !.of = u]
    <3>1. u \in Users /\ Live(u)
      BY <2>2 DEF GetUserByEmail
    <3>2. h \in HttpRequests /\ h.pc = "save" /\ h.of = u /\ h.op = http[r].op
      BY <3>1 DEF HttpRequests, Pcs
    <3>3. http' = [http EXCEPT ![r] = h] /\ http[r].op = "forgotPassword" /\ http[r].pc = "service"
          /\ user' = user
      BY <1>6, <2>2 DEF ForgotPassword, HttpType, database
    <3> HIDE DEF h
    <3>4. QED
      BY <2>2, <3>1, <3>2, <3>3 DEF Moved, Reads, HttpType, OthersWait, Rewriters
  <2>3. QED
    BY <1>6, <2>1, <2>2 DEF ForgotPassword
<1>7. CASE UpdatePassword(r) \/ VerifyToken(r)
  <2>1. ASSUME NEW t \in tokens, Load(r, t.of)
        PROVE  Moved(r)
    <3>1. t.of \in Users
      BY <2>1 DEF TypeOK, Tokens
    <3>2. QED
      BY <1>7, <2>1, <3>1, LoadMoves DEF UpdatePassword, VerifyToken, database
  <2>2. Return(r, "refused", FALSE) \/ \E t \in tokens : Load(r, t.of)
    BY <1>7 DEF UpdatePassword, VerifyToken, GetDataByToken
  <2>3. QED
    BY <1>7, <2>1, <2>2, AnswerMoves DEF UpdatePassword, VerifyToken
<1>8. CASE UpdateDataUser(r)
  <2>1. http[r].of \in Users /\ http[r].pc = "service" /\ user' = user
    BY <1>8 DEF UpdateDataUser, RequestOK, database
  <2>2. Load(r, http[r].of) \/ Return(r, "notfound", FALSE)
    BY <1>8 DEF UpdateDataUser
  <2>3. QED
    BY <2>1, <2>2, LoadMoves, AnswerMoves
<1>9. CASE CreateVerificationToken(r) \/ UpdatePasswordByID(r) \/ StoreSession(r) \/ UpdateColumns(r)
           \/ DeleteCustomer(r)
  <2>1. http[r].pc # "done" /\ (Return(r, "error", FALSE) \/ Return(r, "ok", TRUE) \/ Return(r, "notfound", FALSE))
    BY <1>9 DEF CreateVerificationToken, UpdatePasswordByID, StoreSession, UpdateColumns,
                DeleteCustomer
  <2>2. QED
    BY <2>1, AnswerMoves
<1>10. CASE UpdateUserVerified(r)
  <2>1. CASE Return(r, "error", FALSE) \/ Return(r, "error", TRUE)
    BY <1>10, <2>1, AnswerMoves DEF UpdateUserVerified
  <2>2. ASSUME http' = [http EXCEPT ![r].pc = "session", ![r].row = NoRow],
               user' = [user EXCEPT ![http[r].of] = [http[r].row EXCEPT !.verified = TRUE]]
        PROVE  Moved(r)
    <3> DEFINE h == [http[r] EXCEPT !.pc = "session", !.row = NoRow]
    <3>1. h \in HttpRequests /\ h.pc = "session" /\ h.of = http[r].of /\ h.op = http[r].op
      BY NewRequestType DEF HttpRequests, Pcs
    <3>2. http' = [http EXCEPT ![r] = h] /\ http[r].op = "verify" /\ http[r].pc = "save"
      BY <1>10, <2>2 DEF UpdateUserVerified, HttpType
    <3>3. http[r].row.state = "live" /\ http[r].of \in Users /\ http[r].row \in Rows
      BY <3>2 DEF RequestOK, Reader, Rewriters, HttpRequests
    <3>4. user'[http[r].of].state # "none"
      BY <2>2, <3>3 DEF TypeOK, Rows
    <3> HIDE DEF h
    <3>5. QED
      BY <3>1, <3>2, <3>4 DEF Moved, Stores, HttpType, OthersWait, Reader
  <2>3. QED
    BY <1>10, <2>1, <2>2 DEF UpdateUserVerified
<1>11. CASE CallFails(r)
  <2>1. http[r].pc # "done" /\ Return(r, "error", http[r].pc = "session")
    BY <1>11 DEF CallFails
  <2>2. QED
    BY <2>1, AnswerMoves
<1>12. CASE CreateCustomerWithoutRole(r)
  BY <1>12 DEF CreateCustomerWithoutRole
<1>13. QED
  BY <1>1, <1>2, <1>3, <1>4, <1>5, <1>6, <1>7, <1>8, <1>9, <1>10, <1>11, <1>12 DEF Proceed

\* In every step one request moves, or all that are in flight end, or none does anything.
LEMMA NextMoves ==
  ASSUME TypeOK, RequestsInv, [Next]_vars
  PROVE  /\ HttpType'
         /\ \/ \E r \in Requests : Moved(r) /\ (Receive(r) \/ Proceed(r) \/ CallFails(r))
            \/ Exit
            \/ http' = http
<1>0. HttpType
  BY DEF RequestsInv, HttpType
<1>1. ASSUME NEW r \in Requests, Receive(r) \/ Proceed(r) \/ CallFails(r)
      PROVE  (Moved(r) /\ (Receive(r) \/ Proceed(r) \/ CallFails(r))) \/ Exit
  BY <1>0, <1>1, ReceiveMoves, ProceedMoves
<1>2. ASSUME http' = http
      PROVE  HttpType'
  BY <1>0, <1>2 DEF HttpType
<1>3. \/ \E r \in Requests : Receive(r) \/ Proceed(r) \/ CallFails(r)
      \/ Exit
      \/ http' = http
  BY DEF Next, Crash, TokenExpires, SessionExpires, vars
<1>4. QED
  BY <1>0, <1>1, <1>2, <1>3, ExitFrame DEF Moved

\* A request that is over stays so.
LEMMA DoneStays ==
  ASSUME TypeOK, RequestsInv, [Next]_vars, NEW r \in Requests, http[r].pc = "done"
  PROVE  http'[r] = http[r]
<1>1. ASSUME NEW q \in Requests, Moved(q)
      PROVE  http'[r] = http[r]
  BY <1>1 DEF Moved, OthersWait
<1>2. ASSUME Exit
      PROVE  http'[r] = http[r]
  BY <1>2 DEF Exit, InFlight
<1>3. QED
  BY <1>1, <1>2, NextMoves

\* Nobody forgets that two requests overlapped on a user.
LEMMA RacedGrows ==
  ASSUME [Next]_vars
  PROVE  raced \subseteq raced'
<1>1. ASSUME NEW r, NEW u, OnUser(r, u)
      PROVE  raced \subseteq raced'
  BY <1>1 DEF OnUser
<1>2. ASSUME NEW r, NEW u, Load(r, u)
      PROVE  raced \subseteq raced'
  BY <1>1, <1>2 DEF Load
<1>3. ASSUME NEW r, Receive(r)
      PROVE  raced \subseteq raced'
  BY <1>3
     DEF Receive, PostSignUp, PostCustomer, PostForgotPassword, PostSignIn, PutUpdatePassword,
         GetVerifyAccount, PutCustomer, PutProfile, DeleteCustomerByID, RoleByID, Refuse, Bind, Start
<1>4. ASSUME NEW r, Proceed(r) \/ CallFails(r)
      PROVE  raced \subseteq raced'
  <2>1. CASE ForgotPassword(r) \/ UpdatePassword(r) \/ VerifyToken(r) \/ UpdateDataUser(r)
             \/ DeleteCustomer(r)
    BY <1>1, <1>2, <2>1
       DEF ForgotPassword, UpdatePassword, VerifyToken, UpdateDataUser, DeleteCustomer
  <2>2. QED
    BY <1>4, <2>1
       DEF Proceed, CallFails, CheckBind, AssignErr, TestErr, Exit, CreateUserAccount,
           CreateCustomer, CreateCustomerWithoutRole, SignIn, CreateVerificationToken,
           UpdatePasswordByID, UpdateUserVerified, StoreSession, UpdateColumns
<1>5. QED
  BY <1>3, <1>4 DEF Next, Crash, Exit, TokenExpires, SessionExpires, vars

LEMMA NextOverlapInv == AccountsInv /\ [Next]_vars => OverlapInv'
<1> SUFFICES ASSUME AccountsInv, [Next]_vars, NEW q \in Requests, NEW r \in Requests, q # r
             PROVE  Overlap(q, r)'
  BY DEF OverlapInv
<1>0. TypeOK /\ RequestsInv /\ Overlap(q, r) /\ raced \subseteq raced'
  BY RacedGrows DEF AccountsInv, OverlapInv
\* One of the two reads the user now: it sees the other one.
<1>1. ASSUME NEW a \in Requests, NEW b \in Requests, a # b, Moved(a),
             Reader(a)', Reader(b)', http'[a].of = http'[b].of,
             Reader(a) /\ Reader(b) /\ http[a].of = http[b].of => http[a].of \in raced
      PROVE  http'[a].of \in raced'
  <2>1. http'[b] = http[b] /\ Reader(b)
    BY <1>1 DEF Moved, OthersWait, Reader
  <2>2. CASE Reads(a)
    <3>1. b \in InFlight \ {a} /\ http[b].of = http'[a].of
      BY <1>1, <2>1 DEF InFlight, Reader
    <3>2. QED
      BY <2>2, <3>1 DEF Reads, OnUser
  <2>3. CASE Stores(a)
    BY <1>0, <1>1, <2>1, <2>3 DEF Stores
  <2>4. QED
    BY <1>1, <2>2, <2>3 DEF Moved, Waits, Ends, Reader
<1>2. ASSUME NEW a \in Requests, Moved(a)
      PROVE  Overlap(q, r)'
  <2>1. CASE a = q
    BY <1>0, <1>1, <1>2, <2>1 DEF Overlap
  <2>2. CASE a = r
    BY <1>0, <1>1, <1>2, <2>2 DEF Overlap
  <2>3. CASE a # q /\ a # r
    BY <1>0, <1>2, <2>3 DEF Moved, OthersWait, Overlap, Reader
  <2>4. QED
    BY <2>1, <2>2, <2>3
<1>3. ASSUME Exit
      PROVE  Overlap(q, r)'
  <2>1. HttpType /\ (Reader(q)' => http'[q] = http[q]) /\ (Reader(r)' => http'[r] = http[r])
    BY <1>0, <1>3, ExitFrame DEF RequestsInv, HttpType, Reader
  <2>2. QED
    BY <1>0, <2>1 DEF Overlap, Reader
<1>4. ASSUME http' = http
      PROVE  Overlap(q, r)'
  BY <1>0, <1>4 DEF Overlap, Reader
<1>5. QED
  BY <1>0, <1>2, <1>3, <1>4, NextMoves

-----------------------------------------------------------------------------
(* Type correctness.                                                       *)

\* The tables and what is kept outside them.
TablesType ==
  /\ user \in [Users -> Rows] /\ intended \in [Users -> Rows]
  /\ tokens \subseteq Tokens /\ mails \subseteq Mails

RestType ==
  /\ sessions \subseteq Sessions /\ err \in Codes
  /\ mixed \subseteq Requests /\ raced \subseteq Users /\ faults \in 0 .. MaxFaults

LEMMA TypesTogether == HttpType /\ TablesType /\ RestType => TypeOK
<1>1. ASSUME HttpType
      PROVE  \A r \in Requests :
               /\ http[r].pc \in Pcs /\ http[r].op \in Ops /\ http[r].code \in Codes
               /\ http[r].result \in Codes
               /\ http[r].of \in Users \union {Nil} /\ http[r].email \in Emails \union {Nil}
               /\ http[r].secret \in Writers /\ http[r].row \in Rows /\ http[r].did \in BOOLEAN
  BY <1>1 DEF HttpType, HttpRequests
<1>2. QED
  BY <1>1 DEF TablesType, RestType, TypeOK

LEMMA TypesApart == TypeOK => TablesType /\ RestType
  BY DEF TypeOK, TablesType, RestType

\* The rows of a sign-up or a new customer.
LEMMA InsertType ==
  ASSUME TypeOK, HttpType, NEW r \in Requests, http[r].op \in {"signUp", "createCustomer"},
         http[r].email \in Emails \union {Nil}, NEW verified \in BOOLEAN, Insert(r, verified)
  PROVE  TablesType'
<1>1. CASE UNCHANGED <<user, mails, tokens, intended>>
  BY <1>1, TypesApart DEF TablesType
<1>2. ASSUME NEW u \in Users, NEW row \in Rows, user' = [user EXCEPT ![u] = row],
             intended' = [intended EXCEPT ![u] = row],
             tokens' \in {tokens, tokens \union {Token(r, u, "email_verification")}},
             mails' \in {mails \union {Mail(r, u, "create_customer")},
                         mails \union {Mail(r, u, "email_verification")}}
      PROVE  TablesType'
  <2>1. user' \in [Users -> Rows] /\ intended' \in [Users -> Rows]
    BY <1>2 DEF TypeOK
  <2>2. /\ Token(r, u, "email_verification") \in Tokens
        /\ Mail(r, u, "create_customer") \in Mails /\ Mail(r, u, "email_verification") \in Mails
    BY DEF Token, Mail, Tokens, Mails, Types, Writers
  <2>3. QED
    BY <1>2, <2>1, <2>2 DEF TypeOK, TablesType
<1>3. [state |-> "live", email |-> http[r].email, password |-> r, profile |-> r,
       verified |-> verified, role |-> TRUE] \in Rows
  BY DEF Rows, States, Writers
<1>4. QED
  BY <1>1, <1>2, <1>3 DEF Insert

\* The steps that write to the tables of users, tokens and e-mails.
LEMMA DatabaseWriters ==
  ASSUME [Next]_vars
  PROVE  \/ UNCHANGED database
         \/ \E r \in Requests :
              \/ CreateUserAccount(r) \/ CreateCustomer(r) \/ CreateVerificationToken(r)
              \/ UpdatePasswordByID(r) \/ UpdateUserVerified(r) \/ UpdateColumns(r)
              \/ DeleteCustomer(r)
         \/ \E t \in tokens : TokenExpires(t)
<1>1. ASSUME NEW r \in Requests, Receive(r)
      PROVE  UNCHANGED database
  BY <1>1
     DEF Receive, PostSignUp, PostCustomer, PostForgotPassword, PostSignIn, PutUpdatePassword,
         GetVerifyAccount, PutCustomer, PutProfile, DeleteCustomerByID, RoleByID, Refuse, Bind, Start
<1>2. ASSUME NEW r \in Requests,
             \/ CheckBind(r) \/ AssignErr(r) \/ TestErr(r) \/ CreateCustomerWithoutRole(r)
             \/ SignIn(r) \/ ForgotPassword(r) \/ UpdatePassword(r) \/ VerifyToken(r)
             \/ UpdateDataUser(r) \/ StoreSession(r) \/ CallFails(r)
      PROVE  UNCHANGED database
  BY <1>2
     DEF CheckBind, AssignErr, TestErr, CreateCustomerWithoutRole, Exit, SignIn, ForgotPassword,
         UpdatePassword, VerifyToken, UpdateDataUser, StoreSession, CallFails
<1>3. ASSUME Crash \/ (\E s \in sessions : SessionExpires(s)) \/ UNCHANGED vars
      PROVE  UNCHANGED database
  BY <1>3 DEF Crash, Exit, SessionExpires, vars, database
<1>4. QED
  BY <1>1, <1>2, <1>3 DEF Next, Proceed

LEMMA NextTablesType == AccountsInv /\ [Next]_vars => TablesType'
<1> SUFFICES ASSUME AccountsInv, [Next]_vars
             PROVE  TablesType'
  OBVIOUS
<1>0. TypeOK /\ TablesType /\ HttpType /\ \A r \in Requests : http[r] \in HttpRequests /\ RequestOK(r)
  BY TypesApart DEF AccountsInv, RequestsInv, HttpType
<1> USE <1>0
<1>1. ASSUME NEW r \in Requests, CreateUserAccount(r) \/ CreateCustomer(r)
      PROVE  TablesType'
  BY <1>1, InsertType DEF CreateUserAccount, CreateCustomer, HttpRequests
<1>2. ASSUME NEW r \in Requests, CreateVerificationToken(r)
      PROVE  TablesType'
  <2>1. http[r].of \in Users
    BY <1>2 DEF CreateVerificationToken, RequestOK, Reader
  <2>2. /\ Token(r, http[r].of, "reset_password") \in Tokens
        /\ Mail(r, http[r].of, "reset_password") \in Mails
    BY <2>1 DEF Token, Mail, Tokens, Mails, Types, Writers
  <2>3. QED
    BY <1>2, <2>2 DEF CreateVerificationToken, TablesType
<1>3. ASSUME NEW r \in Requests, UpdatePasswordByID(r) \/ UpdateUserVerified(r) \/ UpdateColumns(r)
      PROVE  TablesType'
  <2>1. http[r].of \in Users /\ http[r].row \in Rows /\ r \in Writers
    BY <1>3 DEF UpdatePasswordByID, UpdateUserVerified, UpdateColumns, RequestOK, Reader,
                HttpRequests, Writers
  <2>2. \A u \in Users : user[u] \in Rows /\ intended[u] \in Rows
    BY DEF TablesType
  <2>3. user' \in [Users -> Rows]
    <3>1. ASSUME NEW x \in Rows, user' = [user EXCEPT ![http[r].of] = x]
          PROVE  user' \in [Users -> Rows]
      BY <2>1, <3>1 DEF TablesType
    <3>2. CASE UpdatePasswordByID(r)
      <4>1. [http[r].row EXCEPT !.password = r,
                                !.role = Live(http[r].of) /\ user[http[r].of].role] \in Rows
        BY <2>1, <2>2 DEF Rows
      <4>2. QED
        BY <3>1, <3>2, <4>1 DEF UpdatePasswordByID, TablesType
    <3>3. CASE UpdateUserVerified(r)
      <4>1. [http[r].row EXCEPT !.verified = TRUE] \in Rows
        BY <2>1 DEF Rows
      <4>2. QED
        BY <3>1, <3>3, <4>1 DEF UpdateUserVerified, TablesType
    <3>4. CASE UpdateColumns(r)
      <4>1. [http[r].row EXCEPT !.profile = r, !.role = user[http[r].of].role] \in Rows
        BY <2>1, <2>2 DEF Rows
      <4>2. QED
        BY <3>1, <3>4, <4>1 DEF UpdateColumns, TablesType
    <3>5. QED
      BY <1>3, <3>2, <3>3, <3>4
  <2>4. intended' \in [Users -> Rows]
    <3>1. ASSUME NEW x \in Rows, intended' = [intended EXCEPT ![http[r].of] = x]
          PROVE  intended' \in [Users -> Rows]
      BY <2>1, <3>1 DEF TablesType
    <3> DEFINE i == intended[http[r].of]
    <3>2. [i EXCEPT !.password = r] \in Rows /\ [i EXCEPT !.verified = TRUE] \in Rows
          /\ [i EXCEPT !.profile = r] \in Rows
      BY <2>1, <2>2 DEF Rows
    <3>3. \/ intended' = intended
          \/ intended' = [intended EXCEPT ![http[r].of] = [i EXCEPT !.password = r]]
          \/ intended' = [intended EXCEPT ![http[r].of] = [i EXCEPT !.verified = TRUE]]
          \/ intended' = [intended EXCEPT ![http[r].of] = [i EXCEPT !.profile = r]]
      BY <1>3, <2>1 DEF UpdatePasswordByID, UpdateUserVerified, UpdateColumns, TablesType
    <3> HIDE DEF i
    <3>4. QED
      BY <3>1, <3>2, <3>3 DEF TablesType
  <2>5. QED
    BY <1>3, <2>3, <2>4 DEF UpdatePasswordByID, UpdateUserVerified, UpdateColumns, TablesType
<1>4. ASSUME NEW r \in Requests, DeleteCustomer(r)
      PROVE  TablesType'
  <2>1. [NoRow EXCEPT !.state = "deleted"] \in Rows /\ http[r].of \in Users
    BY <1>4, NewRequestType DEF Rows, States, DeleteCustomer, RequestOK
  <2>2. CASE ~Live(http[r].of)
    BY <1>4, <2>2 DEF DeleteCustomer, TablesType
  <2>3. CASE Live(http[r].of)
    BY <1>4, <2>1, <2>3 DEF DeleteCustomer, TablesType
  <2>4. QED
    BY <2>2, <2>3
<1>5. ASSUME NEW t \in tokens, TokenExpires(t)
      PROVE  TablesType'
  <2>1. [t EXCEPT !.expired = TRUE] \in Tokens
    BY DEF TablesType, Tokens
  <2>2. QED
    BY <1>5, <2>1 DEF TokenExpires, TablesType
<1>6. ASSUME UNCHANGED database
      PROVE  TablesType'
  BY <1>6 DEF database, TablesType
<1>7. QED
  BY <1>1, <1>2, <1>3, <1>4, <1>5, <1>6, DatabaseWriters

\* The session of a verified user with a role, under the JWT that r is answered.
LEMMA SignInStores ==
  ASSUME NEW r \in Requests, SignIn(r)
  PROVE  \/ sessions' = sessions
         \/ \E u \in Users : /\ Live(u) /\ user[u].verified /\ user[u].role
                             /\ sessions' = sessions \union
                                  {[key |-> [kind |-> "jwt", name |-> r], of |-> u]}
                             /\ Answer(r, "ok", TRUE)
<1>1. ASSUME NEW u \in GetUserByEmail(http[r].email)
      PROVE  u \in Users /\ Live(u) /\ user[u].verified
  BY <1>1 DEF GetUserByEmail
<1> DEFINE S(u) == [key |-> [kind |-> "jwt", name |-> r], of |-> u]
<1>2. \/ sessions' = sessions
      \/ \E u \in GetUserByEmail(http[r].email) :
           user[u].role /\ sessions' = sessions \union {S(u)} /\ Answer(r, "ok", TRUE)
  BY DEF SignIn
<1> HIDE DEF S
<1>3. \/ sessions' = sessions
      \/ \E u \in Users : /\ Live(u) /\ user[u].verified /\ user[u].role
                          /\ sessions' = sessions \union {S(u)} /\ Answer(r, "ok", TRUE)
  BY <1>1, <1>2
<1>4. QED
  BY <1>3 DEF S

LEMMA NextRestType == AccountsInv /\ [Next]_vars => RestType'
<1> SUFFICES ASSUME AccountsInv, [Next]_vars
             PROVE  RestType'
  OBVIOUS
<1>0. TypeOK /\ RestType /\ HttpType /\ HttpType'
      /\ \A r \in Requests : http[r] \in HttpRequests /\ RequestOK(r)
  BY TypesApart, NextMoves DEF AccountsInv, RequestsInv, HttpType
<1> USE <1>0, AccountsAssumption
<1>1. sessions' \subseteq Sessions
  <2>1. ASSUME NEW r \in Requests, SignIn(r)
        PROVE  sessions' \subseteq Sessions
    <3>1. ASSUME NEW u \in Users
          PROVE  [key |-> [kind |-> "jwt", name |-> r], of |-> u] \in Sessions
      BY DEF Sessions, Writers
    <3>2. QED
      BY <2>1, <3>1, SignInStores, ZenonT(60) DEF RestType
  <2>2. ASSUME NEW r \in Requests, StoreSession(r)
        PROVE  sessions' \subseteq Sessions
    <3>1. http[r].of \in Users /\ http[r].secret \in Writers
      BY <2>2 DEF StoreSession, RequestOK, Reader, HttpRequests
    <3>2. [key |-> [kind |-> "mailed", name |-> http[r].secret], of |-> http[r].of] \in Sessions
      BY <3>1 DEF Sessions
    <3>3. QED
      BY <2>2, <3>2 DEF StoreSession, RestType
  <2>3. ASSUME NEW s \in sessions, SessionExpires(s)
        PROVE  sessions' \subseteq Sessions
    BY <2>3 DEF SessionExpires, RestType
  <2>4. ASSUME NEW r \in Requests, Receive(r)
        PROVE  sessions' = sessions
    BY <2>4
       DEF Receive, PostSignUp, PostCustomer, PostForgotPassword, PostSignIn, PutUpdatePassword,
           GetVerifyAccount, PutCustomer, PutProfile, DeleteCustomerByID, RoleByID, Refuse, Bind, Start
  <2>5. QED
    BY <2>1, <2>2, <2>3, <2>4
       DEF Next, Proceed, vars, RestType, CheckBind, AssignErr, TestErr, Exit, CreateUserAccount,
           CreateCustomer, CreateCustomerWithoutRole, ForgotPassword, CreateVerificationToken,
           UpdatePassword, VerifyToken, UpdateDataUser, UpdatePasswordByID, UpdateUserVerified,
           UpdateColumns, DeleteCustomer, CallFails, Crash, TokenExpires
<1>2. err' \in Codes /\ mixed' \subseteq Requests
  <2>1. ASSUME NEW r \in Requests, NEW h, Begin(r, h)
        PROVE  mixed' \subseteq Requests
    BY <2>1 DEF Begin, InFlight, RestType
  <2>2. ASSUME NEW r \in Requests, NEW h, Bind(r, h) \/ Start(r, h)
        PROVE  err' \in Codes /\ mixed' \subseteq Requests
    BY <2>1, <2>2 DEF Bind, Start, Codes, RestType
  <2>3. ASSUME NEW r \in Requests, Receive(r)
        PROVE  err' \in Codes /\ mixed' \subseteq Requests
    BY <2>1, <2>2, <2>3
       DEF Receive, PostSignUp, PostCustomer, PostForgotPassword, PostSignIn, PutUpdatePassword,
           GetVerifyAccount, PutCustomer, PutProfile, DeleteCustomerByID, RoleByID, Refuse, RestType
  <2>4. ASSUME NEW r \in Requests, AssignErr(r)
        PROVE  err' \in Codes /\ mixed' \subseteq Requests
    BY <2>4 DEF AssignErr, RestType, HttpRequests
  <2>5. ASSUME Exit
        PROVE  err' \in Codes /\ mixed' \subseteq Requests
    BY <2>5 DEF Exit, Codes, RestType
  <2>6. QED
    BY <2>3, <2>4, <2>5
       DEF Next, Proceed, vars, RestType, CheckBind, TestErr, CreateUserAccount,
           CreateCustomer, CreateCustomerWithoutRole, SignIn, ForgotPassword,
           CreateVerificationToken, UpdatePassword, VerifyToken, UpdateDataUser,
           UpdatePasswordByID, UpdateUserVerified, StoreSession, UpdateColumns, DeleteCustomer,
           CallFails, Crash, TokenExpires, SessionExpires
<1>3. raced' \subseteq Users
  <2>1. ASSUME NEW r \in Requests, NEW u \in Users, OnUser(r, u) \/ Load(r, u)
        PROVE  raced' \subseteq Users
    BY <2>1 DEF OnUser, Load, RestType
  <2>2. ASSUME NEW r \in Requests, ForgotPassword(r)
        PROVE  raced' \subseteq Users
    BY <2>1, <2>2 DEF ForgotPassword, GetUserByEmail, RestType
  <2>3. ASSUME NEW r \in Requests, UpdatePassword(r) \/ VerifyToken(r)
        PROVE  raced' \subseteq Users
    <3>1. \A t \in tokens : t.of \in Users
      BY DEF TypeOK, Tokens
    <3>2. UNCHANGED raced \/ \E t \in tokens : Load(r, t.of)
      BY <2>3 DEF UpdatePassword, VerifyToken, GetDataByToken
    <3>3. QED
      BY <2>1, <3>1, <3>2 DEF RestType
  <2>4. ASSUME NEW r \in Requests, UpdateDataUser(r)
        PROVE  raced' \subseteq Users
    <3>1. http[r].of \in Users
      BY <2>4 DEF UpdateDataUser, RequestOK
    <3>2. UNCHANGED raced \/ Load(r, http[r].of)
      BY <2>4 DEF UpdateDataUser
    <3>3. QED
      BY <2>1, <3>1, <3>2 DEF RestType
  <2>5. ASSUME NEW r \in Requests, DeleteCustomer(r)
        PROVE  raced' \subseteq Users
    BY <2>1, <2>5 DEF DeleteCustomer, RequestOK, RestType
  <2>6. ASSUME NEW r \in Requests, Receive(r)
        PROVE  raced' = raced
    BY <2>6
       DEF Receive, PostSignUp, PostCustomer, PostForgotPassword, PostSignIn, PutUpdatePassword,
           GetVerifyAccount, PutCustomer, PutProfile, DeleteCustomerByID, RoleByID, Refuse, Bind, Start
  <2>7. QED
    BY <2>2, <2>3, <2>4, <2>5, <2>6
       DEF Next, Proceed, vars, RestType, CheckBind, AssignErr, TestErr, Exit, CreateUserAccount,
           CreateCustomer, CreateCustomerWithoutRole, SignIn, CreateVerificationToken,
           UpdatePasswordByID, UpdateUserVerified, StoreSession, UpdateColumns, CallFails, Crash,
           TokenExpires, SessionExpires
<1>4. faults' \in 0 .. MaxFaults
  <2>1. ASSUME NEW r \in Requests, Receive(r) \/ Proceed(r)
        PROVE  faults' = faults
    BY <2>1
       DEF Receive, PostSignUp, PostCustomer, PostForgotPassword, PostSignIn, PutUpdatePassword,
           GetVerifyAccount, PutCustomer, PutProfile, DeleteCustomerByID, RoleByID, Refuse, Bind,
           Start, Proceed, CheckBind, AssignErr, TestErr, CreateUserAccount, CreateCustomer,
           CreateCustomerWithoutRole, SignIn, ForgotPassword, CreateVerificationToken,
           UpdatePassword, VerifyToken, UpdateDataUser, UpdatePasswordByID, UpdateUserVerified,
           StoreSession, UpdateColumns, DeleteCustomer
  <2>2. faults' = faults \/ (faults < MaxFaults /\ faults' = faults + 1)
    BY <2>1 DEF Next, CallFails, Crash, TokenExpires, SessionExpires, vars
  <2>3. QED
    BY <2>2 DEF RestType
<1>5. QED
  BY <1>1, <1>2, <1>3, <1>4 DEF RestType

LEMMA NextTypeOK == AccountsInv /\ [Next]_vars => TypeOK' /\ HttpType'
<1> SUFFICES ASSUME AccountsInv, [Next]_vars
             PROVE  TypeOK' /\ HttpType'
  OBVIOUS
<1>1. HttpType' /\ TablesType' /\ RestType'
  BY NextMoves, NextTablesType, NextRestType DEF AccountsInv
<1>2. QED
  BY <1>1, TypesTogether, PTL

-----------------------------------------------------------------------------
(* What a step does to a user: nothing, or it is inserted, deleted by r, or  *)
(* written back by r, which read it before.                                 *)

Same(u)        == user'[u] = user[u] /\ intended'[u] = intended[u]
Inserted(u)    == /\ user[u].state = "none" /\ user'[u] = intended'[u]
                  /\ user'[u].state = "live" /\ user'[u].role
                  /\ \E m \in mails' : m.to = u
Removes(r, u)  == /\ http[r].pc = "service" /\ Live(u) /\ OnUser(r, u)
                  /\ user'[u] = intended'[u] /\ user'[u].state = "deleted"
Rewrites(r, u) == /\ http[r].pc = "save" /\ http[r].of = u /\ user'[u].state # "none"
                  /\ u \notin raced => /\ Live(u) /\ user'[u].state = "live"
                                       /\ user'[u] = intended'[u]
                                       /\ user'[u].role = user[u].role
                                       /\ user[u].verified => user'[u].verified

LEMMA InsertMoves ==
  ASSUME TypeOK, NEW r \in Requests, NEW verified \in BOOLEAN, Insert(r, verified), NEW u \in Users
  PROVE  Same(u) \/ Inserted(u)
<1>1. CASE UNCHANGED <<user, intended>>
  BY <1>1 DEF Same
<1>2. ASSUME NEW v \in Users, user[v].state = "none", NEW row, row.state = "live", row.role = TRUE,
             user' = [user EXCEPT ![v] = row], intended' = [intended EXCEPT ![v] = row],
             NEW type, mails' = mails \union {Mail(r, v, type)}
      PROVE  Same(u) \/ Inserted(u)
  <2>1. Mail(r, v, type) \in mails' /\ Mail(r, v, type).to = v
    BY <1>2 DEF Mail
  <2>2. CASE u = v
    BY <1>2, <2>1, <2>2 DEF Inserted, TypeOK
  <2>3. CASE u # v
    BY <1>2, <2>3 DEF Same, TypeOK
  <2>4. QED
    BY <2>2, <2>3
<1> DEFINE row == [state |-> "live", email |-> http[r].email, password |-> r, profile |-> r,
                   verified |-> verified, role |-> TRUE]
           type == IF verified THEN "create_customer" ELSE "email_verification"
<1>3. row.state = "live" /\ row.role = TRUE
  OBVIOUS
<1>4. UNCHANGED <<user, intended>>
      \/ \E v \in {v \in Users : user[v].state = "none"} :
           /\ user' = [user EXCEPT ![v] = row] /\ intended' = [intended EXCEPT ![v] = row]
           /\ mails' = mails \union {Mail(r, v, type)}
  BY DEF Insert
<1> HIDE DEF row, type
<1>5. QED
  BY <1>1, <1>2, <1>3, <1>4

LEMMA WriterMoves ==
  ASSUME TypeOK, RequestsInv, UsersInv, NEW r \in Requests, NEW u \in Users,
         UpdatePasswordByID(r) \/ UpdateUserVerified(r) \/ UpdateColumns(r)
  PROVE  Same(u) \/ Rewrites(r, u)
<1> DEFINE h == http[r]
<1>0. /\ h.pc = "save" /\ h.of \in Users /\ h.row.state = "live" /\ user[h.of].state # "none"
      /\ h.of \notin raced => h.row = user[h.of] /\ Live(h.of) /\ user[h.of] = intended[h.of]
      /\ h.row \in Rows /\ user[h.of] \in Rows /\ intended[h.of] \in Rows
      /\ user \in [Users -> Rows] /\ intended \in [Users -> Rows]
  <2>1. h.pc = "save" /\ h.op \in Rewriters /\ RequestOK(r) /\ h \in HttpRequests
    BY DEF UpdatePasswordByID, UpdateUserVerified, UpdateColumns, Rewriters, RequestsInv
  <2>2. h.of \in Users
    BY <2>1 DEF RequestOK, Reader
  <2>3. QED
    BY <2>1, <2>2 DEF RequestOK, Reader, UsersInv, UserOK, TypeOK, HttpRequests, Live
<1>1. CASE u # h.of
  BY <1>0, <1>1 DEF UpdatePasswordByID, UpdateUserVerified, UpdateColumns, Same
<1>2. CASE u = h.of /\ UpdatePasswordByID(r)
  <2> DEFINE w == [h.row EXCEPT !.password = r, !.role = Live(h.of) /\ user[h.of].role]
  <2>1. UNCHANGED <<user, intended>>
        \/ (user' = [user EXCEPT ![h.of] = w]
            /\ intended' = [intended EXCEPT ![h.of] = [intended[h.of] EXCEPT !.password = r]])
    BY <1>0, <1>2 DEF UpdatePasswordByID
  <2>2. w.state = h.row.state /\ w.verified = h.row.verified
        /\ (h.row = user[h.of] /\ Live(h.of) => w = [user[h.of] EXCEPT !.password = r]
                                                /\ w.role = user[h.of].role)
    BY <1>0 DEF Rows
  <2> HIDE DEF w
  <2>3. QED
    BY <1>0, <1>2, <2>1, <2>2 DEF Same, Rewrites, Live
<1>3. CASE u = h.of /\ UpdateUserVerified(r)
  <2> DEFINE w == [h.row EXCEPT !.verified = TRUE]
  <2>1. UNCHANGED <<user, intended>>
        \/ (user' = [user EXCEPT ![h.of] = w]
            /\ intended' = [intended EXCEPT ![h.of] = [intended[h.of] EXCEPT !.verified = TRUE]])
    BY <1>0, <1>3 DEF UpdateUserVerified
  <2>2. w.state = h.row.state /\ w.verified = TRUE /\ w.role = h.row.role
    BY <1>0 DEF Rows
  <2>3. h.row = user[h.of] => w = [user[h.of] EXCEPT !.verified = TRUE]
    OBVIOUS
  <2> HIDE DEF w
  <2>4. CASE UNCHANGED <<user, intended>>
    BY <2>4 DEF Same
  <2>5. CASE /\ user' = [user EXCEPT ![h.of] = w]
             /\ intended' = [intended EXCEPT ![h.of] = [intended[h.of] EXCEPT !.verified = TRUE]]
    <3>1. user'[u] = w /\ intended'[u] = [intended[h.of] EXCEPT !.verified = TRUE]
      BY <1>0, <1>3, <2>5
    <3>2. w.state = "live" /\ w.verified
      BY <1>0, <2>2
    <3>3. h.of \notin raced => user'[u] = intended'[u] /\ user'[u].role = user[u].role
      BY <1>0, <1>3, <2>2, <2>3, <3>1
    <3>4. QED
      BY <1>0, <1>3, <3>1, <3>2, <3>3 DEF Rewrites
  <2>6. QED
    BY <2>1, <2>4, <2>5
<1>4. CASE u = h.of /\ UpdateColumns(r)
  <2> DEFINE w == [h.row EXCEPT !.profile = r, !.role = user[h.of].role]
  <2>1. user' = (IF Live(h.of) THEN [user EXCEPT ![h.of] = w] ELSE user)
        /\ intended' = [intended EXCEPT ![h.of] = [intended[h.of] EXCEPT !.profile = r]]
    BY <1>0, <1>4 DEF UpdateColumns
  <2>2. w.state = h.row.state /\ w.verified = h.row.verified /\ w.role = user[h.of].role
        /\ (h.row = user[h.of] => w = [user[h.of] EXCEPT !.profile = r])
    BY <1>0 DEF Rows
  <2> HIDE DEF w
  <2>3. CASE Live(h.of)
    BY <1>0, <1>4, <2>1, <2>2, <2>3 DEF Rewrites, Live
  <2>4. CASE ~Live(h.of)
    BY <1>0, <1>4, <2>1, <2>4 DEF Rewrites
  <2>5. QED
    BY <2>3, <2>4
<1>5. QED
  BY <1>1, <1>2, <1>3, <1>4

LEMMA UserMoves ==
  ASSUME AccountsInv, [Next]_vars, NEW u \in Users
  PROVE  \/ Same(u) \/ Inserted(u)
         \/ \E r \in Requests : Moved(r) /\ (Removes(r, u) \/ Rewrites(r, u))
<1>0. TypeOK /\ RequestsInv /\ UsersInv
  BY DEF AccountsInv
<1>1. ASSUME UNCHANGED <<user, intended>>
      PROVE  Same(u)
  BY <1>1 DEF Same
<1>2. ASSUME NEW r \in Requests, CreateUserAccount(r) \/ CreateCustomer(r)
      PROVE  Same(u) \/ Inserted(u)
  BY <1>0, <1>2, InsertMoves DEF CreateUserAccount, CreateCustomer
<1>3. ASSUME NEW r \in Requests, DeleteCustomer(r)
      PROVE  Same(u) \/ Removes(r, u)
  <2>1. http[r].of \in Users /\ [NoRow EXCEPT !.state = "deleted"].state = "deleted"
    BY <1>0, <1>3, NewRequestType DEF DeleteCustomer, RequestsInv, RequestOK, Rows
  <2>2. CASE Live(http[r].of) /\ u = http[r].of
    BY <1>0, <1>3, <2>1, <2>2 DEF DeleteCustomer, Removes, TypeOK
  <2>3. CASE ~Live(http[r].of) \/ u # http[r].of
    BY <1>0, <1>3, <2>1, <2>3 DEF DeleteCustomer, Same, TypeOK
  <2>4. QED
    BY <2>2, <2>3
<1>4. ASSUME NEW r \in Requests, \/ DeleteCustomer(r) \/ UpdatePasswordByID(r)
                                 \/ UpdateUserVerified(r) \/ UpdateColumns(r)
      PROVE  Same(u) \/ (Moved(r) /\ (Removes(r, u) \/ Rewrites(r, u)))
  <2>1. Moved(r) \/ Exit
    BY <1>0, <1>4, ProceedMoves DEF Proceed
  <2>2. Exit => UNCHANGED <<user, intended>>
    BY DEF Exit, database
  <2>3. QED
    BY <1>0, <1>1, <1>3, <1>4, <2>1, <2>2, WriterMoves
<1>5. QED
  BY <1>1, <1>2, <1>4, DatabaseWriters DEF database, CreateVerificationToken, TokenExpires

\* An id that was given to a user is never free again.
LEMMA IdsAreUsedOnce ==
  ASSUME AccountsInv, [Next]_vars, NEW u \in Users, user[u].state # "none"
  PROVE  user'[u].state # "none"
  BY UserMoves DEF Same, Inserted, Removes, Rewrites

\* The row that a request holds stays the row of the table, unless somebody else got in between
\* and the user counts as raced.
LEMMA NextRequestsInv == AccountsInv /\ [Next]_vars => RequestsInv'
<1> SUFFICES ASSUME AccountsInv, [Next]_vars, NEW r \in Requests
             PROVE  RequestOK(r)'
  BY NextTypeOK DEF RequestsInv, HttpType
<1>0. TypeOK /\ RequestsInv /\ RequestOK(r) /\ HttpType /\ raced \subseteq raced'
  BY RacedGrows DEF AccountsInv, RequestsInv, HttpType
\* r stays: its user was not written, or by a request that overlapped with it.
<1>1. ASSUME http'[r] = http[r]
      PROVE  RequestOK(r)'
  <2> DEFINE u == http[r].of
  <2>1. ASSUME Reader(r)
        PROVE  u \in Users /\ user'[u].state # "none"
    BY <1>0, <2>1, IdsAreUsedOnce DEF RequestOK
  <2>2. ASSUME http[r].pc = "save", http[r].op \in Rewriters, u \notin raced'
        PROVE  user'[u] = user[u]
    <3>1. Reader(r) /\ r \in InFlight /\ u \in Users /\ u \notin raced
      BY <1>0, <2>1, <2>2 DEF Reader, InFlight
    <3>2. ~Inserted(u)
      BY <1>0, <3>1 DEF RequestOK, Inserted
    <3>3. ASSUME NEW q \in Requests, Moved(q), Removes(q, u)
          PROVE  FALSE
      <4>1. q # r
        BY <2>2, <3>3 DEF Removes
      <4>2. u \in raced'
        BY <3>1, <3>3, <4>1 DEF Removes, OnUser
      <4>3. QED
        BY <2>2, <4>2
    <3>4. ASSUME NEW q \in Requests, Moved(q), Rewrites(q, u)
          PROVE  user'[u] = user[u]
      <4>1. CASE q = r
        <5>1. Reads(r)
          BY <1>1, <2>2, <3>4, <4>1 DEF Moved, Waits, Ends, Stores
        <5>2. QED
          BY <5>1 DEF Reads
      <4>2. CASE q # r
        <5>1. Overlap(q, r)
          BY <4>2 DEF AccountsInv, OverlapInv
        <5>2. QED
          BY <3>1, <3>4, <5>1 DEF Overlap, Rewrites, Reader
      <4>3. QED
        BY <4>1, <4>2
    <3>5. QED
      BY <3>1, <3>2, <3>3, <3>4, UserMoves DEF Same
  <2> HIDE DEF u
  <2>3. QED
    BY <1>0, <1>1, <2>1, <2>2 DEF RequestOK, Reader, u
<1>2. ASSUME NEW q \in Requests, Moved(q)
      PROVE  RequestOK(r)'
  <2>1. CASE q # r
    BY <1>1, <1>2, <2>1 DEF Moved, OthersWait
  <2>2. CASE q = r /\ (Waits(r) \/ Ends(r))
    BY <2>2 DEF Waits, Ends, RequestOK, Reader
  <2>3. CASE q = r /\ Reads(r)
    BY <2>3 DEF Reads, RequestOK, Reader, Live
  <2>4. CASE q = r /\ Stores(r)
    BY <1>0, <2>4 DEF Stores, RequestOK, Reader
  <2>5. QED
    BY <1>2, <2>1, <2>2, <2>3, <2>4 DEF Moved
<1>3. ASSUME Exit
      PROVE  RequestOK(r)'
  <2>1. http'[r] = http[r] \/ http'[r].pc = "done"
    BY <1>0, <1>3, ExitFrame
  <2>2. QED
    BY <1>1, <2>1 DEF RequestOK, Reader
<1>4. QED
  BY <1>0, <1>1, <1>2, <1>3, NextMoves

\* E-mails are never taken back.
LEMMA MailsGrow ==
  ASSUME [Next]_vars
  PROVE  mails \subseteq mails'
<1>1. ASSUME NEW r, NEW verified, Insert(r, verified)
      PROVE  mails \subseteq mails'
  BY <1>1 DEF Insert
<1>2. QED
  BY <1>1, DatabaseWriters
     DEF database, CreateUserAccount, CreateCustomer, CreateVerificationToken, UpdatePasswordByID,
         UpdateUserVerified, UpdateColumns, DeleteCustomer, TokenExpires

LEMMA NextUsersInv == AccountsInv /\ [Next]_vars => UsersInv'
<1> SUFFICES ASSUME AccountsInv, [Next]_vars, NEW u \in Users
             PROVE  UserOK(u)'
  BY DEF UsersInv
<1>0. UserOK(u) /\ raced \subseteq raced' /\ mails \subseteq mails'
  BY RacedGrows, MailsGrow DEF AccountsInv, UsersInv
<1>1. CASE Same(u)
  BY <1>0, <1>1 DEF Same, UserOK, Live
<1>2. CASE Inserted(u)
  BY <1>0, <1>2 DEF Inserted, UserOK, Live
<1>3. ASSUME NEW r \in Requests, Removes(r, u)
      PROVE  UserOK(u)'
  BY <1>0, <1>3 DEF Removes, UserOK, Live
<1>4. ASSUME NEW r \in Requests, Rewrites(r, u)
      PROVE  UserOK(u)'
  <2>1. user[u].state # "none"
    BY <1>4 DEF AccountsInv, RequestsInv, RequestOK, Reader, Rewrites
  <2>2. QED
    BY <1>0, <1>4, <2>1 DEF Rewrites, UserOK, Live
<1>5. QED
  BY <1>1, <1>2, <1>3, <1>4, UserMoves

-----------------------------------------------------------------------------
(* Sessions.                                                               *)

\* The session that a sign-in gets: the JWT is new, and its user verified.
Session(kind, name, u) == [key |-> [kind |-> kind, name |-> name], of |-> u]
SignedIn(r, u) == /\ Live(u) /\ user[u].verified /\ UNCHANGED user
                  /\ http[r].pc # "done" /\ http'[r].pc = "done"

LEMMA SessionMoves ==
  ASSUME AccountsInv, [Next]_vars
  PROVE  \/ sessions' \subseteq sessions
         \/ \E r \in Requests, u \in Users :
              SignedIn(r, u) /\ sessions' = sessions \union {Session("jwt", r, u)}
         \/ \E r \in Requests, u \in Users, name \in Writers :
              sessions' = sessions \union {Session("mailed", name, u)}
<1>0. HttpType /\ \A r \in Requests : http[r] \in HttpRequests /\ RequestOK(r)
  BY DEF AccountsInv, RequestsInv, HttpType
<1>1. ASSUME NEW r \in Requests, Receive(r)
      PROVE  sessions' = sessions
  BY <1>1
     DEF Receive, PostSignUp, PostCustomer, PostForgotPassword, PostSignIn, PutUpdatePassword,
         GetVerifyAccount, PutCustomer, PutProfile, DeleteCustomerByID, RoleByID, Refuse, Bind, Start
<1>2. ASSUME NEW r \in Requests, SignIn(r), sessions' # sessions
      PROVE  \E u \in Users : SignedIn(r, u) /\ sessions' = sessions \union {Session("jwt", r, u)}
  <2>1. PICK u \in Users : /\ Live(u) /\ user[u].verified
                           /\ sessions' = sessions \union
                                {[key |-> [kind |-> "jwt", name |-> r], of |-> u]}
                           /\ Answer(r, "ok", TRUE)
    BY <1>2, SignInStores
  <2>2. http[r].pc # "done" /\ UNCHANGED user
    BY <1>2 DEF SignIn, database
  <2>3. http'[r].pc = "done"
    BY <1>0, <2>1, AnswerFrame DEF Codes
  <2>4. QED
    BY <2>1, <2>2, <2>3 DEF SignedIn, Session
<1>3. ASSUME NEW r \in Requests, StoreSession(r)
      PROVE  \E u \in Users, name \in Writers :
               sessions' = sessions \union {Session("mailed", name, u)}
  <2>1. http[r].of \in Users /\ http[r].secret \in Writers
    BY <1>0, <1>3 DEF StoreSession, RequestOK, Reader, HttpRequests
  <2>2. QED
    BY <1>3, <2>1 DEF StoreSession, Session
<1>4. ASSUME NEW r \in Requests, Proceed(r), ~SignIn(r), ~StoreSession(r)
      PROVE  sessions' = sessions
  BY <1>4
     DEF Proceed, CheckBind, AssignErr, TestErr, Exit, CreateUserAccount, CreateCustomer,
         CreateCustomerWithoutRole, ForgotPassword, CreateVerificationToken, UpdatePassword,
         VerifyToken, UpdateDataUser, UpdatePasswordByID, UpdateUserVerified, UpdateColumns,
         DeleteCustomer
<1>5. ASSUME Crash \/ (\E r \in Requests : CallFails(r)) \/ (\E t \in tokens : TokenExpires(t))
             \/ (\E s \in sessions : SessionExpires(s)) \/ UNCHANGED vars
      PROVE  sessions' \subseteq sessions
  BY <1>5 DEF Crash, Exit, CallFails, TokenExpires, SessionExpires, vars
<1>6. QED
  BY <1>1, <1>2, <1>3, <1>4, <1>5 DEF Next

LEMMA NextSessionsInv == AccountsInv /\ [Next]_vars => SessionsInv'
<1> SUFFICES ASSUME AccountsInv, [Next]_vars
             PROVE  SessionsInv'
  OBVIOUS
<1>0. /\ TypeOK /\ RequestsInv /\ raced \subseteq raced' /\ HttpType'
      /\ \A s \in sessions : SessionOK(s) /\ s.of \in Users
  BY RacedGrows, NextTypeOK DEF AccountsInv, SessionsInv, TypeOK, Sessions
\* What a session says of its request and its user stays true.
<1>1. ASSUME NEW s \in sessions, s.key.kind = "jwt"
      PROVE  /\ s.key.name \in Requests /\ http'[s.key.name].pc = "done"
             /\ user'[s.of].state # "none"
             /\ Live(s.of)' /\ s.of \notin raced' => user'[s.of].verified
  <2>1. /\ s.key.name \in Requests /\ http[s.key.name].pc = "done" /\ user[s.of].state # "none"
        /\ Live(s.of) /\ s.of \notin raced => user[s.of].verified
    BY <1>0, <1>1 DEF SessionOK
  <2>2. http'[s.key.name].pc = "done" /\ user'[s.of].state # "none"
    BY <1>0, <2>1, DoneStays, IdsAreUsedOnce
  <2>3. Live(s.of)' /\ s.of \notin raced' => user'[s.of].verified
    <3>1. CASE Same(s.of)
      BY <1>0, <2>1, <3>1 DEF Same, Live
    <3>2. ASSUME NEW r \in Requests, Removes(r, s.of)
          PROVE  ~Live(s.of)'
      BY <3>2 DEF Removes, Live
    <3>3. ASSUME NEW r \in Requests, Rewrites(r, s.of), s.of \notin raced'
          PROVE  user'[s.of].verified
      BY <1>0, <2>1, <3>3 DEF Rewrites
    <3>4. QED
      BY <1>0, <2>1, <3>1, <3>2, <3>3, UserMoves DEF Inserted
  <2>4. QED
    BY <2>1, <2>2, <2>3
<1>2. CASE sessions' \subseteq sessions
  <2>1. ASSUME NEW s \in sessions', s.key.kind = "jwt", NEW t \in sessions', t.key = s.key
        PROVE  t = s
    BY <1>0, <1>2, <2>1 DEF SessionOK
  <2>2. QED
    BY <1>1, <1>2, <2>1 DEF SessionsInv, SessionOK
<1>3. ASSUME NEW r \in Requests, NEW u \in Users, SignedIn(r, u),
             sessions' = sessions \union {Session("jwt", r, u)}
      PROVE  SessionsInv'
  <2> DEFINE n == Session("jwt", r, u)
  <2>1. n.key.kind = "jwt" /\ n.key.name = r /\ n.of = u
    BY DEF Session
  <2>2. \A s \in sessions : s.key # n.key
    BY <1>0, <1>3, <2>1 DEF SessionOK, SignedIn
  <2> HIDE DEF n
  <2>3. ASSUME NEW s \in sessions', s.key.kind = "jwt", NEW t \in sessions', t.key = s.key
        PROVE  t = s
    BY <1>0, <1>3, <2>2, <2>3 DEF SessionOK, n
  <2>4. user'[u].state # "none" /\ user'[u].verified /\ http'[r].pc = "done"
    BY <1>3 DEF SignedIn, Live
  <2>5. QED
    BY <1>1, <1>3, <2>1, <2>3, <2>4 DEF SessionsInv, SessionOK, n
<1>4. ASSUME NEW u \in Users, NEW name \in Writers,
             sessions' = sessions \union {Session("mailed", name, u)}
      PROVE  SessionsInv'
  <2> DEFINE n == Session("mailed", name, u)
  <2>1. n.key.kind # "jwt"
    BY DEF Session
  <2> HIDE DEF n
  <2>2. ASSUME NEW s \in sessions', s.key.kind = "jwt", NEW t \in sessions', t.key = s.key
        PROVE  t = s
    BY <1>0, <1>4, <2>1, <2>2 DEF SessionOK, n
  <2>3. QED
    BY <1>1, <1>4, <2>1, <2>2 DEF SessionsInv, SessionOK, n
<1>5. QED
  BY <1>2, <1>3, <1>4, SessionMoves

-----------------------------------------------------------------------------
(* Tokens and e-mails.                                                     *)

\* A token comes with its e-mail, a new customer with an e-mail alone; tokens go with their user.
Mailed(r, u, type) == /\ tokens' = tokens \union {Token(r, u, type)}
                      /\ mails' = mails \union {Mail(r, u, type)}
                      /\ user'[u].state # "none"
Announced(r, u)    == /\ tokens' = tokens /\ mails' = mails \union {Mail(r, u, "create_customer")}
                      /\ user'[u].state # "none"
Removed(u)         == /\ tokens' = {t \in tokens : t.of # u} /\ mails' = mails /\ ~Live(u)'
Expired(t)         == /\ tokens' = (tokens \ {t}) \union {[t EXCEPT !.expired = TRUE]}
                      /\ mails' = mails

LEMMA InsertMails ==
  ASSUME TypeOK, NEW r \in Requests, NEW verified \in BOOLEAN, Insert(r, verified)
  PROVE  \/ UNCHANGED <<tokens, mails>>
         \/ \E u \in Users : Mailed(r, u, "email_verification") \/ Announced(r, u)
<1> DEFINE row == [state |-> "live", email |-> http[r].email, password |-> r, profile |-> r,
                   verified |-> verified, role |-> TRUE]
<1>1. row.state = "live"
  OBVIOUS
<1>2. \/ UNCHANGED <<tokens, mails>>
      \/ \E u \in Users :
           /\ user' = [user EXCEPT ![u] = row]
           /\ tokens' = IF verified THEN tokens
                        ELSE tokens \union {Token(r, u, "email_verification")}
           /\ mails' = mails \union
                {Mail(r, u, IF verified THEN "create_customer" ELSE "email_verification")}
  BY DEF Insert
<1> HIDE DEF row
<1>3. CASE verified
  BY <1>1, <1>2, <1>3 DEF Announced, TypeOK
<1>4. CASE ~verified
  BY <1>1, <1>2, <1>4 DEF Mailed, TypeOK
<1>5. QED
  BY <1>3, <1>4

LEMMA MailMoves ==
  ASSUME AccountsInv, [Next]_vars
  PROVE  \/ UNCHANGED <<tokens, mails>>
         \/ \E r \in Requests, u \in Users, type \in Types : Mailed(r, u, type)
         \/ \E r \in Requests, u \in Users : Announced(r, u)
         \/ \E u \in Users : Removed(u)
         \/ \E t \in tokens : Expired(t)
<1>0. TypeOK /\ \A r \in Requests : RequestOK(r)
  BY DEF AccountsInv, RequestsInv
<1>1. ASSUME NEW r \in Requests, CreateUserAccount(r) \/ CreateCustomer(r)
      PROVE  \/ UNCHANGED <<tokens, mails>>
             \/ \E u \in Users : Mailed(r, u, "email_verification") \/ Announced(r, u)
  BY <1>0, <1>1, InsertMails DEF CreateUserAccount, CreateCustomer
<1>2. ASSUME NEW r \in Requests, CreateVerificationToken(r)
      PROVE  \/ UNCHANGED <<tokens, mails>>
             \/ \E u \in Users : Mailed(r, u, "reset_password")
  <2>1. http[r].of \in Users /\ user[http[r].of].state # "none" /\ UNCHANGED user
    BY <1>0, <1>2 DEF CreateVerificationToken, RequestOK, Reader
  <2>2. QED
    BY <1>2, <2>1 DEF CreateVerificationToken, Mailed
<1>3. ASSUME NEW r \in Requests, DeleteCustomer(r)
      PROVE  UNCHANGED <<tokens, mails>> \/ \E u \in Users : Removed(u)
  <2>1. http[r].of \in Users /\ [NoRow EXCEPT !.state = "deleted"].state = "deleted"
    BY <1>0, <1>3, NewRequestType DEF DeleteCustomer, RequestOK, Rows
  <2>2. CASE Live(http[r].of)
    BY <1>0, <1>3, <2>1, <2>2 DEF DeleteCustomer, Removed, Live, TypeOK
  <2>3. CASE ~Live(http[r].of)
    BY <1>3, <2>3 DEF DeleteCustomer
  <2>4. QED
    BY <2>2, <2>3
<1>4. ASSUME NEW t \in tokens, TokenExpires(t)
      PROVE  Expired(t)
  BY <1>4 DEF TokenExpires, Expired
<1>5. ASSUME NEW r \in Requests,
             UpdatePasswordByID(r) \/ UpdateUserVerified(r) \/ UpdateColumns(r)
      PROVE  UNCHANGED <<tokens, mails>>
  BY <1>5 DEF UpdatePasswordByID, UpdateUserVerified, UpdateColumns
<1>6. "email_verification" \in Types /\ "reset_password" \in Types
  BY DEF Types
<1>7. QED
  BY <1>1, <1>2, <1>3, <1>4, <1>5, <1>6, DatabaseWriters DEF database

\* The token of a mailed link.
TokenOf(m, t) == t.name = m.by /\ t.of = m.to /\ t.type = m.type

\* Unless requests overlap on it, a user that is there was there before the step.
LEMMA LiveBefore ==
  ASSUME AccountsInv, [Next]_vars, NEW u \in Users, user[u].state # "none", Live(u)',
         u \notin raced'
  PROVE  Live(u)
  BY UserMoves, RacedGrows DEF Same, Inserted, Removes, Rewrites, Live

LEMMA NextMailsInv == AccountsInv /\ [Next]_vars => MailsInv'
<1> SUFFICES ASSUME AccountsInv, [Next]_vars
             PROVE  MailsInv'
  OBVIOUS
<1>0. /\ TypeOK /\ UsersInv' /\ raced \subseteq raced' /\ mails \subseteq mails'
      /\ \A t \in tokens : Mail(t.name, t.of, t.type) \in mails /\ t \in Tokens
      /\ \A m \in mails : m.to \in Users /\ user[m.to].state # "none"
      /\ \A m \in mails : m.type \in Types /\ Live(m.to) /\ m.to \notin raced =>
           \E t \in tokens : TokenOf(m, t)
  BY NextUsersInv, RacedGrows, MailsGrow
     DEF AccountsInv, MailsInv, MailedLinksWork, TypeOK, Mails, TokenOf
<1>1. \A u \in Users : Live(u)' => \E m \in mails' : m.to = u
  BY <1>0 DEF UsersInv, UserOK, Live
<1>2. \A m \in mails : /\ user'[m.to].state # "none"
                       /\ Live(m.to)' /\ m.to \notin raced' => Live(m.to) /\ m.to \notin raced
  BY <1>0, IdsAreUsedOnce, LiveBefore
<1> DEFINE Goal == /\ \A t \in tokens' : Mail(t.name, t.of, t.type) \in mails'
                   /\ \A m \in mails' : user'[m.to].state # "none"
                   /\ \A m \in mails' : m.type \in Types /\ Live(m.to)' /\ m.to \notin raced' =>
                        \E t \in tokens' : TokenOf(m, t)
<1>3. ASSUME UNCHANGED <<tokens, mails>>
      PROVE  Goal
  BY <1>0, <1>2, <1>3
<1>4. ASSUME NEW r \in Requests, NEW u \in Users, NEW type \in Types, Mailed(r, u, type)
      PROVE  Goal
  <2> DEFINE m == Mail(r, u, type)
             t == Token(r, u, type)
  <2>1. m.to = u /\ TokenOf(m, t) /\ Mail(t.name, t.of, t.type) = m
    BY DEF Mail, Token, TokenOf
  <2>2. tokens' = tokens \union {t} /\ mails' = mails \union {m} /\ user'[u].state # "none"
    BY <1>4 DEF Mailed
  <2> HIDE DEF m, t
  <2>3. QED
    BY <1>0, <1>2, <2>1, <2>2
<1>5. ASSUME NEW r \in Requests, NEW u \in Users, Announced(r, u)
      PROVE  Goal
  <2> DEFINE m == Mail(r, u, "create_customer")
  <2>1. m.to = u /\ m.type \notin Types
    BY DEF Mail, Types
  <2>2. tokens' = tokens /\ mails' = mails \union {m} /\ user'[u].state # "none"
    BY <1>5 DEF Announced
  <2> HIDE DEF m
  <2>3. QED
    BY <1>0, <1>2, <2>1, <2>2
<1>6. ASSUME NEW u \in Users, Removed(u)
      PROVE  Goal
  <2>1. ASSUME NEW m \in mails, m.type \in Types, Live(m.to)', m.to \notin raced'
        PROVE  \E t \in tokens' : TokenOf(m, t)
    BY <1>0, <1>2, <1>6, <2>1 DEF Removed, TokenOf
  <2>2. QED
    BY <1>0, <1>2, <1>6, <2>1 DEF Removed
<1>7. ASSUME NEW x \in tokens, Expired(x)
      PROVE  Goal
  <2> DEFINE y == [x EXCEPT !.expired = TRUE]
  <2>1. y.name = x.name /\ y.of = x.of /\ y.type = x.type
    BY <1>0 DEF Tokens
  <2>2. tokens' = (tokens \ {x}) \union {y} /\ mails' = mails
    BY <1>7 DEF Expired
  <2> HIDE DEF y
  <2>3. ASSUME NEW m \in mails, m.type \in Types, Live(m.to)', m.to \notin raced'
        PROVE  \E t \in tokens' : TokenOf(m, t)
    BY <1>0, <1>2, <2>1, <2>2, <2>3 DEF TokenOf
  <2>4. \A t \in tokens' : Mail(t.name, t.of, t.type) \in mails'
    BY <1>0, <2>1, <2>2
  <2>5. QED
    BY <1>2, <2>2, <2>3, <2>4
<1>8. Goal
  BY <1>3, <1>4, <1>5, <1>6, <1>7, MailMoves
<1>9. QED
  BY <1>1, <1>8 DEF MailsInv, MailedLinksWork, TokenOf

-----------------------------------------------------------------------------
(* Answers.                                                                *)

\* A step of r towards its answer: what it stored is what it will answer, the shared variable is
\* set, or the answer is what the variable says.
Agrees(r)   == /\ http'[r].pc \in {"returned", "done"} /\ err' = err
               /\ http'[r].pc = "returned" => (http'[r].result = "ok" <=> http'[r].did)
               /\ http'[r].pc = "done" /\ http'[r].op \in SharedResult =>
                    (http'[r].code = "ok" <=> http'[r].did)
Forwards(r) == http'[r].pc \in {"service", "save", "session"}
Assigns(r)  == /\ http[r].pc = "returned" /\ http'[r].pc = "assigned" /\ err' = http[r].result
               /\ http'[r].result = http[r].result /\ http'[r].did = http[r].did
Tests(r)    == /\ http[r].pc = "assigned" /\ http'[r].pc = "done"
               /\ http'[r].code = err /\ http'[r].did = http[r].did

LEMMA AnswerAgrees ==
  ASSUME HttpType, NEW r \in Requests, NEW code \in Codes, NEW did \in BOOLEAN, err' = err,
         http[r].op \in SharedResult => (code = "ok" <=> did),
         Answer(r, code, did) \/ Return(r, code, did)
  PROVE  Agrees(r)
<1>1. CASE Answer(r, code, did)
  BY <1>1, AnswerFrame DEF Agrees
<1>2. CASE Return(r, code, did)
  <2>1. CASE http[r].op \in SharedResult
    BY <1>2, <2>1, ReturnFrame DEF Agrees
  <2>2. CASE http[r].op \notin SharedResult
    BY <1>1, <1>2, <2>2 DEF Return
  <2>3. QED
    BY <2>1, <2>2
<1>3. QED
  BY <1>1, <1>2

LEMMA LoadAgrees ==
  ASSUME HttpType, NEW r \in Requests, NEW u \in Users, Load(r, u), err' = err
  PROVE  Agrees(r) \/ Forwards(r)
<1>1. CASE Live(u)
  BY <1>1 DEF Load, HttpType, HttpRequests, Forwards
<1>2. CASE ~Live(u)
  <2>1. Return(r, "notfound", FALSE) /\ "notfound" \in Codes
    BY <1>2 DEF Load, Codes
  <2>2. QED
    BY <2>1, AnswerAgrees
<1>3. QED
  BY <1>1, <1>2

LEMMA ProceedAgrees ==
  ASSUME TypeOK, RequestsInv, NEW r \in Requests, Proceed(r) \/ CallFails(r)
  PROVE  /\ mixed' = mixed /\ http[r].pc \notin {"new", "done"}
         /\ Exit \/ Agrees(r) \/ Forwards(r) \/ Assigns(r) \/ Tests(r)
<1>0. /\ HttpType /\ http[r] \in HttpRequests /\ RequestOK(r) /\ err \in Codes
      /\ {"ok", "refused", "notfound", "error"} \subseteq Codes
  BY DEF RequestsInv, HttpType, Codes, TypeOK
<1> USE <1>0
<1> DEFINE Goal == Exit \/ Agrees(r) \/ Forwards(r) \/ Assigns(r) \/ Tests(r)
<1>1. mixed' = mixed /\ http[r].pc \notin {"new", "done"}
  BY DEF Proceed, CallFails, CheckBind, AssignErr, TestErr, Exit, CreateUserAccount,
         CreateCustomer, CreateCustomerWithoutRole, SignIn, ForgotPassword,
         CreateVerificationToken, UpdatePassword, VerifyToken, UpdateDataUser,
         UpdatePasswordByID, UpdateUserVerified, StoreSession, UpdateColumns, DeleteCustomer
<1>2. ASSUME CheckBind(r)
      PROVE  Goal
  <2>1. CASE err = "ok"
    BY <1>2, <2>1 DEF CheckBind, Forwards, HttpType, HttpRequests
  <2>2. CASE err # "ok"
    BY <1>2, <2>2, AnswerAgrees DEF CheckBind
  <2>3. QED
    BY <2>1, <2>2
<1>3. ASSUME AssignErr(r)
      PROVE  Goal
  BY <1>3 DEF AssignErr, Assigns, HttpType, HttpRequests
<1>4. ASSUME TestErr(r)
      PROVE  Goal
  <2>1. Exit \/ (Answer(r, err, http[r].did) /\ http[r].pc = "assigned" /\ http[r].did \in BOOLEAN)
    BY <1>4 DEF TestErr, HttpRequests
  <2>2. QED
    BY <2>1, AnswerFrame DEF Tests
<1>5. ASSUME CreateUserAccount(r) \/ CreateCustomer(r) \/ SignIn(r)
      PROVE  Goal
  <2>1. err' = err /\ \/ Return(r, "error", FALSE) \/ Return(r, "ok", TRUE)
                      \/ Answer(r, "notfound", FALSE) \/ Answer(r, "ok", TRUE)
                      \/ Answer(r, "error", FALSE)
    BY <1>5 DEF CreateUserAccount, CreateCustomer, Insert, SignIn
  <2>2. QED
    BY <2>1, AnswerAgrees
<1>6. ASSUME ForgotPassword(r)
      PROVE  Goal
  <2>1. err' = err /\ \/ Return(r, "notfound", FALSE) \/ Answer(r, "error", FALSE)
                      \/ \E u \in GetUserByEmail(http[r].email) :
                           http' = [http EXCEPT ![r].pc = "save", ![r].of = u]
    BY <1>6 DEF ForgotPassword
  <2>2. ASSUME NEW u, http' = [http EXCEPT ![r].pc = "save", ![r].of = u]
        PROVE  Forwards(r)
    BY <2>2 DEF Forwards, HttpType, HttpRequests
  <2>3. QED
    BY <2>1, <2>2, AnswerAgrees
<1>7. ASSUME UpdatePassword(r) \/ VerifyToken(r) \/ UpdateDataUser(r)
      PROVE  Goal
  <2>1. \A t \in tokens : t.of \in Users
    BY DEF TypeOK, Tokens
  <2>2. UpdateDataUser(r) => http[r].of \in Users
    BY DEF UpdateDataUser, RequestOK
  <2>3. err' = err /\ \/ Return(r, "refused", FALSE) \/ Return(r, "notfound", FALSE)
                      \/ \E u \in Users : Load(r, u)
    BY <1>7, <2>1, <2>2 DEF UpdatePassword, VerifyToken, UpdateDataUser, GetDataByToken
  <2>4. QED
    BY <2>3, AnswerAgrees, LoadAgrees
<1>8. ASSUME CreateVerificationToken(r) \/ UpdatePasswordByID(r) \/ StoreSession(r)
             \/ UpdateColumns(r) \/ DeleteCustomer(r)
      PROVE  Goal
  <2>1. err' = err /\ \/ Return(r, "error", FALSE) \/ Return(r, "ok", TRUE)
                      \/ Return(r, "notfound", FALSE)
    BY <1>8 DEF CreateVerificationToken, UpdatePasswordByID, StoreSession, UpdateColumns,
                DeleteCustomer
  <2>2. QED
    BY <2>1, AnswerAgrees
<1>9. ASSUME UpdateUserVerified(r)
      PROVE  Goal
  <2>1. err' = err /\ http[r].op = "verify"
        /\ \/ Return(r, "error", FALSE) \/ Return(r, "error", TRUE)
           \/ http' = [http EXCEPT ![r].pc = "session", ![r].row = NoRow]
    BY <1>9 DEF UpdateUserVerified
  <2>2. http' = [http EXCEPT ![r].pc = "session", ![r].row = NoRow] => Forwards(r)
    BY DEF Forwards, HttpType, HttpRequests
  <2>3. QED
    BY <2>1, <2>2, AnswerAgrees DEF SharedResult
<1>10. ASSUME CallFails(r)
       PROVE  Goal
  <2>1. err' = err /\ Return(r, "error", http[r].pc = "session")
        /\ (http[r].pc = "session" => http[r].op = "verify")
    BY <1>10 DEF CallFails, RequestOK
  <2>2. QED
    BY <2>1, AnswerAgrees DEF SharedResult
<1>11. ASSUME CreateCustomerWithoutRole(r)
       PROVE  Exit
  BY <1>11 DEF CreateCustomerWithoutRole
<1>12. QED
  BY <1>1, <1>2, <1>3, <1>4, <1>5, <1>6, <1>7, <1>8, <1>9, <1>10, <1>11 DEF Proceed

\* A new request counts as mixed, and so do those in flight, unless there are none.
LEMMA ReceiveBegins ==
  ASSUME HttpType, NEW r \in Requests, Receive(r)
  PROVE  /\ http'[r].pc \in {"bound", "service", "done"}
         /\ http'[r].pc = "done" => http'[r].op \notin SharedResult
         /\ mixed' = IF InFlight = {} THEN mixed ELSE mixed \union InFlight \union {r}
<1>1. ASSUME NEW h, Begin(r, h)
      PROVE  /\ http'[r] = h
             /\ mixed' = IF InFlight = {} THEN mixed ELSE mixed \union InFlight \union {r}
  BY <1>1 DEF Begin, HttpType
<1>2. ASSUME NEW op, NEW e, NEW n, NEW u, NEW pc, NEW h,
             h \in {[NewRequest EXCEPT !.op = op, !.email = e],
                    [NewRequest EXCEPT !.op = op, !.email = e, !.secret = n],
                    [NewRequest EXCEPT !.op = op, !.secret = n],
                    [NewRequest EXCEPT !.op = op, !.of = u]}
      PROVE  [h EXCEPT !.pc = pc].pc = pc
  BY <1>2 DEF NewRequest
<1>3. ASSUME NEW op, NEW e, NEW n, NEW u, NEW h, Bind(r, h) \/ Start(r, h),
             h \in {[NewRequest EXCEPT !.op = op, !.email = e],
                    [NewRequest EXCEPT !.op = op, !.email = e, !.secret = n],
                    [NewRequest EXCEPT !.op = op, !.secret = n],
                    [NewRequest EXCEPT !.op = op, !.of = u]}
      PROVE  /\ http'[r].pc \in {"bound", "service"}
             /\ mixed' = IF InFlight = {} THEN mixed ELSE mixed \union InFlight \union {r}
  <2>1. Begin(r, [h EXCEPT !.pc = "bound"]) \/ Begin(r, [h EXCEPT !.pc = "service"])
    BY <1>3 DEF Bind, Start
  <2>2. [h EXCEPT !.pc = "bound"].pc = "bound" /\ [h EXCEPT !.pc = "service"].pc = "service"
    BY <1>2, <1>3
  <2>3. http'[r].pc \in {"bound", "service"}
    BY <1>1, <2>1, <2>2
  <2>4. QED
    BY <1>1, <2>1, <2>3
<1>4. CASE RoleByID(r)
  <2>1. [NewRequest EXCEPT !.pc = "done", !.code = "refused"].pc = "done"
        /\ [NewRequest EXCEPT !.pc = "done", !.code = "refused"].op \notin SharedResult
    BY DEF NewRequest, SharedResult
  <2>2. QED
    BY <1>1, <1>4, <2>1 DEF RoleByID, Refuse
<1>5. CASE ~RoleByID(r)
  <2> DEFINE Goal == /\ http'[r].pc \in {"bound", "service"}
                     /\ mixed' = IF InFlight = {} THEN mixed ELSE mixed \union InFlight \union {r}
  <2>1. ASSUME PostSignUp(r) \/ PostCustomer(r) \/ PostForgotPassword(r)
        PROVE  Goal
    <3>1. \E op, e : Bind(r, [NewRequest EXCEPT !.op = op, !.email = e])
      BY <2>1 DEF PostSignUp, PostCustomer, PostForgotPassword
    <3>2. QED
      BY <1>3, <3>1
  <2>2. ASSUME PostSignIn(r)
        PROVE  Goal
    <3>1. \E op, e, n : Bind(r, [NewRequest EXCEPT !.op = op, !.email = e, !.secret = n])
      BY <2>2 DEF PostSignIn
    <3>2. QED
      BY <1>3, <3>1
  <2>3. ASSUME PutUpdatePassword(r) \/ GetVerifyAccount(r)
        PROVE  Goal
    <3>1. \E op, n : \/ Bind(r, [NewRequest EXCEPT !.op = op, !.secret = n])
                     \/ Start(r, [NewRequest EXCEPT !.op = op, !.secret = n])
      BY <2>3 DEF PutUpdatePassword, GetVerifyAccount
    <3>2. QED
      BY <1>3, <3>1
  <2>4. ASSUME PutCustomer(r) \/ PutProfile(r) \/ DeleteCustomerByID(r)
        PROVE  Goal
    <3>1. \E op, u : \/ Bind(r, [NewRequest EXCEPT !.op = op, !.of = u])
                     \/ Start(r, [NewRequest EXCEPT !.op = op, !.of = u])
      BY <2>4 DEF PutCustomer, PutProfile, DeleteCustomerByID
    <3>2. QED
      BY <1>3, <3>1
  <2>5. Goal
    BY <1>5, <2>1, <2>2, <2>3, <2>4 DEF Receive
  <2>6. QED
    BY <2>5
<1>6. QED
  BY <1>4, <1>5

LEMMA NextAnswersInv == AccountsInv /\ [Next]_vars => AnswersInv'
<1> SUFFICES ASSUME AccountsInv, [Next]_vars
             PROVE  AnswersInv'
  OBVIOUS
<1>0. /\ TypeOK /\ RequestsInv /\ HttpType /\ HttpType'
      /\ \A r \in Requests : AloneOK(r)
      /\ \A r \in Requests \ mixed :
           http[r].pc = "done" /\ http[r].op \in SharedResult /\ http[r].code # "lost" =>
             (http[r].code = "ok" <=> http[r].did)
  BY NextTypeOK DEF AccountsInv, AnswersInv, AnswersMatchEffects, RequestsInv, HttpType
<1> DEFINE Right(r) == http[r].pc = "done" /\ http[r].op \in SharedResult /\ http[r].code # "lost" =>
                         (http[r].code = "ok" <=> http[r].did)
<1>1. ASSUME mixed \subseteq mixed', NEW r \in Requests \ mixed', http'[r] = http[r]
      PROVE  Right(r)'
  BY <1>0, <1>1
<1>2. ASSUME NEW r \in Requests, Moved(r), Receive(r)
      PROVE  AnswersInv'
  <2>1. /\ http'[r].pc \in {"bound", "service", "done"}
        /\ http'[r].pc = "done" => http'[r].op \notin SharedResult
        /\ mixed' = IF InFlight = {} THEN mixed ELSE mixed \union InFlight \union {r}
    BY <1>0, <1>2, ReceiveBegins
  <2>2. \A q \in Requests \ {r} : http'[q] = http[q]
    BY <1>2 DEF Moved, OthersWait
  <2>3. ASSUME NEW q \in Requests
        PROVE  AloneOK(q)'
    <3>1. CASE InFlight = {}
      BY <2>1, <2>2, <3>1 DEF AloneOK, InFlight
    <3>2. CASE InFlight # {}
      <4>1. InFlight' \subseteq mixed'
        BY <2>1, <2>2, <3>2 DEF InFlight
      <4>2. QED
        BY <4>1 DEF AloneOK
    <3>3. QED
      BY <3>1, <3>2
  <2>4. mixed \subseteq mixed'
    BY <2>1
  <2>5. ASSUME NEW q \in Requests \ mixed'
        PROVE  Right(q)'
    BY <1>1, <2>1, <2>2, <2>4
  <2>6. QED
    BY <2>3, <2>5 DEF AnswersInv, AnswersMatchEffects
<1>3. ASSUME NEW r \in Requests, Moved(r), Proceed(r) \/ CallFails(r), ~Exit
      PROVE  AnswersInv'
  <2>1. /\ mixed' = mixed /\ http[r].pc \notin {"new", "done"}
        /\ Agrees(r) \/ Forwards(r) \/ Assigns(r) \/ Tests(r)
    BY <1>0, <1>3, ProceedAgrees
  <2>2. \A q \in Requests \ {r} : http'[q] = http[q]
    BY <1>3 DEF Moved, OthersWait
  <2>3. r \in InFlight /\ InFlight' \subseteq InFlight
    BY <2>1, <2>2 DEF InFlight
  <2>4. ASSUME NEW q \in Requests, q \in InFlight' \ mixed'
        PROVE  AloneOK(q)'
    <3>1. q = r /\ InFlight' = {r} /\ AloneOK(r) /\ r \in InFlight \ mixed
      BY <1>0, <2>1, <2>3, <2>4 DEF AloneOK
    <3>2. http'[r].pc \in {"returned", "assigned"} => (http'[r].result = "ok" <=> http'[r].did)
      BY <2>1, <3>1 DEF Agrees, Forwards, Assigns, Tests, AloneOK
    <3>3. http'[r].pc = "assigned" => err' = http'[r].result
      BY <2>1 DEF Agrees, Forwards, Assigns, Tests
    <3>4. QED
      BY <3>1, <3>2, <3>3 DEF AloneOK
  <2>5. ASSUME NEW q \in Requests \ mixed'
        PROVE  Right(q)'
    <3>1. CASE q = r
      <4>1. AloneOK(r) /\ r \in InFlight \ mixed
        BY <1>0, <2>1, <2>3, <2>5, <3>1
      <4>2. QED
        BY <2>1, <3>1, <4>1 DEF Agrees, Forwards, Assigns, Tests, AloneOK
    <3>2. CASE q # r
      BY <1>1, <2>1, <2>2, <2>5, <3>2
    <3>3. QED
      BY <3>1, <3>2
  <2>6. \A q \in Requests : AloneOK(q)'
    BY <2>4 DEF AloneOK
  <2>7. QED
    BY <2>5, <2>6 DEF AnswersInv, AnswersMatchEffects
<1>4. ASSUME Exit
      PROVE  AnswersInv'
  <2>1. \A r \in Requests : \/ http'[r] = http[r] /\ r \notin InFlight
                            \/ http'[r].pc = "done" /\ http'[r].code = "lost"
    BY <1>0, <1>4, ExitFrame
  <2>2. InFlight' = {} /\ mixed' = mixed
    BY <1>4, <2>1 DEF InFlight, Exit
  <2>3. ASSUME NEW q \in Requests \ mixed'
        PROVE  Right(q)'
    BY <1>1, <2>1, <2>2
  <2>4. QED
    BY <2>2, <2>3 DEF AnswersInv, AnswersMatchEffects, AloneOK
<1>5. ASSUME UNCHANGED <<http, err, mixed>>
      PROVE  AnswersInv'
  BY <1>5 DEF AccountsInv, AnswersInv, AnswersMatchEffects, AloneOK, InFlight
<1>6. \/ \E r \in Requests : Receive(r) \/ Proceed(r) \/ CallFails(r)
      \/ Exit
      \/ UNCHANGED <<http, err, mixed>>
  BY DEF Next, Crash, TokenExpires, SessionExpires, vars
<1>7. QED
  BY <1>0, <1>2, <1>3, <1>4, <1>5, <1>6, ReceiveMoves, ProceedMoves

-----------------------------------------------------------------------------
(* The invariant, and what follows from it.                                 *)

LEMMA InitAccountsInv == Init => AccountsInv
<1> SUFFICES ASSUME Init
             PROVE  AccountsInv
  OBVIOUS
<1> USE AccountsAssumption
<1> DEFINE Row(e, b) == [state |-> "live", email |-> e, password |-> Seed, profile |-> Seed,
                         verified |-> b, role |-> TRUE]
<1>1. /\ intended = user /\ sessions = {} /\ err = "ok" /\ mixed = {} /\ raced = {} /\ faults = 0
      /\ http = [r \in Requests |-> NewRequest]
      /\ tokens = {Token(Seed, u, IF user[u].verified THEN "reset_password"
                                  ELSE "email_verification") : u \in {u \in Users : Live(u)}}
      /\ mails = {Mail(Seed, u, IF user[u].verified THEN "reset_password"
                                ELSE "email_verification") : u \in {u \in Users : Live(u)}}
  BY DEF Init
<1>2. /\ user \in [Users -> Rows]
      /\ \A u \in Users : user[u].state \in {"none", "live"} /\ (Live(u) => user[u].role)
  <2>1. CASE user = [u \in Users |-> NoRow]
    BY <2>1, NewRequestType DEF NoRow, Live
  <2>2. ASSUME NEW u \in Users, NEW e \in Emails, NEW b \in BOOLEAN,
               user = [v \in Users |-> IF v = u THEN Row(e, b) ELSE NoRow]
        PROVE  /\ user \in [Users -> Rows]
               /\ \A v \in Users : user[v].state \in {"none", "live"} /\ (Live(v) => user[v].role)
    <3>1. Row(e, b) \in Rows /\ Row(e, b).state = "live" /\ Row(e, b).role = TRUE
      BY DEF Rows, States, Writers
    <3>2. NoRow \in Rows /\ NoRow.state = "none"
      BY NewRequestType DEF NoRow
    <3> HIDE DEF Row
    <3>3. QED
      BY <2>2, <3>1, <3>2 DEF Live
  <2>3. QED
    BY <2>1, <2>2 DEF Init
<1> DEFINE Type(u) == IF user[u].verified THEN "reset_password" ELSE "email_verification"
<1>3. \A u \in Users :
        /\ Type(u) \in Types
        /\ Token(Seed, u, Type(u)) \in Tokens /\ Mail(Seed, u, Type(u)) \in Mails
        /\ Mail(Seed, u, Type(u)).to = u
        /\ Mail(Seed, u, Type(u)).type = Type(u) /\ Mail(Seed, u, Type(u)).by = Seed
        /\ Token(Seed, u, Type(u)).name = Seed /\ Token(Seed, u, Type(u)).of = u
        /\ Token(Seed, u, Type(u)).type = Type(u)
  BY DEF Token, Mail, Tokens, Mails, Types, Writers
<1>4. /\ tokens = {Token(Seed, u, Type(u)) : u \in {u \in Users : Live(u)}}
      /\ mails = {Mail(Seed, u, Type(u)) : u \in {u \in Users : Live(u)}}
  BY <1>1
<1> HIDE DEF Type
<1>5. TablesType
  BY <1>1, <1>2, <1>3, <1>4, ZenonT(60) DEF TablesType
<1>6. HttpType
  BY <1>1, NewRequestType DEF HttpType
<1>7. RestType
  BY <1>1 DEF RestType, Codes
<1>8. RequestsInv /\ OverlapInv /\ AnswersInv
  <2>1. \A r \in Requests : http[r].pc = "new"
    BY <1>1, NewRequestType
  <2>2. QED
    BY <1>6, <2>1 DEF RequestsInv, HttpType, RequestOK, Reader, OverlapInv, Overlap, AnswersInv,
                      AnswersMatchEffects, AloneOK, InFlight
<1>9. \A u \in Users : Live(u) => \E m \in mails : m.to = u
  BY <1>3, <1>4
<1>10. UsersInv /\ SessionsInv
  BY <1>1, <1>2, <1>9 DEF UsersInv, UserOK, Live, SessionsInv
<1>11. MailsInv
  <2>1. \A t \in tokens : Mail(t.name, t.of, t.type) \in mails
    BY <1>3, <1>4
  <2>2. ASSUME NEW m \in mails
        PROVE  Live(m.to) /\ \E t \in tokens : t.name = m.by /\ t.of = m.to /\ t.type = m.type
    BY <1>3, <1>4
  <2>3. QED
    BY <1>9, <2>1, <2>2 DEF MailsInv, MailedLinksWork, Live
<1>12. QED
  BY <1>5, <1>6, <1>7, <1>8, <1>10, <1>11, TypesTogether DEF AccountsInv

LEMMA Invariance == Spec => []AccountsInv
<1>1. AccountsInv /\ [Next]_vars => AccountsInv'
  <2>1. AccountsInv /\ [Next]_vars =>
          TypeOK' /\ RequestsInv' /\ OverlapInv' /\ UsersInv' /\ SessionsInv' /\ MailsInv' /\ AnswersInv'
    BY NextTypeOK, NextRequestsInv, NextOverlapInv, NextUsersInv, NextSessionsInv, NextMailsInv,
       NextAnswersInv
  <2>2. QED
    BY <2>1 DEF AccountsInv
<1>2. QED
  BY InitAccountsInv, <1>1, PTL DEF Spec

\* The rows of users, tokens, e-mails and sessions, the requests and the counters have their
\* types.
THEOREM TypeCorrect == Spec => []TypeOK
<1>1. AccountsInv => TypeOK
  BY DEF AccountsInv
<1>2. QED
  BY Invariance, <1>1, PTL

\* What a request wrote to an account on which no requests overlapped is not undone by the whole
\* rows that others write (UpdatePasswordByID, UpdateUserVerified, UpdateDataUser), and a JWT with
\* a session is served as long as its user is there.
THEOREM LastWritesStand == Spec => []LastWriteStands
<1>1. AccountsInv => LastWriteStands
  <2> SUFFICES ASSUME AccountsInv
               PROVE  LastWriteStands
    OBVIOUS
  <2>0. TypeOK /\ \A u \in Users : UserOK(u)
    BY DEF AccountsInv, UsersInv
  <2>1. ASSUME NEW u \in Users \ raced
        PROVE  user[u] = intended[u] /\ (u \in CustomerList => CustomerPage(u) = "ok" /\ user[u].role)
    BY <2>0 DEF UserOK, CustomerList, GetCustomerAll, CustomerPage, GetCustomerByID
  <2>2. ASSUME NEW s \in sessions, s.key.kind = "jwt", Live(s.of), s.of \notin raced
        PROVE  GetProfileUser(s.key.name) = "ok"
    <3>1. /\ s.of \in Users /\ s.key = [kind |-> "jwt", name |-> s.key.name]
          /\ \A t \in sessions : t.key = s.key => t = s
          /\ user[s.of].verified /\ user[s.of].role
      BY <2>0, <2>2 DEF AccountsInv, SessionsInv, SessionOK, UserOK, TypeOK, Sessions
    <3>2. CheckToken(s.key.name) = {s.of}
      BY <3>1 DEF CheckToken
    <3>3. (CHOOSE u \in CheckToken(s.key.name) : TRUE) = s.of /\ CheckToken(s.key.name) # {}
      BY <3>2
    <3>4. GetUserByID(s.of) = "ok"
      BY <2>2, <3>1 DEF GetUserByID
    <3>5. QED
      BY <3>3, <3>4 DEF GetProfileUser
  <2>3. QED
    BY <2>1, <2>2 DEF LastWriteStands
<1>2. QED
  BY Invariance, <1>1, PTL

\* No account without the e-mail that announces it, no token that was not mailed, and no mailed
\* link without its token while its user is there: CreateUserAccount, CreateCustomer and
\* CreateVerificationToken record them in one transaction.
THEOREM MailedLinksAlwaysWork == Spec => []MailedLinksWork
<1>1. AccountsInv => MailedLinksWork
  BY DEF AccountsInv, MailsInv
<1>2. QED
  BY Invariance, <1>1, PTL

\* A request that ran alone answers success exactly if it did what it says, although its handler
\* keeps the error in a variable of the package, whatever that variable held before.
THEOREM AnswersAreRight == Spec => []AnswersMatchEffects
<1>1. AccountsInv => AnswersMatchEffects
  BY DEF AccountsInv, AnswersInv
<1>2. QED
  BY Invariance, <1>1, PTL

=============================================================================
