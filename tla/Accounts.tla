------------------------------ MODULE Accounts ------------------------------
(***************************************************************************)
(* user-service: accounts, verification and reset tokens, sessions.         *)
(*                                                                         *)
(* Requests run concurrently in one process. Three handlers read a whole    *)
(* row of users, change a field and write the row back. The handlers keep   *)
(* errors in a variable of the package, which all requests share.           *)
(* Routes with an id of a role declare it as "{id}", which echo takes       *)
(* literally: they find no id and refuse, so that no role changes.          *)
(***************************************************************************)
EXTENDS Naturals, FiniteSets

CONSTANTS
  Users,      \* ids of rows of the table users
  Emails,
  Requests,   \* HTTP requests, each handled once
  Seed,       \* what was there before: names passwords, profiles and tokens as requests do
  Nil,        \* no error, no user, no row
  MaxFaults   \* bound: failing calls of PostgreSQL and Redis, crashes

ASSUME AccountsAssumption ==
  /\ Seed \notin Requests
  /\ Nil \notin Users \union Emails
  /\ MaxFaults \in Nat

VARIABLES
  user,      \* user[u]: the row
  tokens,    \* rows of verification_tokens
  mails,     \* e-mails recorded in the outbox
  sessions,  \* sessions in Redis
  err,       \* the variable of the package handler
  http,      \* http[r]: the request and its answer
  mixed,     \* history: requests that overlapped with another one
  raced,     \* history: users on which two requests overlapped
  intended,  \* history: user[u], had each request changed its own fields only
  faults

vars == <<user, tokens, mails, sessions, err, http, mixed, raced, intended, faults>>

Writers == Requests \union {Seed}
States  == {"none", "live", "deleted"}
Ops     == {"none", "signUp", "createCustomer", "signIn", "forgotPassword", "updatePassword",
            "verify", "profile", "updateCustomer", "delete"}
Pcs     == {"new", "bound", "service", "save", "session", "returned", "assigned", "done"}
Codes   == {"none", "ok", "refused", "notfound", "error", "lost"}
Types   == {"email_verification", "reset_password"}
Rows    == [state : States, email : Emails \union {Nil}, password : Writers, profile : Writers,
            verified : BOOLEAN, role : BOOLEAN]
Tokens  == [name : Writers, of : Users, type : Types, expired : BOOLEAN]
Mails   == [by : Writers, to : Users, type : Types \union {"create_customer"}]
\* A session is found by its key: the JWT, or the mailed token, that a request was answered.
Sessions == [key : [kind : {"jwt", "mailed"}, name : Writers], of : Users]

NoRow == [state |-> "none", email |-> Nil, password |-> Seed, profile |-> Seed, verified |-> FALSE, role |-> FALSE]
NewRequest == [pc |-> "new", op |-> "none", of |-> Nil, email |-> Nil, secret |-> Seed, row |-> NoRow,
               result |-> "none", did |-> FALSE, code |-> "none"]

Live(u) == user[u].state = "live"
InFlight == {r \in Requests : http[r].pc \notin {"new", "done"}}

\* The operations whose handler keeps the result of Bind or Validate, and the result of
\* the service, in the shared variable.
SharedBind   == {"signUp", "createCustomer", "signIn", "forgotPassword", "updatePassword", "updateCustomer"}
SharedResult == {"signUp", "createCustomer", "forgotPassword", "updatePassword"}

-----------------------------------------------------------------------------
(* What the repositories read.                                              *)

\* GetUserByEmail and GetUserByID take verified users only, and the first of their roles:
\* without a role they panic, which middleware.Recover answers with an error.
GetUserByEmail(e) == {u \in Users : Live(u) /\ user[u].email = e /\ user[u].verified}
GetUserByID(u) ==
  IF ~Live(u) \/ ~user[u].verified THEN "notfound" ELSE IF user[u].role THEN "ok" ELSE "error"

\* The administrator's pages of customers.
GetCustomerByID(u) == IF Live(u) THEN "ok" ELSE "notfound"
GetCustomerAll == {u \in Users : Live(u)}
CustomerPage(u) == GetCustomerByID(u)
CustomerList    == GetCustomerAll

\* GetDataByToken: the row of a token that has not expired.
GetDataByToken(name) == {t \in tokens : t.name = name /\ ~t.expired}

\* CheckToken: a JWT with a session. A session under a mailed token is never found.
CheckToken(name) == {s.of : s \in {s \in sessions : s.key = [kind |-> "jwt", name |-> name]}}

\* GetProfileUser, for the session of a JWT.
GetProfileUser(name) == IF CheckToken(name) = {} THEN "refused" ELSE GetUserByID(CHOOSE u \in CheckToken(name) : TRUE)

-----------------------------------------------------------------------------
(* Requests and their answers.                                              *)

database == <<user, tokens, mails, intended>>

Begin(r, h) ==
  /\ http[r].pc = "new"
  /\ http'  = [http EXCEPT ![r] = h]
  /\ mixed' = IF InFlight = {} THEN mixed ELSE mixed \union InFlight \union {r}

Answer(r, code, did) ==
  http' = [http EXCEPT ![r] = [NewRequest EXCEPT !.pc = "done", !.op = http[r].op, !.did = did, !.code = code]]

\* The gateway's header is missing, CheckToken refuses, or a field, an id or a token is missing.
Refuse(r) ==
  /\ Begin(r, [NewRequest EXCEPT !.pc = "done", !.code = "refused"])
  /\ UNCHANGED <<database, sessions, err, raced, faults>>

\* The service returns: to the shared variable, or to one of the handler's own.
Return(r, result, did) ==
  IF http[r].op \in SharedResult
  THEN http' = [http EXCEPT ![r].pc = "returned", ![r].result = result, ![r].did = did, ![r].row = NoRow]
  ELSE Answer(r, result, did)

\* Bind and Validate of a handler that keeps their error in the shared variable.
Bind(r, h) ==
  \E e \in {"ok", "refused"} :
    /\ err' = e
    /\ Begin(r, [h EXCEPT !.pc = "bound"])
    /\ UNCHANGED <<database, sessions, raced, faults>>

CheckBind(r) ==
  /\ http[r].pc = "bound"
  /\ IF err = "ok" THEN http' = [http EXCEPT ![r].pc = "service"] ELSE Answer(r, "refused", FALSE)
  /\ UNCHANGED <<database, sessions, err, mixed, raced, faults>>

\* The other handlers.
Start(r, h) ==
  /\ Begin(r, [h EXCEPT !.pc = "service"])
  /\ UNCHANGED <<database, sessions, err, raced, faults>>

X_KeepErr(r) ==
  /\ http[r].pc = "returned"
  /\ http' = [http EXCEPT ![r].pc = "assigned"]
  /\ UNCHANGED <<database, sessions, err, mixed, raced, faults>>
\* err = u.userService...
AssignErr(r) ==
  /\ http[r].pc = "returned"
  /\ err' = http[r].result
  /\ http' = [http EXCEPT ![r].pc = "assigned"]
  /\ UNCHANGED <<database, sessions, mixed, raced, faults>>

\* The process ends: whoever waits for an answer gets none, and what Redis and PostgreSQL
\* hold stays.
Exit == /\ http' = [r \in Requests |-> IF r \in InFlight
                                       THEN [NewRequest EXCEPT !.pc = "done", !.op = http[r].op,
                                                               !.did = http[r].did, !.code = "lost"]
                                       ELSE http[r]]
        /\ err' = "ok"
        /\ UNCHANGED <<database, sessions, mixed, raced>>

\* if err != nil. An error of CreateCustomer is fatal.
TestErr(r) ==
  /\ http[r].pc = "assigned"
  /\ UNCHANGED faults
  /\ IF err # "ok" /\ http[r].op = "createCustomer" THEN Exit
     ELSE Answer(r, err, http[r].did) /\ UNCHANGED <<database, sessions, err, mixed, raced>>

-----------------------------------------------------------------------------
(* Operations.                                                             *)

\* The row of u is read to be written back: from here on another request overlaps.
OnUser(r, u) ==
  raced' = IF \E q \in InFlight \ {r} : http[q].of = u THEN raced \union {u} ELSE raced

\* The rows of an e-mail, which goes to the outbox, and of a token.
Mail(r, u, type)  == [by |-> r, to |-> u, type |-> type]
Token(r, u, type) == [name |-> r, of |-> u, type |-> type, expired |-> FALSE]

\* The statements of CreateUserAccount and CreateCustomer; the address is UNIQUE.
Insert(r, verified) ==
  LET h == http[r]
      fresh == {u \in Users : user[u].state = "none"}
      taken == \E u \in Users : Live(u) /\ user[u].email = h.email
  IN
  IF taken THEN Return(r, "error", FALSE) /\ UNCHANGED <<user, mails, tokens, intended>>
  ELSE \E u \in fresh :
    LET row == [state |-> "live", email |-> h.email, password |-> r, profile |-> r, verified |-> verified, role |-> TRUE]
        type == IF verified THEN "create_customer" ELSE "email_verification" IN
    /\ user'     = [user EXCEPT ![u] = row]
    /\ intended' = [intended EXCEPT ![u] = row]
    /\ tokens'   = IF verified THEN tokens
                   ELSE tokens \union {Token(r, u, "email_verification")}
    /\ mails'    = mails \union {Mail(r, u, type)}
    /\ Return(r, "ok", TRUE)

\* One transaction inserts the user, the token (for a sign-up) and the e-mail.
CreateUserAccount(r) ==
  /\ http[r].pc = "service" /\ http[r].op = "signUp"
  /\ Insert(r, FALSE)
  /\ UNCHANGED <<sessions, err, mixed, raced, faults>>

CreateCustomer(r) ==
  /\ http[r].pc = "service" /\ http[r].op = "createCustomer"
  /\ Insert(r, TRUE)
  /\ UNCHANGED <<sessions, err, mixed, raced, faults>>

\* A role that does not exist is fatal, too.
CreateCustomerWithoutRole(r) ==
  /\ http[r].pc = "service" /\ http[r].op = "createCustomer"
  /\ Exit /\ UNCHANGED faults

X_SessionUnderEmail(r) ==
  /\ http[r].pc = "service" /\ http[r].op = "signIn"
  /\ \E u \in GetUserByEmail(http[r].email) :
       sessions' = sessions \union {[key |-> [kind |-> "jwt", name |-> user[u].email], of |-> u]}
  /\ Answer(r, "ok", TRUE)
  /\ UNCHANGED <<database, err, mixed, raced, faults>>
\* The session is stored under the JWT.
SignIn(r) ==
  LET h == http[r]
      found == GetUserByEmail(h.email) IN
  /\ h.pc = "service" /\ h.op = "signIn"
  /\ IF found = {} THEN Answer(r, "notfound", FALSE) /\ UNCHANGED sessions
     ELSE \E u \in found :
       IF user[u].role /\ user[u].password = h.secret
       THEN /\ sessions' = sessions \union {[key |-> [kind |-> "jwt", name |-> r], of |-> u]}
            /\ Answer(r, "ok", TRUE)
       ELSE Answer(r, "error", FALSE) /\ UNCHANGED sessions
  /\ UNCHANGED <<database, err, mixed, raced, faults>>

\* ForgotPassword reads the user before its transaction; a panic skips the assignment of err.
ForgotPassword(r) ==
  LET found == GetUserByEmail(http[r].email) IN
  /\ http[r].pc = "service" /\ http[r].op = "forgotPassword"
  /\ IF found = {} THEN Return(r, "notfound", FALSE) /\ UNCHANGED raced
     ELSE \E u \in found :
       IF user[u].role
       THEN http' = [http EXCEPT ![r].pc = "save", ![r].of = u] /\ OnUser(r, u)
       ELSE Answer(r, "error", FALSE) /\ UNCHANGED raced
  /\ UNCHANGED <<database, sessions, err, mixed, faults>>

X_TokenOutsideTransaction(r) ==
  /\ http[r].pc = "save" /\ http[r].op = "forgotPassword"
  /\ Live(http[r].of)
  /\ tokens' = tokens \union {Token(r, http[r].of, "reset_password")}
  /\ \/ mails' = mails \union {Mail(r, http[r].of, "reset_password")} /\ Return(r, "ok", TRUE)
     \/ mails' = mails /\ Return(r, "error", FALSE)
  /\ UNCHANGED <<user, intended, sessions, err, mixed, raced, faults>>
\* The transaction: the token, whose user must exist, and the e-mail with the link.
CreateVerificationToken(r) ==
  LET h == http[r] IN
  /\ h.pc = "save" /\ h.op = "forgotPassword"
  /\ IF Live(h.of)
     THEN /\ tokens' = tokens \union {Token(r, h.of, "reset_password")}
          /\ mails'  = mails \union {Mail(r, h.of, "reset_password")}
          /\ Return(r, "ok", TRUE)
     ELSE Return(r, "error", FALSE) /\ UNCHANGED <<tokens, mails>>
  /\ UNCHANGED <<user, intended, sessions, err, mixed, raced, faults>>

\* The SELECT of a handler that will write the row back.
Load(r, u) ==
  IF Live(u)
  THEN http' = [http EXCEPT ![r].pc = "save", ![r].of = u, ![r].row = user[u]] /\ OnUser(r, u)
  ELSE Return(r, "notfound", FALSE) /\ UNCHANGED raced

\* UpdatePassword wants a reset token, VerifyToken any: it confirms that the e-mail arrived.
UpdatePassword(r) ==
  LET found == GetDataByToken(http[r].secret) IN
  /\ http[r].pc = "service" /\ http[r].op = "updatePassword"
  /\ IF \E t \in found : t.type = "reset_password" THEN \E t \in found : Load(r, t.of)
     ELSE Return(r, "refused", FALSE) /\ UNCHANGED raced
  /\ UNCHANGED <<database, sessions, err, mixed, faults>>

VerifyToken(r) ==
  LET found == GetDataByToken(http[r].secret) IN
  /\ http[r].pc = "service" /\ http[r].op = "verify"
  /\ IF found # {} THEN \E t \in found : Load(r, t.of)
     ELSE Return(r, "refused", FALSE) /\ UNCHANGED raced
  /\ UNCHANGED <<database, sessions, err, mixed, faults>>

\* PUT of the own profile or of a customer: verified users only.
UpdateDataUser(r) ==
  /\ http[r].pc = "service" /\ http[r].op \in {"profile", "updateCustomer"}
  /\ IF user[http[r].of].verified THEN Load(r, http[r].of)
     ELSE Return(r, "notfound", FALSE) /\ UNCHANGED raced
  /\ UNCHANGED <<database, sessions, err, mixed, faults>>

\* Another user has the address meanwhile.
EmailTaken(u, e) == \E v \in Users \ {u} : Live(v) /\ user[v].email = e

X_SaveOnlyPassword(r) ==
  /\ http[r].pc = "save" /\ http[r].op = "updatePassword"
  /\ user'     = [user EXCEPT ![http[r].of].password = r, ![http[r].of].verified = FALSE]
  /\ intended' = [intended EXCEPT ![http[r].of].password = r]
  /\ Return(r, "ok", TRUE)
  /\ UNCHANGED <<tokens, mails, sessions, err, mixed, raced, faults>>
\* Save of the row as it was read, with the new password. If it is gone, Save inserts it
\* again, without its role.
UpdatePasswordByID(r) ==
  LET h == http[r]
      written == [h.row EXCEPT !.password = r, !.role = Live(h.of) /\ user[h.of].role] IN
  /\ h.pc = "save" /\ h.op = "updatePassword"
  /\ IF ~Live(h.of) /\ EmailTaken(h.of, h.row.email)
     THEN Return(r, "error", FALSE) /\ UNCHANGED <<user, intended>>
     ELSE /\ user'     = [user EXCEPT ![h.of] = written]
          /\ intended' = [intended EXCEPT ![h.of].password = r]
          /\ Return(r, "ok", TRUE)
  /\ UNCHANGED <<tokens, mails, sessions, err, mixed, raced, faults>>

\* Save of the row and of its role, which refers to the user: a deleted user is an error,
\* unless it had no role. A user without a role makes the handler panic after the Save.
UpdateUserVerified(r) ==
  LET h == http[r] IN
  /\ h.pc = "save" /\ h.op = "verify"
  /\ IF ~Live(h.of) /\ (h.row.role \/ EmailTaken(h.of, h.row.email))
     THEN Return(r, "error", FALSE) /\ UNCHANGED <<user, intended>>
     ELSE /\ user'     = [user EXCEPT ![h.of] = [h.row EXCEPT !.verified = TRUE]]
          /\ intended' = [intended EXCEPT ![h.of].verified = TRUE]
          /\ IF h.row.role THEN http' = [http EXCEPT ![r].pc = "session", ![r].row = NoRow]
             ELSE Return(r, "error", TRUE)
  /\ UNCHANGED <<tokens, mails, sessions, err, mixed, raced, faults>>

\* The session is stored under the mailed token; the answer carries a JWT.
StoreSession(r) ==
  LET h == http[r] IN
  /\ h.pc = "session"
  /\ sessions' = sessions \union {[key |-> [kind |-> "mailed", name |-> h.secret], of |-> h.of]}
  /\ Return(r, "ok", TRUE)
  /\ UNCHANGED <<database, err, mixed, raced, faults>>

\* UpdateColumns of all columns that are not zero in the row as it was read, the password
\* among them; a row that is gone stays gone.
UpdateColumns(r) ==
  LET h == http[r] IN
  /\ h.pc = "save" /\ h.op \in {"profile", "updateCustomer"}
  /\ user'     = IF Live(h.of) THEN [user EXCEPT ![h.of] = [h.row EXCEPT !.profile = r, !.role = user[h.of].role]] ELSE user
  /\ intended' = [intended EXCEPT ![h.of].profile = r]
  /\ Return(r, "ok", TRUE)
  /\ UNCHANGED <<tokens, mails, sessions, err, mixed, raced, faults>>

\* The row goes, with its role and tokens; sessions stay.
DeleteCustomer(r) ==
  LET u == http[r].of IN
  /\ http[r].pc = "service" /\ http[r].op = "delete"
  /\ IF Live(u)
     THEN /\ user'     = [user EXCEPT ![u] = [NoRow EXCEPT !.state = "deleted"]]
          /\ intended' = [intended EXCEPT ![u] = [NoRow EXCEPT !.state = "deleted"]]
          /\ tokens'   = {t \in tokens : t.of # u}
          /\ OnUser(r, u)
          /\ Return(r, "ok", TRUE)
     ELSE Return(r, "notfound", FALSE) /\ UNCHANGED <<user, intended, tokens, raced>>
  /\ UNCHANGED <<mails, sessions, err, mixed, faults>>

-----------------------------------------------------------------------------
(* Faults and the passing of time.                                         *)

\* A statement fails and its transaction is rolled back, or the session is not stored.
CallFails(r) ==
  /\ http[r].pc \in {"service", "save", "session"}
  /\ faults < MaxFaults /\ faults' = faults + 1
  /\ Return(r, "error", http[r].pc = "session")
  /\ UNCHANGED <<database, sessions, err, mixed, raced>>

Crash == /\ InFlight # {}
         /\ faults < MaxFaults /\ faults' = faults + 1
         /\ Exit

TokenExpires(t) ==
  /\ ~t.expired
  /\ tokens' = (tokens \ {t}) \union {[t EXCEPT !.expired = TRUE]}
  /\ UNCHANGED <<user, mails, intended, sessions, err, http, mixed, raced, faults>>

SessionExpires(s) ==
  /\ sessions' = sessions \ {s}
  /\ UNCHANGED <<database, err, http, mixed, raced, faults>>

-----------------------------------------------------------------------------
\* Nobody, or one user: not verified yet, or verified and about to reset the password.
Init ==
  /\ user \in {[u \in Users |-> NoRow]} \union
       {[v \in Users |-> IF v = u THEN [state |-> "live", email |-> e, password |-> Seed, profile |-> Seed,
                                        verified |-> b, role |-> TRUE] ELSE NoRow] :
          u \in Users, e \in Emails, b \in BOOLEAN}
  /\ LET there == {u \in Users : Live(u)}
         Type(u) == IF user[u].verified THEN "reset_password" ELSE "email_verification" IN
     /\ tokens = {Token(Seed, u, Type(u)) : u \in there}
     /\ mails  = {Mail(Seed, u, Type(u)) : u \in there}
  /\ intended = user
  /\ sessions = {} /\ err = "ok" /\ mixed = {} /\ raced = {} /\ faults = 0
  /\ http = [r \in Requests |-> NewRequest]

\* The routes, up to the call of the service. A token or an id may be any.
PostSignUp(r)         == \E e \in Emails : Bind(r, [NewRequest EXCEPT !.op = "signUp", !.email = e])
PostCustomer(r)       == \E e \in Emails : Bind(r, [NewRequest EXCEPT !.op = "createCustomer", !.email = e])
PostForgotPassword(r) == \E e \in Emails : Bind(r, [NewRequest EXCEPT !.op = "forgotPassword", !.email = e])
PostSignIn(r) ==
  \E e \in Emails, p \in Writers : Bind(r, [NewRequest EXCEPT !.op = "signIn", !.email = e, !.secret = p])
PutUpdatePassword(r)  == \E t \in Writers : Bind(r, [NewRequest EXCEPT !.op = "updatePassword", !.secret = t])
GetVerifyAccount(r)   == \E t \in Writers : Start(r, [NewRequest EXCEPT !.op = "verify", !.secret = t])
PutCustomer(r)        == \E u \in Users : Bind(r, [NewRequest EXCEPT !.op = "updateCustomer", !.of = u])
PutProfile(r) ==
  \E name \in Writers : \E u \in CheckToken(name) : Start(r, [NewRequest EXCEPT !.op = "profile", !.of = u])
DeleteCustomerByID(r) == \E u \in Users : Start(r, [NewRequest EXCEPT !.op = "delete", !.of = u])
\* GetByID, Update and Delete of a role find no id.
RoleByID(r)           == Refuse(r)

Receive(r) ==
  \/ PostSignUp(r) \/ PostCustomer(r) \/ PostForgotPassword(r) \/ PostSignIn(r)
  \/ PutUpdatePassword(r) \/ GetVerifyAccount(r) \/ PutCustomer(r) \/ PutProfile(r)
  \/ DeleteCustomerByID(r) \/ RoleByID(r)

Proceed(r) ==
  \/ CheckBind(r) \/ AssignErr(r) \/ TestErr(r)
  \/ CreateUserAccount(r) \/ CreateCustomer(r) \/ CreateCustomerWithoutRole(r)
  \/ SignIn(r) \/ ForgotPassword(r) \/ CreateVerificationToken(r)
  \/ UpdatePassword(r) \/ VerifyToken(r) \/ UpdateDataUser(r)
  \/ UpdatePasswordByID(r) \/ UpdateUserVerified(r) \/ StoreSession(r) \/ UpdateColumns(r)
  \/ DeleteCustomer(r)

Next ==
  \/ \E r \in Requests : Receive(r) \/ Proceed(r) \/ CallFails(r)
  \/ Crash
  \/ \E t \in tokens : TokenExpires(t)
  \/ \E s \in sessions : SessionExpires(s)

Spec == Init /\ [][Next]_vars

-----------------------------------------------------------------------------
(* Properties.                                                             *)

\* Types, and bounds of the counters.
TypeOK ==
  /\ user \in [Users -> Rows] /\ intended \in [Users -> Rows]
  /\ tokens \subseteq Tokens /\ mails \subseteq Mails /\ sessions \subseteq Sessions
  /\ err \in Codes
  /\ \A r \in Requests :
       /\ http[r].pc \in Pcs /\ http[r].op \in Ops /\ http[r].code \in Codes /\ http[r].result \in Codes
       /\ http[r].of \in Users \union {Nil} /\ http[r].email \in Emails \union {Nil}
       /\ http[r].secret \in Writers /\ http[r].row \in Rows /\ http[r].did \in BOOLEAN
  /\ mixed \subseteq Requests /\ raced \subseteq Users
  /\ faults \in 0 .. MaxFaults

\* Verification, a new password and a new profile each change their own field and none of
\* the others, and a deletion is final, although all of them but the deletion write whole
\* rows that they read before: this holds for the requests on one user that do not
\* overlap. So a session a user signed in to is served until it expires or the user is
\* deleted, whatever else is done to the account.
LastWriteStands ==
  /\ \A u \in Users \ raced :
       /\ user[u] = intended[u]
       /\ u \in CustomerList => CustomerPage(u) = "ok" /\ user[u].role
  /\ \A s \in sessions : s.key.kind = "jwt" /\ Live(s.of) /\ s.of \notin raced =>
       GetProfileUser(s.key.name) = "ok"

\* Users, tokens and e-mails are recorded together: no account without the e-mail that
\* announces it, no token that was not mailed, and no mailed link without its token as
\* long as the user is there; at any failure of the database and any crash.
MailedLinksWork ==
  /\ \A u \in Users : Live(u) => \E m \in mails : m.to = u
  /\ \A t \in tokens : Mail(t.name, t.of, t.type) \in mails
  /\ \A m \in mails : m.type \in Types /\ Live(m.to) /\ m.to \notin raced =>
       \E t \in tokens : t.name = m.by /\ t.of = m.to /\ t.type = m.type

\* A request is answered with success exactly if it has done what it says. The handlers
\* read their error from a variable that every request writes, so this is promised only
\* to a request that ran alone, whatever the requests before it left in the variable.
AnswersMatchEffects ==
  \A r \in Requests \ mixed :
    http[r].pc = "done" /\ http[r].op \in SharedResult /\ http[r].code # "lost" =>
      (http[r].code = "ok" <=> http[r].did)

\* What the comments of the service say of every request: success means that the account,
\* the customer, the token or the password is stored.
SuccessMeansDone ==
  \A r \in Requests :
    http[r].pc = "done" /\ http[r].op \in SharedResult /\ http[r].code = "ok" => http[r].did

=============================================================================
