------------------------------- MODULE Orders -------------------------------
(***************************************************************************)
(* The order service: CreateOrder, UpdateStatus and DeleteByID, requests    *)
(* that run concurrently on the orders table; the outbox events they        *)
(* record; and the consumers that apply those events to the Elasticsearch   *)
(* index "orders", each queue in its own goroutines.  The reads - lists from   *)
(* the index, or from the rows if it cannot be reached; single orders from    *)
(* the rows - change nothing: they are the sets of answers they may give now. *)
(*                                                                         *)
(* Outbox, broker and Consumer are used as what they provide together: an   *)
(* event is delivered at least once, in any order, until it is handled or   *)
(* dead-lettered.  PostgreSQL is at READ COMMITTED: a SELECT sees committed *)
(* rows and waits for nobody, an UPDATE waits for the row lock.             *)
(***************************************************************************)
EXTENDS FiniteSets

CONSTANTS
  Orders,    \* orders that may be created
  Requests,  \* UpdateStatus and DeleteByID requests
  Targets    \* what a request may ask for: a status, or "delete"

Statuses == {"Pending", "Confirmed", "Process", "Sending", "Done", "Cancelled"}

ASSUME OrdersAssumption == Targets \subseteq Statuses \union {"delete"}

VARIABLES
  row,       \* row[o]: "none" or the committed status column
  hasItems,  \* hasItems[o]: the order was placed with at least one item
  live,      \* live[o]: the row exists and deleted_at is NULL
  creation,  \* creation[o]: where CreateOrder is
  snapshot,  \* snapshot[o]: the status in resultData, "nil" if there is none
  request,   \* request[r]: where the request is, the order and what it asks for
  recorded,  \* outbox events committed
  open,      \* those of them neither handled for good nor dead-lettered
  dead,      \* those dead-lettered
  doc,       \* doc[o]: status in the index, "absent" without a document
  paidDoc,   \* the orders whose document names a payment method
  visited    \* history: the statuses the row of o has had

table == <<row, hasItems, live, visited>>
index == <<doc, paidDoc>>
vars  == <<table, creation, snapshot, request, recorded, open, dead, index>>

CreateSteps  == {"none", "inserted", "enriched", "over"}
RequestSteps == {"new", "found", "checked", "locked", "over"}

\* One event per order for "created", "stock" (its items' stock updates are recorded
\* together) and "paid", one per request for the others; status events stand for the three
\* events recorded with them (email, push, ES).
Event(type, o, status, by) == [type |-> type, order |-> o, status |-> status, by |-> by]

Record(E) ==
  /\ recorded' = recorded \union E
  /\ open'     = open \union E

-----------------------------------------------------------------------------
Init ==
  /\ row      = [o \in Orders |-> "none"]
  /\ hasItems = [o \in Orders |-> FALSE]
  /\ live     = [o \in Orders |-> FALSE]
  /\ creation = [o \in Orders |-> "none"]
  /\ snapshot = [o \in Orders |-> "nil"]
  /\ request  = [r \in Requests |-> [at |-> "new", order |-> "none", target |-> "none"]]
  /\ recorded = {}
  /\ open     = {}
  /\ dead     = {}
  /\ doc      = [o \in Orders |-> "absent"]
  /\ paidDoc  = {}
  /\ visited  = [o \in Orders |-> {}]

-----------------------------------------------------------------------------
(* The reads: an answer is a code and the orders it shows.  Orders here are  *)
(* the caller's filter on the buyer: a subset of the orders.                 *)

Entry(o, s)   == [order |-> o, status |-> s]
Answer(c, E)  == [code |-> c, shows |-> E]
Failed        == Answer("500", {})

\* repo.GetByID: the row unless it is deleted.
SelectByID(o) ==
  {Failed, IF live[o] THEN Answer("ok", {Entry(o, row[o])}) ELSE Answer("404", {})}

\* repo.GetOrderByOrderCode; codes are unique.
SelectByOrderCode(o) == SelectByID(o)

\* The user service is asked about the buyer, the product service about each item: a call may
\* fail, and nothing else of the answer depends on it.
HttpClientUserService(answers)    == answers \union {Failed}
HttpClientProductService(answers) == answers \union {Failed}
Enriched(answers) == HttpClientProductService(HttpClientUserService(answers))

\* The service's reads of one order.
GetByID(o)           == Enriched(SelectByID(o))
GetDetail(o)         == Enriched(SelectByID(o))
GetByOrderCode(o)    == Enriched(SelectByOrderCode(o))
GetPublicOrderID(o)  == SelectByOrderCode(o)

\* Without a session, or a customer on an administrator's route.
CheckToken(answers) == answers \union {Answer("refused", {})}

\* The endpoints; the public one, for the payment service, needs no token.
GetByIDAdmin(o)              == CheckToken(GetByID(o))
GetDetailCustomer(o)         == CheckToken(GetDetail(o))
GetOrderByOrderCode(o)       == CheckToken(GetByOrderCode(o))
GetPublicOrderByOrderCode(o) == GetPublicOrderID(o)

\* A search of the index finds documents, or is "down" if Elasticsearch cannot be reached or
\* has no index; any other error of its is cast to a string, which panics.
SearchOrderElasticByBuyerId(owned, status) ==
  {Answer("ok", {Entry(o, doc[o]) : o \in {o \in owned : doc[o] # "absent"
                                                  /\ status \in {"any", doc[o]}}}),
   Answer("down", {}), Failed}

SearchOrderElastic(status) == SearchOrderElasticByBuyerId(Orders, status)

\* repo.GetAll: with an empty search term "order_code ILIKE '%%' OR ..." ignores the status.
SelectAll(owned) ==
  {Failed, IF \E o \in owned : live[o]
           THEN Answer("ok", {Entry(o, row[o]) : o \in {o \in owned : live[o]}})
           ELSE Answer("404", {})}

\* The service's lists: the index first, the rows only when it is down.
GetAll(status) ==
  UNION {IF a.code = "down" THEN Enriched(SelectAll(Orders)) ELSE {a} : a \in SearchOrderElastic(status)}
GetAllOfBuyer(owned, status) ==
  UNION {IF a.code = "down" THEN Enriched(SelectAll(owned)) ELSE {a} :
           a \in SearchOrderElasticByBuyerId(owned, status)}

GetAllAdmin(status) == CheckToken(GetAll(status))

\* The handler shows the first item of every order; one without items panics.
GetAllCustomer(owned, status) ==
  CheckToken({IF \E e \in a.shows : ~hasItems[e.order] THEN Failed ELSE a :
                a \in GetAllOfBuyer(owned, status)})

-----------------------------------------------------------------------------
(* CreateOrder: two transactions with the enrichment in between.           *)

\* Seeded bug: the status is left to the column's default.
InsertOrder_DefaultStatus(o) ==
  /\ creation[o] = "none"
  /\ row'      = [row EXCEPT ![o] = "pending"]
  /\ \E some \in BOOLEAN : hasItems' = [hasItems EXCEPT ![o] = some]
  /\ live'     = [live EXCEPT ![o] = TRUE]
  /\ visited'  = [visited EXCEPT ![o] = {"pending"}]
  /\ creation' = [creation EXCEPT ![o] = "inserted"]
  /\ UNCHANGED <<snapshot, request, recorded, open, dead, index>>

\* repo.CreateOrder commits the order and its items; an empty list of items is valid.
InsertOrder(o) ==
  /\ creation[o] = "none"
  /\ row'      = [row EXCEPT ![o] = "Pending"]
  /\ \E some \in BOOLEAN : hasItems' = [hasItems EXCEPT ![o] = some]
  /\ live'     = [live EXCEPT ![o] = TRUE]
  /\ visited'  = [visited EXCEPT ![o] = {"Pending"}]
  /\ creation' = [creation EXCEPT ![o] = "inserted"]
  /\ UNCHANGED <<snapshot, request, recorded, open, dead, index>>

\* The delivery address is missing or too far away.
DistanceCheck(o) ==
  /\ creation[o] = "none"
  /\ creation' = [creation EXCEPT ![o] = "over"]
  /\ UNCHANGED <<table, snapshot, request, recorded, open, dead, index>>

\* The body lacks a required field.
BadOrder(o) == DistanceCheck(o)

\* GetByID, or if it fails the fallback that reads the row alone, returns the order as it is
\* now, or both fail.
EnrichOrder(o) ==
  /\ creation[o] = "inserted"
  /\ \E a \in GetByID(o) \union SelectByID(o) :
       \E s \in {e.status : e \in a.shows} \union (IF a.code = "ok" THEN {} ELSE {"nil"}) :
         snapshot' = [snapshot EXCEPT ![o] = s]
  /\ creation' = [creation EXCEPT ![o] = "enriched"]
  /\ UNCHANGED <<table, request, recorded, open, dead, index>>

\* The second transaction records order.created and the stock updates.
RecordOrderEvents(o) ==
  /\ creation[o] = "enriched"
  /\ Record((IF hasItems[o] THEN {Event("stock", o, "none", "none")} ELSE {})
            \union IF snapshot[o] = "nil" THEN {}
                   ELSE {Event("created", o, snapshot[o], "none")})
  /\ creation' = [creation EXCEPT ![o] = "over"]
  /\ UNCHANGED <<table, snapshot, request, dead, index>>

\* An error of that transaction, or a crash at any point after the first.
CreationFails(o) ==
  /\ creation[o] \in {"inserted", "enriched"}
  /\ creation' = [creation EXCEPT ![o] = "over"]
  /\ UNCHANGED <<table, snapshot, request, recorded, open, dead, index>>

-----------------------------------------------------------------------------
(* UpdateStatus and DeleteByID.                                            *)

Advance(r, step) == request' = [request EXCEPT ![r].at = step]

\* No session, or not an administrator's; or the id or the status is missing.
RefuseRequest(r) ==
  /\ request[r].at = "new"
  /\ Advance(r, "over")
  /\ UNCHANGED <<table, creation, snapshot, recorded, open, dead, index>>

BeginRequest(r, o, t) ==
  /\ request[r].at = "new"
  /\ request' = [request EXCEPT ![r] = [at |-> "found", order |-> o, target |-> t]]
  /\ UNCHANGED <<table, creation, snapshot, recorded, open, dead, index>>

\* UpdateStatus loads the order and asks the user service about its buyer before the
\* transaction.
UpdateStatus(r, o, t) ==
  /\ t # "delete"
  /\ \E a \in HttpClientUserService(SelectByID(o)) : a.code = "ok"
  /\ BeginRequest(r, o, t)

\* DeleteByID starts with the transaction.
DeleteByID(r, o) ==
  /\ "delete" \in Targets
  /\ row[o] # "none"
  /\ BeginRequest(r, o, "delete")

\* Seeded bug: the transition out of Pending is not restricted (the comparison is with
\* another spelling, as the column's default "pending").
Permits_NoPending(from, to) ==
  /\ from = "Confirmed" => to \in {"Process", "Cancelled"}
  /\ from = "Process"   => to \in {"Sending", "Cancelled"}
  /\ from = "Sending"   => to \in {"Done", "Cancelled"}

\* The conditions repo.UpdateStatus tests; nothing is tested for any other status.
Permits(from, to) ==
  /\ from = "Pending"   => to \in {"Confirmed", "Cancelled"}
  /\ from = "Confirmed" => to \in {"Process", "Cancelled"}
  /\ from = "Process"   => to \in {"Sending", "Cancelled"}
  /\ from = "Sending"   => to \in {"Done", "Cancelled"}

\* The SELECT of UpdateStatus's transaction, which takes no lock, and the test of its result.
CheckRow(r) ==
  LET q == request[r] IN
  /\ q.at = "found" /\ q.target # "delete"
  /\ live[q.order]
  /\ Permits(row[q.order], q.target)
  /\ Advance(r, "checked")
  /\ UNCHANGED <<table, creation, snapshot, recorded, open, dead, index>>

\* The SELECT of DeleteOrder.
FindRow(r) ==
  LET q == request[r] IN
  /\ q.at = "found" /\ q.target = "delete"
  /\ live[q.order]
  /\ Advance(r, "checked")
  /\ UNCHANGED <<table, creation, snapshot, recorded, open, dead, index>>

\* The UPDATE: the row is locked until the end of the transaction.
LockRow(r) ==
  /\ request[r].at = "checked"
  /\ \A s \in Requests : request[s].order = request[r].order => request[s].at # "locked"
  /\ Advance(r, "locked")
  /\ UNCHANGED <<table, creation, snapshot, recorded, open, dead, index>>

\* Seeded bug: the events are not recorded in the transaction.
CommitStatus_NoEvents(r) ==
  LET q == request[r] IN
  /\ q.at = "locked"
  /\ q.target # "delete"
  /\ IF live[q.order]
     THEN /\ row'     = [row EXCEPT ![q.order] = q.target]
          /\ visited' = [visited EXCEPT ![q.order] = @ \union {q.target}]
     ELSE UNCHANGED <<row, visited>>
  /\ Advance(r, "over")
  /\ UNCHANGED <<live, hasItems, creation, snapshot, recorded, open, dead, index>>

\* The events are recorded and the transaction commits.  An UPDATE of a row deleted
\* meanwhile has changed nothing, without an error.
CommitStatus(r) ==
  LET q == request[r] IN
  /\ q.at = "locked"
  /\ q.target # "delete"
  /\ IF live[q.order]
     THEN /\ row'     = [row EXCEPT ![q.order] = q.target]
          /\ visited' = [visited EXCEPT ![q.order] = @ \union {q.target}]
     ELSE UNCHANGED <<row, visited>>
  /\ Record({Event("status", q.order, q.target, r)})
  /\ Advance(r, "over")
  /\ UNCHANGED <<live, hasItems, creation, snapshot, dead, index>>

CommitDelete(r) ==
  LET q == request[r] IN
  /\ q.at = "locked"
  /\ q.target = "delete"
  /\ live' = [live EXCEPT ![q.order] = FALSE]
  /\ Record({Event("deleted", q.order, "none", r)})
  /\ Advance(r, "over")
  /\ UNCHANGED <<row, hasItems, visited, creation, snapshot, dead, index>>

\* Seeded bug: the events are recorded outside the transaction and survive its rollback.
RequestFails_EventsStay(r) ==
  LET q == request[r] IN
  /\ q.at \in {"found", "checked", "locked"}
  /\ IF q.at = "locked" /\ q.target # "delete"
     THEN Record({Event("status", q.order, q.target, r)})
     ELSE UNCHANGED <<recorded, open>>
  /\ Advance(r, "over")
  /\ UNCHANGED <<table, creation, snapshot, dead, index>>

\* "404", "400", a database error or a crash: the transaction rolls back.
RequestFails(r) ==
  /\ request[r].at \in {"found", "checked", "locked"}
  /\ Advance(r, "over")
  /\ UNCHANGED <<table, creation, snapshot, recorded, open, dead, index>>

-----------------------------------------------------------------------------
\* The payment service reads the order by HTTP and records payment.success in its own outbox.
PayOrder(o) ==
  /\ \E a \in GetByID(o) : a.code = "ok"
  /\ ~ \E e \in recorded : e.type = "paid" /\ e.order = o
  /\ Record({Event("paid", o, "none", "none")})
  /\ UNCHANGED <<table, creation, snapshot, request, dead, index>>

-----------------------------------------------------------------------------
(* The consumers.                                                          *)

\* A handler's delivery ends with an ack, or the event comes again: its copy was
\* redelivered or the outbox had published it twice.
Handled(e) == open' \in {open, open \ {e}}

\* OrderESIndexHandler writes the document whatever the index holds.
IndexOrder(e) ==
  /\ e \in open
  /\ e.type = "created"
  /\ doc' = [doc EXCEPT ![e.order] = e.status]
  /\ paidDoc' = paidDoc \ {e.order}
  /\ Handled(e)
  /\ UNCHANGED <<table, creation, snapshot, request, recorded, dead>>

\* OrderUpdateStatusHandler sets the status of an existing document.
IndexStatus(e) ==
  /\ e \in open
  /\ e.type = "status"
  /\ doc[e.order] # "absent"
  /\ doc' = [doc EXCEPT ![e.order] = e.status]
  /\ Handled(e)
  /\ UNCHANGED <<table, creation, snapshot, request, recorded, dead, paidDoc>>

\* OrderPaymentSuccessHandler names the method in an existing document.
IndexPayment(e) ==
  /\ e \in open
  /\ e.type = "paid"
  /\ doc[e.order] # "absent"
  /\ paidDoc' = paidDoc \union {e.order}
  /\ Handled(e)
  /\ UNCHANGED <<table, creation, snapshot, request, recorded, dead, doc>>

\* OrderESDeleteHandler; an absent document is a success.
IndexDelete(e) ==
  /\ e \in open
  /\ e.type = "deleted"
  /\ doc' = [doc EXCEPT ![e.order] = "absent"]
  /\ paidDoc' = paidDoc \ {e.order}
  /\ Handled(e)
  /\ UNCHANGED <<table, creation, snapshot, request, recorded, dead>>

\* The product service takes the stock updates.
DeductStock(e) ==
  /\ e \in open
  /\ e.type = "stock"
  /\ Handled(e)
  /\ UNCHANGED <<table, creation, snapshot, request, recorded, dead, index>>

\* The handler failed on every try, as that of a status or payment event does while the
\* document is missing, or the outbox gave the event up.
DeadLetter(e) ==
  /\ e \in open
  /\ open' = open \ {e}
  /\ dead' = dead \union {e}
  /\ UNCHANGED <<table, creation, snapshot, request, recorded, index>>

-----------------------------------------------------------------------------
CreateOrder(o) ==
  \/ DistanceCheck(o) \/ BadOrder(o)
  \/ InsertOrder(o) \/ EnrichOrder(o) \/ RecordOrderEvents(o) \/ CreationFails(o)

HandleRequest(r) ==
  \/ CheckRow(r) \/ FindRow(r)
  \/ LockRow(r)
  \/ CommitStatus(r)
  \/ CommitDelete(r)
  \/ RequestFails(r)

Consume(e) ==
  \/ IndexOrder(e) \/ IndexStatus(e) \/ IndexPayment(e) \/ IndexDelete(e)
  \/ DeductStock(e)
  \/ DeadLetter(e)

Next ==
  \/ \E o \in Orders : CreateOrder(o) \/ PayOrder(o)
  \/ \E r \in Requests :
       \/ RefuseRequest(r)
       \/ \E o \in Orders : (\E t \in Targets : UpdateStatus(r, o, t)) \/ DeleteByID(r, o)
       \/ HandleRequest(r)
  \/ \E e \in open : Consume(e)

Spec == Init /\ [][Next]_vars

-----------------------------------------------------------------------------
(* Properties.                                                             *)

Events ==
  [type : {"created", "stock", "status", "paid", "deleted"}, order : Orders,
   status : Statuses \union {"none"}, by : Requests \union {"none"}]

TypeOK ==
  /\ row      \in [Orders -> Statuses \union {"none"}]
  /\ live     \in [Orders -> BOOLEAN]
  /\ hasItems \in [Orders -> BOOLEAN]
  /\ creation \in [Orders -> CreateSteps]
  /\ snapshot \in [Orders -> Statuses \union {"nil"}]
  /\ request  \in [Requests -> [at : RequestSteps, order : Orders \union {"none"},
                                target : Targets \union {"none"}]]
  /\ recorded \subseteq Events
  /\ open     \subseteq recorded
  /\ dead     \subseteq recorded
  /\ doc      \in [Orders -> Statuses \union {"absent"}]
  /\ paidDoc  \subseteq {o \in Orders : doc[o] # "absent"}
  /\ visited  \in [Orders -> SUBSET Statuses]
  /\ \A o \in Orders : row[o] # "none" => row[o] \in visited[o]

\* Whatever requests overlap, an order never reaches a status whose predecessor in the
\* workflow it has not been in, unless it was cancelled first (a cancelled order may be
\* given any status).
Predecessor(s) ==
  CASE s = "Confirmed" -> "Pending"
    [] s = "Process"   -> "Confirmed"
    [] s = "Sending"   -> "Process"
    [] s = "Done"      -> "Sending"
    [] OTHER           -> s

StatusFollowsWorkflow ==
  \A o \in Orders : \A s \in visited[o] :
    Predecessor(s) \in visited[o] \/ "Cancelled" \in visited[o]

\* A status change and its events are one: the statuses an order that was never deleted has
\* had are Pending and those announced, no more (a change nobody hears of) and no fewer (a
\* notice of a change that was rolled back).
Announced(o) == {e.status : e \in {e \in recorded : e.type = "status" /\ e.order = o}}

ChangesAreAnnounced ==
  \A o \in Orders : live[o] => visited[o] = {"Pending"} \union Announced(o)

\* What a reader is shown of an order that exists is a status it has had: neither the snapshot
\* CreateOrder takes between its transactions, nor a late or repeated event, nor the change
\* from index to rows invents one.  (It may be an old one; and for a deleted order one that
\* an update of the deleted row announced without having changed anything.)  And once
\* order.created was recorded and every event of the order was handled, whatever their order,
\* both lists show it - unless Elasticsearch or a service fails, or the caller also owns an
\* order without items.
Settled(o) ==
  /\ \E e \in recorded : e.type = "created" /\ e.order = o
  /\ \A e \in open \union dead : e.order # o

Details(o) ==
  GetByIDAdmin(o) \union GetDetailCustomer(o) \union GetOrderByOrderCode(o)

Lists(o) ==
  GetAllAdmin("any") \union
  UNION {GetAllCustomer(owned, "any") : owned \in {owned \in SUBSET Orders : o \in owned}}

ReadersSeeOrders ==
  \A o \in Orders : live[o] =>
    /\ \A a \in Details(o) \union Lists(o) : \A e \in a.shows : e.order = o => e.status \in visited[o]
    /\ Settled(o) => \A a \in Lists(o) : a.code = "ok" => \E e \in a.shows : e.order = o

\* UpdateStatus answers "Invalid status transition" to what Permits refuses, so the row
\* should never make such a change.
OnlyPermittedTransitions ==
  [][\A o \in Orders :
       row[o] # "none" /\ row'[o] # row[o] => Permits(row[o], row'[o])]_vars

=============================================================================
