------------------------------ MODULE Payments ------------------------------
(***************************************************************************)
(* payment-service: requests that create a payment, Midtrans webhooks that  *)
(* change its status, the reads, and the gateway. A payment, its log and    *)
(* its outbox event are written in one transaction; the transaction that    *)
(* CreateTransaction makes at Midtrans is outside it.                       *)
(***************************************************************************)
EXTENDS Naturals, FiniteSets, FiniteSetsExt

CONSTANTS
  PayOrders,    \* ids of orders
  PayRequests,  \* HTTP requests, webhook calls among them, each handled once
  MaxPayFaults, \* bound: failed calls and crashes
  NoOrder

ASSUME PaymentsAssumption ==
  /\ MaxPayFaults \in Nat /\ IsFiniteSet(PayRequests)
  /\ NoOrder \notin PayOrders

VARIABLES
  payment,    \* the table payments
  paymentLog, \* the table payment_logs: [id, status]
  announced,  \* payment.success events in the outbox: [order, by]
  charge,     \* Midtrans' transactions: [order, by], by the request that made it
  payHttp,    \* payHttp[r]: the request, the row of its open transaction, its answer
  payRaced,   \* history: orders with overlapping requests, or whose look-up failed
  payFaults

payVars == <<payment, paymentLog, announced, charge, payHttp, payRaced, payFaults>>

Methods  == {"cod", "midtrans", "other"}
\* What a notification can say: one value for each branch of the handler's switch.
Reported == {"settlement", "expire", "pending", "refund"}
Statuses == {"none", "Success", "Pending", "success", "failed", "pending", "unknown"}
PaymentRows == [id : 1 .. Cardinality(PayRequests), order : PayOrders, method : Methods,
                status : Statuses, by : PayRequests]

NewPayRequest == [pc |-> "new", op |-> "none", order |-> NoOrder, method |-> "none",
                  said |-> "none", status |-> "none", row |-> {}, code |-> "none"]

PayInit ==
  /\ payment = {} /\ paymentLog = {} /\ announced = {} /\ charge = {}
  /\ payHttp = [r \in PayRequests |-> NewPayRequest]
  /\ payRaced = {} /\ payFaults = 0

PayAt(r, op, pc)    == payHttp[r].op = op /\ payHttp[r].pc = pc
PayGo(r, pc)        == payHttp' = [payHttp EXCEPT ![r].pc = pc]
PayAnswer(r, code)  == payHttp' = [payHttp EXCEPT ![r].pc = "done", ![r].code = code, ![r].row = {}]
PayFault            == payFaults < MaxPayFaults /\ payFaults' = payFaults + 1
PayTables           == <<payment, paymentLog, announced>>
OfOrder(o)          == {p \in payment : p.order = o}
OpenRows            == UNION {payHttp[r].row : r \in PayRequests}

-----------------------------------------------------------------------------
(* A request to pay for an order. *)
CreatePayment(r) ==
  /\ PayAt(r, "none", "new")
  /\ \/ \E o \in PayOrders, m \in Methods :
          /\ payHttp' = [payHttp EXCEPT ![r].op = "create", ![r].order = o, ![r].method = m, ![r].pc = "look"]
          /\ payRaced' = payRaced \union
               {x \in {o} : \E q \in PayRequests : /\ payHttp[q].op = "create" /\ payHttp[q].order = o
                                                  /\ payHttp[q].pc # "done"}
     \/ \* no token, or a body that does not bind or validate
        PayAnswer(r, "refused") /\ UNCHANGED payRaced
  /\ UNCHANGED <<PayTables, charge, payFaults>>

\* Seeded bug: no look-up.
X_GetNothing(o, found) == found = FALSE /\ UNCHANGED <<payRaced, payFaults>>

\* Every error counts as "no payment", not only "record not found".
GetByOrderID(o, found) ==
  \/ found = (OfOrder(o) # {}) /\ UNCHANGED <<payRaced, payFaults>>
  \/ found = FALSE /\ PayFault /\ payRaced' = payRaced \union {o}

ProcessPayment(r) ==
  /\ PayAt(r, "create", "look")
  /\ \E found \in BOOLEAN :
       /\ GetByOrderID(payHttp[r].order, found)
       /\ \/ found /\ PayAnswer(r, "error")
          \/ ~found /\ payHttp[r].method = "cod"
             /\ payHttp' = [payHttp EXCEPT ![r].pc = "row", ![r].status = "Success"]
          \/ ~found /\ payHttp[r].method = "midtrans" /\ PayGo(r, "user")
          \/ ~found /\ payHttp[r].method = "other" /\ PayAnswer(r, "error")
  /\ UNCHANGED <<PayTables, charge>>

\* A payment is shown with its order, then its customer.
GetDetail(r) ==
  \/ PayAt(r, "read", "order") /\ PayGo(r, "user")
  \/ PayAt(r, "read", "user") /\ PayAnswer(r, "ok")

\* The payments of a list are shown with their orders.
GetAll(r) == PayAt(r, "list", "order") /\ PayAnswer(r, "ok")

\* GET /auth/profile or /admin/customers/:id. An answer with an error status is read like any other.
HttpClientUserService(r) ==
  /\ payHttp[r].pc = "user"
  /\ \/ payHttp[r].op = "create" /\ PayGo(r, "order") /\ UNCHANGED payFaults
     \/ GetDetail(r) /\ UNCHANGED payFaults
     \/ PayAnswer(r, "error") /\ PayFault
  /\ UNCHANGED <<PayTables, charge, payRaced>>

\* GET /auth/orders/:id. An order that was not found has the empty code, which Midtrans refuses.
HttpClientOrderService(r) ==
  /\ payHttp[r].pc = "order"
  /\ \/ payHttp[r].op = "create" /\ PayGo(r, "charge") /\ UNCHANGED payFaults
     \/ GetDetail(r) /\ UNCHANGED payFaults
     \/ GetAll(r) /\ UNCHANGED payFaults
     \/ PayAnswer(r, "error") /\ PayFault
  /\ UNCHANGED <<PayTables, charge, payRaced>>

\* Midtrans answers with a token, refuses, or makes the transaction and the answer is lost.
CreateTransaction(r) ==
  LET made == charge \union {[order |-> payHttp[r].order, by |-> r]}
  IN /\ PayAt(r, "create", "charge")
     /\ \/ /\ charge' = made /\ UNCHANGED payFaults
           /\ payHttp' = [payHttp EXCEPT ![r].pc = "row", ![r].status = "Pending"]
        \/ charge' \in {charge, made} /\ PayFault /\ PayAnswer(r, "error")
     /\ UNCHANGED <<PayTables, payRaced>>

\* INSERT of the payment, with the next id of the sequence, and of its log.
CreatePaymentInTx(r) ==
  LET req == payHttp[r]
      row == [id |-> Max({0} \union {p.id : p \in payment \union OpenRows}) + 1, order |-> req.order,
              method |-> req.method, status |-> req.status, by |-> r]
  IN /\ PayAt(r, "create", "row")
     /\ \/ payHttp' = [payHttp EXCEPT ![r].pc = "event", ![r].row = {row}] /\ UNCHANGED payFaults
        \/ PayAnswer(r, "error") /\ PayFault
     /\ UNCHANGED <<PayTables, charge, payRaced>>

\* Seeded bug: the event is left out.
X_NoEvent(row) ==
  /\ payment' = payment \union {row}
  /\ paymentLog' = paymentLog \union {[id |-> row.id, status |-> row.status]}
  /\ UNCHANGED announced

\* What COMMIT makes visible of the transaction that holds row.
Committed(row) ==
  /\ payment' = payment \union {row}
  /\ paymentLog' = paymentLog \union {[id |-> row.id, status |-> row.status]}
  /\ announced' = announced \union {[order |-> row.order, by |-> row.by]}

\* The event, then COMMIT: done, rolled back, or done and the answer is lost. The name of the
\* queue is configured (.env.example:60); without one the code records no event.
InsertPaymentSuccessOutbox(r) ==
  /\ PayAt(r, "create", "event")
  /\ \E row \in payHttp[r].row :
       \/ Committed(row) /\ PayAnswer(r, "ok") /\ UNCHANGED payFaults
       \/ Committed(row) /\ PayAnswer(r, "error") /\ PayFault
       \/ UNCHANGED PayTables /\ PayAnswer(r, "error") /\ PayFault
  /\ UNCHANGED <<charge, payRaced>>

-----------------------------------------------------------------------------
(* Midtrans reports on a transaction, whatever became of the request that made it. Who posts the *)
(* report is not verified; the model has only the gateway post it.                              *)
NewStatus(said) ==
  CASE said = "settlement" -> "success"  \* also "capture"
    [] said = "expire"     -> "failed"   \* also "deny" and "cancel"
    [] said = "pending"    -> "pending"
    [] OTHER               -> "unknown"

MidtransWebHook(r) ==
  /\ PayAt(r, "none", "new")
  /\ \/ \E c \in charge, said \in Reported :
          payHttp' = [payHttp EXCEPT ![r].op = "webhook", ![r].pc = "code", ![r].order = c.order,
                                     ![r].said = said, ![r].status = NewStatus(said)]
     \/ PayAnswer(r, "refused")
  /\ UNCHANGED <<PayTables, charge, payRaced, payFaults>>

\* GET /public/orders/:code/code of order-service.
HttpClientPublicOrderIDByCode(r) ==
  /\ PayAt(r, "webhook", "code")
  /\ \/ PayGo(r, "find") /\ UNCHANGED payFaults
     \/ PayAnswer(r, "error") /\ PayFault
  /\ UNCHANGED <<PayTables, charge, payRaced>>

FindPayment(r) ==
  /\ PayAt(r, "webhook", "find")
  /\ LET rows == OfOrder(payHttp[r].order)
         first == {p \in rows : \A q \in rows : p.id <= q.id}
     IN IF rows = {} THEN PayAnswer(r, "error")
        ELSE payHttp' = [payHttp EXCEPT ![r].pc = "save", ![r].row = first]
  /\ UNCHANGED <<PayTables, charge, payRaced, payFaults>>

\* Save writes the whole row that First read, and nothing else: no log, no event.
SavePayment(r) ==
  /\ PayAt(r, "webhook", "save")
  /\ \E row \in payHttp[r].row :
       \/ /\ payment' = {p \in payment : p.id # row.id} \union {[row EXCEPT !.status = payHttp[r].status]}
          /\ PayAnswer(r, "ok") /\ UNCHANGED payFaults
       \/ UNCHANGED payment /\ PayAnswer(r, "error") /\ PayFault
  /\ UNCHANGED <<paymentLog, announced, charge, payRaced>>

-----------------------------------------------------------------------------
(* GET /payments/:id and the lists: the rows, then the other services.      *)
SelectPayment(id, found) == found = \E p \in payment : p.id = id

GetDetailPayment(r) ==
  /\ PayAt(r, "none", "new")
  /\ \E id \in 1 .. Cardinality(PayRequests), found \in BOOLEAN :
       /\ SelectPayment(id, found)
       /\ \/ found  /\ payHttp' = [payHttp EXCEPT ![r].op = "read", ![r].pc = "order"]
          \/ ~found /\ PayAnswer(r, "error")
  /\ UNCHANGED <<PayTables, charge, payRaced, payFaults>>

\* The rows that match the user, the search and the page. None is an error.
SelectPayments == SUBSET payment

GetAllPayments(r) ==
  /\ PayAt(r, "none", "new")
  /\ \E rows \in SelectPayments :
       IF rows = {} THEN PayAnswer(r, "error")
       ELSE payHttp' = [payHttp EXCEPT ![r].op = "list", ![r].pc = "order"]
  /\ UNCHANGED <<PayTables, charge, payRaced, payFaults>>

\* The process dies: open transactions are rolled back, nobody is answered.
PayCrash ==
  /\ PayFault
  /\ payHttp' = [r \in PayRequests |->
       IF payHttp[r].pc \in {"new", "done"} THEN payHttp[r]
       ELSE [payHttp[r] EXCEPT !.pc = "done", !.code = "lost", !.row = {}]]
  /\ UNCHANGED <<PayTables, charge, payRaced>>

PayNext ==
  \/ \E r \in PayRequests :
       \/ CreatePayment(r) \/ ProcessPayment(r)
       \/ HttpClientUserService(r) \/ HttpClientOrderService(r) \/ CreateTransaction(r)
       \/ CreatePaymentInTx(r) \/ InsertPaymentSuccessOutbox(r)
       \/ MidtransWebHook(r) \/ HttpClientPublicOrderIDByCode(r) \/ FindPayment(r) \/ SavePayment(r)
       \/ GetDetailPayment(r) \/ GetAllPayments(r)
  \/ PayCrash

-----------------------------------------------------------------------------
PaymentsTypeOK ==
  /\ payment \subseteq PaymentRows
  /\ paymentLog \subseteq [id : 1 .. Cardinality(PayRequests), status : Statuses]
  /\ announced \union charge \subseteq [order : PayOrders, by : PayRequests]
  /\ \A r \in PayRequests :
       /\ payHttp[r].row \subseteq PaymentRows
       /\ payHttp[r].code \in {"none", "ok", "refused", "error", "lost"}
       /\ payHttp[r].status \in Statuses /\ payHttp[r].order \in PayOrders \union {NoOrder}
  /\ payRaced \subseteq PayOrders
  /\ payFaults \in 0 .. MaxPayFaults

(* An order has one payment, unless two requests for it overlapped or the   *)
(* look-up of one of them failed: payments has no unique constraint, and    *)
(* GetByOrderID before the gateway call is all there is                     *)
(* (payment_service.go:130). In particular a request repeated after an      *)
(* error, a crash or a lost answer does not create a second payment.        *)
OnePaymentPerOrder ==
  \A o \in PayOrders \ payRaced : Cardinality(OfOrder(o)) <= 1

\* The row, its log and its event are there together.
LoggedAndAnnounced ==
  /\ announced = {[order |-> p.order, by |-> p.by] : p \in payment}
  /\ {l.id : l \in paymentLog} = {p.id : p \in payment}

\* A transaction at Midtrans has its payment, or its request was not answered "success".
ChargesRecorded ==
  \A c \in charge : payHttp[c.by].code = "ok" => \E p \in payment : p.by = c.by /\ p.order = c.order

\* The status is the first one, or what Midtrans said about a transaction of that order.
StatusFromGateway ==
  \A p \in payment :
    \/ p.status = IF p.method = "cod" THEN "Success" ELSE "Pending"
    \/ \E r \in PayRequests :
         /\ payHttp[r].op = "webhook" /\ payHttp[r].order = p.order
         /\ \/ payHttp[r].said = "settlement" /\ p.status = "success"
            \/ payHttp[r].said = "expire"     /\ p.status = "failed"
            \/ payHttp[r].said = "pending"    /\ p.status = "pending"
            \/ payHttp[r].said = "refund"     /\ p.status = "unknown"

(* Whatever fails, the payments, their logs, their events and Midtrans'     *)
(* transactions fit together (createPaymentWithOutbox, the webhook).        *)
PaymentsAreWhole == LoggedAndAnnounced /\ ChargesRecorded /\ StatusFromGateway
=============================================================================
