---------------------------- MODULE OrdersProofs ----------------------------
(***************************************************************************)
(* Theorems about Orders, for any number of orders and requests.           *)
(*                                                                         *)
(* None of the properties is inductive alone: what a transaction may write *)
(* was decided before it held the row's lock, and what an event may put in *)
(* the index was decided when it was recorded.  OrdersInv adds what is     *)
(* remembered in between, by a request, by an event and by CreateOrder.    *)
(***************************************************************************)
EXTENDS Orders, TLAPS

-----------------------------------------------------------------------------
(* The inductive invariant.                                                *)

\* t may be added to the statuses o has had: StatusFollowsWorkflow survives.
Reachable(o, t) ==
  \/ Predecessor(t) \in visited[o] \union {t}
  \/ "Cancelled" \in visited[o] \union {t}

\* A request under way is about a row that was inserted, and once it passed the test of the row
\* - with no lock on it - its target follows the workflow, whatever others did to the row since.
RequestOK(q) ==
  q.at \in {"found", "checked", "locked"} =>
    /\ q.order \in Orders /\ row[q.order] # "none" /\ q.target \in Targets
    /\ q.at # "found" /\ q.target # "delete" => Reachable(q.order, q.target)

RequestsInv == \A r \in Requests : RequestOK(request[r])

\* Before the row is inserted there is nothing of the order, and it is inserted once.
RowsInv ==
  \A o \in Orders :
    /\ row[o] = "none" => ~live[o] /\ visited[o] = {} /\ doc[o] = "absent"
    /\ creation[o] = "none" => row[o] = "none"
    /\ creation[o] \in {"inserted", "enriched"} => row[o] # "none"
    /\ snapshot[o] \in visited[o] \union {"nil"}

\* Events are recorded after the row is inserted.  order.created carries a status the row has
\* had; a deleted row stays deleted.
EventOK(e) ==
  /\ e.type \in {"created", "status", "deleted"} => row[e.order] # "none"
  /\ e.type = "created" => e.status \in visited[e.order]
  /\ e.type = "status"  => e.status \in Statuses
  /\ e.type = "deleted" => ~live[e.order]

EventsInv == \A e \in recorded : EventOK(e)

\* The document of an order that exists shows a status it has had, and is there once
\* order.created was handled.
DocsInv ==
  /\ \A o \in Orders : live[o] /\ doc[o] # "absent" => doc[o] \in visited[o]
  /\ \A e \in recorded \ (open \union dead) :
       e.type = "created" /\ live[e.order] => doc[e.order] # "absent"

OrdersInv ==
  /\ TypeOK /\ RequestsInv /\ RowsInv /\ EventsInv /\ DocsInv
  /\ StatusFollowsWorkflow /\ ChangesAreAnnounced

-----------------------------------------------------------------------------
(* Type correctness.                                                       *)

\* The reads of one order show its row, if they show anything.
LEMMA DetailsShowTheRow ==
  ASSUME NEW o \in Orders, NEW a \in GetByID(o) \union SelectByID(o) \union Details(o)
  PROVE  /\ a.code = "ok" => live[o] /\ a.shows = {Entry(o, row[o])}
         /\ a.code # "ok" => a.shows = {}
         /\ a.shows \subseteq {Entry(o, row[o])} /\ (a.shows # {} => live[o])
  BY DEF GetByID, SelectByID, Details, GetByIDAdmin, GetDetailCustomer, GetDetail,
         GetOrderByOrderCode, GetByOrderCode, SelectByOrderCode, CheckToken, Enriched,
         HttpClientProductService, HttpClientUserService, Answer, Failed

\* So the snapshot CreateOrder takes is the row's status or nothing.
LEMMA SnapshotIsTheRow ==
  ASSUME TypeOK, NEW o \in Orders, EnrichOrder(o)
  PROVE  \E s : /\ snapshot' = [snapshot EXCEPT ![o] = s]
                /\ s = "nil" \/ (live[o] /\ s = row[o])
<1>1. PICK a \in GetByID(o) \union SelectByID(o) :
        \E s \in {e.status : e \in a.shows} \union (IF a.code = "ok" THEN {} ELSE {"nil"}) :
          snapshot' = [snapshot EXCEPT ![o] = s]
  BY DEF EnrichOrder
<1>2. PICK s \in {e.status : e \in a.shows} \union (IF a.code = "ok" THEN {} ELSE {"nil"}) :
        snapshot' = [snapshot EXCEPT ![o] = s]
  BY <1>1
<1>3. s = "nil" \/ \E e \in a.shows : s = e.status
  BY <1>2
<1>4. ASSUME NEW e \in a.shows, s = e.status
      PROVE  live[o] /\ s = row[o]
  <2>1. live[o] /\ e = Entry(o, row[o])
    BY DetailsShowTheRow, <1>4
  <2>2. QED
    BY <2>1, <1>4 DEF Entry
<1>5. QED
  BY <1>2, <1>3, <1>4

LEMMA InitOrdersInv == Init => OrdersInv
  BY OrdersAssumption
     DEF Init, OrdersInv, TypeOK, RequestsInv, RequestOK, RowsInv, EventsInv, EventOK, DocsInv,
         StatusFollowsWorkflow, ChangesAreAnnounced, CreateSteps, RequestSteps, Events

LEMMA NextTypeOK == OrdersInv /\ [Next]_vars => TypeOK'
<1> SUFFICES ASSUME OrdersInv, [Next]_vars
             PROVE  TypeOK'
  OBVIOUS
<1>0. TypeOK /\ RequestsInv /\ RowsInv /\ EventsInv
  BY DEF OrdersInv
<1> USE <1>0, OrdersAssumption DEF TypeOK
<1>1. ASSUME NEW o \in Orders, InsertOrder(o)
      PROVE  TypeOK'
  BY <1>1 DEF InsertOrder, index, CreateSteps, Statuses
<1>2. ASSUME NEW o \in Orders, DistanceCheck(o) \/ BadOrder(o) \/ CreationFails(o)
      PROVE  TypeOK'
  BY <1>2 DEF DistanceCheck, BadOrder, CreationFails, table, index, CreateSteps
<1>3. ASSUME NEW o \in Orders, EnrichOrder(o)
      PROVE  TypeOK'
  <2>1. UNCHANGED <<table, request, recorded, open, dead, index>>
        /\ creation' = [creation EXCEPT ![o] = "enriched"]
    BY <1>3 DEF EnrichOrder
  <2>2. PICK s : /\ snapshot' = [snapshot EXCEPT ![o] = s]
                 /\ s = "nil" \/ (live[o] /\ s = row[o])
    BY <1>3, SnapshotIsTheRow
  <2>3. s \in Statuses \union {"nil"}
    BY <2>2 DEF RowsInv
  <2>4. QED
    BY <2>1, <2>2, <2>3 DEF table, index, CreateSteps
<1>4. ASSUME NEW o \in Orders, RecordOrderEvents(o)
      PROVE  TypeOK'
  <2>1. /\ Event("stock", o, "none", "none") \in Events
        /\ snapshot[o] # "nil" => Event("created", o, snapshot[o], "none") \in Events
    BY DEF Event, Events
  <2>2. recorded' \subseteq Events /\ open' \subseteq recorded' /\ dead \subseteq recorded'
    BY <1>4, <2>1 DEF RecordOrderEvents, Record
  <2>3. QED
    BY <1>4, <2>2 DEF RecordOrderEvents, table, index, CreateSteps
<1>5. ASSUME NEW o \in Orders, PayOrder(o)
      PROVE  TypeOK'
  <2>1. Event("paid", o, "none", "none") \in Events
    BY DEF Event, Events
  <2>2. recorded' \subseteq Events /\ open' \subseteq recorded' /\ dead \subseteq recorded'
    BY <1>5, <2>1 DEF PayOrder, Record
  <2>3. QED
    BY <1>5, <2>2 DEF PayOrder, table, index
<1>6. ASSUME NEW r \in Requests, RefuseRequest(r) \/ RequestFails(r) \/ LockRow(r)
                                  \/ CheckRow(r) \/ FindRow(r)
      PROVE  TypeOK'
  <2>1. \E st \in RequestSteps : Advance(r, st)
    BY <1>6 DEF RefuseRequest, RequestFails, LockRow, CheckRow, FindRow, RequestSteps
  <2>2. UNCHANGED <<table, creation, snapshot, recorded, open, dead, index>>
    BY <1>6 DEF RefuseRequest, RequestFails, LockRow, CheckRow, FindRow
  <2>3. request' \in [Requests -> [at : RequestSteps, order : Orders \union {"none"},
                                    target : Targets \union {"none"}]]
    BY <2>1 DEF Advance
  <2>4. QED
    BY <2>2, <2>3 DEF table, index
<1>7. ASSUME NEW r \in Requests, NEW o \in Orders, NEW t \in Targets, UpdateStatus(r, o, t)
      PROVE  TypeOK'
  BY <1>7 DEF UpdateStatus, BeginRequest, table, index, RequestSteps
<1>8. ASSUME NEW r \in Requests, NEW o \in Orders, DeleteByID(r, o)
      PROVE  TypeOK'
  BY <1>8 DEF DeleteByID, BeginRequest, table, index, RequestSteps
<1>9. ASSUME NEW r \in Requests, CommitStatus(r) \/ CommitDelete(r)
      PROVE  TypeOK'
  <2> DEFINE q == request[r]
             s == IF q.target = "delete" THEN "none" ELSE q.target
             e == Event(IF q.target = "delete" THEN "deleted" ELSE "status", q.order, s, r)
  <2>1. q.order \in Orders /\ row[q.order] # "none" /\ q.target \in Targets
    BY <1>9 DEF CommitStatus, CommitDelete, RequestsInv, RequestOK
  <2>2. e \in Events /\ (q.target # "delete" => q.target \in Statuses)
    BY <2>1 DEF Event, Events
  <2>3. Record({e})
    BY <1>9 DEF CommitStatus, CommitDelete
  <2>4. recorded' \subseteq Events /\ open' \subseteq recorded' /\ dead \subseteq recorded'
    BY <2>2, <2>3 DEF Record
  <2>5. Advance(r, "over") /\ UNCHANGED <<hasItems, creation, snapshot, dead, index>>
    BY <1>9 DEF CommitStatus, CommitDelete
  <2>6. request' \in [Requests -> [at : RequestSteps, order : Orders \union {"none"},
                                    target : Targets \union {"none"}]]
    BY <2>5 DEF Advance, RequestSteps
  <2>7. /\ row' \in [Orders -> Statuses \union {"none"}]
        /\ live' \in [Orders -> BOOLEAN]
        /\ visited' \in [Orders -> SUBSET Statuses]
        /\ \A o \in Orders : row'[o] # "none" => row'[o] \in visited'[o]
    <3>1. CASE CommitStatus(r) /\ live[q.order]
      BY <2>1, <2>2, <3>1 DEF CommitStatus
    <3>2. CASE CommitStatus(r) /\ ~live[q.order]
      BY <3>2 DEF CommitStatus
    <3>3. CASE CommitDelete(r)
      BY <2>1, <3>3 DEF CommitDelete
    <3>4. QED
      BY <1>9, <3>1, <3>2, <3>3
  <2>8. QED
    BY <2>4, <2>5, <2>6, <2>7 DEF index
<1>10. ASSUME NEW e \in open, IndexOrder(e)
       PROVE  TypeOK'
  <2>1. e \in recorded /\ e.order \in Orders /\ e.type = "created"
    BY <1>10 DEF IndexOrder, Events
  <2>2. e.status \in Statuses
    BY <2>1 DEF EventsInv, EventOK
  <2>3. QED
    BY <1>10, <2>1, <2>2 DEF IndexOrder, Handled, table
<1>11. ASSUME NEW e \in open, IndexStatus(e)
       PROVE  TypeOK'
  <2>1. e \in recorded /\ e.order \in Orders /\ e.type = "status"
    BY <1>11 DEF IndexStatus, Events
  <2>2. e.status \in Statuses /\ e.status # "absent"
    BY <2>1 DEF EventsInv, EventOK, Statuses
  <2>3. QED
    BY <1>11, <2>1, <2>2 DEF IndexStatus, Handled, table
<1>12. ASSUME NEW e \in open, IndexPayment(e) \/ IndexDelete(e) \/ DeductStock(e) \/ DeadLetter(e)
       PROVE  TypeOK'
  <2>1. e \in recorded /\ e.order \in Orders
    BY DEF Events
  <2>2. /\ open' \subseteq recorded /\ dead' \subseteq recorded
        /\ UNCHANGED <<table, creation, snapshot, request, recorded>>
    BY <1>12, <2>1 DEF IndexPayment, IndexDelete, DeductStock, DeadLetter, Handled
  <2>3. /\ doc' \in [Orders -> Statuses \union {"absent"}]
        /\ paidDoc' \subseteq {o \in Orders : doc'[o] # "absent"}
    BY <1>12, <2>1 DEF IndexPayment, IndexDelete, DeductStock, DeadLetter, index
  <2>4. QED
    BY <2>2, <2>3 DEF table
<1>13. CASE UNCHANGED vars
  BY <1>13 DEF vars, table, index
<1>14. QED
  BY <1>1, <1>2, <1>3, <1>4, <1>5, <1>6, <1>7, <1>8, <1>9, <1>10, <1>11, <1>12, <1>13
     DEF Next, CreateOrder, HandleRequest, Consume

-----------------------------------------------------------------------------
(* Who writes what, and what is never undone.                              *)

\* The table has three writers, the recorded events four, the documents three.
LEMMA Writers ==
  ASSUME [Next]_vars
  PROVE  /\ \/ UNCHANGED table
            \/ \E o \in Orders : InsertOrder(o)
            \/ \E r \in Requests : CommitStatus(r) \/ CommitDelete(r)
         /\ \/ UNCHANGED recorded
            \/ \E o \in Orders : RecordOrderEvents(o) \/ PayOrder(o)
            \/ \E r \in Requests : CommitStatus(r) \/ CommitDelete(r)
         /\ \/ UNCHANGED doc
            \/ \E e \in open : IndexOrder(e) \/ IndexStatus(e) \/ IndexDelete(e)
<1>1. ASSUME NEW o \in Orders,
             \/ DistanceCheck(o) \/ BadOrder(o) \/ EnrichOrder(o) \/ CreationFails(o)
      PROVE  UNCHANGED <<table, recorded, doc>>
  BY <1>1 DEF DistanceCheck, BadOrder, EnrichOrder, CreationFails, index
<1>2. ASSUME NEW o \in Orders, InsertOrder(o)
      PROVE  UNCHANGED <<recorded, doc>>
  BY <1>2 DEF InsertOrder, index
<1>3. ASSUME NEW o \in Orders, RecordOrderEvents(o) \/ PayOrder(o)
      PROVE  UNCHANGED <<table, doc>>
  BY <1>3 DEF RecordOrderEvents, PayOrder, index
<1>4. ASSUME NEW r \in Requests, NEW o \in Orders, NEW t \in Targets,
             UpdateStatus(r, o, t) \/ DeleteByID(r, o)
      PROVE  UNCHANGED <<table, recorded, doc>>
  BY <1>4 DEF UpdateStatus, DeleteByID, BeginRequest, index
<1>5. ASSUME NEW r \in Requests,
             RefuseRequest(r) \/ CheckRow(r) \/ FindRow(r) \/ LockRow(r) \/ RequestFails(r)
      PROVE  UNCHANGED <<table, recorded, doc>>
  BY <1>5 DEF RefuseRequest, CheckRow, FindRow, LockRow, RequestFails, index
<1>6. ASSUME NEW r \in Requests, CommitStatus(r) \/ CommitDelete(r)
      PROVE  UNCHANGED doc
  BY <1>6 DEF CommitStatus, CommitDelete, index
<1>7. ASSUME NEW e \in open, Consume(e)
      PROVE  /\ UNCHANGED <<table, recorded>>
             /\ UNCHANGED doc \/ IndexOrder(e) \/ IndexStatus(e) \/ IndexDelete(e)
  BY <1>7 DEF Consume, IndexOrder, IndexStatus, IndexPayment, IndexDelete, DeductStock,
              DeadLetter, index
<1>8. CASE UNCHANGED vars
  BY <1>8 DEF vars, index
<1>9. ASSUME NEW r \in Requests, NEW o \in Orders, DeleteByID(r, o)
      PROVE  UNCHANGED <<table, recorded, doc>>
  BY <1>9 DEF DeleteByID, BeginRequest, index
<1>10. QED
  BY <1>1, <1>2, <1>3, <1>4, <1>5, <1>6, <1>7, <1>8, <1>9
     DEF Next, CreateOrder, HandleRequest

\* An inserted row stays, a deleted one stays deleted, and no status it had is forgotten.
LEMMA NothingIsUndone ==
  ASSUME OrdersInv, [Next]_vars, NEW o \in Orders
  PROVE  /\ visited[o] \subseteq visited'[o]
         /\ row[o] # "none" => row'[o] # "none"
         /\ row[o] # "none" /\ live'[o] => live[o]
<1> USE DEF OrdersInv, TypeOK
<1>1. CASE UNCHANGED table
  BY <1>1 DEF table
<1>2. ASSUME NEW p \in Orders, InsertOrder(p)
      PROVE  /\ visited[o] \subseteq visited'[o]
             /\ row[o] # "none" => row'[o] # "none"
             /\ row[o] # "none" /\ live'[o] => live[o]
  <2>1. row[p] = "none" /\ visited[p] = {}
    BY <1>2 DEF RowsInv, InsertOrder
  <2>2. QED
    BY <1>2, <2>1 DEF InsertOrder
<1>3. ASSUME NEW r \in Requests, CommitStatus(r) \/ CommitDelete(r)
      PROVE  /\ visited[o] \subseteq visited'[o]
             /\ row[o] # "none" => row'[o] # "none"
             /\ row[o] # "none" /\ live'[o] => live[o]
  <2>1. request[r].order \in Orders /\ request[r].target \in Targets
    BY <1>3 DEF RequestsInv, RequestOK, CommitStatus, CommitDelete
  <2>2. CASE CommitStatus(r) /\ live[request[r].order]
    <3>1. request[r].target \in Statuses /\ request[r].target # "none"
      BY <2>1, <2>2, OrdersAssumption DEF CommitStatus, Statuses
    <3>2. QED
      BY <2>1, <2>2, <3>1 DEF CommitStatus
  <2>3. CASE CommitStatus(r) /\ ~live[request[r].order]
    BY <2>3 DEF CommitStatus
  <2>4. CASE CommitDelete(r)
    BY <2>1, <2>4 DEF CommitDelete
  <2>5. QED
    BY <1>3, <2>2, <2>3, <2>4
<1>4. QED
  BY <1>1, <1>2, <1>3, Writers

-----------------------------------------------------------------------------
(* The requests.                                                           *)

\* What the test of a row permits follows the workflow, from whatever status.
LEMMA PermittedIsReachable ==
  ASSUME OrdersInv, NEW o \in Orders, row[o] # "none",
         NEW t \in Statuses, Permits(row[o], t)
  PROVE  Reachable(o, t)
<1>1. row[o] \in visited[o] /\ row[o] \in Statuses
  BY DEF OrdersInv, TypeOK
<1>2. \A s \in visited[o] : Predecessor(s) \in visited[o] \/ "Cancelled" \in visited[o]
  BY DEF OrdersInv, StatusFollowsWorkflow
<1>3. CASE row[o] = "Done"
  <2>1. \/ "Cancelled" \in visited[o]
        \/ {"Done", "Sending", "Process", "Confirmed", "Pending"} \subseteq visited[o]
    BY <1>1, <1>2, <1>3 DEF Predecessor
  <2>2. QED
    BY <2>1 DEF Reachable, Predecessor, Statuses
<1>4. CASE row[o] # "Done"
  BY <1>1, <1>4 DEF Permits, Reachable, Predecessor, Statuses
<1>5. QED
  BY <1>3, <1>4

\* A target stays reachable while other requests change the row.
LEMMA ReachableStays ==
  ASSUME OrdersInv, [Next]_vars, NEW o \in Orders, NEW t, Reachable(o, t)
  PROVE  Reachable(o, t)'
  BY NothingIsUndone DEF Reachable, Predecessor

\* So a request stays as it should be until it moves.
LEMMA RequestOKStays ==
  ASSUME OrdersInv, [Next]_vars, NEW q, RequestOK(q)
  PROVE  RequestOK(q)'
  BY NothingIsUndone, ReachableStays DEF RequestOK

LEMMA NextRequestsInv == OrdersInv /\ [Next]_vars => RequestsInv'
<1> SUFFICES ASSUME OrdersInv, [Next]_vars, NEW r \in Requests
             PROVE  RequestOK(request[r])'
  BY DEF RequestsInv
<1>0. TypeOK /\ RequestsInv /\ RowsInv /\ RequestOK(request[r])
  BY DEF OrdersInv, RequestsInv
<1>1. CASE request'[r] = request[r]
  BY <1>0, <1>1, RequestOKStays DEF RequestOK
<1>2. CASE request'[r].at \in {"new", "over"}
  BY <1>2 DEF RequestOK
<1>3. ASSUME NEW o \in Orders, NEW t \in Targets, UpdateStatus(r, o, t)
      PROVE  RequestOK(request[r])'
  <2>1. row[o] # "none"
    <3>1. PICK a \in SelectByID(o) \union {Failed} : a.code = "ok"
      BY <1>3 DEF UpdateStatus, HttpClientUserService
    <3>2. live[o]
      BY <3>1 DEF SelectByID, Failed, Answer
    <3>3. QED
      BY <1>0, <3>2 DEF RowsInv
  <2>2. request'[r] = [at |-> "found", order |-> o, target |-> t]
    BY <1>0, <1>3 DEF UpdateStatus, BeginRequest, TypeOK
  <2>3. QED
    BY <2>1, <2>2, NothingIsUndone DEF RequestOK
<1>4. ASSUME NEW o \in Orders, DeleteByID(r, o)
      PROVE  RequestOK(request[r])'
  <2>1. "delete" \in Targets /\ row[o] # "none"
        /\ request'[r] = [at |-> "found", order |-> o, target |-> "delete"]
    BY <1>0, <1>4 DEF DeleteByID, BeginRequest, TypeOK
  <2>2. QED
    BY <2>1, NothingIsUndone DEF RequestOK
<1>5. CASE CheckRow(r) \/ FindRow(r) \/ LockRow(r)
  <2> DEFINE q == request[r]
  <2>1. /\ q.at \in {"found", "checked"}
        /\ request'[r] \in [at : {"checked", "locked"}, order : {q.order}, target : {q.target}]
    BY <1>0, <1>5 DEF CheckRow, FindRow, LockRow, Advance, TypeOK
  <2>2. q.order \in Orders /\ row[q.order] # "none" /\ q.target \in Targets
    BY <1>0, <2>1 DEF RequestOK
  <2>3. q.target # "delete" => Reachable(q.order, q.target)
    <3>1. CASE CheckRow(r)
      BY <2>2, <3>1, PermittedIsReachable, OrdersAssumption DEF CheckRow
    <3>2. CASE FindRow(r)
      BY <3>2 DEF FindRow
    <3>3. CASE LockRow(r)
      BY <1>0, <3>3 DEF RequestOK, LockRow
    <3>4. QED
      BY <1>5, <3>1, <3>2, <3>3
  <2>4. QED
    BY <2>1, <2>2, <2>3, NothingIsUndone, ReachableStays DEF RequestOK
<1>6. CASE RefuseRequest(r) \/ RequestFails(r) \/ CommitStatus(r) \/ CommitDelete(r)
  <2>1. request'[r].at = "over"
    BY <1>0, <1>6 DEF RefuseRequest, RequestFails, CommitStatus, CommitDelete, Advance, TypeOK
  <2>2. QED
    BY <1>2, <2>1
<1>7. ASSUME NEW s \in Requests \ {r},
             \/ RefuseRequest(s) \/ HandleRequest(s)
             \/ \E o \in Orders : (\E t \in Targets : UpdateStatus(s, o, t)) \/ DeleteByID(s, o)
      PROVE  request'[r] = request[r]
  BY <1>0, <1>7 DEF HandleRequest, RefuseRequest, CheckRow, FindRow, LockRow, RequestFails,
     CommitStatus, CommitDelete, Advance, UpdateStatus, DeleteByID, BeginRequest, TypeOK
<1>8. ASSUME NEW o \in Orders, CreateOrder(o) \/ PayOrder(o)
      PROVE  UNCHANGED request
  BY <1>8 DEF CreateOrder, InsertOrder, DistanceCheck, BadOrder, EnrichOrder,
     RecordOrderEvents, CreationFails, PayOrder
<1>9. ASSUME NEW e \in open, Consume(e)
      PROVE  UNCHANGED request
  BY <1>9 DEF Consume, IndexOrder, IndexStatus, IndexPayment, IndexDelete, DeductStock, DeadLetter
<1>10. CASE UNCHANGED vars
  BY <1>1, <1>10 DEF vars
<1>11. QED
  BY <1>1, <1>3, <1>4, <1>5, <1>6, <1>7, <1>8, <1>9, <1>10 DEF Next, HandleRequest

-----------------------------------------------------------------------------
(* The rows.                                                               *)

LEMMA NextRowsInv == OrdersInv /\ [Next]_vars => RowsInv'
<1> SUFFICES ASSUME OrdersInv, [Next]_vars, NEW o \in Orders
             PROVE  /\ row'[o] = "none" => ~live'[o] /\ visited'[o] = {} /\ doc'[o] = "absent"
                    /\ creation'[o] = "none" => row'[o] = "none"
                    /\ creation'[o] \in {"inserted", "enriched"} => row'[o] # "none"
                    /\ snapshot'[o] \in visited'[o] \union {"nil"}
  BY DEF RowsInv
<1>0. TypeOK /\ RequestsInv /\ RowsInv /\ EventsInv
  BY DEF OrdersInv
<1>1. row'[o] = "none" => ~live'[o] /\ visited'[o] = {}
  <2>1. CASE UNCHANGED table
    BY <1>0, <2>1 DEF RowsInv, table
  <2>2. ASSUME NEW p \in Orders, InsertOrder(p)
        PROVE  row'[o] = "none" => ~live'[o] /\ visited'[o] = {}
    BY <1>0, <2>2 DEF RowsInv, InsertOrder, TypeOK
  <2>3. ASSUME NEW r \in Requests, CommitStatus(r) \/ CommitDelete(r)
        PROVE  row'[o] = "none" => ~live'[o] /\ visited'[o] = {}
    <3>1. request[r].order \in Orders /\ row[request[r].order] # "none"
      BY <1>0, <2>3 DEF RequestsInv, RequestOK, CommitStatus, CommitDelete
    <3>2. row'[o] = "none" => row[o] = "none" /\ o # request[r].order
      BY <3>1, NothingIsUndone
    <3>3. QED
      BY <1>0, <2>3, <3>1, <3>2 DEF RowsInv, CommitStatus, CommitDelete, TypeOK
  <2>4. QED
    BY <2>1, <2>2, <2>3, Writers
<1>2. row'[o] = "none" => doc'[o] = "absent"
  <2>1. row'[o] = "none" => row[o] = "none" /\ doc[o] = "absent"
    BY <1>0, NothingIsUndone DEF RowsInv
  <2>2. CASE UNCHANGED doc
    BY <2>1, <2>2
  <2>3. ASSUME NEW e \in open, IndexOrder(e) \/ IndexStatus(e) \/ IndexDelete(e)
        PROVE  row'[o] = "none" => doc'[o] = "absent"
    <3>1. e \in recorded /\ e.type \in {"created", "status", "deleted"}
      BY <1>0, <2>3 DEF TypeOK, IndexOrder, IndexStatus, IndexDelete
    <3>2. row[e.order] # "none"
      BY <1>0, <3>1 DEF EventsInv, EventOK
    <3>3. o # e.order => doc'[o] = doc[o]
      BY <1>0, <2>3 DEF TypeOK, IndexOrder, IndexStatus, IndexDelete
    <3>4. QED
      BY <2>1, <3>2, <3>3
  <2>4. QED
    BY <2>2, <2>3, Writers
<1>3. CASE UNCHANGED <<creation, snapshot>>
  <2>1. ~ InsertOrder(o)
    BY <1>0, <1>3 DEF InsertOrder, TypeOK
  <2>2. row[o] = "none" => row'[o] = "none"
    <3>1. CASE UNCHANGED table
      BY <3>1 DEF table
    <3>2. ASSUME NEW p \in Orders, InsertOrder(p)
          PROVE  row[o] = "none" => row'[o] = "none"
      BY <1>0, <2>1, <3>2 DEF InsertOrder, TypeOK
    <3>3. ASSUME NEW r \in Requests, CommitStatus(r) \/ CommitDelete(r)
          PROVE  row[o] = "none" => row'[o] = "none"
      <4>1. request[r].order \in Orders /\ row[request[r].order] # "none"
        BY <1>0, <3>3 DEF RequestsInv, RequestOK, CommitStatus, CommitDelete
      <4>2. QED
        BY <1>0, <3>3, <4>1 DEF CommitStatus, CommitDelete, TypeOK
    <3>4. QED
      BY <3>1, <3>2, <3>3, Writers
  <2>3. QED
    BY <1>0, <1>1, <1>2, <1>3, <2>2, NothingIsUndone DEF RowsInv
<1>4. ASSUME NEW p \in Orders, InsertOrder(p)
      PROVE  /\ creation'[o] = "none" => row'[o] = "none"
             /\ creation'[o] \in {"inserted", "enriched"} => row'[o] # "none"
             /\ snapshot'[o] \in visited'[o] \union {"nil"}
  BY <1>0, <1>4 DEF InsertOrder, TypeOK, RowsInv
<1>5. ASSUME NEW p \in Orders,
             DistanceCheck(p) \/ BadOrder(p) \/ RecordOrderEvents(p) \/ CreationFails(p)
      PROVE  /\ creation'[o] = "none" => row'[o] = "none"
             /\ creation'[o] \in {"inserted", "enriched"} => row'[o] # "none"
             /\ snapshot'[o] \in visited'[o] \union {"nil"}
  BY <1>0, <1>5
     DEF DistanceCheck, BadOrder, RecordOrderEvents, CreationFails, TypeOK, RowsInv, table
<1>6. ASSUME NEW p \in Orders, EnrichOrder(p)
      PROVE  /\ creation'[o] = "none" => row'[o] = "none"
             /\ creation'[o] \in {"inserted", "enriched"} => row'[o] # "none"
             /\ snapshot'[o] \in visited'[o] \union {"nil"}
  <2>1. PICK s : /\ snapshot' = [snapshot EXCEPT ![p] = s]
                 /\ s = "nil" \/ (live[p] /\ s = row[p])
    BY <1>0, <1>6, SnapshotIsTheRow
  <2>2. s \in visited[p] \union {"nil"}
    BY <1>0, <2>1 DEF TypeOK, RowsInv
  <2>3. QED
    BY <1>0, <1>6, <2>1, <2>2 DEF EnrichOrder, TypeOK, RowsInv, table
<1>7. ASSUME NEW p \in Orders, PayOrder(p)
      PROVE  UNCHANGED <<creation, snapshot>>
  BY <1>7 DEF PayOrder
<1>8. ASSUME NEW r \in Requests,
             \/ RefuseRequest(r) \/ HandleRequest(r)
             \/ \E p \in Orders : (\E t \in Targets : UpdateStatus(r, p, t)) \/ DeleteByID(r, p)
      PROVE  UNCHANGED <<creation, snapshot>>
  BY <1>8 DEF HandleRequest, RefuseRequest, CheckRow, FindRow, LockRow, RequestFails,
     CommitStatus, CommitDelete, UpdateStatus, DeleteByID, BeginRequest
<1>9. ASSUME NEW e \in open, Consume(e)
      PROVE  UNCHANGED <<creation, snapshot>>
  BY <1>9 DEF Consume, IndexOrder, IndexStatus, IndexPayment, IndexDelete, DeductStock, DeadLetter
<1>10. CASE UNCHANGED vars
  BY <1>3, <1>10 DEF vars
<1>11. QED
  BY <1>1, <1>2, <1>3, <1>4, <1>5, <1>6, <1>7, <1>8, <1>9, <1>10 DEF Next, CreateOrder

-----------------------------------------------------------------------------
(* The events and the documents.                                           *)

LEMMA NextEventsInv == OrdersInv /\ [Next]_vars => EventsInv'
<1> SUFFICES ASSUME OrdersInv, [Next]_vars, NEW e \in recorded'
             PROVE  EventOK(e)'
  BY DEF EventsInv, EventOK
<1>0. TypeOK /\ TypeOK' /\ RequestsInv /\ RowsInv /\ EventsInv
  BY NextTypeOK DEF OrdersInv
<1>1. e.order \in Orders
  BY <1>0 DEF TypeOK, Events
<1>2. EventOK(e) => EventOK(e)'
  BY <1>0, <1>1, NothingIsUndone DEF EventOK, TypeOK
<1>3. CASE e \in recorded
  BY <1>0, <1>2, <1>3 DEF EventsInv, EventOK
<1>4. ASSUME NEW o \in Orders, RecordOrderEvents(o), e \notin recorded
      PROVE  EventOK(e)
  <2>1. e = Event("stock", o, "none", "none")
        \/ (snapshot[o] # "nil" /\ e = Event("created", o, snapshot[o], "none"))
    BY <1>4 DEF RecordOrderEvents, Record
  <2>2. creation[o] = "enriched"
    BY <1>4 DEF RecordOrderEvents
  <2>3. QED
    BY <1>0, <2>1, <2>2 DEF EventOK, Event, RowsInv
<1>5. ASSUME NEW o \in Orders, PayOrder(o), e \notin recorded
      PROVE  EventOK(e)
  BY <1>5 DEF PayOrder, Record, Event, EventOK
<1>6. ASSUME NEW r \in Requests, CommitStatus(r), e \notin recorded
      PROVE  EventOK(e)
  <2>1. e = Event("status", request[r].order, request[r].target, r)
    BY <1>6 DEF CommitStatus, Record
  <2>2. row[request[r].order] # "none" /\ request[r].target \in Targets \ {"delete"}
    BY <1>0, <1>6 DEF CommitStatus, RequestsInv, RequestOK
  <2>3. QED
    BY <2>1, <2>2, OrdersAssumption DEF EventOK, Event
<1>7. ASSUME NEW r \in Requests, CommitDelete(r), e \notin recorded
      PROVE  EventOK(e)'
  <2>1. e = Event("deleted", request[r].order, "none", r)
    BY <1>7 DEF CommitDelete, Record
  <2>2. row[request[r].order] # "none" /\ request[r].order \in Orders
    BY <1>0, <1>7 DEF CommitDelete, RequestsInv, RequestOK
  <2>3. row'[request[r].order] # "none" /\ ~live'[request[r].order]
    BY <1>0, <1>7, <2>2 DEF CommitDelete, TypeOK
  <2>4. QED
    BY <2>1, <2>3 DEF EventOK, Event
<1>8. QED
  BY <1>2, <1>3, <1>4, <1>5, <1>6, <1>7, Writers

LEMMA NextDocsInv == OrdersInv /\ [Next]_vars => DocsInv'
<1> SUFFICES ASSUME OrdersInv, [Next]_vars
             PROVE  DocsInv'
  OBVIOUS
<1>0. TypeOK /\ RequestsInv /\ RowsInv /\ EventsInv /\ DocsInv /\ ChangesAreAnnounced
  BY DEF OrdersInv
<1>1. ASSUME NEW o \in Orders, live'[o], doc'[o] # "absent"
      PROVE  doc'[o] \in visited'[o]
  <2>1. CASE doc'[o] = doc[o]
    <3>1. row[o] # "none"
      BY <1>0, <1>1, <2>1 DEF RowsInv
    <3>2. live[o] /\ visited[o] \subseteq visited'[o]
      BY <3>1, <1>1, NothingIsUndone
    <3>3. QED
      BY <1>0, <1>1, <2>1, <3>2 DEF DocsInv
  <2>2. ASSUME NEW e \in open, IndexOrder(e) \/ IndexStatus(e) \/ IndexDelete(e),
               doc'[o] # doc[o]
        PROVE  doc'[o] \in visited'[o]
    <3>1. e \in recorded /\ e.order = o /\ e.type \in {"created", "status"} /\ doc'[o] = e.status
      BY <1>0, <1>1, <2>2 DEF TypeOK, IndexOrder, IndexStatus, IndexDelete
    <3>2. live[o]
      BY <1>0, <1>1, <3>1, NothingIsUndone DEF EventsInv, EventOK
    <3>3. e.status \in visited[o]
      BY <1>0, <3>1, <3>2 DEF EventsInv, EventOK, ChangesAreAnnounced, Announced
    <3>4. QED
      BY <3>1, <3>3, NothingIsUndone
  <2>3. QED
    BY <2>1, <2>2, Writers
<1>2. ASSUME NEW e \in recorded', e \notin open' \union dead', e.type = "created",
             live'[e.order]
      PROVE  doc'[e.order] # "absent"
  <2>1. /\ e \in recorded /\ (e \notin open \union dead \/ IndexOrder(e))
    <3>1. ASSUME NEW E, Record(E), dead' = dead
          PROVE  e \in recorded /\ e \notin open \union dead
      BY <1>2, <3>1 DEF Record
    <3>2. ASSUME NEW o \in Orders, RecordOrderEvents(o) \/ PayOrder(o)
          PROVE  e \in recorded /\ e \notin open \union dead
      BY <3>1, <3>2 DEF RecordOrderEvents, PayOrder
    <3>3. ASSUME NEW r \in Requests, CommitStatus(r) \/ CommitDelete(r)
          PROVE  e \in recorded /\ e \notin open \union dead
      BY <3>1, <3>3 DEF CommitStatus, CommitDelete
    <3>4. ASSUME NEW f \in open, Consume(f)
          PROVE  e \in recorded /\ (e \notin open \union dead \/ IndexOrder(e))
      <4>1. CASE IndexOrder(f)
        BY <1>2, <3>4, <4>1 DEF IndexOrder, Handled
      <4>2. CASE ~IndexOrder(f)
        BY <1>2, <3>4, <4>2
           DEF Consume, IndexStatus, IndexPayment, IndexDelete, DeductStock, DeadLetter, Handled
      <4>3. QED
        BY <4>1, <4>2
    <3>5. CASE UNCHANGED <<recorded, open, dead>>
      BY <1>2, <3>5
    <3>6. ASSUME NEW o \in Orders, CreateOrder(o), ~RecordOrderEvents(o)
          PROVE  UNCHANGED <<recorded, open, dead>>
      BY <3>6 DEF CreateOrder, InsertOrder, DistanceCheck, BadOrder, EnrichOrder, CreationFails
    <3>7. ASSUME NEW r \in Requests,
             \/ RefuseRequest(r) \/ HandleRequest(r)
             \/ \E p \in Orders : (\E t \in Targets : UpdateStatus(r, p, t)) \/ DeleteByID(r, p),
             ~CommitStatus(r) /\ ~CommitDelete(r)
          PROVE  UNCHANGED <<recorded, open, dead>>
      BY <3>7 DEF HandleRequest, RefuseRequest, CheckRow, FindRow, LockRow, RequestFails,
         UpdateStatus, DeleteByID, BeginRequest
    <3>8. CASE UNCHANGED vars
      BY <3>5, <3>8 DEF vars
    <3>9. QED
      BY <3>2, <3>3, <3>4, <3>5, <3>6, <3>7, <3>8 DEF Next
  <2>2. e.order \in Orders /\ live[e.order]
    BY <1>0, <1>2, <2>1, NothingIsUndone DEF EventsInv, EventOK, TypeOK, Events
  <2>3. CASE IndexOrder(e)
    <3>1. doc'[e.order] = e.status /\ e.status \in visited[e.order]
      BY <1>0, <1>2, <2>1, <2>2, <2>3 DEF IndexOrder, TypeOK, EventsInv, EventOK
    <3>2. QED
      BY <1>0, <2>2, <3>1 DEF TypeOK, Statuses
  <2>4. CASE e \notin open \union dead
    <3>1. doc[e.order] # "absent"
      BY <1>0, <1>2, <2>1, <2>2, <2>4 DEF DocsInv
    <3>2. ASSUME NEW f \in open, IndexOrder(f) \/ IndexStatus(f) \/ IndexDelete(f)
          PROVE  doc'[e.order] # "absent"
      <4>1. f \in recorded /\ f.order \in Orders
        BY <1>0 DEF TypeOK, Events
      <4>2. CASE f.order # e.order
        BY <1>0, <2>2, <3>1, <3>2, <4>2 DEF TypeOK, IndexOrder, IndexStatus, IndexDelete
      <4>3. CASE f.order = e.order
        <5>1. ~IndexDelete(f)
          BY <1>0, <2>2, <4>1, <4>3 DEF IndexDelete, EventsInv, EventOK
        <5>2. f.type \in {"created", "status"} /\ doc'[e.order] = f.status
          BY <1>0, <2>2, <3>2, <4>3, <5>1 DEF IndexOrder, IndexStatus, TypeOK
        <5>3. f.status \in Statuses
          BY <1>0, <4>1, <5>2 DEF EventsInv, EventOK, TypeOK
        <5>4. QED
          BY <5>2, <5>3 DEF Statuses
      <4>4. QED
        BY <4>2, <4>3
    <3>3. QED
      BY <3>1, <3>2, Writers
  <2>5. QED
    BY <2>1, <2>3, <2>4
<1>3. QED
  BY <1>1, <1>2 DEF DocsInv

-----------------------------------------------------------------------------
(* The statuses and their announcements.                                   *)

LEMMA NextStatusFollowsWorkflow == OrdersInv /\ [Next]_vars => StatusFollowsWorkflow'
<1> SUFFICES ASSUME OrdersInv, [Next]_vars, NEW o \in Orders, NEW s \in visited'[o]
             PROVE  Predecessor(s) \in visited'[o] \/ "Cancelled" \in visited'[o]
  BY DEF StatusFollowsWorkflow, Predecessor
<1>0. TypeOK /\ RequestsInv /\ StatusFollowsWorkflow
  BY DEF OrdersInv
<1>1. visited[o] \subseteq visited'[o]
  BY NothingIsUndone
<1>2. CASE s \in visited[o]
  BY <1>0, <1>1, <1>2 DEF StatusFollowsWorkflow
<1>3. ASSUME NEW p \in Orders, InsertOrder(p), s \notin visited[o]
      PROVE  Predecessor(s) \in visited'[o]
  BY <1>0, <1>3 DEF InsertOrder, TypeOK, Predecessor
<1>4. ASSUME NEW r \in Requests, CommitStatus(r), s \notin visited[o]
      PROVE  Predecessor(s) \in visited'[o] \/ "Cancelled" \in visited'[o]
  <2>1. o = request[r].order /\ s = request[r].target /\ visited'[o] = visited[o] \union {s}
    BY <1>0, <1>4 DEF CommitStatus, TypeOK
  <2>2. Reachable(o, s)
    BY <1>0, <1>4, <2>1 DEF CommitStatus, RequestsInv, RequestOK
  <2>3. QED
    BY <2>1, <2>2 DEF Reachable
<1>5. ASSUME NEW r \in Requests, CommitDelete(r)
      PROVE  visited' = visited
  BY <1>5 DEF CommitDelete
<1>6. CASE UNCHANGED table
  BY <1>2, <1>6 DEF table
<1>7. QED
  BY <1>2, <1>3, <1>4, <1>5, <1>6, Writers

\* Only CommitStatus announces.
LEMMA AnnouncedStays ==
  ASSUME [Next]_vars, NEW o, \A r \in Requests : ~CommitStatus(r)
  PROVE  Announced(o)' = Announced(o)
<1>1. ASSUME NEW p \in Orders, RecordOrderEvents(p) \/ PayOrder(p)
      PROVE  \A e : e.type = "status" => (e \in recorded' <=> e \in recorded)
  BY <1>1 DEF RecordOrderEvents, PayOrder, Record, Event
<1>2. ASSUME NEW r \in Requests, CommitDelete(r)
      PROVE  \A e : e.type = "status" => (e \in recorded' <=> e \in recorded)
  BY <1>2 DEF CommitDelete, Record, Event
<1>3. \A e : e.type = "status" => (e \in recorded' <=> e \in recorded)
  BY <1>1, <1>2, Writers
<1>4. QED
  BY <1>3 DEF Announced

LEMMA NextChangesAreAnnounced == OrdersInv /\ [Next]_vars => ChangesAreAnnounced'
<1> SUFFICES ASSUME OrdersInv, [Next]_vars, NEW o \in Orders, live'[o]
             PROVE  visited'[o] = {"Pending"} \union Announced(o)'
  BY DEF ChangesAreAnnounced
<1>0. TypeOK /\ RequestsInv /\ RowsInv /\ EventsInv /\ ChangesAreAnnounced
  BY DEF OrdersInv
<1>1. CASE \A r \in Requests : ~CommitStatus(r)
  <2>1. Announced(o)' = Announced(o)
    BY <1>1, AnnouncedStays
  <2>2. CASE UNCHANGED table
    BY <1>0, <2>1, <2>2 DEF ChangesAreAnnounced, table
  <2>3. CASE InsertOrder(o)
    <3>1. row[o] = "none" /\ visited'[o] = {"Pending"}
      BY <1>0, <2>3 DEF InsertOrder, RowsInv, TypeOK
    <3>2. Announced(o) = {}
      BY <1>0, <3>1 DEF EventsInv, EventOK, Announced
    <3>3. QED
      BY <2>1, <3>1, <3>2
  <2>4. ASSUME NEW p \in Orders \ {o}, InsertOrder(p)
        PROVE  visited'[o] = visited[o] /\ live[o]
    BY <1>0, <2>4 DEF InsertOrder, TypeOK
  <2>5. ASSUME NEW r \in Requests, CommitDelete(r)
        PROVE  visited'[o] = visited[o] /\ live[o]
    BY <1>0, <2>5 DEF CommitDelete, TypeOK
  <2>6. CASE visited'[o] = visited[o] /\ live[o]
    BY <1>0, <2>1, <2>6 DEF ChangesAreAnnounced
  <2>7. QED
    BY <1>1, <2>2, <2>3, <2>4, <2>5, <2>6, Writers
<1>2. ASSUME NEW r \in Requests, CommitStatus(r)
      PROVE  visited'[o] = {"Pending"} \union Announced(o)'
  <2> DEFINE q == request[r]
             e == Event("status", q.order, q.target, r)
  <2>1. q.order \in Orders /\ recorded' = recorded \union {e} /\ live' = live
    BY <1>0, <1>2 DEF CommitStatus, RequestsInv, RequestOK, Record
  <2>2. visited[o] = {"Pending"} \union Announced(o)
    BY <1>0, <2>1 DEF ChangesAreAnnounced
  <2>3. CASE q.order = o
    <3>1. visited'[o] = visited[o] \union {q.target}
      BY <1>0, <1>2, <2>1, <2>3 DEF CommitStatus, TypeOK
    <3>2. Announced(o)' = Announced(o) \union {q.target}
      <4>1. e.type = "status" /\ e.order = o /\ e.status = q.target
        BY <2>3 DEF Event
      <4>2. {f \in recorded' : f.type = "status" /\ f.order = o}
              = {f \in recorded : f.type = "status" /\ f.order = o} \union {e}
        BY <2>1, <4>1
      <4>3. QED
        BY <4>1, <4>2 DEF Announced
    <3>3. QED
      BY <2>2, <3>1, <3>2
  <2>4. CASE q.order # o
    <3>1. visited'[o] = visited[o]
      BY <1>0, <1>2, <2>1, <2>4 DEF CommitStatus, TypeOK
    <3>2. Announced(o)' = Announced(o)
      BY <2>1, <2>4 DEF Announced, Event
    <3>3. QED
      BY <2>2, <3>1, <3>2
  <2>5. QED
    BY <2>3, <2>4
<1>3. QED
  BY <1>1, <1>2

-----------------------------------------------------------------------------
(* The readers.                                                            *)

\* A list from the index shows the documents, with the filter "any" all of them.
LEMMA SearchShowsTheIndex ==
  ASSUME NEW owned, NEW a \in SearchOrderElasticByBuyerId(owned, "any")
  PROVE  /\ \A e \in a.shows : \E o \in owned : doc[o] # "absent" /\ e = Entry(o, doc[o])
         /\ a.code = "ok" => \A o \in owned : doc[o] # "absent" => Entry(o, doc[o]) \in a.shows
  BY DEF SearchOrderElasticByBuyerId, Answer, Failed

\* A list from the rows shows the orders that are not deleted.
LEMMA SelectShowsTheRows ==
  ASSUME NEW owned, NEW a \in Enriched(SelectAll(owned))
  PROVE  /\ \A e \in a.shows : \E o \in owned : live[o] /\ e = Entry(o, row[o])
         /\ a.code = "ok" => \A o \in owned : live[o] => Entry(o, row[o]) \in a.shows
  BY DEF SelectAll, Enriched, HttpClientProductService, HttpClientUserService, Answer, Failed

IsDocOrRow(e) ==
  \/ doc[e.order] # "absent" /\ e.status = doc[e.order]
  \/ live[e.order] /\ e.status = row[e.order]

\* So whichever a list is from, an entry is a document or a row, and an order with both is there.
LEMMA ListsShowDocsOrRows ==
  ASSUME NEW p \in Orders, NEW a \in Lists(p)
  PROVE  /\ \A e \in a.shows : IsDocOrRow(e)
         /\ a.code = "ok" /\ live[p] /\ doc[p] # "absent" => \E e \in a.shows : e.order = p
<1> DEFINE Good(b) ==
      /\ \A e \in b.shows : IsDocOrRow(e)
      /\ b.code = "ok" /\ live[p] /\ doc[p] # "absent" => \E e \in b.shows : e.order = p
<1>1. ASSUME NEW owned, p \in owned, NEW b \in SearchOrderElasticByBuyerId(owned, "any")
      PROVE  Good(b)
  <2>1. \A e \in b.shows : IsDocOrRow(e)
    BY SearchShowsTheIndex DEF Entry, IsDocOrRow
  <2>2. ASSUME b.code = "ok", live[p], doc[p] # "absent"
        PROVE  \E e \in b.shows : e.order = p
    <3>1. \E s : Entry(p, s) \in b.shows
      BY <1>1, <2>2, SearchShowsTheIndex
    <3>2. QED
      BY <3>1 DEF Entry
  <2>3. QED
    BY <2>1, <2>2
<1>2. ASSUME NEW owned, p \in owned, NEW b \in Enriched(SelectAll(owned))
      PROVE  Good(b)
  <2>1. \A e \in b.shows : IsDocOrRow(e)
    BY SelectShowsTheRows DEF Entry, IsDocOrRow
  <2>2. ASSUME b.code = "ok", live[p], doc[p] # "absent"
        PROVE  \E e \in b.shows : e.order = p
    <3>1. \E s : Entry(p, s) \in b.shows
      BY <1>2, <2>2, SelectShowsTheRows
    <3>2. QED
      BY <3>1 DEF Entry
  <2>3. QED
    BY <2>1, <2>2
<1>3. Good(Failed) /\ Good(Answer("refused", {}))
  BY DEF Failed, Answer
<1>4. ASSUME NEW owned, p \in owned, NEW b \in GetAllOfBuyer(owned, "any")
      PROVE  Good(b)
  <2>1. \/ b \in Enriched(SelectAll(owned))
        \/ b \in SearchOrderElasticByBuyerId(owned, "any")
    BY DEF GetAllOfBuyer
  <2>2. QED
    BY <1>1, <1>2, <1>4, <2>1
<1>5. ASSUME NEW b \in GetAll("any")
      PROVE  Good(b)
  <2>1. \/ b \in Enriched(SelectAll(Orders))
        \/ b \in SearchOrderElasticByBuyerId(Orders, "any")
    BY DEF GetAll, SearchOrderElastic
  <2>2. QED
    BY <1>1, <1>2, <2>1
<1>6. CASE a \in GetAllAdmin("any")
  <2>1. a \in GetAll("any") \/ a = Answer("refused", {})
    BY <1>6 DEF GetAllAdmin, CheckToken
  <2>2. QED
    BY <1>3, <1>5, <2>1
<1>7. ASSUME NEW owned \in SUBSET Orders, p \in owned, a \in GetAllCustomer(owned, "any")
      PROVE  Good(a)
  <2>1. a \in GetAllOfBuyer(owned, "any") \/ a = Failed \/ a = Answer("refused", {})
    BY <1>7 DEF GetAllCustomer, CheckToken
  <2>2. QED
    BY <1>3, <1>4, <1>7, <2>1
<1>8. QED
  BY <1>6, <1>7 DEF Lists

LEMMA OrdersInvReadersSeeOrders == OrdersInv => ReadersSeeOrders
<1> SUFFICES ASSUME OrdersInv, NEW o \in Orders, live[o]
             PROVE  /\ \A a \in Details(o) \union Lists(o) : \A e \in a.shows :
                         e.order = o => e.status \in visited[o]
                    /\ Settled(o) =>
                         \A a \in Lists(o) : a.code = "ok" => \E e \in a.shows : e.order = o
  BY DEF ReadersSeeOrders
<1>1. row[o] \in visited[o] /\ (doc[o] # "absent" => doc[o] \in visited[o])
  BY DEF OrdersInv, TypeOK, RowsInv, DocsInv
<1>2. ASSUME NEW a \in Details(o), NEW e \in a.shows, e.order = o
      PROVE  e.status \in visited[o]
  BY <1>1, <1>2, DetailsShowTheRow DEF Entry
<1>3. ASSUME NEW a \in Lists(o), NEW e \in a.shows, e.order = o
      PROVE  e.status \in visited[o]
  BY <1>1, <1>3, ListsShowDocsOrRows DEF IsDocOrRow
<1>4. Settled(o) => doc[o] # "absent"
  BY DEF Settled, OrdersInv, DocsInv
<1>5. QED
  BY <1>2, <1>3, <1>4, ListsShowDocsOrRows

-----------------------------------------------------------------------------
(* The theorems.                                                           *)

LEMMA Invariance == Spec => []OrdersInv
<1>1. OrdersInv /\ [Next]_vars => OrdersInv'
  BY NextTypeOK, NextRequestsInv, NextRowsInv, NextEventsInv, NextDocsInv,
     NextStatusFollowsWorkflow, NextChangesAreAnnounced DEF OrdersInv
<1>2. QED
  BY InitOrdersInv, <1>1, PTL DEF Spec

\* The variables stay in their types: a status is one of the six, events are about orders, what is
\* open or dead was recorded.
THEOREM TypeCorrect == Spec => []TypeOK
<1>1. OrdersInv => TypeOK
  BY DEF OrdersInv
<1>2. QED
  BY Invariance, <1>1, PTL

\* However many UpdateStatus and DeleteByID requests overlap between the unlocked test of the row
\* and its UPDATE, an order gets to a status only through the one before it, or after it was
\* cancelled.
THEOREM WorkflowKept == Spec => []StatusFollowsWorkflow
<1>1. OrdersInv => StatusFollowsWorkflow
  BY DEF OrdersInv
<1>2. QED
  BY Invariance, <1>1, PTL

\* The transactions of UpdateStatus change the status and record its events together: for an
\* order that was not deleted the one set is the other.
THEOREM StatusAndEventsAgree == Spec => []ChangesAreAnnounced
<1>1. OrdersInv => ChangesAreAnnounced
  BY DEF OrdersInv
<1>2. QED
  BY Invariance, <1>1, PTL

\* What GetByID and the lists answer, from the rows or from the index, is a status the order has
\* had, and once order.created and all other events of the order are handled both lists show it.
THEOREM ReadersAreRight == Spec => []ReadersSeeOrders
  BY Invariance, OrdersInvReadersSeeOrders, PTL

DeletedStaysDeleted ==
  [][\A o \in Orders : row[o] # "none" /\ ~live[o] => ~live'[o]]_vars

\* DeleteByID is final: no request or event brings a deleted order back.
THEOREM DeletionIsFinal == Spec => DeletedStaysDeleted
<1>1. OrdersInv /\ [Next]_vars
        => [\A o \in Orders : row[o] # "none" /\ ~live[o] => ~live'[o]]_vars
  BY NothingIsUndone
<1>2. QED
  BY Invariance, <1>1, PTL DEF Spec, DeletedStaysDeleted

=============================================================================
