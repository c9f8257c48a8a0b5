--------------------------- MODULE PaymentsProofs ---------------------------
(***************************************************************************)
(* Theorems about Payments, for any number of orders, requests and faults.  *)
(*                                                                         *)
(* Nothing in the database keeps an order from having two payments.         *)
(* PaymentsInv says what does: while a request that looked for a payment    *)
(* and found none is on its way through the other services, it is the only  *)
(* one for its order, or the order counts as raced.                         *)
(***************************************************************************)
EXTENDS Payments, FiniteSetTheorems, WellFoundedInduction, TLAPS

-----------------------------------------------------------------------------
(* The inductive invariant.                                                *)

PaySpec == PayInit /\ [][PayNext]_payVars

PayCodes == {"none", "ok", "refused", "error", "lost"}
PayPcs == {"new", "look", "user", "order", "charge", "row", "event", "code", "find", "save", "done"}
PayHttpRequests ==
  [pc : PayPcs,
   op : {"none", "create", "webhook", "read", "list"}, order : PayOrders \union {NoOrder},
   method : Methods \union {"none"}, said : Reported \union {"none"}, status : Statuses,
   row : SUBSET PaymentRows, code : PayCodes]

FirstStatus(p) == p.status = IF p.method = "cod" THEN "Success" ELSE "Pending"
\* The same payment, but for its status.
SamePayment(p, q) == p.id = q.id /\ p.order = q.order /\ p.method = q.method /\ p.by = q.by

\* The rows a creation has inserted and not committed.
Inserted(r) == IF payHttp[r].op = "create" /\ payHttp[r].pc = "event" THEN payHttp[r].row ELSE {}

\* A creation holds the row it made of its request, a webhook the row of a payment as it was, and
\* who was answered with success has a payment.
PayRequestOK(r) ==
  LET h == payHttp[r] IN
  /\ h.pc = "new" <=> h.op = "none" /\ h.pc # "done"
  /\ h.row # {} => \/ h.op = "create" /\ h.pc = "event"
                   \/ h.op = "webhook" /\ h.pc = "save"
  /\ h.op = "create" => h.order \in PayOrders /\ h.pc \notin {"code", "find", "save"}
  /\ h.pc # "done" => h.code = "none"
  /\ h.op = "create" /\ h.pc \in {"user", "order", "charge"} => h.method = "midtrans"
  /\ h.op = "create" /\ h.pc = "row" =>
       h.method \in {"cod", "midtrans"} /\ h.status = IF h.method = "cod" THEN "Success" ELSE "Pending"
  /\ \A p \in Inserted(r) : p.by = r /\ p.order = h.order /\ FirstStatus(p)
  /\ h.op = "webhook" =>
       /\ h.order \in PayOrders /\ h.said \in Reported /\ h.status = NewStatus(h.said)
       /\ h.pc \in {"code", "find", "save", "done"}
       /\ \A p \in h.row : p.order = h.order /\ \E q \in payment : SamePayment(p, q)
  /\ h.op \in {"read", "list"} => h.pc \in {"order", "user", "done"}
  /\ h.op = "create" /\ h.code = "ok" => \E p \in payment : p.by = r /\ p.order = h.order

\* Ids are unique, those of open transactions included, and used up by creations only.
Creations == {r \in PayRequests : payHttp[r].op = "create" /\ payHttp[r].pc \in {"event", "done"}}
IdsOK ==
  /\ \A p, q \in payment : p.id = q.id => p = q
  /\ \A r \in PayRequests : \A p \in Inserted(r) :
       /\ \A q \in payment : q.id # p.id
       /\ \A s \in PayRequests \ {r} : \A q \in Inserted(s) : q.id # p.id
  /\ \A p \in payment \union OpenRows : p.id <= Cardinality(Creations)

\* A creation at work, and one that has found no payment.
Creating(r) == payHttp[r].op = "create" /\ payHttp[r].pc # "done"
FoundNone(r) == Creating(r) /\ payHttp[r].pc # "look"

OnceOK(o) ==
  o \notin payRaced =>
    /\ \A p, q \in OfOrder(o) : p = q
    /\ \A r, s \in PayRequests : Creating(r) /\ Creating(s) /\ payHttp[r].order = o /\ payHttp[s].order = o => r = s
    /\ \A r \in PayRequests : FoundNone(r) /\ payHttp[r].order = o => OfOrder(o) = {}

ChargesOK == \A c \in charge : payHttp[c.by].op = "create" /\ payHttp[c.by].order = c.order

PaymentsInv ==
  /\ PaymentsTypeOK /\ payHttp \in [PayRequests -> PayHttpRequests]
  /\ \A r \in PayRequests : PayRequestOK(r)
  /\ IdsOK
  /\ \A o \in PayOrders : OnceOK(o)
  /\ ChargesOK /\ LoggedAndAnnounced /\ StatusFromGateway

-----------------------------------------------------------------------------
(* What a step does.                                                       *)

PayHttpType == payHttp \in [PayRequests -> PayHttpRequests]
PayBounds == payFaults' \in 0 .. MaxPayFaults /\ payRaced' \subseteq PayOrders /\ payRaced \subseteq payRaced'

\* Nobody but r moves, and r stays about what it was about.
PayMoves(r) ==
  /\ PayHttpType' /\ \A q \in PayRequests \ {r} : payHttp'[q] = payHttp[q]
  /\ payHttp[r].pc # "done" /\ PayBounds
SameSubject(r) ==
  /\ payHttp'[r].op = payHttp[r].op /\ payHttp'[r].order = payHttp[r].order
  /\ payHttp'[r].method = payHttp[r].method /\ payHttp'[r].said = payHttp[r].said

\* A call of Midtrans, which may have made the transaction.
MayCharge(r) ==
  \/ charge' = charge
  \/ payHttp[r].op = "create" /\ charge' = charge \union {[order |-> payHttp[r].order, by |-> r]}

\* r is answered without a write.
PayEnds(r) ==
  /\ PayMoves(r) /\ SameSubject(r) /\ payHttp'[r].pc = "done" /\ payHttp'[r].row = {}
  /\ payHttp'[r].status = payHttp[r].status
  /\ payHttp[r].op = "create" => payHttp'[r].code # "ok"
  /\ UNCHANGED PayTables /\ MayCharge(r)

\* r begins.
PayBegins(r) ==
  LET h == payHttp'[r] IN
  /\ PayMoves(r) /\ payHttp[r].op = "none" /\ payHttp[r].pc = "new"
  /\ h.row = payHttp[r].row /\ h.code = payHttp[r].code
  /\ \/ /\ h.op = "create" /\ h.pc = "look" /\ h.order \in PayOrders
        /\ \A q \in PayRequests : Creating(q) /\ payHttp[q].order = h.order => h.order \in payRaced'
     \/ /\ h.op = "webhook" /\ h.pc = "code" /\ h.order \in PayOrders
        /\ h.said \in Reported /\ h.status = NewStatus(h.said)
     \/ h.op \in {"read", "list"} /\ h.pc = "order"
  /\ UNCHANGED <<PayTables, charge>>

\* r goes on to its next call; a creation that found no payment is right, or its order counts as raced.
PayGoes(r) ==
  LET h == payHttp[r]
      n == payHttp'[r]
  IN
  /\ PayMoves(r) /\ SameSubject(r) /\ n.row = h.row /\ n.code = h.code
  /\ \/ /\ h.op = "create" /\ h.pc \in {"look", "user", "order", "charge"}
        /\ h.pc = "look" => OfOrder(h.order) = {} \/ h.order \in payRaced'
        /\ \/ n.pc \in {"user", "order", "charge"} /\ h.method = "midtrans"
           \/ /\ n.pc = "row" /\ h.method \in {"cod", "midtrans"}
              /\ n.status = IF h.method = "cod" THEN "Success" ELSE "Pending"
     \/ h.op = "webhook" /\ h.pc = "code" /\ n.pc = "find" /\ n.status = h.status
     \/ h.op = "read" /\ n.pc = "user"
  /\ UNCHANGED PayTables /\ MayCharge(r)

\* r inserts the row, commits it, reads a row, saves it.
PayInserts(r) ==
  LET h == payHttp[r]
      n == payHttp'[r]
  IN
  /\ PayMoves(r) /\ SameSubject(r) /\ h.op = "create" /\ h.pc = "row" /\ n.pc = "event" /\ n.code = h.code
  /\ \E row \in PaymentRows :
       /\ n.row = {row} /\ row.order = h.order /\ row.by = r /\ FirstStatus(row)
       /\ row.id <= Cardinality(Creations) + 1
       /\ \A p \in payment \union OpenRows : p.id # row.id
  /\ UNCHANGED <<PayTables, charge, payRaced>>
PayCommits(r) ==
  /\ PayMoves(r) /\ SameSubject(r) /\ payHttp[r].op = "create" /\ payHttp[r].pc = "event"
  /\ payHttp'[r].pc = "done" /\ payHttp'[r].row = {}
  /\ \E row \in payHttp[r].row : Committed(row)
  /\ UNCHANGED <<charge, payRaced>>
PayFinds(r) ==
  /\ PayMoves(r) /\ SameSubject(r) /\ payHttp[r].op = "webhook" /\ payHttp[r].pc = "find"
  /\ payHttp'[r].pc = "save" /\ payHttp'[r].row \subseteq OfOrder(payHttp[r].order)
  /\ payHttp'[r].status = payHttp[r].status /\ payHttp'[r].code = payHttp[r].code
  /\ UNCHANGED <<PayTables, charge, payRaced>>
PaySaves(r) ==
  LET saved(row) == [row EXCEPT !.status = payHttp[r].status] IN
  /\ PayMoves(r) /\ SameSubject(r) /\ payHttp[r].op = "webhook" /\ payHttp[r].pc = "save"
  /\ payHttp'[r].pc = "done" /\ payHttp'[r].row = {} /\ payHttp'[r].status = payHttp[r].status
  /\ \E row \in payHttp[r].row : payment' = {p \in payment : p.id # row.id} \union {saved(row)}
  /\ UNCHANGED <<paymentLog, announced, charge, payRaced>>

PayStep(r) ==
  PayEnds(r) \/ PayBegins(r) \/ PayGoes(r) \/ PayInserts(r) \/ PayCommits(r) \/ PayFinds(r) \/ PaySaves(r)

\* Whoever was at work is cut off, or nothing happens at all.
PayCut ==
  /\ PayHttpType' /\ PayBounds /\ UNCHANGED <<PayTables, charge, payRaced>>
  /\ \A r \in PayRequests :
       \/ payHttp'[r] = payHttp[r]
       \/ /\ SameSubject(r) /\ payHttp[r].pc # "done" /\ payHttp[r].op # "none"
          /\ payHttp'[r].pc = "done" /\ payHttp'[r].code = "lost" /\ payHttp'[r].row = {}
          /\ payHttp'[r].status = payHttp[r].status

LEMMA NewRecord ==
  ASSUME PayHttpType, NEW r \in PayRequests, payHttp[r].pc # "done", PayBounds,
         NEW h \in PayHttpRequests, payHttp' = [payHttp EXCEPT ![r] = h]
  PROVE  PayMoves(r) /\ payHttp'[r] = h
  BY DEF PayHttpType, PayMoves

\* A change of the fields that change once a request has begun.
Becomes(r, pc, status, row, code) ==
  payHttp' = [payHttp EXCEPT ![r] = [@ EXCEPT !.pc = pc, !.status = status, !.row = row, !.code = code]]

LEMMA NewState ==
  ASSUME PayHttpType, NEW r \in PayRequests, payHttp[r].pc # "done", PayBounds,
         NEW pc \in PayPcs, NEW status \in Statuses, NEW row \in SUBSET PaymentRows, NEW code \in PayCodes,
         Becomes(r, pc, status, row, code)
  PROVE  /\ PayMoves(r) /\ SameSubject(r) /\ payHttp'[r].pc = pc /\ payHttp'[r].status = status
         /\ payHttp'[r].row = row /\ payHttp'[r].code = code
<1> DEFINE h == [payHttp[r] EXCEPT !.pc = pc, !.status = status, !.row = row, !.code = code]
<1>1. /\ h \in PayHttpRequests /\ h.pc = pc /\ h.status = status /\ h.row = row /\ h.code = code
      /\ h.op = payHttp[r].op /\ h.order = payHttp[r].order /\ h.method = payHttp[r].method
      /\ h.said = payHttp[r].said
  BY DEF PayHttpType, PayHttpRequests
<1>2. payHttp' = [payHttp EXCEPT ![r] = h]
  BY DEF Becomes
<1> HIDE DEF h
<1>3. PayMoves(r) /\ payHttp'[r] = h
  BY <1>1, <1>2, NewRecord
<1>4. QED
  BY <1>1, <1>3 DEF SameSubject

LEMMA AnswerEndsPayment ==
  ASSUME PayHttpType, NEW r \in PayRequests, payHttp[r].pc # "done", PayBounds,
         NEW code \in PayCodes, PayAnswer(r, code)
  PROVE  /\ PayMoves(r) /\ SameSubject(r) /\ payHttp'[r].pc = "done" /\ payHttp'[r].row = {}
         /\ payHttp'[r].status = payHttp[r].status /\ payHttp'[r].code = code
<1>1. PICK status \in Statuses, row \in SUBSET PaymentRows, pc \in PayPcs :
        status = payHttp[r].status /\ row = {} /\ pc = "done"
  BY DEF PayHttpType, PayHttpRequests, PayPcs
<1>2. Becomes(r, pc, status, row, code)
  BY <1>1 DEF Becomes, PayAnswer, PayHttpType, PayHttpRequests
<1>3. QED
  BY <1>1, <1>2, NewState

LEMMA GoMovesPayment ==
  ASSUME PayHttpType, NEW r \in PayRequests, payHttp[r].pc # "done", PayBounds,
         NEW pc \in {"user", "order", "charge", "find"}, PayGo(r, pc)
  PROVE  /\ PayMoves(r) /\ SameSubject(r) /\ payHttp'[r].pc = pc /\ payHttp'[r].row = payHttp[r].row
         /\ payHttp'[r].status = payHttp[r].status /\ payHttp'[r].code = payHttp[r].code
<1>1. PICK status \in Statuses, row \in SUBSET PaymentRows, code \in PayCodes :
        status = payHttp[r].status /\ row = payHttp[r].row /\ code = payHttp[r].code
  BY DEF PayHttpType, PayHttpRequests
<1>2. Becomes(r, pc, status, row, code)
  BY <1>1 DEF Becomes, PayGo, PayHttpType, PayHttpRequests
<1>3. pc \in PayPcs
  BY DEF PayPcs
<1>4. QED
  BY <1>1, <1>2, <1>3, NewState

\* Numbers: a finite set of them has a greatest, and there is an id for every creation.
LEMMA GreatestNumber ==
  ASSUME NEW S \in SUBSET Nat, IsFiniteSet(S), S # {}
  PROVE  Max(S) \in S /\ \A y \in S : y <= Max(S)
<1> DEFINE above(x) == {y \in S : y > x}
           T == {above(x) : x \in S}
<1>1. IsWellFoundedOn(StrictSubsetOrdering(S), SUBSET S)
  BY FS_StrictSubsetOrderingWellFounded, FS_FiniteSubsetsOfFinite
<1>2. T \subseteq SUBSET S /\ T # {}
  OBVIOUS
<1> HIDE DEF T, above
<1>3. PICK s \in T : \A t \in T : ~ (<<t, s>> \in StrictSubsetOrdering(S))
  BY <1>1, <1>2, WFMin
<1>4. PICK x \in S : s = above(x)
  BY DEF T
<1>5. \A y \in S : y <= x
  <2>1. ASSUME NEW y \in S, y > x
        PROVE  FALSE
    <3>1. above(y) \in T
      BY DEF T
    <3>2. above(y) \subseteq above(x) /\ y \in above(x) /\ y \notin above(y)
      <4>1. x \in Nat /\ y \in Nat /\ \A z \in S : z \in Nat
        OBVIOUS
      <4>2. ~(y > y) /\ \A z \in S : z > y => z > x
        BY <2>1, <4>1
      <4>3. QED
        BY <2>1, <4>2 DEF above
    <3>3. above(y) \in SUBSET S /\ above(x) \in SUBSET S
      BY DEF above
    <3>4. <<above(y), above(x)>> \in StrictSubsetOrdering(S)
      BY <3>2, <3>3 DEF StrictSubsetOrdering
    <3>5. QED
      BY <1>3, <1>4, <3>1, <3>4
  <2>2. QED
    BY <2>1
<1>6. \E m \in S : \A y \in S : m >= y
  BY <1>5
<1>7. QED
  BY <1>6 DEF Max

LEMMA CreationsFinite ==
  /\ IsFiniteSet(Creations) /\ Cardinality(Creations) \in Nat
  /\ Cardinality(PayRequests) \in Nat
  /\ \A r \in PayRequests \ Creations :
       /\ Cardinality(Creations) + 1 <= Cardinality(PayRequests)
       /\ Cardinality(Creations \union {r}) = Cardinality(Creations) + 1
       /\ IsFiniteSet(Creations \union {r})
<1>1. Creations \subseteq PayRequests
  BY DEF Creations
<1>2. IsFiniteSet(Creations)
  BY <1>1, PaymentsAssumption, FS_Subset
<1>3. ASSUME NEW r \in PayRequests \ Creations
      PROVE  /\ Cardinality(Creations \union {r}) = Cardinality(Creations) + 1
             /\ IsFiniteSet(Creations \union {r})
             /\ Cardinality(Creations \union {r}) <= Cardinality(PayRequests)
  <2>1. Creations \union {r} \subseteq PayRequests
    BY <1>1
  <2>2. Cardinality(Creations \union {r}) = Cardinality(Creations) + 1 /\ IsFiniteSet(Creations \union {r})
    BY <1>2, <1>3, FS_AddElement
  <2>3. QED
    BY <2>1, <2>2, PaymentsAssumption, FS_Subset
<1>4. QED
  BY <1>2, <1>3, PaymentsAssumption, FS_CardinalityType

LEMMA NextId ==
  ASSUME PaymentsInv, NEW r \in PayRequests, r \notin Creations,
         NEW id, id = Max({0} \union {p.id : p \in payment \union OpenRows}) + 1
  PROVE  /\ id \in 1 .. Cardinality(PayRequests) /\ id <= Cardinality(Creations) + 1
         /\ \A p \in payment \union OpenRows : p.id # id
<1> DEFINE S == {0} \union {p.id : p \in payment \union OpenRows}
<1>1. payment \union OpenRows \subseteq PaymentRows
  BY DEF PaymentsInv, PaymentsTypeOK, OpenRows
<1>2. \A p \in payment \union OpenRows : p.id \in Nat /\ p.id <= Cardinality(Creations)
  <2>1. \A p \in PaymentRows : p.id \in Nat
    BY CreationsFinite DEF PaymentRows
  <2>2. QED
    BY <1>1, <2>1 DEF PaymentsInv, IdsOK
<1>3. S \subseteq 0 .. Cardinality(Creations) /\ S \in SUBSET Nat /\ S # {}
  BY <1>2, CreationsFinite
<1>4. IsFiniteSet(S)
  <2>1. IsFiniteSet(0 .. Cardinality(Creations))
    BY CreationsFinite, FS_Interval
  <2> HIDE DEF S
  <2>2. QED
    BY <1>3, <2>1, FS_Subset
<1>5. Max(S) \in S /\ \A y \in S : y <= Max(S)
  <2> HIDE DEF S
  <2>1. QED
    BY <1>3, <1>4, GreatestNumber
<1>6. \A p \in payment \union OpenRows : p.id \in S
  OBVIOUS
<1>7. id = Max(S) + 1
  OBVIOUS
<1> HIDE DEF S
<1> DEFINE m == Max(S)
           n == Cardinality(Creations)
<1>8. m \in Nat /\ n \in Nat /\ m <= n
  <2>1. n \in Nat
    BY CreationsFinite
  <2>2. m \in 0 .. n
    BY <1>3, <1>5
  <2> HIDE DEF m, n
  <2>3. QED
    BY <2>1, <2>2
<1>9. \A p \in payment \union OpenRows : p.id <= m
  BY <1>5, <1>6
<1>10. n + 1 <= Cardinality(PayRequests) /\ Cardinality(PayRequests) \in Nat
  BY CreationsFinite
<1> HIDE DEF m, n
<1>11. id \in 1 .. Cardinality(PayRequests) /\ id <= n + 1
  BY <1>7, <1>8, <1>10 DEF m
<1>12. \A p \in payment \union OpenRows : p.id # id
  BY <1>2, <1>7, <1>8, <1>9 DEF m
<1>13. QED
  BY <1>11, <1>12 DEF n

-----------------------------------------------------------------------------
(* Every action is one of these steps.                                     *)

LEMMA BoundsKept ==
  ASSUME PaymentsInv, UNCHANGED payFaults \/ PayFault,
         UNCHANGED payRaced \/ \E o \in PayOrders : payRaced' = payRaced \union {o}
  PROVE  PayBounds
<1>1. payFaults' \in 0 .. MaxPayFaults
  BY PaymentsAssumption DEF PaymentsInv, PaymentsTypeOK, PayFault
<1>2. QED
  BY <1>1 DEF PaymentsInv, PaymentsTypeOK, PayBounds

\* An answer that comes with no write.
LEMMA AnsweredEnds ==
  ASSUME PaymentsInv, NEW r \in PayRequests, payHttp[r].pc # "done", PayBounds,
         NEW code \in PayCodes \ {"ok"}, PayAnswer(r, code), UNCHANGED PayTables, MayCharge(r)
  PROVE  PayStep(r)
  BY AnswerEndsPayment DEF PaymentsInv, PayHttpType, PayStep, PayEnds

LEMMA CreatePaymentSteps ==
  ASSUME PaymentsInv, NEW r \in PayRequests, CreatePayment(r)
  PROVE  PayStep(r)
<1>1. PayHttpType /\ payHttp[r].pc = "new" /\ payHttp[r].op = "none" /\ UNCHANGED <<PayTables, charge, payFaults>>
  BY DEF PaymentsInv, PayHttpType, CreatePayment, PayAt
<1>2. ASSUME NEW o \in PayOrders, NEW m \in Methods,
             payHttp' = [payHttp EXCEPT ![r].op = "create", ![r].order = o, ![r].method = m, ![r].pc = "look"],
             payRaced' = payRaced \union
               {x \in {o} : \E q \in PayRequests : /\ payHttp[q].op = "create" /\ payHttp[q].order = o
                                                  /\ payHttp[q].pc # "done"}
      PROVE  PayStep(r)
  <2> DEFINE h == [payHttp[r] EXCEPT !.op = "create", !.order = o, !.method = m, !.pc = "look"]
  <2>1. /\ h \in PayHttpRequests /\ h.op = "create" /\ h.pc = "look" /\ h.order = o
        /\ h.row = payHttp[r].row /\ h.code = payHttp[r].code
    BY <1>1 DEF PayHttpType, PayHttpRequests, PayPcs
  <2>2. payHttp' = [payHttp EXCEPT ![r] = h]
    BY <1>1, <1>2 DEF PayHttpType, PayHttpRequests
  <2> HIDE DEF h
  <2>3. PayBounds
    BY <1>1, <1>2 DEF PaymentsInv, PaymentsTypeOK, PayBounds
  <2>4. PayMoves(r) /\ payHttp'[r] = h
    BY <1>1, <2>1, <2>2, <2>3, NewRecord
  <2>5. \A q \in PayRequests : Creating(q) /\ payHttp[q].order = o => o \in payRaced'
    BY <1>2 DEF Creating
  <2>6. PayBegins(r)
    BY <1>1, <2>1, <2>4, <2>5 DEF PayBegins
  <2>7. QED
    BY <2>6 DEF PayStep
<1>3. ASSUME PayAnswer(r, "refused"), UNCHANGED payRaced
      PROVE  PayStep(r)
  BY <1>1, <1>3, AnsweredEnds, BoundsKept DEF PayCodes, MayCharge
<1>4. QED
  BY <1>2, <1>3 DEF CreatePayment

LEMMA ProcessPaymentSteps ==
  ASSUME PaymentsInv, NEW r \in PayRequests, ProcessPayment(r)
  PROVE  PayStep(r)
<1>1. /\ PayHttpType /\ payHttp[r].pc = "look" /\ payHttp[r].op = "create" /\ payHttp[r].order \in PayOrders
      /\ UNCHANGED <<PayTables, charge>>
  BY DEF PaymentsInv, PayHttpType, ProcessPayment, PayAt, PayRequestOK
<1>2. PICK found \in BOOLEAN :
        /\ GetByOrderID(payHttp[r].order, found)
        /\ \/ found /\ PayAnswer(r, "error")
           \/ ~found /\ payHttp[r].method = "cod"
              /\ payHttp' = [payHttp EXCEPT ![r].pc = "row", ![r].status = "Success"]
           \/ ~found /\ payHttp[r].method = "midtrans" /\ PayGo(r, "user")
           \/ ~found /\ payHttp[r].method = "other" /\ PayAnswer(r, "error")
  BY DEF ProcessPayment
<1>3. PayBounds
  BY <1>1, <1>2, BoundsKept DEF GetByOrderID
<1>4. ~found => OfOrder(payHttp[r].order) = {} \/ payHttp[r].order \in payRaced'
  BY <1>2 DEF GetByOrderID
<1>5. MayCharge(r)
  BY <1>1 DEF MayCharge
<1>6. ASSUME PayAnswer(r, "error")
      PROVE  PayStep(r)
  BY <1>1, <1>3, <1>5, <1>6, AnsweredEnds DEF PayCodes
<1>7. ASSUME ~found, payHttp[r].method = "cod",
             payHttp' = [payHttp EXCEPT ![r].pc = "row", ![r].status = "Success"]
      PROVE  PayStep(r)
  <2>1. PICK pc \in PayPcs, status \in Statuses, row \in SUBSET PaymentRows, code \in PayCodes :
          pc = "row" /\ status = "Success" /\ row = payHttp[r].row /\ code = payHttp[r].code
    BY <1>1 DEF PayHttpType, PayHttpRequests, PayPcs, Statuses
  <2>2. Becomes(r, pc, status, row, code)
    BY <1>1, <1>7, <2>1 DEF Becomes, PayHttpType, PayHttpRequests
  <2>3. PayMoves(r) /\ SameSubject(r) /\ payHttp'[r].pc = "row" /\ payHttp'[r].status = "Success"
        /\ payHttp'[r].row = payHttp[r].row /\ payHttp'[r].code = payHttp[r].code
    BY <1>1, <1>3, <2>1, <2>2, NewState
  <2>4. PayGoes(r)
    BY <1>1, <1>4, <1>5, <1>7, <2>3 DEF PayGoes
  <2>5. QED
    BY <2>4 DEF PayStep
<1>8. ASSUME ~found, payHttp[r].method = "midtrans", PayGo(r, "user")
      PROVE  PayStep(r)
  <2>1. PayMoves(r) /\ SameSubject(r) /\ payHttp'[r].pc = "user" /\ payHttp'[r].row = payHttp[r].row
        /\ payHttp'[r].code = payHttp[r].code
    BY <1>1, <1>3, <1>8, GoMovesPayment
  <2>2. PayGoes(r)
    BY <1>1, <1>4, <1>5, <1>8, <2>1 DEF PayGoes
  <2>3. QED
    BY <2>2 DEF PayStep
<1>9. QED
  BY <1>2, <1>6, <1>7, <1>8

\* The calls to user-service and order-service.
LEMMA CallsStep ==
  ASSUME PaymentsInv, NEW r \in PayRequests,
         \/ HttpClientUserService(r) \/ HttpClientOrderService(r) \/ HttpClientPublicOrderIDByCode(r)
  PROVE  PayStep(r)
<1>1. /\ PayHttpType /\ payHttp[r].pc \in {"user", "order", "code"} /\ UNCHANGED <<PayTables, charge, payRaced>>
      /\ payHttp[r].pc = "code" => payHttp[r].op = "webhook"
      /\ PayRequestOK(r)
  BY DEF PaymentsInv, PayHttpType, HttpClientUserService, HttpClientOrderService, HttpClientPublicOrderIDByCode, PayAt
<1>2. UNCHANGED payFaults \/ PayFault
  BY DEF HttpClientUserService, HttpClientOrderService, HttpClientPublicOrderIDByCode
<1>3. PayBounds /\ MayCharge(r)
  BY <1>1, <1>2, BoundsKept DEF MayCharge
<1>4. CASE PayAnswer(r, "error")
  BY <1>1, <1>3, <1>4, AnsweredEnds DEF PayCodes
<1>5. CASE PayAnswer(r, "ok") /\ payHttp[r].op \in {"read", "list"}
  <2>1. PayEnds(r)
    BY <1>1, <1>3, <1>5, AnswerEndsPayment DEF PayEnds, PayCodes
  <2>2. QED
    BY <2>1 DEF PayStep
<1>6. ASSUME NEW pc \in {"user", "order", "charge", "find"}, PayGo(r, pc),
             \/ payHttp[r].op = "create" /\ payHttp[r].pc \in {"user", "order"} /\ pc \in {"order", "charge"}
             \/ payHttp[r].op = "read" /\ pc = "user"
             \/ payHttp[r].op = "webhook" /\ payHttp[r].pc = "code" /\ pc = "find"
      PROVE  PayStep(r)
  <2>1. PayMoves(r) /\ SameSubject(r) /\ payHttp'[r].pc = pc /\ payHttp'[r].row = payHttp[r].row
        /\ payHttp'[r].status = payHttp[r].status /\ payHttp'[r].code = payHttp[r].code
    BY <1>1, <1>3, <1>6, GoMovesPayment
  <2>2. PayGoes(r)
    BY <1>1, <1>3, <1>6, <2>1 DEF PayGoes, PayRequestOK
  <2>3. QED
    BY <2>2 DEF PayStep
<1>7. QED
  BY <1>1, <1>4, <1>5, <1>6
     DEF HttpClientUserService, HttpClientOrderService, HttpClientPublicOrderIDByCode, GetDetail, GetAll, PayAt

LEMMA CreateTransactionSteps ==
  ASSUME PaymentsInv, NEW r \in PayRequests, CreateTransaction(r)
  PROVE  PayStep(r)
<1>1. /\ PayHttpType /\ payHttp[r].pc = "charge" /\ payHttp[r].op = "create" /\ UNCHANGED <<PayTables, payRaced>>
      /\ payHttp[r].method = "midtrans"
  BY DEF PaymentsInv, PayHttpType, CreateTransaction, PayAt, PayRequestOK
<1>2. PayBounds
  BY <1>1, BoundsKept DEF CreateTransaction
<1>3. MayCharge(r)
  BY <1>1 DEF CreateTransaction, MayCharge
<1>4. CASE PayAnswer(r, "error")
  BY <1>1, <1>2, <1>3, <1>4, AnsweredEnds DEF PayCodes
<1>5. ASSUME payHttp' = [payHttp EXCEPT ![r].pc = "row", ![r].status = "Pending"]
      PROVE  PayStep(r)
  <2>1. PICK pc \in PayPcs, status \in Statuses, row \in SUBSET PaymentRows, code \in PayCodes :
          pc = "row" /\ status = "Pending" /\ row = payHttp[r].row /\ code = payHttp[r].code
    BY <1>1 DEF PayHttpType, PayHttpRequests, PayPcs, Statuses
  <2>2. Becomes(r, pc, status, row, code)
    BY <1>1, <1>5, <2>1 DEF Becomes, PayHttpType, PayHttpRequests
  <2>3. PayMoves(r) /\ SameSubject(r) /\ payHttp'[r].pc = "row" /\ payHttp'[r].status = "Pending"
        /\ payHttp'[r].row = payHttp[r].row /\ payHttp'[r].code = payHttp[r].code
    BY <1>1, <1>2, <2>1, <2>2, NewState
  <2>4. PayGoes(r)
    BY <1>1, <1>3, <2>3 DEF PayGoes
  <2>5. QED
    BY <2>4 DEF PayStep
<1>6. QED
  BY <1>4, <1>5 DEF CreateTransaction

LEMMA CreatePaymentInTxSteps ==
  ASSUME PaymentsInv, NEW r \in PayRequests, CreatePaymentInTx(r)
  PROVE  PayStep(r)
<1>1. /\ PayHttpType /\ payHttp[r].pc = "row" /\ payHttp[r].op = "create" /\ payHttp[r].order \in PayOrders
      /\ UNCHANGED <<PayTables, charge, payRaced>> /\ payHttp[r].method \in {"cod", "midtrans"}
      /\ payHttp[r].status = IF payHttp[r].method = "cod" THEN "Success" ELSE "Pending"
  BY DEF PaymentsInv, PayHttpType, CreatePaymentInTx, PayAt, PayRequestOK
<1>2. PayBounds /\ MayCharge(r)
  BY <1>1, BoundsKept DEF CreatePaymentInTx, MayCharge
<1>3. CASE PayAnswer(r, "error")
  BY <1>1, <1>2, <1>3, AnsweredEnds DEF PayCodes
<1> DEFINE id == Max({0} \union {p.id : p \in payment \union OpenRows}) + 1
           new == [id |-> id, order |-> payHttp[r].order, method |-> payHttp[r].method,
                   status |-> payHttp[r].status, by |-> r]
<1>4. ASSUME payHttp' = [payHttp EXCEPT ![r].pc = "event", ![r].row = {new}]
      PROVE  PayStep(r)
  <2>1. r \notin Creations
    BY <1>1 DEF Creations
  <2>2. /\ id \in 1 .. Cardinality(PayRequests) /\ id <= Cardinality(Creations) + 1
        /\ \A p \in payment \union OpenRows : p.id # id
    BY <2>1, NextId
  <2> HIDE DEF id
  <2>3. /\ new \in PaymentRows /\ new.id = id /\ new.order = payHttp[r].order /\ new.by = r /\ FirstStatus(new)
    BY <1>1, <2>2 DEF PaymentRows, FirstStatus, Methods, Statuses
  <2> HIDE DEF new
  <2>4. PICK pc \in PayPcs, status \in Statuses, row \in SUBSET PaymentRows, code \in PayCodes :
          pc = "event" /\ status = payHttp[r].status /\ row = {new} /\ code = payHttp[r].code
    BY <1>1, <2>3 DEF PayHttpType, PayHttpRequests, PayPcs
  <2>5. Becomes(r, pc, status, row, code)
    BY <1>1, <1>4, <2>4 DEF Becomes, PayHttpType, PayHttpRequests
  <2>6. PayMoves(r) /\ SameSubject(r) /\ payHttp'[r].pc = "event"
        /\ payHttp'[r].row = {new} /\ payHttp'[r].code = payHttp[r].code
    BY <1>1, <1>2, <2>4, <2>5, NewState
  <2>7. PayInserts(r)
    BY <1>1, <2>2, <2>3, <2>6 DEF PayInserts
  <2>8. QED
    BY <2>7 DEF PayStep
<1>5. QED
  BY <1>3, <1>4 DEF CreatePaymentInTx

LEMMA OutboxSteps ==
  ASSUME PaymentsInv, NEW r \in PayRequests, InsertPaymentSuccessOutbox(r)
  PROVE  PayStep(r)
<1>1. /\ PayHttpType /\ payHttp[r].pc = "event" /\ payHttp[r].op = "create" /\ UNCHANGED <<charge, payRaced>>
  BY DEF PaymentsInv, PayHttpType, InsertPaymentSuccessOutbox, PayAt
<1>2. PayBounds /\ MayCharge(r)
  BY <1>1, BoundsKept DEF InsertPaymentSuccessOutbox, MayCharge
<1>3. CASE UNCHANGED PayTables /\ PayAnswer(r, "error")
  BY <1>1, <1>2, <1>3, AnsweredEnds DEF PayCodes
<1>4. ASSUME NEW row \in payHttp[r].row, Committed(row), NEW code \in PayCodes, PayAnswer(r, code)
      PROVE  PayStep(r)
  <2>1. PayMoves(r) /\ SameSubject(r) /\ payHttp'[r].pc = "done" /\ payHttp'[r].row = {}
    BY <1>1, <1>2, <1>4, AnswerEndsPayment
  <2>2. PayCommits(r)
    BY <1>1, <1>4, <2>1 DEF PayCommits
  <2>3. QED
    BY <2>2 DEF PayStep
<1>5. QED
  BY <1>3, <1>4 DEF InsertPaymentSuccessOutbox, PayCodes

LEMMA MidtransWebHookSteps ==
  ASSUME PaymentsInv, NEW r \in PayRequests, MidtransWebHook(r)
  PROVE  PayStep(r)
<1>1. /\ PayHttpType /\ payHttp[r].pc = "new" /\ payHttp[r].op = "none"
      /\ UNCHANGED <<PayTables, charge, payRaced, payFaults>>
  BY DEF PaymentsInv, PayHttpType, MidtransWebHook, PayAt
<1>2. PayBounds /\ MayCharge(r)
  BY <1>1, BoundsKept DEF MayCharge
<1>3. CASE PayAnswer(r, "refused")
  BY <1>1, <1>2, <1>3, AnsweredEnds DEF PayCodes
<1>4. ASSUME NEW c \in charge, NEW said \in Reported,
             payHttp' = [payHttp EXCEPT ![r].op = "webhook", ![r].pc = "code", ![r].order = c.order,
                                        ![r].said = said, ![r].status = NewStatus(said)]
      PROVE  PayStep(r)
  <2> DEFINE h == [payHttp[r] EXCEPT !.op = "webhook", !.pc = "code", !.order = c.order,
                                     !.said = said, !.status = NewStatus(said)]
  <2>1. c.order \in PayOrders
    BY DEF PaymentsInv, PaymentsTypeOK
  <2>2. NewStatus(said) \in Statuses
    BY DEF NewStatus, Statuses, Reported
  <2>3. /\ h \in PayHttpRequests /\ h.op = "webhook" /\ h.pc = "code" /\ h.order \in PayOrders
        /\ h.said = said /\ h.status = NewStatus(said)
        /\ h.row = payHttp[r].row /\ h.code = payHttp[r].code
    BY <1>1, <2>1, <2>2 DEF PayHttpType, PayHttpRequests, PayPcs
  <2>4. payHttp' = [payHttp EXCEPT ![r] = h]
    BY <1>1, <1>4 DEF PayHttpType, PayHttpRequests
  <2> HIDE DEF h
  <2>5. PayMoves(r) /\ payHttp'[r] = h
    BY <1>1, <1>2, <2>3, <2>4, NewRecord
  <2>6. PayBegins(r)
    BY <1>1, <2>3, <2>5 DEF PayBegins
  <2>7. QED
    BY <2>6 DEF PayStep
<1>5. QED
  BY <1>3, <1>4 DEF MidtransWebHook

LEMMA FindPaymentSteps ==
  ASSUME PaymentsInv, NEW r \in PayRequests, FindPayment(r)
  PROVE  PayStep(r)
<1>1. /\ PayHttpType /\ payHttp[r].pc = "find" /\ payHttp[r].op = "webhook"
      /\ UNCHANGED <<PayTables, charge, payRaced, payFaults>>
  BY DEF PaymentsInv, PayHttpType, FindPayment, PayAt
<1>2. PayBounds /\ MayCharge(r)
  BY <1>1, BoundsKept DEF MayCharge
<1>3. CASE PayAnswer(r, "error")
  BY <1>1, <1>2, <1>3, AnsweredEnds DEF PayCodes
<1> DEFINE first == {p \in OfOrder(payHttp[r].order) : \A q \in OfOrder(payHttp[r].order) : p.id <= q.id}
<1>4. ASSUME payHttp' = [payHttp EXCEPT ![r].pc = "save", ![r].row = first]
      PROVE  PayStep(r)
  <2>1. first \subseteq OfOrder(payHttp[r].order) /\ first \subseteq PaymentRows
    BY DEF OfOrder, PaymentsInv, PaymentsTypeOK
  <2> HIDE DEF first
  <2>2. PICK pc \in PayPcs, status \in Statuses, row \in SUBSET PaymentRows, code \in PayCodes :
          pc = "save" /\ status = payHttp[r].status /\ row = first /\ code = payHttp[r].code
    BY <1>1, <2>1 DEF PayHttpType, PayHttpRequests, PayPcs
  <2>3. Becomes(r, pc, status, row, code)
    BY <1>1, <1>4, <2>2 DEF Becomes, PayHttpType, PayHttpRequests
  <2>4. PayMoves(r) /\ SameSubject(r) /\ payHttp'[r].pc = "save" /\ payHttp'[r].status = payHttp[r].status
        /\ payHttp'[r].row = first /\ payHttp'[r].code = payHttp[r].code
    BY <1>1, <1>2, <2>2, <2>3, NewState
  <2>5. PayFinds(r)
    BY <1>1, <2>1, <2>4 DEF PayFinds
  <2>6. QED
    BY <2>5 DEF PayStep
<1>5. QED
  BY <1>3, <1>4 DEF FindPayment

LEMMA SavePaymentSteps ==
  ASSUME PaymentsInv, NEW r \in PayRequests, SavePayment(r)
  PROVE  PayStep(r)
<1>1. /\ PayHttpType /\ payHttp[r].pc = "save" /\ payHttp[r].op = "webhook"
      /\ UNCHANGED <<paymentLog, announced, charge, payRaced>>
  BY DEF PaymentsInv, PayHttpType, SavePayment, PayAt
<1>2. PayBounds /\ MayCharge(r)
  BY <1>1, BoundsKept DEF SavePayment, MayCharge
<1>3. CASE UNCHANGED payment /\ PayAnswer(r, "error")
  BY <1>1, <1>2, <1>3, AnsweredEnds DEF PayCodes, PayTables
<1>4. ASSUME NEW row \in payHttp[r].row, PayAnswer(r, "ok"),
             payment' = {p \in payment : p.id # row.id} \union {[row EXCEPT !.status = payHttp[r].status]}
      PROVE  PayStep(r)
  <2>1. PayMoves(r) /\ SameSubject(r) /\ payHttp'[r].pc = "done" /\ payHttp'[r].row = {}
        /\ payHttp'[r].status = payHttp[r].status
    BY <1>1, <1>2, <1>4, AnswerEndsPayment DEF PayCodes
  <2>2. PaySaves(r)
    BY <1>1, <1>4, <2>1 DEF PaySaves
  <2>3. QED
    BY <2>2 DEF PayStep
<1>5. QED
  BY <1>3, <1>4 DEF SavePayment

\* The reads.
LEMMA ReadsStep ==
  ASSUME PaymentsInv, NEW r \in PayRequests, GetDetailPayment(r) \/ GetAllPayments(r)
  PROVE  PayStep(r)
<1>1. /\ PayHttpType /\ payHttp[r].pc = "new" /\ payHttp[r].op = "none"
      /\ UNCHANGED <<PayTables, charge, payRaced, payFaults>>
  BY DEF PaymentsInv, PayHttpType, GetDetailPayment, GetAllPayments, PayAt
<1>2. PayBounds /\ MayCharge(r)
  BY <1>1, BoundsKept DEF MayCharge
<1>3. CASE PayAnswer(r, "error")
  BY <1>1, <1>2, <1>3, AnsweredEnds DEF PayCodes
<1>4. ASSUME NEW op \in {"read", "list"}, payHttp' = [payHttp EXCEPT ![r].op = op, ![r].pc = "order"]
      PROVE  PayStep(r)
  <2> DEFINE h == [payHttp[r] EXCEPT !.op = op, !.pc = "order"]
  <2>1. /\ h \in PayHttpRequests /\ h.op = op /\ h.pc = "order"
        /\ h.row = payHttp[r].row /\ h.code = payHttp[r].code
    BY <1>1 DEF PayHttpType, PayHttpRequests, PayPcs
  <2>2. payHttp' = [payHttp EXCEPT ![r] = h]
    BY <1>1, <1>4 DEF PayHttpType, PayHttpRequests
  <2> HIDE DEF h
  <2>3. PayMoves(r) /\ payHttp'[r] = h
    BY <1>1, <1>2, <2>1, <2>2, NewRecord
  <2>4. PayBegins(r)
    BY <1>1, <2>1, <2>3 DEF PayBegins
  <2>5. QED
    BY <2>4 DEF PayStep
<1>5. QED
  BY <1>3, <1>4 DEF GetDetailPayment, GetAllPayments

LEMMA CrashCuts ==
  ASSUME PaymentsInv, PayCrash \/ UNCHANGED payVars
  PROVE  PayCut
<1>1. PayHttpType /\ UNCHANGED <<PayTables, charge, payRaced>> /\ (UNCHANGED payFaults \/ PayFault)
  BY DEF PaymentsInv, PayHttpType, PayCrash, payVars, PayTables
<1>2. PayBounds
  BY <1>1, BoundsKept
<1>3. CASE UNCHANGED payVars
  BY <1>1, <1>2, <1>3 DEF PayCut, PayHttpType, payVars
<1>4. ASSUME PayCrash
      PROVE  PayCut
  <2> DEFINE cut(r) == [payHttp[r] EXCEPT !.pc = "done", !.code = "lost", !.row = {}]
  <2>1. payHttp' = [r \in PayRequests |-> IF payHttp[r].pc \in {"new", "done"} THEN payHttp[r] ELSE cut(r)]
    BY <1>4 DEF PayCrash
  <2>2. ASSUME NEW r \in PayRequests
        PROVE  /\ cut(r) \in PayHttpRequests /\ cut(r).pc = "done" /\ cut(r).code = "lost" /\ cut(r).row = {}
               /\ cut(r).op = payHttp[r].op /\ cut(r).order = payHttp[r].order /\ cut(r).said = payHttp[r].said
               /\ cut(r).method = payHttp[r].method /\ cut(r).status = payHttp[r].status
    BY <1>1, ZenonT(60) DEF PayHttpType, PayHttpRequests, PayPcs, PayCodes
  <2> HIDE DEF cut
  <2>3. PayHttpType'
    BY <1>1, <2>1, <2>2 DEF PayHttpType
  <2>4. ASSUME NEW r \in PayRequests, payHttp'[r] # payHttp[r]
        PROVE  /\ SameSubject(r) /\ payHttp[r].pc # "done" /\ payHttp[r].op # "none"
               /\ payHttp'[r].pc = "done" /\ payHttp'[r].code = "lost" /\ payHttp'[r].row = {}
               /\ payHttp'[r].status = payHttp[r].status
    <3>1. payHttp'[r] = cut(r) /\ payHttp[r].pc \notin {"new", "done"}
      BY <2>1, <2>4
    <3>2. payHttp[r].op # "none"
      BY <3>1 DEF PaymentsInv, PayRequestOK
    <3>3. QED
      BY <2>2, <3>1, <3>2 DEF SameSubject
  <2>5. QED
    BY <1>1, <1>2, <2>3, <2>4 DEF PayCut
<1>5. QED
  BY <1>3, <1>4

LEMMA NextSteps ==
  ASSUME PaymentsInv, [PayNext]_payVars
  PROVE  (\E r \in PayRequests : PayStep(r)) \/ PayCut
  BY CreatePaymentSteps, ProcessPaymentSteps, CallsStep, CreateTransactionSteps, CreatePaymentInTxSteps,
     OutboxSteps, MidtransWebHookSteps, FindPaymentSteps, SavePaymentSteps, ReadsStep, CrashCuts DEF PayNext

-----------------------------------------------------------------------------
(* What the steps have in common.                                          *)

\* A request that has begun stays about the same payment.
LEMMA SubjectsStay ==
  ASSUME PaymentsInv, (\E r \in PayRequests : PayStep(r)) \/ PayCut
  PROVE  /\ PayHttpType' /\ PayBounds
         /\ \A q \in PayRequests : payHttp[q].op # "none" => SameSubject(q)
<1>1. ASSUME NEW r \in PayRequests, PayStep(r)
      PROVE  /\ PayHttpType' /\ PayBounds
             /\ \A q \in PayRequests : payHttp[q].op # "none" => SameSubject(q)
  <2>1. PayMoves(r) /\ (SameSubject(r) \/ payHttp[r].op = "none")
    BY <1>1 DEF PayStep, PayEnds, PayBegins, PayGoes, PayInserts, PayCommits, PayFinds, PaySaves
  <2>2. QED
    BY <2>1 DEF PayMoves, SameSubject
<1>2. CASE PayCut
  BY <1>2 DEF PayCut, SameSubject
<1>3. QED
  BY <1>1, <1>2

\* Saving a status replaces one payment by the same payment in another state.
SavesOne(r, was, is) ==
  /\ was \in payment /\ is \in PaymentRows /\ SamePayment(was, is)
  /\ is.status = payHttp[r].status /\ is.order = payHttp[r].order
  /\ payment' = (payment \ {was}) \union {is}

LEMMA SaveReplaces ==
  ASSUME PaymentsInv, NEW r \in PayRequests, PaySaves(r)
  PROVE  \E was, is \in PaymentRows : SavesOne(r, was, is)
<1>1. PICK row \in payHttp[r].row :
        payment' = {p \in payment : p.id # row.id} \union {[row EXCEPT !.status = payHttp[r].status]}
  BY DEF PaySaves
<1> DEFINE is == [row EXCEPT !.status = payHttp[r].status]
<1>2. row \in PaymentRows /\ payHttp[r].status \in Statuses
  BY DEF PaymentsInv, PaymentsTypeOK
<1>3. row.order = payHttp[r].order /\ \E q \in payment : SamePayment(row, q)
  BY DEF PaymentsInv, PayRequestOK, PaySaves
<1>4. PICK was \in payment : SamePayment(row, was)
  BY <1>3
<1>5. is \in PaymentRows /\ SamePayment(was, is) /\ is.status = payHttp[r].status /\ is.order = payHttp[r].order
  BY <1>2, <1>3, <1>4 DEF PaymentRows, SamePayment
<1>6. \A p \in payment : p.id # row.id <=> p # was
  BY <1>4 DEF PaymentsInv, IdsOK, SamePayment
<1>7. payment' = {p \in payment : p.id # row.id} \union {is}
  BY <1>1
<1> HIDE DEF is
<1>8. payment' = (payment \ {was}) \union {is}
  BY <1>6, <1>7
<1>9. was \in PaymentRows
  BY DEF PaymentsInv, PaymentsTypeOK
<1>10. QED
  BY <1>5, <1>8, <1>9 DEF SavesOne

\* The row a creation commits is of its order, and new.
LEMMA CommitAdds ==
  ASSUME PaymentsInv, NEW r \in PayRequests, PayCommits(r)
  PROVE  \E row \in PaymentRows :
           /\ Committed(row) /\ row \in Inserted(r) /\ row.by = r /\ row.order = payHttp[r].order
           /\ FirstStatus(row)
  BY DEF PayCommits, PaymentsInv, PaymentsTypeOK, PayRequestOK, Inserted

\* What becomes of the payments in any step.
LEMMA PaymentsBecome ==
  ASSUME PaymentsInv, (\E r \in PayRequests : PayStep(r)) \/ PayCut
  PROVE  \/ UNCHANGED PayTables
         \/ \E r \in PayRequests : PayCommits(r)
         \/ \E r \in PayRequests : PaySaves(r)
  BY DEF PayStep, PayEnds, PayBegins, PayGoes, PayInserts, PayFinds, PayCut

\* No payment ever goes.
LEMMA PaymentsStay ==
  ASSUME PaymentsInv, (\E r \in PayRequests : PayStep(r)) \/ PayCut
  PROVE  \A p \in payment : \E q \in payment' : SamePayment(p, q)
<1>1. CASE UNCHANGED PayTables
  BY <1>1 DEF PayTables, SamePayment
<1>2. ASSUME NEW r \in PayRequests, PayCommits(r)
      PROVE  \A p \in payment : \E q \in payment' : SamePayment(p, q)
  <2>1. payment \subseteq payment'
    BY <1>2 DEF PayCommits, Committed
  <2>2. QED
    BY <2>1 DEF SamePayment
<1>3. ASSUME NEW r \in PayRequests, PaySaves(r)
      PROVE  \A p \in payment : \E q \in payment' : SamePayment(p, q)
  <2>1. PICK was, is \in PaymentRows : SavesOne(r, was, is)
    BY <1>3, SaveReplaces
  <2>2. QED
    BY <2>1 DEF SavesOne, SamePayment
<1>4. QED
  BY <1>1, <1>2, <1>3, PaymentsBecome

-----------------------------------------------------------------------------
(* The invariant, one conjunct at a time.                                  *)

LEMMA TypesKept ==
  ASSUME PaymentsInv, (\E r \in PayRequests : PayStep(r)) \/ PayCut
  PROVE  PaymentsTypeOK' /\ PayHttpType'
<1>1. PayHttpType' /\ PayBounds
  BY SubjectsStay
<1>2. \A r \in PayRequests :
       /\ payHttp'[r].row \subseteq PaymentRows
       /\ payHttp'[r].code \in {"none", "ok", "refused", "error", "lost"}
       /\ payHttp'[r].status \in Statuses /\ payHttp'[r].order \in PayOrders \union {NoOrder}
  BY <1>1 DEF PayHttpType, PayHttpRequests, PayCodes
<1>3. charge' \subseteq [order : PayOrders, by : PayRequests]
  <2>1. charge \subseteq [order : PayOrders, by : PayRequests]
    BY DEF PaymentsInv, PaymentsTypeOK
  <2>2. ASSUME NEW r \in PayRequests, MayCharge(r)
        PROVE  charge' \subseteq [order : PayOrders, by : PayRequests]
    BY <2>1, <2>2 DEF MayCharge, PaymentsInv, PayRequestOK
  <2>3. UNCHANGED charge \/ \E r \in PayRequests : MayCharge(r)
    BY DEF PayStep, PayEnds, PayBegins, PayGoes, PayInserts, PayCommits, PayFinds, PaySaves, PayCut
  <2>4. QED
    BY <2>1, <2>2, <2>3
<1>4. /\ payment' \subseteq PaymentRows
      /\ paymentLog' \subseteq [id : 1 .. Cardinality(PayRequests), status : Statuses]
      /\ announced' \subseteq [order : PayOrders, by : PayRequests]
  <2>1. /\ payment \subseteq PaymentRows
        /\ paymentLog \subseteq [id : 1 .. Cardinality(PayRequests), status : Statuses]
        /\ announced \subseteq [order : PayOrders, by : PayRequests]
    BY DEF PaymentsInv, PaymentsTypeOK
  <2>2. CASE UNCHANGED PayTables
    BY <2>1, <2>2 DEF PayTables
  <2>3. ASSUME NEW r \in PayRequests, PayCommits(r)
        PROVE  /\ payment' \subseteq PaymentRows
               /\ paymentLog' \subseteq [id : 1 .. Cardinality(PayRequests), status : Statuses]
               /\ announced' \subseteq [order : PayOrders, by : PayRequests]
    <3>1. PICK row \in PaymentRows : Committed(row)
      BY <2>3, CommitAdds
    <3>2. /\ [id |-> row.id, status |-> row.status] \in [id : 1 .. Cardinality(PayRequests), status : Statuses]
          /\ [order |-> row.order, by |-> row.by] \in [order : PayOrders, by : PayRequests]
      BY DEF PaymentRows
    <3>3. QED
      BY <2>1, <3>1, <3>2 DEF Committed
  <2>4. ASSUME NEW r \in PayRequests, PaySaves(r)
        PROVE  payment' \subseteq PaymentRows /\ UNCHANGED <<paymentLog, announced>>
    <3>1. PICK was, is \in PaymentRows : SavesOne(r, was, is)
      BY <2>4, SaveReplaces
    <3>2. QED
      BY <2>1, <2>4, <3>1 DEF SavesOne, PaySaves
  <2>5. QED
    BY <2>1, <2>2, <2>3, <2>4, PaymentsBecome
<1>5. QED
  BY <1>1, <1>2, <1>3, <1>4 DEF PaymentsTypeOK, PayBounds

LEMMA ChargesKept ==
  ASSUME PaymentsInv, (\E r \in PayRequests : PayStep(r)) \/ PayCut
  PROVE  ChargesOK'
<1>1. \A q \in PayRequests : payHttp[q].op # "none" => SameSubject(q)
  BY SubjectsStay
<1>2. UNCHANGED charge \/ \E r \in PayRequests : MayCharge(r)
  BY DEF PayStep, PayEnds, PayBegins, PayGoes, PayInserts, PayCommits, PayFinds, PaySaves, PayCut
<1>3. \A c \in charge' : c \in charge \/ \E r \in PayRequests : payHttp[r].op = "create" /\ c = [order |-> payHttp[r].order, by |-> r]
  BY <1>2 DEF MayCharge
<1>4. \A c \in charge : c.by \in PayRequests
  BY DEF PaymentsInv, PaymentsTypeOK
<1>5. ASSUME NEW c \in charge'
      PROVE  payHttp'[c.by].op = "create" /\ payHttp'[c.by].order = c.order
  <2>1. c.by \in PayRequests /\ payHttp[c.by].op = "create" /\ payHttp[c.by].order = c.order
    BY <1>3, <1>4 DEF PaymentsInv, ChargesOK
  <2>2. QED
    BY <1>1, <2>1 DEF SameSubject
<1>6. QED
  BY <1>5 DEF ChargesOK

LEMMA WholeKept ==
  ASSUME PaymentsInv, (\E r \in PayRequests : PayStep(r)) \/ PayCut
  PROVE  LoggedAndAnnounced'
<1>1. LoggedAndAnnounced
  BY DEF PaymentsInv
<1>2. CASE UNCHANGED PayTables
  BY <1>1, <1>2 DEF PayTables, LoggedAndAnnounced
<1>3. ASSUME NEW r \in PayRequests, PayCommits(r)
      PROVE  LoggedAndAnnounced'
  <2>1. PICK row \in PaymentRows : Committed(row)
    BY <1>3, CommitAdds
  <2>2. announced' = {[order |-> p.order, by |-> p.by] : p \in payment'}
    BY <1>1, <2>1 DEF Committed, LoggedAndAnnounced
  <2>3. {l.id : l \in paymentLog'} = {p.id : p \in payment'}
    <3> DEFINE log == [id |-> row.id, status |-> row.status]
    <3>1. paymentLog' = paymentLog \union {log} /\ payment' = payment \union {row} /\ log.id = row.id
      BY <2>1 DEF Committed
    <3> HIDE DEF log
    <3>2. QED
      BY <1>1, <3>1, SMTT(30) DEF LoggedAndAnnounced
  <2>4. QED
    BY <2>2, <2>3 DEF LoggedAndAnnounced
<1>4. ASSUME NEW r \in PayRequests, PaySaves(r)
      PROVE  LoggedAndAnnounced'
  <2>1. PICK was, is \in PaymentRows : SavesOne(r, was, is)
    BY <1>4, SaveReplaces
  <2>2. was.id = is.id /\ was.order = is.order /\ was.by = is.by /\ was \in payment
        /\ payment' = (payment \ {was}) \union {is}
    BY <2>1 DEF SavesOne, SamePayment
  <2>3. {[order |-> p.order, by |-> p.by] : p \in payment'} = {[order |-> p.order, by |-> p.by] : p \in payment}
    BY <2>2
  <2>4. {p.id : p \in payment'} = {p.id : p \in payment}
    BY <2>2
  <2>5. QED
    BY <1>1, <1>4, <2>3, <2>4 DEF LoggedAndAnnounced, PaySaves
<1>5. QED
  BY <1>2, <1>3, <1>4, PaymentsBecome

\* What Midtrans said of a payment, or that it said nothing yet.
SaidOf(p) ==
  \E r \in PayRequests :
    /\ payHttp[r].op = "webhook" /\ payHttp[r].order = p.order
    /\ \/ payHttp[r].said = "settlement" /\ p.status = "success"
       \/ payHttp[r].said = "expire"     /\ p.status = "failed"
       \/ payHttp[r].said = "pending"    /\ p.status = "pending"
       \/ payHttp[r].said = "refund"     /\ p.status = "unknown"

LEMMA StatusesKept ==
  ASSUME PaymentsInv, (\E r \in PayRequests : PayStep(r)) \/ PayCut
  PROVE  StatusFromGateway'
<1>1. \A q \in PayRequests : payHttp[q].op # "none" => SameSubject(q)
  BY SubjectsStay
<1>2. \A p \in payment : FirstStatus(p) \/ SaidOf(p)
  BY DEF PaymentsInv, StatusFromGateway, FirstStatus, SaidOf
<1>3. \A p : SaidOf(p) => \E r \in PayRequests :
    /\ payHttp'[r].op = "webhook" /\ payHttp'[r].order = p.order
    /\ \/ payHttp'[r].said = "settlement" /\ p.status = "success"
       \/ payHttp'[r].said = "expire"     /\ p.status = "failed"
       \/ payHttp'[r].said = "pending"    /\ p.status = "pending"
       \/ payHttp'[r].said = "refund"     /\ p.status = "unknown"
  BY <1>1 DEF SameSubject, SaidOf
<1>4. \A p \in payment' : FirstStatus(p) \/ SaidOf(p)
  <2>1. CASE UNCHANGED PayTables
    BY <1>2, <2>1 DEF PayTables
  <2>2. ASSUME NEW r \in PayRequests, PayCommits(r)
        PROVE  \A p \in payment' : FirstStatus(p) \/ SaidOf(p)
    <3>1. PICK row \in PaymentRows : Committed(row) /\ FirstStatus(row)
      BY <2>2, CommitAdds
    <3>2. QED
      BY <1>2, <3>1 DEF Committed
  <2>3. ASSUME NEW r \in PayRequests, PaySaves(r)
        PROVE  \A p \in payment' : FirstStatus(p) \/ SaidOf(p)
    <3>1. PICK was, is \in PaymentRows : SavesOne(r, was, is)
      BY <2>3, SaveReplaces
    <3>2. /\ payHttp[r].op = "webhook" /\ payHttp[r].said \in Reported
          /\ payHttp[r].status = NewStatus(payHttp[r].said)
      BY <2>3 DEF PaySaves, PaymentsInv, PayRequestOK
    <3>3. is.status = NewStatus(payHttp[r].said) /\ is.order = payHttp[r].order
      BY <3>1, <3>2 DEF SavesOne
    <3>4. SaidOf(is)
      BY <3>2, <3>3 DEF SaidOf, NewStatus, Reported
    <3>5. QED
      BY <1>2, <3>1, <3>4 DEF SavesOne
  <2>4. QED
    BY <2>1, <2>2, <2>3, PaymentsBecome
<1>5. QED
  BY <1>3, <1>4 DEF StatusFromGateway, FirstStatus

\* Nobody but r is at work who was not, and only a look-up lets a creation go on.
LEMMA CreatorsKept ==
  ASSUME PaymentsInv, NEW r \in PayRequests, PayStep(r)
  PROVE  /\ \A q \in PayRequests \ {r} : payHttp'[q] = payHttp[q]
         /\ Creating(r)' /\ ~ Creating(r) => PayBegins(r) /\ ~ FoundNone(r)'
         /\ FoundNone(r)' /\ ~ FoundNone(r) =>
              OfOrder(payHttp[r].order) = {} \/ payHttp[r].order \in payRaced'
         /\ Creating(r) => SameSubject(r)
  BY DEF PayStep, PayEnds, PayBegins, PayGoes, PayInserts, PayCommits, PayFinds, PaySaves, PayMoves,
         SameSubject, Creating, FoundNone

LEMMA OnceKept ==
  ASSUME PaymentsInv, (\E r \in PayRequests : PayStep(r)) \/ PayCut, NEW o \in PayOrders
  PROVE  OnceOK(o)'
<1> SUFFICES ASSUME o \notin payRaced'
             PROVE  /\ \A p, q \in OfOrder(o)' : p = q
                    /\ \A r, s \in PayRequests : Creating(r)' /\ Creating(s)'
                         /\ payHttp'[r].order = o /\ payHttp'[s].order = o => r = s
                    /\ \A r \in PayRequests : FoundNone(r)' /\ payHttp'[r].order = o => OfOrder(o)' = {}
  BY DEF OnceOK
<1>1. o \notin payRaced
  BY SubjectsStay DEF PayBounds
<1>2. /\ \A p, q \in OfOrder(o) : p = q
      /\ \A r, s \in PayRequests : Creating(r) /\ Creating(s) /\ payHttp[r].order = o /\ payHttp[s].order = o => r = s
      /\ \A r \in PayRequests : FoundNone(r) /\ payHttp[r].order = o => OfOrder(o) = {}
  BY <1>1 DEF PaymentsInv, OnceOK
<1>3. CASE PayCut
  <2>1. UNCHANGED payment
    BY <1>3 DEF PayCut, PayTables
  <2>2. OfOrder(o)' = OfOrder(o)
    BY <2>1 DEF OfOrder
  <2>3. \A q \in PayRequests : Creating(q)' => Creating(q) /\ payHttp'[q] = payHttp[q]
    BY <1>3 DEF PayCut, Creating
  <2>4. QED
    BY <1>2, <2>2, <2>3 DEF FoundNone
<1>4. ASSUME NEW r \in PayRequests, PayStep(r)
      PROVE  /\ \A s, q \in PayRequests : Creating(s)' /\ Creating(q)'
                  /\ payHttp'[s].order = o /\ payHttp'[q].order = o => s = q
             /\ \A q \in PayRequests : FoundNone(q)' /\ payHttp'[q].order = o => OfOrder(o) = {}
  <2>1. /\ \A q \in PayRequests \ {r} : payHttp'[q] = payHttp[q]
        /\ Creating(r)' /\ ~ Creating(r) => PayBegins(r) /\ ~ FoundNone(r)'
        /\ FoundNone(r)' /\ ~ FoundNone(r) => OfOrder(payHttp[r].order) = {} \/ payHttp[r].order \in payRaced'
        /\ Creating(r) => SameSubject(r)
    BY <1>4, CreatorsKept
  <2>2. \A q \in PayRequests \ {r} : /\ Creating(q)' <=> Creating(q)
                                     /\ FoundNone(q)' <=> FoundNone(q)
    BY <2>1 DEF Creating, FoundNone
  <2>3. ASSUME NEW q \in PayRequests, q # r, Creating(q)', Creating(r)',
               payHttp'[q].order = o, payHttp'[r].order = o
        PROVE  FALSE
    <3>1. Creating(q) /\ payHttp[q].order = o
      BY <2>1, <2>2, <2>3
    <3>2. CASE Creating(r)
      BY <1>2, <2>1, <2>3, <3>1, <3>2 DEF SameSubject
    <3>3. CASE ~ Creating(r)
      <4>1. payHttp'[r].op = "create" /\ PayBegins(r)
        BY <2>1, <2>3, <3>3 DEF Creating
      <4>2. o \in payRaced'
        BY <2>3, <3>1, <4>1 DEF PayBegins
      <4>3. QED
        BY <4>2
    <3>4. QED
      BY <3>2, <3>3
  <2>4. ASSUME NEW q \in PayRequests, FoundNone(q)', payHttp'[q].order = o
        PROVE  OfOrder(o) = {}
    <3>1. CASE FoundNone(q)
      <4>1. payHttp[q].order = o
        BY <2>1, <2>4, <3>1 DEF FoundNone, SameSubject
      <4>2. QED
        BY <1>2, <3>1, <4>1
    <3>2. CASE ~ FoundNone(q)
      <4>1. q = r
        BY <2>2, <2>4, <3>2
      <4>2. Creating(r) /\ SameSubject(r)
        BY <2>1, <2>4, <4>1 DEF FoundNone
      <4>3. QED
        BY <2>1, <2>4, <3>2, <4>1, <4>2 DEF SameSubject
    <3>3. QED
      BY <3>1, <3>2
  <2>5. \A s, q \in PayRequests : s # q => s # r \/ q # r
    OBVIOUS
  <2>6. ASSUME NEW s \in PayRequests, NEW q \in PayRequests, Creating(s)', Creating(q)',
               payHttp'[s].order = o, payHttp'[q].order = o
        PROVE  s = q
    <3>1. CASE s # r /\ q # r
      BY <1>2, <2>1, <2>2, <2>6, <3>1
    <3>2. CASE s = r \/ q = r
      BY <2>3, <2>6, <3>2
    <3>3. QED
      BY <3>1, <3>2
  <2>7. QED
    BY <2>4, <2>6
<1>5. CASE UNCHANGED PayTables /\ \E r \in PayRequests : PayStep(r)
  <2>1. OfOrder(o)' = OfOrder(o)
    BY <1>5 DEF PayTables, OfOrder
  <2>2. QED
    BY <1>2, <1>4, <1>5, <2>1
<1>6. ASSUME NEW r \in PayRequests, PayCommits(r)
      PROVE  /\ \A p, q \in OfOrder(o)' : p = q
             /\ \A q \in PayRequests : FoundNone(q)' /\ payHttp'[q].order = o => OfOrder(o)' = {}
  <2>1. PICK row \in PaymentRows : Committed(row) /\ row.order = payHttp[r].order
    BY <1>6, CommitAdds
  <2>2. FoundNone(r) /\ PayStep(r) /\ payHttp'[r].pc = "done"
    BY <1>6 DEF PayCommits, PayStep, FoundNone, Creating
  <2>3. CASE row.order # o
    <3>1. OfOrder(o)' = OfOrder(o)
      BY <2>1, <2>3 DEF Committed, OfOrder
    <3>2. QED
      BY <1>2, <1>4, <2>2, <3>1
  <2>4. CASE row.order = o
    <3>1. OfOrder(o) = {}
      BY <1>2, <2>1, <2>2, <2>4
    <3>2. OfOrder(o)' = {row}
      BY <2>1, <2>4, <3>1 DEF Committed, OfOrder
    <3>3. ASSUME NEW q \in PayRequests, FoundNone(q)', payHttp'[q].order = o
          PROVE  FALSE
      <4>1. q # r
        BY <2>2, <3>3 DEF FoundNone, Creating
      <4>2. payHttp'[q] = payHttp[q]
        BY <2>2, <4>1, CreatorsKept
      <4>3. Creating(q) /\ payHttp[q].order = o
        BY <3>3, <4>2 DEF FoundNone, Creating
      <4>4. Creating(r) /\ payHttp[r].order = o
        BY <2>1, <2>2, <2>4 DEF FoundNone
      <4>5. QED
        BY <1>2, <4>1, <4>3, <4>4
    <3>4. QED
      BY <3>2, <3>3
  <2>5. QED
    BY <2>3, <2>4
<1>7. ASSUME NEW r \in PayRequests, PaySaves(r)
      PROVE  /\ \A p, q \in OfOrder(o)' : p = q
             /\ \A q \in PayRequests : FoundNone(q)' /\ payHttp'[q].order = o => OfOrder(o)' = {}
  <2>1. PICK was, is \in PaymentRows : SavesOne(r, was, is)
    BY <1>7, SaveReplaces
  <2>2. was \in payment /\ was.order = is.order /\ payment' = (payment \ {was}) \union {is}
    BY <2>1 DEF SavesOne, SamePayment
  <2>3. CASE was.order # o
    <3>1. OfOrder(o)' = OfOrder(o)
      BY <2>2, <2>3 DEF OfOrder
    <3>2. QED
      BY <1>2, <1>4, <1>7, <3>1 DEF PayStep
  <2>4. CASE was.order = o
    <3>1. was \in OfOrder(o)
      BY <2>2, <2>4 DEF OfOrder
    <3>2. \A p \in OfOrder(o)' : p = is
      BY <1>2, <2>2, <3>1 DEF OfOrder
    <3>3. \A q \in PayRequests : ~ (FoundNone(q)' /\ payHttp'[q].order = o)
      BY <1>4, <1>7, <3>1 DEF PayStep
    <3>4. QED
      BY <3>2, <3>3
  <2>5. QED
    BY <2>3, <2>4
<1>8. QED
  BY <1>3, <1>4, <1>5, <1>6, <1>7, PaymentsBecome DEF PayStep

\* A row is inserted in PayInserts only; every other step keeps or drops it.
LEMMA InsertedKept ==
  ASSUME PaymentsInv, (\E r \in PayRequests : PayStep(r)) \/ PayCut
  PROVE  \A q \in PayRequests : Inserted(q)' \subseteq Inserted(q) \/ PayInserts(q)
<1>1. CASE PayCut
  BY <1>1 DEF PayCut, Inserted
<1>2. ASSUME NEW r \in PayRequests, PayStep(r), NEW q \in PayRequests
      PROVE  Inserted(q)' \subseteq Inserted(q) \/ PayInserts(q)
  <2>1. CASE q # r
    <3>1. payHttp'[q] = payHttp[q]
      BY <1>2, <2>1, CreatorsKept
    <3>2. QED
      BY <3>1 DEF Inserted
  <2>2. CASE q = r
    <3>1. PayInserts(r) \/ payHttp'[r].pc # "event"
      BY <1>2 DEF PayStep, PayEnds, PayBegins, PayGoes, PayCommits, PayFinds, PaySaves
    <3>2. QED
      BY <2>2, <3>1 DEF Inserted
  <2>3. QED
    BY <2>1, <2>2
<1>3. QED
  BY <1>1, <1>2

\* The ids in use stay those of creations.
LEMMA CreationsGrow ==
  ASSUME PaymentsInv, (\E r \in PayRequests : PayStep(r)) \/ PayCut
  PROVE  /\ Cardinality(Creations) \in Nat /\ Cardinality(Creations') \in Nat
         /\ Cardinality(Creations) <= Cardinality(Creations')
         /\ \A r \in PayRequests : PayInserts(r) => Cardinality(Creations) + 1 <= Cardinality(Creations')
<1>1. Creations' \subseteq PayRequests /\ IsFiniteSet(Creations')
  <2>1. Creations' \subseteq PayRequests
    BY DEF Creations
  <2>2. QED
    BY <2>1, PaymentsAssumption, FS_Subset
<1>2. Creations \subseteq Creations'
  <2>1. CASE PayCut
    BY <2>1 DEF PayCut, Creations, SameSubject
  <2>2. ASSUME NEW r \in PayRequests, PayStep(r)
        PROVE  Creations \subseteq Creations'
    <3>1. \A q \in PayRequests \ {r} : payHttp'[q] = payHttp[q]
      BY <2>2, CreatorsKept
    <3>2. r \in Creations => payHttp'[r].op = "create" /\ payHttp'[r].pc \in {"event", "done"}
      BY <2>2 DEF PayStep, PayEnds, PayBegins, PayGoes, PayInserts, PayCommits, PayFinds, PaySaves, PayMoves,
                  SameSubject, Creations
    <3>3. QED
      BY <3>1, <3>2 DEF Creations
  <2>3. QED
    BY <2>1, <2>2
<1>3. ASSUME NEW r \in PayRequests, PayInserts(r)
      PROVE  Cardinality(Creations) + 1 <= Cardinality(Creations')
  <2>1. r \notin Creations /\ r \in Creations'
    BY <1>3 DEF PayInserts, Creations, SameSubject
  <2>2. Creations \union {r} \subseteq Creations'
    BY <1>2, <2>1
  <2>3. Cardinality(Creations \union {r}) <= Cardinality(Creations')
    BY <1>1, <2>2, FS_Subset
  <2>4. QED
    BY <2>1, <2>3, CreationsFinite
<1>4. Cardinality(Creations') \in Nat
  BY <1>1, FS_CardinalityType
<1>5. Cardinality(Creations) <= Cardinality(Creations')
  BY <1>1, <1>2, FS_Subset
<1>6. QED
  BY <1>3, <1>4, <1>5, CreationsFinite

LEMMA UniqueIdsKept ==
  ASSUME PaymentsInv, (\E r \in PayRequests : PayStep(r)) \/ PayCut
  PROVE  \A p, q \in payment' : p.id = q.id => p = q
<1>1. \A p, q \in payment : p.id = q.id => p = q
  BY DEF PaymentsInv, IdsOK
<1>2. CASE UNCHANGED PayTables
  BY <1>1, <1>2 DEF PayTables
<1>3. ASSUME NEW r \in PayRequests, PayCommits(r)
      PROVE  \A p, q \in payment' : p.id = q.id => p = q
  <2>1. PICK row \in PaymentRows : Committed(row) /\ row \in Inserted(r)
    BY <1>3, CommitAdds
  <2>2. \A q \in payment : q.id # row.id
    BY <2>1 DEF PaymentsInv, IdsOK
  <2>3. QED
    BY <1>1, <2>1, <2>2 DEF Committed
<1>4. ASSUME NEW r \in PayRequests, PaySaves(r)
      PROVE  \A p, q \in payment' : p.id = q.id => p = q
  <2>1. PICK was, is \in PaymentRows : SavesOne(r, was, is)
    BY <1>4, SaveReplaces
  <2>2. QED
    BY <1>1, <2>1 DEF SavesOne, SamePayment
<1>5. QED
  BY <1>2, <1>3, <1>4, PaymentsBecome

LEMMA FreshIdsKept ==
  ASSUME PaymentsInv, (\E r \in PayRequests : PayStep(r)) \/ PayCut, NEW s \in PayRequests, NEW p \in Inserted(s)'
  PROVE  /\ \A q \in payment' : q.id # p.id
         /\ \A t \in PayRequests \ {s} : \A q \in Inserted(t)' : q.id # p.id
<1>1. \A t \in PayRequests : \A q \in Inserted(t) :
        /\ \A x \in payment : x.id # q.id
        /\ \A u \in PayRequests \ {t} : \A x \in Inserted(u) : x.id # q.id
  BY DEF PaymentsInv, IdsOK
<1>2. \A t \in PayRequests : Inserted(t) \subseteq OpenRows
  BY DEF Inserted, OpenRows
<1>3. ASSUME NEW r \in PayRequests, PayInserts(r)
      PROVE  /\ \A q \in payment' : q.id # p.id
             /\ \A t \in PayRequests \ {s} : \A q \in Inserted(t)' : q.id # p.id
  <2>1. PICK row \in PaymentRows : payHttp'[r].row = {row} /\ \A q \in payment \union OpenRows : q.id # row.id
    BY <1>3 DEF PayInserts
  <2>2. Inserted(r)' \subseteq {row} /\ payment' = payment /\ \A t \in PayRequests \ {r} : Inserted(t)' = Inserted(t)
    BY <1>3, <2>1 DEF PayInserts, PayMoves, PayTables, Inserted
  <2>3. QED
    BY <1>1, <1>2, <2>1, <2>2
<1>4. ASSUME \A t \in PayRequests : ~ PayInserts(t)
      PROVE  /\ \A q \in payment' : q.id # p.id
             /\ \A t \in PayRequests \ {s} : \A q \in Inserted(t)' : q.id # p.id
  <2>1. \A t \in PayRequests : Inserted(t)' \subseteq Inserted(t)
    BY <1>4, InsertedKept
  <2>2. \A t \in PayRequests \ {s} : \A q \in Inserted(t)' : q.id # p.id
    BY <1>1, <2>1
  <2>3. CASE UNCHANGED PayTables
    BY <1>1, <2>1, <2>2, <2>3 DEF PayTables
  <2>4. ASSUME NEW r \in PayRequests, PayCommits(r)
        PROVE  \A q \in payment' : q.id # p.id
    <3>1. PICK row \in PaymentRows : Committed(row) /\ row \in Inserted(r)
      BY <2>4, CommitAdds
    <3>2. s # r
      BY <2>4 DEF PayCommits, Inserted
    <3>3. QED
      BY <1>1, <2>1, <3>1, <3>2 DEF Committed
  <2>5. ASSUME NEW r \in PayRequests, PaySaves(r)
        PROVE  \A q \in payment' : q.id # p.id
    <3>1. PICK was, is \in PaymentRows : SavesOne(r, was, is)
      BY <2>5, SaveReplaces
    <3>2. QED
      BY <1>1, <2>1, <3>1 DEF SavesOne, SamePayment
  <2>6. QED
    BY <2>2, <2>3, <2>4, <2>5, PaymentsBecome
<1>5. QED
  BY <1>3, <1>4

\* The rows of open transactions are those there were, payments, or the one that was inserted.
LEMMA OpenRowsKept ==
  ASSUME PaymentsInv, (\E r \in PayRequests : PayStep(r)) \/ PayCut,
         \A r \in PayRequests : ~ PayInserts(r)
  PROVE  OpenRows' \subseteq OpenRows \union payment
<1>1. ASSUME NEW q \in PayRequests
      PROVE  payHttp'[q].row \subseteq payHttp[q].row \union payment
  <2>1. CASE PayCut
    BY <2>1 DEF PayCut
  <2>2. ASSUME NEW r \in PayRequests, PayStep(r)
        PROVE  payHttp'[q].row \subseteq payHttp[q].row \union payment
    <3>1. CASE q # r
      BY <2>2, <3>1, CreatorsKept
    <3>2. CASE q = r
      BY <2>2, <3>2 DEF PayStep, PayEnds, PayBegins, PayGoes, PayCommits, PayFinds, PaySaves, OfOrder
    <3>3. QED
      BY <3>1, <3>2
  <2>3. QED
    BY <2>1, <2>2
<1>2. QED
  BY <1>1 DEF OpenRows

LEMMA IdsKept ==
  ASSUME PaymentsInv, (\E r \in PayRequests : PayStep(r)) \/ PayCut
  PROVE  IdsOK'
<1> DEFINE m == Cardinality(Creations)
           n == Cardinality(Creations')
<1>1. /\ m \in Nat /\ n \in Nat /\ m <= n
      /\ \A r \in PayRequests : PayInserts(r) => m + 1 <= n
  BY CreationsGrow
<1>2. \A p \in payment \union OpenRows : p.id \in Nat /\ p.id <= m
  <2>1. payment \union OpenRows \subseteq PaymentRows
    BY DEF PaymentsInv, PaymentsTypeOK, OpenRows
  <2>2. \A p \in PaymentRows : p.id \in Nat
    BY CreationsFinite DEF PaymentRows
  <2>3. QED
    BY <2>1, <2>2 DEF PaymentsInv, IdsOK
<1>3. n = Cardinality(Creations)'
  OBVIOUS
<1> HIDE DEF m, n
<1>4. \A p \in payment \union OpenRows : p.id <= n
  <2>1. \A x \in Nat : x <= m => x <= n
    BY <1>1
  <2>2. QED
    BY <1>2, <2>1
<1>5. \A p \in payment' : p.id <= n
  <2>1. CASE UNCHANGED PayTables
    BY <1>4, <2>1 DEF PayTables
  <2>2. ASSUME NEW r \in PayRequests, PayCommits(r)
        PROVE  \A p \in payment' : p.id <= n
    <3>1. PICK row \in PaymentRows : Committed(row) /\ row \in Inserted(r)
      BY <2>2, CommitAdds
    <3>2. row \in OpenRows
      BY <3>1 DEF Inserted, OpenRows
    <3>3. QED
      BY <1>4, <3>1, <3>2 DEF Committed
  <2>3. ASSUME NEW r \in PayRequests, PaySaves(r)
        PROVE  \A p \in payment' : p.id <= n
    <3>1. PICK was, is \in PaymentRows : SavesOne(r, was, is)
      BY <2>3, SaveReplaces
    <3>2. QED
      BY <1>4, <3>1 DEF SavesOne, SamePayment
  <2>4. QED
    BY <2>1, <2>2, <2>3, PaymentsBecome
<1>6. \A p \in OpenRows' : p.id <= n
  <2>1. CASE \A r \in PayRequests : ~ PayInserts(r)
    BY <1>4, <2>1, OpenRowsKept
  <2>2. ASSUME NEW r \in PayRequests, PayInserts(r)
        PROVE  \A p \in OpenRows' : p.id <= n
    <3>1. PICK row \in PaymentRows : payHttp'[r].row = {row} /\ row.id <= m + 1
      BY <2>2 DEF PayInserts, m
    <3>2. row.id \in Nat
      BY CreationsFinite DEF PaymentRows
    <3>3. row.id <= n
      BY <1>1, <2>2, <3>1, <3>2
    <3>4. OpenRows' \subseteq OpenRows \union {row}
      BY <2>2, <3>1 DEF PayInserts, PayMoves, OpenRows
    <3>5. QED
      BY <1>4, <3>3, <3>4
  <2>3. QED
    BY <2>1, <2>2
<1>7. \A p \in (payment \union OpenRows)' : p.id <= Cardinality(Creations)'
  BY <1>3, <1>5, <1>6
<1>8. QED
  BY <1>7, UniqueIdsKept, FreshIdsKept DEF IdsOK

\* Who does not move stays right, as payments stay.
LEMMA OthersStayRight ==
  ASSUME PaymentsInv, NEW q \in PayRequests, payHttp'[q] = payHttp[q],
         \A p \in payment : \E x \in payment' : SamePayment(p, x)
  PROVE  PayRequestOK(q)'
<1>1. PayRequestOK(q) /\ Inserted(q)' = Inserted(q)
  BY DEF PaymentsInv, Inserted
<1>2. payHttp[q].op = "webhook" => \A p \in payHttp[q].row : \E x \in payment' : SamePayment(p, x)
  BY <1>1 DEF PayRequestOK, SamePayment
<1>3. payHttp[q].op = "create" /\ payHttp[q].code = "ok" => \E p \in payment' : p.by = q /\ p.order = payHttp[q].order
  BY <1>1 DEF PayRequestOK, SamePayment
<1>4. QED
  BY <1>1, <1>2, <1>3 DEF PayRequestOK

LEMMA RequestsKept ==
  ASSUME PaymentsInv, (\E r \in PayRequests : PayStep(r)) \/ PayCut, NEW q \in PayRequests
  PROVE  PayRequestOK(q)'
<1> DEFINE h == payHttp[q]
           n == payHttp'[q]
<1>1. PayRequestOK(q) /\ h \in PayHttpRequests /\ n \in PayHttpRequests
  BY SubjectsStay DEF PaymentsInv, PayHttpType
<1>2. \A p \in payment : \E x \in payment' : SamePayment(p, x)
  BY PaymentsStay
\* What is left to show of a request that has been answered.
<1>3. ASSUME SameSubject(q), n.pc = "done", n.row = {}, h.pc # "done", n.status = h.status \/ h.op # "webhook",
             h.op = "create" /\ n.code = "ok" => \E p \in payment' : p.by = q /\ p.order = h.order
      PROVE  PayRequestOK(q)'
  <2>1. Inserted(q)' = {}
    BY <1>3 DEF Inserted
  <2>2. QED
    BY <1>1, <1>3, <2>1 DEF PayRequestOK, SameSubject, PayHttpRequests
<1>4. CASE PayCut
  <2>1. CASE n = h
    BY <1>2, <2>1, OthersStayRight
  <2>2. CASE n # h
    BY <1>3, <1>4, <2>2 DEF PayCut
  <2>3. QED
    BY <2>1, <2>2
<1>5. ASSUME NEW r \in PayRequests, PayStep(r), q # r
      PROVE  PayRequestOK(q)'
  <2>1. n = h
    BY <1>5, CreatorsKept
  <2>2. QED
    BY <1>2, <2>1, OthersStayRight
<1>6. ASSUME PayStep(q)
      PROVE  PayRequestOK(q)'
  <2>1. CASE PayEnds(q)
    BY <1>3, <2>1 DEF PayEnds, PayMoves
  <2>2. CASE PayCommits(q)
    <3>1. PICK row \in PaymentRows : Committed(row) /\ row.by = q /\ row.order = h.order
      BY <2>2, CommitAdds
    <3>2. row \in payment'
      BY <3>1 DEF Committed
    <3>3. QED
      BY <1>3, <2>2, <3>1, <3>2 DEF PayCommits, PayMoves
  <2>3. CASE PaySaves(q)
    BY <1>3, <2>3 DEF PaySaves, PayMoves
  <2>4. CASE PayBegins(q)
    <3>1. h.row = {} /\ h.code = "none"
      BY <1>1, <2>4 DEF PayBegins, PayRequestOK
    <3>2. Inserted(q)' = {}
      BY <2>4, <3>1 DEF PayBegins, Inserted
    <3>3. QED
      BY <2>4, <3>1, <3>2 DEF PayBegins, PayRequestOK
  <2>5. CASE PayGoes(q)
    <3>1. h.row = {} /\ h.code = "none"
      BY <1>1, <2>5 DEF PayGoes, PayMoves, PayRequestOK
    <3>2. Inserted(q)' = {}
      BY <2>5, <3>1 DEF PayGoes, Inserted
    <3>3. QED
      BY <1>1, <2>5, <3>1, <3>2 DEF PayGoes, PayMoves, SameSubject, PayRequestOK
  <2>6. CASE PayInserts(q)
    <3>1. PICK row \in PaymentRows : n.row = {row} /\ row.order = h.order /\ row.by = q /\ FirstStatus(row)
      BY <2>6 DEF PayInserts
    <3>2. Inserted(q)' = {row} /\ h.code = "none"
      BY <1>1, <2>6, <3>1 DEF PayInserts, PayMoves, SameSubject, Inserted, PayRequestOK
    <3>3. QED
      BY <1>1, <2>6, <3>1, <3>2 DEF PayInserts, SameSubject, PayRequestOK
  <2>7. CASE PayFinds(q)
    <3>1. Inserted(q)' = {} /\ h.code = "none"
      BY <1>1, <2>7 DEF PayFinds, PayMoves, SameSubject, Inserted, PayRequestOK
    <3>2. \A p \in n.row : p.order = n.order /\ \E x \in payment' : SamePayment(p, x)
      BY <1>2, <2>7 DEF PayFinds, SameSubject, OfOrder
    <3>3. QED
      BY <1>1, <2>7, <3>1, <3>2 DEF PayFinds, SameSubject, PayRequestOK
  <2>8. QED
    BY <1>6, <2>1, <2>2, <2>3, <2>4, <2>5, <2>6, <2>7 DEF PayStep
<1>7. QED
  BY <1>4, <1>5, <1>6

-----------------------------------------------------------------------------
(* The theorems.                                                           *)

LEMMA PaymentsStart ==
  ASSUME PayInit
  PROVE  PaymentsInv
<1>1. /\ payment = {} /\ paymentLog = {} /\ announced = {} /\ charge = {} /\ payRaced = {} /\ payFaults = 0
      /\ payHttp = [r \in PayRequests |-> NewPayRequest]
  BY DEF PayInit
<1>2. /\ NewPayRequest \in PayHttpRequests /\ NewPayRequest.pc = "new" /\ NewPayRequest.op = "none"
      /\ NewPayRequest.row = {} /\ NewPayRequest.code = "none" /\ NewPayRequest.status = "none"
      /\ NewPayRequest.order = NoOrder
  BY DEF NewPayRequest, PayHttpRequests, PayPcs, PayCodes, Statuses
<1>3. ASSUME NEW r \in PayRequests
      PROVE  payHttp[r] = NewPayRequest /\ Inserted(r) = {} /\ PayRequestOK(r) /\ ~ Creating(r) /\ ~ FoundNone(r)
  <2>1. payHttp[r] = NewPayRequest
    BY <1>1
  <2>2. Inserted(r) = {}
    BY <1>2, <2>1 DEF Inserted
  <2>3. PayRequestOK(r)
    BY <1>2, <2>1, <2>2 DEF PayRequestOK
  <2>4. QED
    BY <1>2, <2>1, <2>2, <2>3 DEF Creating, FoundNone
<1>4. payHttp \in [PayRequests -> PayHttpRequests]
  BY <1>1, <1>2
<1>5. PaymentsTypeOK
  <2>1. payFaults \in 0 .. MaxPayFaults
    BY <1>1, PaymentsAssumption
  <2>2. QED
    BY <1>1, <1>2, <1>3, <2>1 DEF PaymentsTypeOK, Statuses
<1>6. IdsOK
  <2>1. payment \union OpenRows = {}
    BY <1>1, <1>2, <1>3 DEF OpenRows
  <2>2. QED
    BY <1>1, <1>3, <2>1 DEF IdsOK
<1>7. \A o \in PayOrders : OnceOK(o)
  BY <1>1, <1>3 DEF OnceOK, OfOrder
<1>8. ChargesOK /\ LoggedAndAnnounced /\ StatusFromGateway
  BY <1>1 DEF ChargesOK, LoggedAndAnnounced, StatusFromGateway
<1>9. QED
  BY <1>3, <1>4, <1>5, <1>6, <1>7, <1>8 DEF PaymentsInv

LEMMA PaymentsInvKept ==
  ASSUME PaymentsInv, [PayNext]_payVars
  PROVE  PaymentsInv'
<1>1. (\E r \in PayRequests : PayStep(r)) \/ PayCut
  BY NextSteps
<1>2. PaymentsTypeOK' /\ PayHttpType' /\ ChargesOK' /\ LoggedAndAnnounced' /\ StatusFromGateway' /\ IdsOK'
  BY <1>1, TypesKept, ChargesKept, WholeKept, StatusesKept, IdsKept
<1>3. \A o \in PayOrders : OnceOK(o)'
  BY <1>1, OnceKept
<1>4. \A r \in PayRequests : PayRequestOK(r)'
  BY <1>1, RequestsKept
<1>5. QED
  BY <1>2, <1>3, <1>4 DEF PaymentsInv, PayHttpType

LEMMA PaymentsInvariance == PaySpec => []PaymentsInv
<1>1. PaymentsInv /\ [PayNext]_payVars => PaymentsInv'
  BY PaymentsInvKept
<1>2. QED
  BY PaymentsStart, <1>1, PTL DEF PaySpec

(* The tables, the requests and the gateway stay of their types: there is   *)
(* an id for every row that a transaction inserts (CreatePaymentInTx).      *)
THEOREM PaymentsTypeCorrect == PaySpec => []PaymentsTypeOK
<1>1. PaymentsInv => PaymentsTypeOK
  BY DEF PaymentsInv
<1>2. QED
  BY <1>1, PaymentsInvariance, PTL

(* An order gets one payment, whatever fails and however often the request  *)
(* is repeated, unless two requests for it overlapped or the look-up of one *)
(* failed: what GetByOrderID finds before the calls to the other services   *)
(* still holds when the row is inserted (payment_service.go:130).           *)
THEOREM PaidForOnce == PaySpec => []OnePaymentPerOrder
<1>1. ASSUME PaymentsInv
      PROVE  OnePaymentPerOrder
  <2>1. ASSUME NEW o \in PayOrders \ payRaced
        PROVE  Cardinality(OfOrder(o)) <= 1
    <3>1. \A p, q \in OfOrder(o) : p = q
      BY <1>1 DEF PaymentsInv, OnceOK
    <3>2. OfOrder(o) = {} \/ \E p : OfOrder(o) = {p}
      BY <3>1
    <3>3. Cardinality(OfOrder(o)) = 0 \/ Cardinality(OfOrder(o)) = 1
      BY <3>2, FS_EmptySet, FS_Singleton
    <3>4. QED
      BY <3>3
  <2>2. QED
    BY <2>1 DEF OnePaymentPerOrder
<1>2. PaymentsInv => OnePaymentPerOrder
  BY <1>1
<1>3. QED
  BY <1>2, PaymentsInvariance, PTL

(* Crashes, lost answers and webhooks leave no payment without its log or   *)
(* its event, no request answered with success whose transaction at         *)
(* Midtrans has no payment, and no status that nobody reported              *)
(* (createPaymentWithOutbox, MidtransWebHook).                              *)
THEOREM PaymentsFitTogether == PaySpec => []PaymentsAreWhole
<1>1. ASSUME PaymentsInv
      PROVE  PaymentsAreWhole
  <2>1. ASSUME NEW c \in charge, payHttp[c.by].code = "ok"
        PROVE  \E p \in payment : p.by = c.by /\ p.order = c.order
    <3>1. c.by \in PayRequests /\ payHttp[c.by].op = "create" /\ payHttp[c.by].order = c.order
      BY <1>1 DEF PaymentsInv, PaymentsTypeOK, ChargesOK
    <3>2. QED
      BY <1>1, <2>1, <3>1 DEF PaymentsInv, PayRequestOK
  <2>2. QED
    BY <1>1, <2>1 DEF PaymentsInv, PaymentsAreWhole, ChargesRecorded
<1>2. PaymentsInv => PaymentsAreWhole
  BY <1>1
<1>3. QED
  BY <1>2, PaymentsInvariance, PTL

(* A payment is never removed, nor its id, order, method or creator changed:*)
(* the webhook that saves the whole row it read writes nothing but a status.*)
PaymentsRemain == [][\A p \in payment : \E q \in payment' : SamePayment(p, q)]_payVars
THEOREM NoPaymentIsLost == PaySpec => PaymentsRemain
<1>1. ASSUME PaymentsInv, [PayNext]_payVars
      PROVE  [\A p \in payment : \E q \in payment' : SamePayment(p, q)]_payVars
  BY <1>1, NextSteps, PaymentsStay
<1>2. PaymentsInv /\ [PayNext]_payVars => [\A p \in payment : \E q \in payment' : SamePayment(p, q)]_payVars
  BY <1>1
<1>3. QED
  BY <1>2, PaymentsInvariance, PTL DEF PaySpec, PaymentsRemain

=============================================================================
