--------------------------- MODULE StockDeduction ---------------------------
(***************************************************************************)
(* UpdateStockHandler of the product service: the transaction that claims   *)
(* a stock_deductions row and takes an order item's quantity off the stock, *)
(* run by several workers (of one pool or of several replicas) on messages  *)
(* that arrive at least once, while administrators edit and delete the same *)
(* product rows.                                                            *)
(*                                                                         *)
(* PostgreSQL is modelled at READ COMMITTED as far as the handler relies on *)
(* it: an INSERT waits for the transaction that holds an uncommitted row    *)
(* with the same unique key, SELECT FOR UPDATE and UPDATE wait for the row  *)
(* lock, and a transaction that does not commit leaves nothing behind.      *)
(***************************************************************************)
EXTENDS Integers, FiniteSets, FiniteSetsExt

CONSTANTS
  Messages,    \* stock-update messages, one per item of an order
  Body,        \* Body[m]: the PublishOrderItemEntity m carries; 0 stands for a nil pointer
  Products,    \* product ids
  Workers,     \* worker goroutines that run the handler
  InitialStock,\* the stock of every product at the start
  EditStocks,  \* stocks an administrator may save
  MaxCopies,   \* bound: copies of one message the outbox publishes
  MaxRetries,  \* maxRetries of the Consumer
  MaxEdits,    \* bound: product edits and deletions in one behaviour
  NoMessage, NoProduct

Bodies == [product_id : Products, quantity : Int, order_id : Nat, order_item_id : Nat,
           idempotency_key : Nat]

ASSUME StockAssumption ==
  /\ Body \in [Messages -> Bodies]
  /\ InitialStock \in Nat /\ EditStocks \subseteq Nat
  /\ MaxCopies \in Nat \ {0} /\ MaxRetries \in Nat /\ MaxEdits \in Nat
  /\ NoMessage \notin Messages /\ NoProduct \notin Products

VARIABLES
  (* the product database, committed state *)
  stock,      \* stock[p]
  live,       \* live[p]: deleted_at IS NULL
  claims,     \* the stock_deductions rows
  (* the workers *)
  pc,         \* pc[w]: where the worker is in Handle
  job,        \* job[w]: the message it handles
  read,       \* read[w]: product.Stock as its transaction holds it
  (* the queue, as Consumer provides it *)
  copies,     \* copies[m]: copies waiting in the queue
  published,  \* published[m]: copies published so far
  tries,      \* tries[m]: failed calls of the handler, spread over the copies of m
  acked,      \* messages with a copy that was acknowledged after a success
  dead,       \* messages with a copy that was dead-lettered
  (* administrators *)
  edit,       \* the product.Update in progress: the product read and the stock to save
  edits,
  (* history *)
  base,       \* base[p]: the stock last set by Create or Update
  prior,      \* prior[p]: the claims that were committed by then
  applied     \* applied[m]: deductions committed for m, up to 2

db    == <<stock, live, claims>>
queue == <<copies, published, tries, acked, dead>>
admin == <<edit, edits>>
ghost == <<base, prior, applied>>
vars  == <<stock, live, claims, pc, job, read, copies, published, tries, acked, dead,
           edit, edits, base, prior, applied>>

Places == {"idle", "claim", "lock", "check", "commit", "ack"}
NoEdit == [product |-> NoProduct, stock |-> 0]

-----------------------------------------------------------------------------
(* The idempotency key.                                                    *)

\* Without order metadata the key is a digest of the body, which then holds nothing but
\* the product and the quantity.
DedupKeyForStock(b) ==
  CASE b.idempotency_key # 0 -> <<"idemp", b.idempotency_key>>
    [] b.idempotency_key = 0 /\ b.order_id # 0 /\ b.order_item_id # 0 ->
         <<"order_item", b.order_id, b.order_item_id>>
    [] b.idempotency_key = 0 /\ b.order_id # 0 /\ b.order_item_id = 0 ->
         <<"order_product", b.order_id, b.product_id, b.quantity>>
    [] OTHER -> <<"body", b.product_id, b.quantity>>

Key(m) == DedupKeyForStock(Body[m])
Product(m) == Body[m].product_id
Quantity(m) == Body[m].quantity

Claim(m) == [key |-> Key(m), product |-> Product(m), quantity |-> Quantity(m)]
ClaimedKeys == {c.key : c \in claims}

\* Seeded bug: the product is read without FOR UPDATE.
LockHolders_None(p) == {}

\* Transactions holding the row lock of p, and those holding an uncommitted claim of key k.
LockHolders(p) == {w \in Workers : pc[w] \in {"check", "commit"} /\ Product(job[w]) = p}
ClaimHolders(k) == {w \in Workers : pc[w] \in {"lock", "check", "commit"} /\ Key(job[w]) = k}

-----------------------------------------------------------------------------
Init ==
  /\ stock     = [p \in Products |-> InitialStock]
  /\ live      = [p \in Products |-> TRUE]
  /\ claims    = {}
  /\ pc        = [w \in Workers |-> "idle"]
  /\ job       = [w \in Workers |-> NoMessage]
  /\ read      = [w \in Workers |-> 0]
  /\ copies    = [m \in Messages |-> 0]
  /\ published = [m \in Messages |-> 0]
  /\ tries     = [m \in Messages |-> 0]
  /\ acked     = {}
  /\ dead      = {}
  /\ edit      = NoEdit
  /\ edits     = 0
  /\ base      = stock
  /\ prior     = [p \in Products |-> {}]
  /\ applied   = [m \in Messages |-> 0]

\* The order service's outbox publishes a copy, a further one after a lost confirm or
\* when two replicas picked up the row.
Publish(m) ==
  /\ published[m] < MaxCopies
  /\ published' = [published EXCEPT ![m] = @ + 1]
  /\ copies'    = [copies EXCEPT ![m] = @ + 1]
  /\ UNCHANGED <<db, pc, job, read, tries, acked, dead, admin, ghost>>

Take(w, m) ==
  /\ pc[w] = "idle"
  /\ copies[m] > 0
  /\ copies' = [copies EXCEPT ![m] = @ - 1]
  /\ pc'     = [pc EXCEPT ![w] = "claim"]
  /\ job'    = [job EXCEPT ![w] = m]
  /\ UNCHANGED <<db, read, published, tries, acked, dead, admin, ghost>>

-----------------------------------------------------------------------------
(* Handle.                                                                 *)

\* Seeded bug: the claim is committed on its own, before the deduction.
ClaimDeduction_OwnTransaction(w) ==
  /\ pc[w] = "claim"
  /\ Quantity(job[w]) > 0
  /\ Key(job[w]) \notin ClaimedKeys
  /\ claims' = claims \union {Claim(job[w])}
  /\ pc'     = [pc EXCEPT ![w] = "lock"]
  /\ UNCHANGED <<stock, live, job, read, queue, admin, ghost>>

\* INSERT ... ON CONFLICT DO NOTHING inserts a row.
ClaimDeduction(w) ==
  /\ pc[w] = "claim"
  /\ Quantity(job[w]) > 0
  /\ Key(job[w]) \notin ClaimedKeys
  /\ ClaimHolders(Key(job[w])) = {}
  /\ pc' = [pc EXCEPT ![w] = "lock"]
  /\ UNCHANGED <<db, job, read, queue, admin, ghost>>

\* Seeded bug: a conflict is not taken for a duplicate and the work is done again.
SkipDuplicate_Proceeds(w) ==
  /\ pc[w] = "claim"
  /\ Quantity(job[w]) > 0
  /\ Key(job[w]) \in ClaimedKeys
  /\ pc' = [pc EXCEPT ![w] = "lock"]
  /\ UNCHANGED <<db, job, read, queue, admin, ghost>>

\* It inserts none: the message counts as handled.
SkipDuplicate(w) ==
  /\ pc[w] = "claim"
  /\ Quantity(job[w]) > 0
  /\ Key(job[w]) \in ClaimedKeys
  /\ pc' = [pc EXCEPT ![w] = "ack"]
  /\ UNCHANGED <<db, job, read, queue, admin, ghost>>

\* SELECT ... FOR UPDATE; a deleted product is not found.
LockProduct(w) ==
  /\ pc[w] = "lock"
  /\ LockHolders(Product(job[w])) = {}
  /\ live[Product(job[w])]
  /\ read' = [read EXCEPT ![w] = stock[Product(job[w])]]
  /\ pc'   = [pc EXCEPT ![w] = "check"]
  /\ UNCHANGED <<db, job, queue, admin, ghost>>

\* Seeded bug: the stock is not checked.
Deduct_Unchecked(w) ==
  /\ pc[w] = "check"
  /\ read' = [read EXCEPT ![w] = @ - Quantity(job[w])]
  /\ pc'   = [pc EXCEPT ![w] = "commit"]
  /\ UNCHANGED <<db, job, queue, admin, ghost>>

\* Enough stock: it is decremented and the row saved.
Deduct(w) ==
  /\ pc[w] = "check"
  /\ read[w] >= Quantity(job[w])
  /\ read' = [read EXCEPT ![w] = @ - Quantity(job[w])]
  /\ pc'   = [pc EXCEPT ![w] = "commit"]
  /\ UNCHANGED <<db, job, queue, admin, ghost>>

Commit(w) ==
  /\ pc[w] = "commit"
  /\ stock'   = [stock EXCEPT ![Product(job[w])] = read[w]]
  /\ claims'  = claims \union {Claim(job[w])}
  /\ applied' = [applied EXCEPT ![job[w]] = IF @ < 2 THEN @ + 1 ELSE @]
  /\ pc'      = [pc EXCEPT ![w] = "ack"]
  /\ read'    = [read EXCEPT ![w] = 0]
  /\ UNCHANGED <<live, job, queue, admin, base, prior>>

\* The worker is done with the message.
Release(w) ==
  /\ pc'   = [pc EXCEPT ![w] = "idle"]
  /\ job'  = [job EXCEPT ![w] = NoMessage]
  /\ read' = [read EXCEPT ![w] = 0]

\* Handle returned nil and the ack reaches the broker.
Ack(w) ==
  /\ pc[w] = "ack"
  /\ acked' = acked \union {job[w]}
  /\ Release(w)
  /\ UNCHANGED <<db, copies, published, tries, dead, admin, ghost>>

\* Seeded bug: one retry too many.
HandlerFails_OneMore(w) ==
  /\ pc[w] \in {"claim", "lock", "check", "commit"}
  /\ IF tries[job[w]] <= MaxRetries
     THEN /\ tries'  = [tries EXCEPT ![job[w]] = @ + 1]
          /\ copies' = [copies EXCEPT ![job[w]] = @ + 1]
          /\ UNCHANGED dead
     ELSE /\ dead' = dead \union {job[w]}
          /\ UNCHANGED <<tries, copies>>
  /\ Release(w)
  /\ UNCHANGED <<db, published, acked, admin, ghost>>

\* The transaction fails and rolls back: a bad body, no such product, too little stock,
\* a timeout, a database error.  The consumer republishes the message or, its retries
\* used up, rejects it.
HandlerFails(w) ==
  /\ pc[w] \in {"claim", "lock", "check", "commit"}
  /\ IF tries[job[w]] < MaxRetries
     THEN /\ tries'  = [tries EXCEPT ![job[w]] = @ + 1]
          /\ copies' = [copies EXCEPT ![job[w]] = @ + 1]
          /\ UNCHANGED dead
     ELSE /\ dead' = dead \union {job[w]}
          /\ UNCHANGED <<tries, copies>>
  /\ Release(w)
  /\ UNCHANGED <<db, published, acked, admin, ghost>>

\* The process dies, or its channel is lost before the ack: the copy is delivered again.
Crash(w) ==
  /\ pc[w] # "idle"
  /\ copies' = [copies EXCEPT ![job[w]] = @ + 1]
  /\ Release(w)
  /\ UNCHANGED <<db, published, tries, acked, dead, admin, ghost>>

-----------------------------------------------------------------------------
(* Product edits.                                                          *)

\* Update reads the row, without a lock.
BeginUpdate(p, n) ==
  /\ edits < MaxEdits
  /\ edit = NoEdit
  /\ live[p]
  /\ edit'  = [product |-> p, stock |-> n]
  /\ edits' = edits + 1
  /\ UNCHANGED <<db, pc, job, read, queue, ghost>>

\* It saves every column, the requested stock among them; gorm's Save writes the row
\* back if it was deleted meanwhile.
SaveUpdate ==
  /\ edit # NoEdit
  /\ LockHolders(edit.product) = {}
  /\ stock' = [stock EXCEPT ![edit.product] = edit.stock]
  /\ live'  = [live EXCEPT ![edit.product] = TRUE]
  /\ base'  = [base EXCEPT ![edit.product] = edit.stock]
  /\ prior' = [prior EXCEPT ![edit.product] = claims]
  /\ edit'  = NoEdit
  /\ UNCHANGED <<claims, pc, job, read, queue, edits, applied>>

\* Delete sets deleted_at; the row and its stock stay.
DeleteProduct(p) ==
  /\ edits < MaxEdits
  /\ live[p]
  /\ LockHolders(p) = {}
  /\ live'  = [live EXCEPT ![p] = FALSE]
  /\ edits' = edits + 1
  /\ UNCHANGED <<stock, claims, pc, job, read, queue, edit, ghost>>

-----------------------------------------------------------------------------
Handle(w) ==
  \/ ClaimDeduction(w)
  \/ SkipDuplicate(w)
  \/ LockProduct(w)
  \/ Deduct(w)
  \/ Commit(w)
  \/ Ack(w)
  \/ HandlerFails(w)

Work(w) == Handle(w) \/ \E m \in Messages : Take(w, m)

Next ==
  \/ \E m \in Messages : Publish(m)
  \/ \E w \in Workers : Work(w) \/ Crash(w)
  \/ \E p \in Products :
       \/ \E n \in EditStocks : BeginUpdate(p, n)
       \/ DeleteProduct(p)
  \/ SaveUpdate

Spec == Init /\ [][Next]_vars

-----------------------------------------------------------------------------
(* Properties.                                                             *)

TypeOK ==
  /\ stock     \in [Products -> Int]
  /\ live      \in [Products -> BOOLEAN]
  /\ claims    \subseteq {Claim(m) : m \in Messages}
  /\ pc        \in [Workers -> Places]
  /\ job       \in [Workers -> Messages \union {NoMessage}]
  /\ read      \in [Workers -> Int]
  /\ copies    \in [Messages -> 0 .. MaxCopies]
  /\ published \in [Messages -> 0 .. MaxCopies]
  /\ tries     \in [Messages -> 0 .. MaxRetries]
  /\ acked     \subseteq Messages
  /\ dead      \subseteq Messages
  /\ edit      \in [product : Products \union {NoProduct}, stock : EditStocks \union {0}]
  /\ edits     \in 0 .. MaxEdits
  /\ base      \in [Products -> Nat]
  /\ prior     \in [Products -> SUBSET claims]
  /\ applied   \in [Messages -> 0 .. 2]
  /\ \A w \in Workers : (pc[w] = "idle") <=> (job[w] = NoMessage)

\* The quantities claimed on p since its stock was last set.
Sold(p) == MapThenSumSet(LAMBDA c : c.quantity, {c \in claims \ prior[p] : c.product = p})

\* The stock and the stock_deductions table tell the same story: what is left is what was
\* last set minus what was claimed since, with workers racing for the row, duplicates,
\* rollbacks, crashes and edits in between.
StockMatchesClaims == \A p \in Products : stock[p] = base[p] - Sold(p)

\* No order item is deducted twice, however often its message is delivered, also when the
\* worker dies between the commit and the ack.
DeductedAtMostOnce == \A m \in Messages : applied[m] <= 1

\* Stock is never sold that is not there, however many workers check it at once.
StockNeverNegative == \A p \in Products : stock[p] >= 0

\* A message is acknowledged only when its own quantity has been taken off: a message is
\* skipped only as an "exact duplicate redelivery" of itself.
AckedIsDeducted == \A m \in acked : applied[m] > 0

=============================================================================
