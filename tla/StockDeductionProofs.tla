------------------------ MODULE StockDeductionProofs ------------------------
(***************************************************************************)
(* Theorems about StockDeduction, for any number of messages, products,    *)
(* workers, copies, retries and edits, whatever the bodies of the messages. *)
(*                                                                         *)
(* A deduction is claimed, read, checked and committed in separate steps.   *)
(* StockInv says what the row lock and the uncommitted claim keep true in   *)
(* between.                                                                *)
(***************************************************************************)
EXTENDS StockDeduction, FiniteSetTheorems, WellFoundedInduction, TLAPS

-----------------------------------------------------------------------------
(* The inductive invariant.                                                *)

\* The transaction of w: it claimed a key nobody has committed, and from its lock on holds the
\* stock as it is in the row, less its quantity once that was found to be there.
WorkerOK(w) ==
  /\ pc[w] \in {"lock", "check", "commit"} => Quantity(job[w]) > 0 /\ Key(job[w]) \notin ClaimedKeys
  /\ pc[w] = "check"  => read[w] = stock[Product(job[w])]
  /\ pc[w] = "commit" => read[w] = stock[Product(job[w])] - Quantity(job[w])
  /\ pc[w] = "ack"    => Key(job[w]) \in ClaimedKeys
  /\ read[w] >= 0

\* Two transactions never hold the same row or the same uncommitted claim.
Apart(v, w) ==
  /\ {pc[v], pc[w]} \subseteq {"lock", "check", "commit"} => Key(job[v]) # Key(job[w])
  /\ {pc[v], pc[w]} \subseteq {"check", "commit"} => Product(job[v]) # Product(job[w])

\* A claim stands for a deduction that was applied; what was applied or acknowledged is claimed.
ClaimsInv ==
  /\ \A m \in Messages : applied[m] > 0 \/ m \in acked => Key(m) \in ClaimedKeys
  /\ \A x \in claims : \E m \in Messages : x = Claim(m) /\ applied[m] > 0

\* Copies in the queue or at a worker were published.
Handling(m) == {w \in Workers : job[w] = m}
CopiesOK(m) == IsFiniteSet(Handling(m)) /\ copies[m] + Cardinality(Handling(m)) <= published[m]

QueueInv ==
  /\ copies \in [Messages -> Nat] /\ published \in [Messages -> 0 .. MaxCopies]
  /\ \A m \in Messages : CopiesOK(m)

EditInv == edit # NoEdit => edit.product \in Products /\ edit.stock \in EditStocks

StockInv ==
  /\ TypeOK
  /\ \A w \in Workers : WorkerOK(w)
  /\ \A v, w \in Workers : v # w => Apart(v, w)
  /\ QueueInv /\ ClaimsInv /\ EditInv
  /\ DeductedAtMostOnce /\ StockNeverNegative

-----------------------------------------------------------------------------
(* The queue.                                                              *)

\* Every step that takes a message off a worker's hands leaves one worker fewer at it.
LEMMA TakenByOne ==
  ASSUME TypeOK, NEW w \in Workers, NEW m \in Messages, NEW n \in Messages,
         job[w] = NoMessage, job' = [job EXCEPT ![w] = m], IsFiniteSet(Handling(n))
  PROVE  /\ IsFiniteSet(Handling(n)')
         /\ Cardinality(Handling(n)') = Cardinality(Handling(n)) + (IF n = m THEN 1 ELSE 0)
<1>0. NoMessage # n /\ job \in [Workers -> Messages \union {NoMessage}]
  BY StockAssumption DEF TypeOK
<1>1. CASE n = m
  <2>1. Handling(n)' = Handling(n) \cup {w} /\ w \notin Handling(n)
    BY <1>0, <1>1 DEF Handling
  <2>2. QED
    BY <1>1, <2>1, FS_AddElement
<1>2. CASE n # m
  <2>1. Handling(n)' = Handling(n)
    BY <1>0, <1>2 DEF Handling
  <2>2. QED
    BY <1>2, <2>1, FS_CardinalityType
<1>3. QED
  BY <1>1, <1>2

LEMMA ReleasedByOne ==
  ASSUME TypeOK, NEW w \in Workers, NEW n \in Messages,
         job[w] \in Messages, job' = [job EXCEPT ![w] = NoMessage], IsFiniteSet(Handling(n))
  PROVE  /\ IsFiniteSet(Handling(n)')
         /\ Cardinality(Handling(n)') = Cardinality(Handling(n)) - (IF n = job[w] THEN 1 ELSE 0)
<1>0. NoMessage # n /\ job \in [Workers -> Messages \union {NoMessage}]
  BY StockAssumption DEF TypeOK
<1>1. Handling(n)' = Handling(n) \ {w} /\ (w \in Handling(n) <=> n = job[w])
  BY <1>0 DEF Handling
<1>2. QED
  BY <1>1, FS_RemoveElement, FS_CardinalityType

\* A copy is waiting or at a worker, whatever becomes of the worker: none appears that was not
\* published.
LEMMA NextQueueInv == StockInv /\ [Next]_vars => QueueInv'
<1> SUFFICES ASSUME StockInv, [Next]_vars
             PROVE  QueueInv'
  OBVIOUS
<1>0. /\ TypeOK /\ MaxCopies \in Nat
      /\ copies \in [Messages -> Nat] /\ published \in [Messages -> 0 .. MaxCopies]
      /\ \A m \in Messages : CopiesOK(m)
  BY StockAssumption DEF StockInv, TypeOK, QueueInv
<1> USE <1>0
<1>a. \A m \in Messages : IsFiniteSet(Handling(m)) /\ Cardinality(Handling(m)) \in Nat
  BY FS_CardinalityType DEF CopiesOK
<1>1. ASSUME NEW m \in Messages, Publish(m)
      PROVE  QueueInv'
  <2>1. \A n \in Messages : Handling(n)' = Handling(n)
    BY <1>1 DEF Publish, Handling
  <2>2. copies' = [copies EXCEPT ![m] = @ + 1] /\ published' = [published EXCEPT ![m] = @ + 1]
        /\ published[m] < MaxCopies
    BY <1>1 DEF Publish
  <2>3. copies' \in [Messages -> Nat] /\ published' \in [Messages -> 0 .. MaxCopies]
    BY <2>2
  <2>4. ASSUME NEW n \in Messages
        PROVE  CopiesOK(n)'
    BY <2>1, <2>2, <1>a DEF CopiesOK
  <2>5. QED
    BY <2>3, <2>4 DEF QueueInv
<1>2. ASSUME NEW w \in Workers, NEW m \in Messages, Take(w, m)
      PROVE  QueueInv'
  <2>1. /\ copies' = [copies EXCEPT ![m] = @ - 1] /\ copies[m] > 0
        /\ published' = published /\ job' = [job EXCEPT ![w] = m] /\ job[w] = NoMessage
    BY <1>2 DEF Take, TypeOK
  <2>2. copies' \in [Messages -> Nat]
    BY <2>1
  <2>3. ASSUME NEW n \in Messages
        PROVE  CopiesOK(n)'
    <3>1. copies'[n] = copies[n] - (IF n = m THEN 1 ELSE 0) /\ published'[n] = published[n]
      BY <2>1
    <3>2. IsFiniteSet(Handling(n)) /\ copies[n] + Cardinality(Handling(n)) <= published[n]
      BY DEF CopiesOK
    <3>3. /\ IsFiniteSet(Handling(n)')
          /\ Cardinality(Handling(n)') = Cardinality(Handling(n)) + (IF n = m THEN 1 ELSE 0)
      BY <2>1, <3>2, TakenByOne
    <3>4. QED
      BY <3>1, <3>2, <3>3, <1>a DEF CopiesOK
  <2>4. QED
    BY <2>1, <2>2, <2>3 DEF QueueInv
<1>3. ASSUME NEW w \in Workers, job[w] \in Messages, Release(w), published' = published,
             copies' \in {copies, [copies EXCEPT ![job[w]] = @ + 1]}
      PROVE  QueueInv'
  <2>1. job' = [job EXCEPT ![w] = NoMessage]
    BY <1>3 DEF Release
  <2>2. copies' \in [Messages -> Nat]
    BY <1>3
  <2>3. ASSUME NEW n \in Messages
        PROVE  CopiesOK(n)'
    <3>1. copies'[n] \in {copies[n], copies[n] + (IF n = job[w] THEN 1 ELSE 0)}
      BY <1>3
    <3>2. QED
      <4>1. IsFiniteSet(Handling(n)) /\ copies[n] + Cardinality(Handling(n)) <= published[n]
        BY DEF CopiesOK
      <4>2. /\ IsFiniteSet(Handling(n)')
            /\ Cardinality(Handling(n)') = Cardinality(Handling(n)) - (IF n = job[w] THEN 1 ELSE 0)
        BY <2>1, <1>3, <4>1, ReleasedByOne
      <4>3. QED
        BY <3>1, <1>3, <4>1, <4>2, <1>a DEF CopiesOK
  <2>4. QED
    BY <1>3, <2>2, <2>3 DEF QueueInv
<1>4. ASSUME NEW w \in Workers, pc[w] # "idle"
      PROVE  job[w] \in Messages
  BY <1>4 DEF TypeOK
<1>5. ASSUME NEW w \in Workers, Ack(w) \/ HandlerFails(w) \/ Crash(w)
      PROVE  QueueInv'
  <2>1. /\ pc[w] # "idle" /\ Release(w) /\ published' = published
        /\ copies' \in {copies, [copies EXCEPT ![job[w]] = @ + 1]}
    BY <1>5 DEF Ack, HandlerFails, Crash
  <2>2. QED
    BY <2>1, <1>3, <1>4
<1>6. ASSUME UNCHANGED <<copies, published, job>>
      PROVE  QueueInv'
  <2>1. \A n \in Messages : Handling(n)' = Handling(n)
    BY <1>6 DEF Handling
  <2>2. QED
    BY <1>6, <2>1 DEF CopiesOK, QueueInv
<1>7. QED
  BY <1>1, <1>2, <1>5, <1>6
     DEF Next, Work, Handle, vars, db, queue, admin, ghost, ClaimDeduction, SkipDuplicate,
         LockProduct, Deduct, Commit, BeginUpdate, SaveUpdate, DeleteProduct

-----------------------------------------------------------------------------
(* Type correctness.                                                       *)

LEMMA BodyType ==
  ASSUME NEW m \in Messages
  PROVE  Product(m) \in Products /\ Quantity(m) \in Int
  BY StockAssumption DEF Bodies, Product, Quantity

LEMMA InitTypeOK == Init => TypeOK
  BY StockAssumption DEF Init, TypeOK, Places, NoEdit

LEMMA NextTypeOK == StockInv /\ [Next]_vars => TypeOK'
<1> SUFFICES ASSUME StockInv, [Next]_vars
             PROVE  TypeOK'
  OBVIOUS
<1>0. TypeOK /\ (\A m \in Messages : copies'[m] <= published'[m]) /\ QueueInv'
  <2>1. QueueInv'
    BY NextQueueInv
  <2>2. ASSUME NEW m \in Messages
        PROVE  copies'[m] <= published'[m]
    <3>1. /\ IsFiniteSet(Handling(m)') /\ copies'[m] + Cardinality(Handling(m)') <= published'[m]
          /\ copies'[m] \in Nat /\ published'[m] \in Nat
      BY <2>1, StockAssumption DEF QueueInv, CopiesOK
    <3>2. Cardinality(Handling(m)') \in Nat
      BY <3>1, FS_CardinalityType
    <3>3. QED
      BY <3>1, <3>2
  <2>3. QED
    BY <2>1, <2>2 DEF StockInv
<1>1. copies' \in [Messages -> 0 .. MaxCopies] /\ published' \in [Messages -> 0 .. MaxCopies]
  <2>1. ASSUME NEW m \in Messages
        PROVE  copies'[m] \in 0 .. MaxCopies
    <3>1. copies'[m] \in Nat /\ published'[m] \in 0 .. MaxCopies /\ copies'[m] <= published'[m]
      BY <1>0 DEF QueueInv
    <3>2. QED
      BY <3>1, StockAssumption
  <2>2. QED
    BY <1>0, <2>1 DEF QueueInv
<1> USE <1>0, <1>1, StockAssumption
<1>2. ASSUME NEW m \in Messages, Publish(m)
      PROVE  TypeOK'
  BY <1>2 DEF Publish, TypeOK, db, admin, ghost
<1>3. ASSUME NEW w \in Workers, NEW m \in Messages, Take(w, m)
      PROVE  TypeOK'
  BY <1>3 DEF Take, TypeOK, Places, db, admin, ghost
<1>4. ASSUME NEW w \in Workers, pc[w] # "idle"
      PROVE  job[w] \in Messages /\ Product(job[w]) \in Products /\ Quantity(job[w]) \in Int
  BY <1>4, BodyType DEF TypeOK
<1>5. ASSUME NEW w \in Workers, ClaimDeduction(w) \/ SkipDuplicate(w) \/ LockProduct(w) \/ Deduct(w)
      PROVE  TypeOK'
  <2>1. pc[w] # "idle" /\ UNCHANGED <<db, job, queue, admin, ghost>>
        /\ (read' = read \/ (\E n \in Int : read' = [read EXCEPT ![w] = n]))
        /\ (\E s \in {"ack", "lock", "check", "commit"} : pc' = [pc EXCEPT ![w] = s])
    BY <1>4, <1>5 DEF ClaimDeduction, SkipDuplicate, LockProduct, Deduct, TypeOK
  <2>2. QED
    BY <2>1 DEF TypeOK, Places, db, queue, admin, ghost
<1>6. ASSUME NEW w \in Workers, Commit(w)
      PROVE  TypeOK'
  <2>1. claims' \subseteq {Claim(m) : m \in Messages} /\ claims \subseteq claims'
    BY <1>4, <1>6 DEF Commit, TypeOK
  <2>2. stock' \in [Products -> Int] /\ applied' \in [Messages -> 0 .. 2]
    BY <1>4, <1>6 DEF Commit, TypeOK
  <2>3. prior' \in [Products -> SUBSET claims']
    BY <1>6, <2>1 DEF Commit, TypeOK
  <2>4. QED
    BY <1>4, <1>6, <2>1, <2>2, <2>3 DEF Commit, TypeOK, Places, queue, admin
<1>7. ASSUME NEW w \in Workers, Ack(w)
      PROVE  TypeOK'
  BY <1>4, <1>7 DEF Ack, Release, TypeOK, Places, db, admin, ghost
<1>8. ASSUME NEW w \in Workers, HandlerFails(w)
      PROVE  TypeOK'
  <2>1. tries' \in [Messages -> 0 .. MaxRetries] /\ dead' \subseteq Messages
    BY <1>4, <1>8 DEF HandlerFails, TypeOK
  <2>2. QED
    BY <1>8, <2>1 DEF HandlerFails, Release, TypeOK, Places, db, admin, ghost
<1>9. ASSUME NEW w \in Workers, Crash(w)
      PROVE  TypeOK'
  BY <1>9 DEF Crash, Release, TypeOK, Places, db, admin, ghost
<1>10. ASSUME NEW p \in Products, NEW n \in EditStocks, BeginUpdate(p, n)
       PROVE  TypeOK'
  BY <1>10 DEF BeginUpdate, TypeOK, db, queue, ghost
<1>11. ASSUME SaveUpdate
       PROVE  TypeOK'
  <2>1. edit.product \in Products /\ edit.stock \in Nat
    BY <1>11 DEF SaveUpdate, StockInv, EditInv
  <2>2. /\ stock' \in [Products -> Int] /\ live' \in [Products -> BOOLEAN]
        /\ base' \in [Products -> Nat] /\ prior' \in [Products -> SUBSET claims']
    BY <1>11, <2>1 DEF SaveUpdate, TypeOK
  <2>3. edit' \in [product : Products \union {NoProduct}, stock : EditStocks \union {0}]
    BY <1>11 DEF SaveUpdate, NoEdit
  <2>4. QED
    BY <1>11, <2>2, <2>3 DEF SaveUpdate, TypeOK, queue
<1>12. ASSUME NEW p \in Products, DeleteProduct(p)
       PROVE  TypeOK'
  BY <1>12 DEF DeleteProduct, TypeOK, queue, ghost
<1>13. CASE UNCHANGED vars
  BY <1>13 DEF vars, TypeOK
<1>14. QED
  BY <1>2, <1>3, <1>5, <1>6, <1>7, <1>8, <1>9, <1>10, <1>11, <1>12, <1>13
     DEF Next, Work, Handle

-----------------------------------------------------------------------------
(* The transactions.                                                       *)

\* A commit adds one claim, of a key nobody had claimed.
LEMMA CommitClaims ==
  ASSUME NEW w \in Workers, Commit(w)
  PROVE  ClaimedKeys' = ClaimedKeys \cup {Key(job[w])}
<1>1. Claim(job[w]).key = Key(job[w])
  BY DEF Claim
<1>2. claims' = claims \cup {Claim(job[w])}
  BY DEF Commit
<1>3. \A k : k \in ClaimedKeys' <=> k \in ClaimedKeys \/ k = Key(job[w])
  BY <1>1, <1>2 DEF ClaimedKeys
<1>4. QED
  BY <1>3

\* Every other step leaves the claims alone.
LEMMA ClaimsKept ==
  ASSUME claims' = claims
  PROVE  ClaimedKeys' = ClaimedKeys
  BY DEF ClaimedKeys

LEMMA NextApart ==
  ASSUME StockInv, [Next]_vars, NEW u \in Workers, NEW v \in Workers, u # v
  PROVE  Apart(u, v)'
<1>0. TypeOK /\ Apart(u, v)
  BY DEF StockInv
<1> USE <1>0
<1>1. ASSUME NEW w \in Workers, NEW m \in Messages, Take(w, m)
      PROVE  Apart(u, v)'
  BY <1>1 DEF Take, TypeOK, Apart
<1>2. ASSUME NEW w \in Workers, ClaimDeduction(w)
      PROVE  Apart(u, v)'
  BY <1>2 DEF ClaimDeduction, TypeOK, Apart, ClaimHolders
<1>3. ASSUME NEW w \in Workers, LockProduct(w)
      PROVE  Apart(u, v)'
  BY <1>3 DEF LockProduct, TypeOK, Apart, LockHolders
<1>4. ASSUME NEW w \in Workers, SkipDuplicate(w) \/ Deduct(w) \/ Commit(w)
      PROVE  Apart(u, v)'
  BY <1>4 DEF SkipDuplicate, Deduct, Commit, TypeOK, Apart
<1>5. ASSUME NEW w \in Workers, Release(w)
      PROVE  Apart(u, v)'
  BY <1>5 DEF Release, TypeOK, Apart
<1>6. ASSUME UNCHANGED <<pc, job>>
      PROVE  Apart(u, v)'
  BY <1>6 DEF Apart
<1>7. QED
  BY <1>1, <1>2, <1>3, <1>4, <1>5, <1>6
     DEF Next, Work, Handle, vars, Publish, Ack, HandlerFails, Crash, BeginUpdate, SaveUpdate,
         DeleteProduct

\* A product row does not change between a worker's lock and its commit: the lock keeps other
\* workers and the administrators away.
LEMMA NextWorkerOK ==
  ASSUME StockInv, [Next]_vars, NEW v \in Workers
  PROVE  WorkerOK(v)'
<1>0. TypeOK /\ WorkerOK(v) /\ StockNeverNegative
  BY DEF StockInv
<1>a. ASSUME NEW w \in Workers, pc[w] # "idle"
      PROVE  job[w] \in Messages /\ Product(job[w]) \in Products /\ Quantity(job[w]) \in Int
  BY <1>0, <1>a, BodyType DEF TypeOK
<1> USE <1>0
<1>1. ASSUME NEW w \in Workers, NEW m \in Messages, Take(w, m)
      PROVE  WorkerOK(v)'
  BY <1>1, ClaimsKept DEF Take, db, TypeOK, WorkerOK
<1>2. ASSUME NEW w \in Workers, ClaimDeduction(w) \/ SkipDuplicate(w)
      PROVE  WorkerOK(v)'
  BY <1>2, ClaimsKept DEF ClaimDeduction, SkipDuplicate, db, TypeOK, WorkerOK
<1>3. ASSUME NEW w \in Workers, LockProduct(w)
      PROVE  WorkerOK(v)'
  BY <1>3, <1>a, ClaimsKept DEF LockProduct, db, TypeOK, WorkerOK, StockNeverNegative
<1>4. ASSUME NEW w \in Workers, Deduct(w)
      PROVE  WorkerOK(v)'
  BY <1>4, <1>a, ClaimsKept DEF Deduct, db, TypeOK, WorkerOK
<1>5. ASSUME NEW w \in Workers, Commit(w)
      PROVE  WorkerOK(v)'
  <2>1. ClaimedKeys' = ClaimedKeys \cup {Key(job[w])} /\ job' = job
    BY <1>5, CommitClaims DEF Commit
  <2>2. CASE v = w
    BY <1>5, <2>1, <2>2 DEF Commit, TypeOK, WorkerOK
  <2>3. CASE v # w
    <3>1. Apart(v, w)
      BY <2>3 DEF StockInv
    <3>2. pc'[v] = pc[v] /\ read'[v] = read[v]
      BY <1>5, <2>3 DEF Commit, TypeOK
    <3>3. pc[v] \in {"check", "commit"} => stock'[Product(job[v])] = stock[Product(job[v])]
      BY <1>5, <3>1, <1>a DEF Commit, TypeOK, Apart
    <3>4. pc[v] \in {"lock", "check", "commit"} => Key(job[v]) \notin ClaimedKeys'
      BY <1>5, <2>1, <3>1 DEF Commit, Apart, WorkerOK
    <3>5. QED
      BY <2>1, <3>2, <3>3, <3>4 DEF WorkerOK
  <2>4. QED
    BY <2>2, <2>3
<1>6. ASSUME NEW w \in Workers, Release(w), UNCHANGED db
      PROVE  WorkerOK(v)'
  BY <1>6, ClaimsKept DEF Release, db, TypeOK, WorkerOK
<1>7. ASSUME SaveUpdate
      PROVE  WorkerOK(v)'
  <2>1. edit.product \in Products /\ v \notin LockHolders(edit.product)
    BY <1>7 DEF SaveUpdate, StockInv, EditInv
  <2>2. pc[v] \in {"check", "commit"} => stock'[Product(job[v])] = stock[Product(job[v])]
    BY <1>7, <1>a, <2>1 DEF SaveUpdate, LockHolders, TypeOK
  <2>3. QED
    BY <1>7, <2>2, ClaimsKept DEF SaveUpdate, WorkerOK
<1>8. ASSUME UNCHANGED <<stock, claims, pc, job, read>>
      PROVE  WorkerOK(v)'
  BY <1>8, ClaimsKept DEF WorkerOK
<1>9. QED
  BY <1>1, <1>2, <1>3, <1>4, <1>5, <1>6, <1>7, <1>8
     DEF Next, Work, Handle, vars, db, Publish, Ack, HandlerFails, Crash, BeginUpdate,
         DeleteProduct

LEMMA NextEditInv == StockInv /\ [Next]_vars => EditInv'
<1> SUFFICES ASSUME StockInv, [Next]_vars
             PROVE  EditInv'
  OBVIOUS
<1>1. EditInv
  BY DEF StockInv
<1>2. ASSUME NEW p \in Products, NEW n \in EditStocks, BeginUpdate(p, n)
      PROVE  EditInv'
  BY <1>2 DEF BeginUpdate, EditInv
<1>3. QED
  BY <1>1, <1>2
     DEF EditInv, Next, Work, Handle, vars, admin, Publish, Take, ClaimDeduction, SkipDuplicate,
         LockProduct, Deduct, Commit, Ack, HandlerFails, Crash, SaveUpdate, DeleteProduct

-----------------------------------------------------------------------------
(* The claims and the stock.                                               *)

\* What a step other than a commit does to the records of the deductions: an acknowledged
\* message was handled, and the rest stays.
LEMMA OnlyCommitsDeduct ==
  ASSUME StockInv, [Next]_vars
  PROVE  \/ \E w \in Workers : Commit(w)
         \/ UNCHANGED <<claims, applied, acked>>
         \/ \E w \in Workers : pc[w] = "ack" /\ acked' = acked \cup {job[w]}
                               /\ UNCHANGED <<claims, applied>>
<1>1. ASSUME NEW w \in Workers, Ack(w)
      PROVE  pc[w] = "ack" /\ acked' = acked \cup {job[w]} /\ UNCHANGED <<claims, applied>>
  BY <1>1 DEF Ack, db, ghost
<1>2. QED
  BY <1>1
     DEF Next, Work, Handle, vars, db, queue, admin, ghost, Publish, Take, ClaimDeduction,
         SkipDuplicate, LockProduct, Deduct, HandlerFails, Crash, BeginUpdate, SaveUpdate,
         DeleteProduct

\* A commit is of a key that was not claimed, so of a message that was never applied.
LEMMA CommitIsNew ==
  ASSUME StockInv, NEW w \in Workers, Commit(w)
  PROVE  /\ job[w] \in Messages /\ applied[job[w]] = 0
         /\ applied' = [applied EXCEPT ![job[w]] = 1]
         /\ claims' = claims \cup {Claim(job[w])} /\ Claim(job[w]) \notin claims
         /\ ClaimedKeys' = ClaimedKeys \cup {Key(job[w])}
         /\ acked' = acked
<1>1. pc[w] = "commit" /\ TypeOK /\ WorkerOK(w) /\ ClaimsInv
  BY DEF Commit, StockInv
<1>2. job[w] \in Messages /\ Key(job[w]) \notin ClaimedKeys
  BY <1>1 DEF TypeOK, WorkerOK
<1>3. applied[job[w]] = 0
  BY <1>1, <1>2 DEF TypeOK, ClaimsInv
<1>4. applied' = [applied EXCEPT ![job[w]] = 1] /\ claims' = claims \cup {Claim(job[w])}
  BY <1>3 DEF Commit
<1>5. Claim(job[w]) \notin claims
  <2>1. Claim(job[w]).key = Key(job[w])
    BY DEF Claim
  <2>2. QED
    BY <1>2, <2>1 DEF ClaimedKeys
<1>6. QED
  BY <1>2, <1>3, <1>4, <1>5, CommitClaims DEF Commit, queue

LEMMA NextClaimsInv == StockInv /\ [Next]_vars => ClaimsInv'
<1> SUFFICES ASSUME StockInv, [Next]_vars
             PROVE  ClaimsInv'
  OBVIOUS
<1>0. TypeOK /\ ClaimsInv
  BY DEF StockInv
<1>1. ASSUME NEW w \in Workers, Commit(w)
      PROVE  ClaimsInv'
  <2>1. /\ job[w] \in Messages /\ applied[job[w]] = 0
        /\ applied' = [applied EXCEPT ![job[w]] = 1]
        /\ claims' = claims \cup {Claim(job[w])}
        /\ ClaimedKeys' = ClaimedKeys \cup {Key(job[w])}
        /\ acked' = acked
    BY <1>1, CommitIsNew
  <2>2. \A m \in Messages : applied[m] > 0 => applied'[m] > 0
    BY <1>0, <2>1 DEF TypeOK
  <2>3. applied'[job[w]] > 0
    BY <1>0, <2>1 DEF TypeOK
  <2>4. \A m \in Messages : applied'[m] > 0 => applied[m] > 0 \/ m = job[w]
    BY <1>0, <2>1 DEF TypeOK
  <2>5. QED
    BY <1>0, <2>1, <2>2, <2>3, <2>4 DEF ClaimsInv
<1>2. ASSUME NEW w \in Workers, pc[w] = "ack", acked' = acked \cup {job[w]},
             UNCHANGED <<claims, applied>>
      PROVE  ClaimsInv'
  <2>1. Key(job[w]) \in ClaimedKeys
    BY <1>2 DEF StockInv, WorkerOK
  <2>2. QED
    BY <1>0, <1>2, <2>1, ClaimsKept DEF ClaimsInv
<1>3. ASSUME UNCHANGED <<claims, applied, acked>>
      PROVE  ClaimsInv'
  BY <1>0, <1>3, ClaimsKept DEF ClaimsInv
<1>4. QED
  BY <1>1, <1>2, <1>3, OnlyCommitsDeduct

LEMMA NextDeductedAtMostOnce == StockInv /\ [Next]_vars => DeductedAtMostOnce'
<1> SUFFICES ASSUME StockInv, [Next]_vars
             PROVE  DeductedAtMostOnce'
  OBVIOUS
<1>0. TypeOK /\ DeductedAtMostOnce
  BY DEF StockInv
<1>1. ASSUME NEW w \in Workers, Commit(w)
      PROVE  DeductedAtMostOnce'
  BY <1>0, <1>1, CommitIsNew DEF DeductedAtMostOnce, TypeOK
<1>2. QED
  BY <1>0, <1>1, OnlyCommitsDeduct DEF DeductedAtMostOnce

LEMMA NextStockNeverNegative == StockInv /\ [Next]_vars => StockNeverNegative'
<1> SUFFICES ASSUME StockInv, [Next]_vars
             PROVE  StockNeverNegative'
  OBVIOUS
<1>0. TypeOK /\ StockNeverNegative
  BY DEF StockInv
<1>1. ASSUME NEW w \in Workers, Commit(w)
      PROVE  StockNeverNegative'
  <2>1. stock' = [stock EXCEPT ![Product(job[w])] = read[w]] /\ read[w] >= 0
    BY <1>1 DEF Commit, StockInv, WorkerOK
  <2>2. stock \in [Products -> Int]
    BY <1>0 DEF TypeOK
  <2>3. QED
    BY <1>0, <2>1, <2>2 DEF StockNeverNegative
<1>2. ASSUME SaveUpdate
      PROVE  StockNeverNegative'
  <2>1. stock' = [stock EXCEPT ![edit.product] = edit.stock] /\ edit.stock \in Nat
    BY <1>2, StockAssumption DEF SaveUpdate, StockInv, EditInv
  <2>2. stock \in [Products -> Int]
    BY <1>0 DEF TypeOK
  <2>3. QED
    BY <1>0, <2>1, <2>2 DEF StockNeverNegative
<1>3. QED
  BY <1>0, <1>1, <1>2
     DEF StockNeverNegative, Next, Work, Handle, vars, db, Publish, Take, ClaimDeduction,
         SkipDuplicate, LockProduct, Deduct, Ack, HandlerFails, Crash, BeginUpdate, DeleteProduct

-----------------------------------------------------------------------------
(* Sums of quantities.  A sum over a finite set is defined by recursion; what *)
(* holds of it is shown with a smallest set of which it would not hold.      *)

\* What MapThenSumSet computes for the quantities of a set D of claims: a function that takes
\* one claim after the other out of a subset of D.
Total(D) == MapThenSumSet(LAMBDA c : c.quantity, D)
First(s) == CHOOSE c \in s : TRUE
SumsUp(g, D) ==
  g = [s \in SUBSET D |-> IF s = {} THEN 0 ELSE First(s).quantity + g[s \ {First(s)}]]

\* A set of subsets of a finite set has a minimal member.
LEMMA MinimalSubset ==
  ASSUME NEW D, IsFiniteSet(D), NEW T \in SUBSET (SUBSET D), T # {}
  PROVE  \E s \in T : \A t \in SUBSET s : t # s => t \notin T
<1>1. IsWellFoundedOn(StrictSubsetOrdering(D), SUBSET D)
  BY FS_StrictSubsetOrderingWellFounded, FS_FiniteSubsetsOfFinite
<1>2. PICK s \in T : \A t \in T : ~ (<<t, s>> \in StrictSubsetOrdering(D))
  BY <1>1, WFMin
<1>3. ASSUME NEW t \in SUBSET s, t # s, t \in T
      PROVE  FALSE
  BY <1>2, <1>3 DEF StrictSubsetOrdering
<1>4. QED
  BY <1>2, <1>3

\* One step of such a function.
LEMMA SumStep ==
  ASSUME NEW D, NEW g, SumsUp(g, D), NEW s \in SUBSET D
  PROVE  /\ s = {} => g[s] = 0
         /\ s # {} => /\ First(s) \in s /\ s \ {First(s)} \in SUBSET D
                      /\ g[s] = First(s).quantity + g[s \ {First(s)}]
<1>1. g[s] = IF s = {} THEN 0 ELSE First(s).quantity + g[s \ {First(s)}]
  BY DEF SumsUp
<1>2. s # {} => First(s) \in s
  BY DEF First
<1>3. QED
  BY <1>1, <1>2

\* Two of them agree where both are defined.
LEMMA SumsAgree ==
  ASSUME NEW D, NEW E, IsFiniteSet(D), NEW g, NEW h, SumsUp(g, D), SumsUp(h, E),
         NEW s \in SUBSET D, s \in SUBSET E
  PROVE  g[s] = h[s]
<1> DEFINE T == {t \in SUBSET D : t \in SUBSET E /\ g[t] # h[t]}
<1>1. SUFFICES ASSUME T # {}
               PROVE  FALSE
  OBVIOUS
<1>2. PICK t \in T : \A u \in SUBSET t : u # t => u \notin T
  BY <1>1, MinimalSubset
<1>3. t # {}
  BY <1>2, SumStep, SMTT(30)
<1>4. g[t] = First(t).quantity + g[t \ {First(t)}] /\ h[t] = First(t).quantity + h[t \ {First(t)}]
      /\ First(t) \in t
  BY <1>2, <1>3, SumStep
<1>5. g[t \ {First(t)}] = h[t \ {First(t)}]
  <2>1. t \ {First(t)} \in SUBSET t /\ t \ {First(t)} # t
    BY <1>4
  <2>2. t \ {First(t)} \notin T
    BY <1>2, <2>1
  <2>3. QED
    BY <2>1, <2>2
<1>6. QED
  BY <1>4, <1>5

\* Every finite set has one.
LEMMA SumsExist ==
  ASSUME NEW D, IsFiniteSet(D)
  PROVE  \E g : SumsUp(g, D)
<1> DEFINE T == {E \in SUBSET D : ~ \E g : SumsUp(g, E)}
<1>1. SUFFICES ASSUME T # {}
               PROVE  FALSE
  OBVIOUS
<1>2. PICK E \in T : \A F \in SUBSET E : F # E => F \notin T
  <2>1. T \in SUBSET (SUBSET D)
    OBVIOUS
  <2> HIDE DEF T
  <2>2. QED
    BY <1>1, <2>1, MinimalSubset
<1>3. ASSUME NEW F \in SUBSET E, F # E
      PROVE  \E g : SumsUp(g, F)
  BY <1>2, <1>3
<1> DEFINE Sums(F) == CHOOSE g : SumsUp(g, F)
           f == [s \in SUBSET E |-> IF s = {} THEN 0
                                    ELSE First(s).quantity + Sums(s \ {First(s)})[s \ {First(s)}]]
<1>4. ASSUME NEW F \in SUBSET E, F # E
      PROVE  SumsUp(Sums(F), F)
  BY <1>3, <1>4, Zenon
<1> HIDE DEF Sums
<1>5. ASSUME NEW F \in SUBSET E, F # E
      PROVE  f[F] = Sums(F)[F]
  <2>1. SumsUp(Sums(F), F) /\ F \in SUBSET F
    BY <1>4, <1>5
  <2>2. CASE F = {}
    <3>1. Sums(F)[F] = 0
      BY <2>1, <2>2, SumStep
    <3>2. QED
      BY <2>2, <3>1
  <2>3. CASE F # {}
    <3> DEFINE r == F \ {First(F)}
    <3>1. First(F) \in F /\ r \in SUBSET F /\ r # F /\ r \in SUBSET E /\ r # E
          /\ Sums(F)[F] = First(F).quantity + Sums(F)[r]
      BY <2>1, <2>3, SumStep
    <3>2. SumsUp(Sums(r), r)
      BY <3>1, <1>4
    <3>3. IsFiniteSet(F)
      BY <1>2, FS_Subset
    <3>4. Sums(F)[r] = Sums(r)[r]
      BY <2>1, <3>1, <3>2, <3>3, SumsAgree
    <3>5. f[F] = First(F).quantity + Sums(r)[r]
      BY <2>3
    <3>6. QED
      BY <3>1, <3>4, <3>5
  <2>4. QED
    BY <2>2, <2>3
<1>6. ASSUME NEW s \in SUBSET E
      PROVE  f[s] = IF s = {} THEN 0 ELSE First(s).quantity + f[s \ {First(s)}]
  <2>1. CASE s = {}
    BY <2>1
  <2>2. CASE s # {}
    <3>1. First(s) \in s
      BY <2>2 DEF First
    <3>2. f[s \ {First(s)}] = Sums(s \ {First(s)})[s \ {First(s)}]
      BY <3>1, <1>5
    <3>3. QED
      BY <2>2, <3>2
  <2>3. QED
    BY <2>1, <2>2
<1>7. SumsUp(f, E)
  <2>1. f = [s \in SUBSET E |-> f[s]]
    OBVIOUS
  <2> HIDE DEF f
  <2>2. f = [s \in SUBSET E |-> IF s = {} THEN 0 ELSE First(s).quantity + f[s \ {First(s)}]]
    BY <1>6, <2>1
  <2>3. QED
    BY <2>2 DEF SumsUp
<1>8. QED
  BY <1>2, <1>7

LEMMA TotalIsSum ==
  ASSUME NEW D, IsFiniteSet(D)
  PROVE  \E g : SumsUp(g, D) /\ Total(D) = g[D]
<1> DEFINE iter == CHOOSE g : g = [s \in SUBSET D |-> IF s = {} THEN 0
                                     ELSE (CHOOSE c \in s : TRUE).quantity
                                          + g[s \ {CHOOSE c \in s : TRUE}]]
<1>1. SumsUp(iter, D)
  BY SumsExist DEF SumsUp, First
<1>2. Total(D) = iter[D]
  BY DEF Total, MapThenSumSet, MapThenFoldSet
<1>3. QED
  BY <1>1, <1>2

\* The sum does not depend on the order in which the claims are taken.
LEMMA SumOfAny ==
  ASSUME NEW D, IsFiniteSet(D), \A c \in D : c.quantity \in Int, NEW g, SumsUp(g, D),
         NEW s \in SUBSET D, NEW x \in s
  PROVE  g[s] \in Int /\ g[s \ {x}] \in Int /\ g[s] = g[s \ {x}] + x.quantity
<1>1. ASSUME NEW t \in SUBSET D
      PROVE  g[t] \in Int
  <2> DEFINE T == {u \in SUBSET D : g[u] \notin Int}
  <2>1. SUFFICES ASSUME T # {}
                 PROVE  FALSE
    OBVIOUS
  <2>2. PICK u \in T : \A v \in SUBSET u : v # u => v \notin T
    BY <2>1, MinimalSubset
  <2>3. u # {}
    <3>1. u = {} => g[u] = 0
      BY SumStep
    <3>2. QED
      BY <2>2, <3>1
  <2>4. First(u) \in u /\ g[u] = First(u).quantity + g[u \ {First(u)}]
    BY <2>3, SumStep
  <2>5. u \ {First(u)} \in SUBSET u /\ u \ {First(u)} # u
    BY <2>4
  <2>6. g[u \ {First(u)}] \in Int
    BY <2>2, <2>5
  <2>7. QED
    BY <2>2, <2>4, <2>6
<1> DEFINE T == {t \in SUBSET D : \E y \in t : g[t] # g[t \ {y}] + y.quantity}
<1>2. SUFFICES ASSUME T # {}
               PROVE  FALSE
  <2>1. s \ {x} \in SUBSET D
    OBVIOUS
  <2>2. QED
    BY <1>1, <2>1
<1>3. PICK t \in T : \A u \in SUBSET t : u # t => u \notin T
  BY <1>2, MinimalSubset, ZenonT(60)
<1>4. PICK y \in t : g[t] # g[t \ {y}] + y.quantity
  BY <1>3
<1> DEFINE z == First(t)
<1>5. z \in t /\ g[t] = z.quantity + g[t \ {z}]
  <2>1. t \in SUBSET D /\ t # {}
    BY <1>4
  <2>2. QED
    BY <2>1, SumStep
<1> HIDE DEF z
<1>6. t \ {z} \notin T /\ t \ {y} \notin T /\ t \in SUBSET D
  BY <1>3, <1>4, <1>5
<1>7. y # z
  <2>1. z.quantity \in Int /\ g[t \ {z}] \in Int
    BY <1>1, <1>5, <1>6
  <2>2. g[t] = g[t \ {z}] + z.quantity
    BY <1>5, <2>1
  <2>3. QED
    BY <1>4, <2>2, Zenon
<1>8. g[t \ {z}] = g[(t \ {z}) \ {y}] + y.quantity
  BY <1>4, <1>6, <1>7
<1>9. g[t \ {y}] = g[(t \ {y}) \ {z}] + z.quantity
  BY <1>5, <1>6, <1>7
<1>10. g[(t \ {y}) \ {z}] = g[(t \ {z}) \ {y}] /\ (t \ {z}) \ {y} \in SUBSET D
  <2>1. (t \ {z}) \ {y} = (t \ {y}) \ {z}
    OBVIOUS
  <2>2. QED
    BY <1>6, <2>1, Zenon
<1>11. y.quantity \in Int /\ z.quantity \in Int /\ g[(t \ {z}) \ {y}] \in Int
  BY <1>1, <1>4, <1>5, <1>6, <1>10
<1>12. QED
  BY <1>4, <1>5, <1>8, <1>9, <1>10, <1>11

LEMMA TotalIsInt ==
  ASSUME NEW D, IsFiniteSet(D), \A c \in D : c.quantity \in Int
  PROVE  Total(D) \in Int
<1>1. PICK g : SumsUp(g, D) /\ Total(D) = g[D]
  BY TotalIsSum
<1>2. CASE D = {}
  <2>1. g[D] = 0
    BY <1>1, <1>2, SumStep, ZenonT(60)
  <2>2. QED
    BY <1>1, <2>1
<1>3. CASE D # {}
  <2>1. PICK x : x \in D
    BY <1>3
  <2>2. g[D] \in Int
    BY <1>1, <2>1, SumOfAny
  <2>3. QED
    BY <1>1, <2>2
<1>4. QED
  BY <1>2, <1>3

LEMMA TotalOfNone == Total({}) = 0
<1>1. PICK g : SumsUp(g, {}) /\ Total({}) = g[{}]
  BY TotalIsSum, FS_EmptySet
<1>2. QED
  BY <1>1, SumStep

LEMMA TotalOfMore ==
  ASSUME NEW D, IsFiniteSet(D), \A c \in D : c.quantity \in Int,
         NEW x, x \notin D, x.quantity \in Int
  PROVE  Total(D \cup {x}) = Total(D) + x.quantity
<1> DEFINE E == D \cup {x}
<1>1. IsFiniteSet(E) /\ E \ {x} = D /\ E \in SUBSET E /\ D \in SUBSET E /\ D \in SUBSET D
  BY FS_AddElement
<1>2. PICK g : SumsUp(g, E) /\ Total(E) = g[E]
  BY <1>1, TotalIsSum
<1>3. PICK h : SumsUp(h, D) /\ Total(D) = h[D]
  BY TotalIsSum
<1>4. g[E] = g[E \ {x}] + x.quantity
  <2>1. x \in E /\ \A c \in E : c.quantity \in Int
    OBVIOUS
  <2> HIDE DEF E
  <2>2. QED
    BY <1>1, <1>2, <2>1, SumOfAny
<1> HIDE DEF E
<1>5. g[E \ {x}] = h[D]
  <2>1. g[D] = h[D]
    BY <1>1, <1>2, <1>3, SumsAgree
  <2>2. QED
    BY <1>1, <2>1, Zenon
<1>6. QED
  BY <1>2, <1>3, <1>4, <1>5 DEF E
-----------------------------------------------------------------------------
(* The stock is what was last set, less what was claimed since.             *)

SinceSet(p) == {c \in claims \ prior[p] : c.product = p}
Books(p) == stock[p] = base[p] - Total(SinceSet(p))
BooksInv == IsFiniteSet(claims) /\ \A p \in Products : Books(p)

LEMMA BooksAreMatched == BooksInv => StockMatchesClaims
  BY DEF BooksInv, Books, StockMatchesClaims, Sold, Total, SinceSet

LEMMA ClaimType ==
  ASSUME TypeOK, NEW c \in claims
  PROVE  c.quantity \in Int
<1>1. PICK m \in Messages : c = Claim(m)
  BY DEF TypeOK
<1>2. QED
  BY <1>1, BodyType DEF Claim

\* A commit adds its claim to those of its product, and takes its quantity off the stock.
LEMMA CommitBooks ==
  ASSUME StockInv, BooksInv, NEW w \in Workers, Commit(w), NEW p \in Products
  PROVE  Books(p)'
<1> DEFINE x == Claim(job[w])
<1>0. TypeOK /\ stock[p] = base[p] - Total(SinceSet(p))
  BY DEF StockInv, BooksInv, Books
<1>1. /\ claims' = claims \cup {x} /\ x \notin claims /\ job[w] \in Messages
      /\ UNCHANGED <<base, prior>>
  BY CommitIsNew DEF Commit
<1>2. x.product = Product(job[w]) /\ x.quantity = Quantity(job[w]) /\ x.quantity \in Int
  BY <1>1, BodyType DEF Claim
<1>3. x \notin prior[p]
  BY <1>0, <1>1 DEF TypeOK
<1>4. stock' = [stock EXCEPT ![Product(job[w])] = @ - Quantity(job[w])]
  <2>1. stock' = [stock EXCEPT ![Product(job[w])] = read[w]]
        /\ read[w] = stock[Product(job[w])] - Quantity(job[w])
    BY DEF Commit, StockInv, WorkerOK
  <2>2. QED
    BY <2>1
<1>5. IsFiniteSet(SinceSet(p)) /\ \A c \in SinceSet(p) : c.quantity \in Int
  <2>1. SinceSet(p) \in SUBSET claims
    BY DEF SinceSet
  <2>2. QED
    BY <1>0, <2>1, FS_Subset, ClaimType DEF BooksInv
<1>6. Total(SinceSet(p)) \in Int
  BY <1>5, TotalIsInt
<1>7. CASE p = Product(job[w])
  <2>1. SinceSet(p)' = SinceSet(p) \cup {x} /\ x \notin SinceSet(p)
    <3> HIDE DEF x
    <3>1. QED
      BY <1>1, <1>2, <1>3, <1>7 DEF SinceSet
  <2>2. Total(SinceSet(p) \cup {x}) = Total(SinceSet(p)) + x.quantity
    BY <1>2, <1>5, <2>1, TotalOfMore
  <2>3. stock'[p] = stock[p] - x.quantity /\ base'[p] = base[p]
    BY <1>0, <1>1, <1>2, <1>4, <1>7 DEF TypeOK
  <2> HIDE DEF x
  <2>4. base[p] \in Int
    BY <1>0 DEF TypeOK
  <2>5. Total(SinceSet(p)') = Total(SinceSet(p)) + x.quantity
    BY <2>1, <2>2
  <2>6. QED
    BY <1>0, <1>2, <1>6, <2>3, <2>4, <2>5 DEF Books
<1>8. CASE p # Product(job[w])
  <2>1. SinceSet(p)' = SinceSet(p)
    <3> HIDE DEF x
    <3>1. QED
      BY <1>1, <1>2, <1>8 DEF SinceSet
  <2>2. stock'[p] = stock[p] /\ base'[p] = base[p]
    BY <1>0, <1>1, <1>4, <1>8 DEF TypeOK
  <2>3. QED
    BY <1>0, <2>1, <2>2 DEF Books
<1>9. QED
  BY <1>7, <1>8

LEMMA NextBooksInv ==
  ASSUME StockInv, BooksInv, [Next]_vars
  PROVE  BooksInv'
<1>0. TypeOK
  BY DEF StockInv
<1>1. ASSUME NEW w \in Workers, Commit(w)
      PROVE  BooksInv'
  <2>1. IsFiniteSet(claims')
    BY <1>1, FS_AddElement DEF Commit, BooksInv
  <2>2. QED
    BY <1>1, <2>1, CommitBooks DEF BooksInv
<1>2. ASSUME SaveUpdate
      PROVE  BooksInv'
  <2>1. edit.product \in Products /\ edit.stock \in Nat
    BY <1>2, StockAssumption DEF SaveUpdate, StockInv, EditInv
  <2>2. ASSUME NEW p \in Products
        PROVE  Books(p)'
    <3>1. CASE p = edit.product
      <4>1. prior'[p] = claims' /\ stock'[p] = edit.stock /\ base'[p] = edit.stock
        BY <1>0, <1>2, <2>1, <3>1 DEF SaveUpdate, TypeOK
      <4>2. SinceSet(p)' = {}
        BY <4>1 DEF SinceSet
      <4>3. Total(SinceSet(p)') = 0
        BY <4>2, TotalOfNone, Zenon
      <4>4. QED
        BY <2>1, <4>1, <4>3 DEF Books
    <3>2. CASE p # edit.product
      <4>1. /\ prior'[p] = prior[p] /\ stock'[p] = stock[p] /\ base'[p] = base[p]
            /\ claims' = claims
        BY <1>0, <1>2, <2>1, <3>2 DEF SaveUpdate, TypeOK
      <4>2. SinceSet(p)' = SinceSet(p)
        BY <4>1 DEF SinceSet
      <4>3. stock[p] = base[p] - Total(SinceSet(p))
        BY DEF BooksInv, Books
      <4>4. QED
        BY <4>1, <4>2, <4>3 DEF Books
    <3>3. QED
      BY <3>1, <3>2
  <2>3. QED
    BY <1>2, <2>2 DEF SaveUpdate, BooksInv
<1>3. ASSUME UNCHANGED <<stock, base, claims, prior>>
      PROVE  BooksInv'
  <2>1. \A p \in Products : SinceSet(p)' = SinceSet(p)
    BY <1>3 DEF SinceSet
  <2>2. QED
    BY <1>3, <2>1 DEF BooksInv, Books
<1>4. QED
  BY <1>1, <1>2, <1>3
     DEF Next, Work, Handle, vars, db, ghost, Publish, Take, ClaimDeduction, SkipDuplicate,
         LockProduct, Deduct, Ack, HandlerFails, Crash, BeginUpdate, DeleteProduct

-----------------------------------------------------------------------------
(* The theorems.                                                           *)

LEMMA InitStockInv == Init => StockInv
<1> SUFFICES ASSUME Init
             PROVE  StockInv
  OBVIOUS
<1> USE StockAssumption
<1>1. TypeOK
  BY InitTypeOK
<1>2. \A m \in Messages : Handling(m) = {}
  BY DEF Init, Handling
<1>3. QueueInv
  <2>1. ASSUME NEW m \in Messages
        PROVE  CopiesOK(m)
    <3>1. IsFiniteSet(Handling(m)) /\ Cardinality(Handling(m)) = 0
      BY <1>2, FS_EmptySet
    <3>2. copies[m] = 0 /\ published[m] = 0
      BY DEF Init
    <3>3. QED
      BY <3>1, <3>2 DEF CopiesOK
  <2>2. QED
    BY <2>1 DEF Init, QueueInv
<1>4. EditInv /\ DeductedAtMostOnce /\ StockNeverNegative
  BY DEF Init, EditInv, DeductedAtMostOnce, StockNeverNegative
<1>5. ClaimsInv
  BY DEF Init, ClaimsInv
<1>6. \A w \in Workers : WorkerOK(w)
  BY DEF Init, WorkerOK
<1>7. \A v, w \in Workers : v # w => Apart(v, w)
  BY DEF Init, Apart
<1>8. QED
  BY <1>1, <1>3, <1>4, <1>5, <1>6, <1>7 DEF StockInv

LEMMA Invariance == Spec => []StockInv
<1>1. ASSUME StockInv, [Next]_vars
      PROVE  StockInv'
  BY <1>1, NextTypeOK, NextWorkerOK, NextApart, NextQueueInv, NextClaimsInv, NextEditInv,
     NextDeductedAtMostOnce, NextStockNeverNegative DEF StockInv
<1>2. QED
  BY InitStockInv, <1>1, PTL DEF Spec

\* Every variable stays in its set, under any load of copies, retries and edits.
THEOREM TypeCorrect == Spec => []TypeOK
<1>1. StockInv => TypeOK
  BY DEF StockInv
<1>2. QED
  BY Invariance, <1>1, PTL

\* No order item is deducted twice: the uncommitted claim makes a second transaction wait, and
\* the committed one makes it skip, whenever the copies arrive and the workers crash.
THEOREM DeductedOnce == Spec => []DeductedAtMostOnce
<1>1. StockInv => DeductedAtMostOnce
  BY DEF StockInv
<1>2. QED
  BY Invariance, <1>1, PTL

\* The stock that a transaction checks is the stock that it takes its quantity off, so it never
\* goes below zero, with any number of workers at one product.
THEOREM NeverOversold == Spec => []StockNeverNegative
<1>1. StockInv => StockNeverNegative
  BY DEF StockInv
<1>2. QED
  BY Invariance, <1>1, PTL

\* The stock and the stock_deductions table tell the same story: a commit changes both by the
\* same quantity, whatever was committed or edited since the transaction began.
THEOREM BooksBalance == Spec => []StockMatchesClaims
<1>1. Init => BooksInv
  <2> SUFFICES ASSUME Init
               PROVE  BooksInv
    OBVIOUS
  <2>1. IsFiniteSet(claims)
    BY FS_EmptySet DEF Init
  <2>2. ASSUME NEW p \in Products
        PROVE  Books(p)
    <3>1. SinceSet(p) = {}
      BY DEF Init, SinceSet
    <3>2. Total(SinceSet(p)) = 0
      BY <3>1, TotalOfNone, Zenon
    <3>3. stock[p] = base[p] /\ stock[p] \in Int
      BY StockAssumption DEF Init
    <3>4. QED
      BY <3>2, <3>3 DEF Books
  <2>3. QED
    BY <2>1, <2>2 DEF BooksInv
<1>2. StockInv /\ BooksInv /\ [Next]_vars => BooksInv'
  BY NextBooksInv
<1>3. QED
  BY Invariance, <1>1, <1>2, BooksAreMatched, PTL DEF Spec

\* Where no two messages share a key, as with the order metadata that the handler accepts, a
\* message is acknowledged only when its own quantity has been taken off: it is skipped as a
\* duplicate only of itself.  The bodies that the order service publishes do share keys, and
\* MCStockOrderService shows what follows from it.
THEOREM SkippedOnlyIfDeducted ==
  ASSUME \A m, n \in Messages : Key(m) = Key(n) => m = n
  PROVE  Spec => []AckedIsDeducted
<1>1. ASSUME StockInv, NEW m \in acked
      PROVE  applied[m] > 0
  <2>1. m \in Messages /\ Key(m) \in ClaimedKeys
    BY <1>1 DEF StockInv, TypeOK, ClaimsInv
  <2>2. PICK c \in claims : c.key = Key(m)
    BY <2>1 DEF ClaimedKeys
  <2>3. PICK n \in Messages : c = Claim(n) /\ applied[n] > 0
    BY <1>1 DEF StockInv, ClaimsInv
  <2>4. Key(n) = Key(m)
    BY <2>2, <2>3 DEF Claim
  <2>5. QED
    BY <2>1, <2>3, <2>4
<1>2. StockInv => AckedIsDeducted
  BY <1>1 DEF AckedIsDeducted
<1>3. QED
  BY Invariance, <1>2, PTL

\* A step that changes a product's stock either commits one new claim on the product and takes
\* just its quantity off, or is an administrator's edit: no worker writes back a stock it read
\* before somebody else changed it.
Accounted(p) ==
  \/ \E c \in claims' \ claims :
       /\ claims' = claims \cup {c} /\ c.product = p /\ c.quantity > 0
       /\ stock'[p] = stock[p] - c.quantity
  \/ claims' = claims /\ edit.product = p /\ stock'[p] = edit.stock
StockMoves == \A p \in Products : stock'[p] # stock[p] => Accounted(p)
NoLostUpdate == [][StockMoves]_vars

\* NoLostUpdate holds: from the lock to the commit the row is the worker's alone.
THEOREM StockIsNotOverwritten == Spec => NoLostUpdate
<1>1. ASSUME StockInv, [Next]_vars, NEW p \in Products, stock'[p] # stock[p]
      PROVE  Accounted(p)
  <2>1. ASSUME NEW w \in Workers, Commit(w)
        PROVE  Accounted(p)
    <3> DEFINE c == Claim(job[w])
    <3>1. claims' = claims \cup {c} /\ c \notin claims
      BY <1>1, <2>1, CommitIsNew
    <3>2. /\ stock' = [stock EXCEPT ![Product(job[w])] = read[w]] /\ Quantity(job[w]) > 0
          /\ read[w] = stock[Product(job[w])] - Quantity(job[w]) /\ stock \in [Products -> Int]
      BY <1>1, <2>1 DEF Commit, StockInv, WorkerOK, TypeOK
    <3>3. p = Product(job[w]) /\ stock'[p] = stock[p] - Quantity(job[w])
      BY <1>1, <3>2
    <3>4. c.product = Product(job[w]) /\ c.quantity = Quantity(job[w])
      BY DEF Claim
    <3> HIDE DEF c
    <3>5. QED
      BY <3>1, <3>2, <3>3, <3>4 DEF Accounted
  <2>2. ASSUME SaveUpdate
        PROVE  Accounted(p)
    <3>1. stock' = [stock EXCEPT ![edit.product] = edit.stock] /\ stock \in [Products -> Int]
          /\ claims' = claims
      BY <1>1, <2>2 DEF SaveUpdate, StockInv, TypeOK
    <3>2. QED
      BY <1>1, <3>1 DEF Accounted
  <2>3. stock' = stock \/ SaveUpdate \/ \E w \in Workers : Commit(w)
    BY <1>1
       DEF Next, Work, Handle, vars, db, Publish, Take, ClaimDeduction, SkipDuplicate,
           LockProduct, Deduct, Ack, HandlerFails, Crash, BeginUpdate, DeleteProduct
  <2>4. QED
    BY <1>1, <2>1, <2>2, <2>3
<1>2. StockInv /\ [Next]_vars => [StockMoves]_vars
  BY <1>1 DEF StockMoves
<1>3. QED
  BY Invariance, <1>2, PTL DEF Spec, NoLostUpdate

=============================================================================
