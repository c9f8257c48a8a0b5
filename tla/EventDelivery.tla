--------------------------- MODULE EventDelivery ---------------------------
(***************************************************************************)
(* What the transactional outbox promises the services that write to it:   *)
(* an event recorded by a committed business transaction is offered to the *)
(* broker at least once before the outbox calls it delivered, an event     *)
(* nobody recorded never reaches the broker, and every recorded event is   *)
(* eventually delivered or, visibly, abandoned.  Copies may be duplicated. *)
(***************************************************************************)
EXTENDS Naturals

CONSTANTS
  Events,     \* the events the business transactions may record
  CopyCap     \* copies accepted by the broker are counted up to this bound

VARIABLES
  recorded,   \* events of committed transactions
  copies,     \* copies[e]: how many copies of e the broker has accepted
  outcome     \* outcome[e]: "open", "delivered" or "abandoned"

abstractVars == <<recorded, copies, outcome>>

Init ==
  /\ recorded = {}
  /\ copies = [e \in Events |-> 0]
  /\ outcome = [e \in Events |-> "open"]

\* A business transaction commits together with its event.
Record(e) ==
  /\ e \notin recorded
  /\ recorded' = recorded \union {e}
  /\ UNCHANGED <<copies, outcome>>

\* The broker accepts one more copy of a recorded event.
Accept(e) ==
  /\ e \in recorded
  /\ copies[e] < CopyCap
  /\ copies' = [copies EXCEPT ![e] = @ + 1]
  /\ UNCHANGED <<recorded, outcome>>

\* The outbox closes an event the broker has accepted.
Deliver(e) ==
  /\ copies[e] > 0
  /\ outcome' = [outcome EXCEPT ![e] = "delivered"]
  /\ UNCHANGED <<recorded, copies>>

\* The outbox gives an event up.
Abandon(e) ==
  /\ e \in recorded
  /\ outcome' = [outcome EXCEPT ![e] = "abandoned"]
  /\ UNCHANGED <<recorded, copies>>

Next == \E e \in Events : Record(e) \/ Accept(e) \/ Deliver(e) \/ Abandon(e)

Spec == Init /\ [][Next]_abstractVars

=============================================================================
