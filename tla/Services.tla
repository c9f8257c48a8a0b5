------------------------------ MODULE Services ------------------------------
(***************************************************************************)
(* The smaller parts of the system side by side. They share no state: what  *)
(* passes between them goes through the outbox and the broker, which have   *)
(* modules of their own. A step of one is a stutter of the others, so a     *)
(* behaviour moves one of them, chosen at the start.                        *)
(***************************************************************************)
EXTENDS Payments, Notifications, Cart, Publisher

VARIABLE part  \* the part that moves

vars == <<payVars, noticeVars, cartVars, wireVars, part>>

Init ==
  /\ PayInit /\ NoticeInit /\ CartInit /\ WireInit
  /\ part \in {"payments", "notifications", "cart", "publisher"}

Next ==
  /\ UNCHANGED part
  /\ \/ part = "payments" /\ PayNext /\ UNCHANGED <<noticeVars, cartVars, wireVars>>
     \/ part = "notifications" /\ NoticeNext /\ UNCHANGED <<payVars, cartVars, wireVars>>
     \/ part = "cart" /\ CartNext /\ UNCHANGED <<payVars, noticeVars, wireVars>>
     \/ part = "publisher" /\ WireNext /\ UNCHANGED <<payVars, noticeVars, cartVars>>

Spec == Init /\ [][Next]_vars

\* The types of the four parts.
TypesOK == PaymentsTypeOK /\ NotificationsTypeOK /\ CartTypeOK /\ PublisherTypeOK
=============================================================================
