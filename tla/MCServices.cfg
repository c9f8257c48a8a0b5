\* Four parts of the system, one at a time.
CONSTANTS
  PayOrders = {o1}
  PayRequests = {r1, r2, r3}
  MaxPayFaults = 2
  NoOrder = NoOrder
  Notices = {m1}
  NoticeRequests = {q1}
  NumNoticeCopies = 6
  MaxNoticeTries = 1
  MaxNoticeFaults = 2
  NoNotice = NoNotice
  CartProducts = {p1, p2}
  Quantities = {1}
  CartRequests = {a1, a2, a3}
  MaxCartFaults = 1
  NoProductId = NoProductId
  MaxChannels = 4
  PoolSize = 2
  MaxAttempts = 3
  MaxPublishes = 2
  MaxWireFaults = 2
SPECIFICATION Spec
SYMMETRY Symmetry
INVARIANTS
  TypesOK
  OnePaymentPerOrder
  PaymentsAreWhole
  StoredOncePerHandling
  CartIsWhatWasAsked
  PublisherKeepsChannels
\* Every request is answered at the end.
CHECK_DEADLOCK FALSE
