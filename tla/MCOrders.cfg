\* One order, three overlapping requests.
CONSTANTS
  Orders = {o1}
  Requests = {r1, r2, r3}
  Targets = {"Confirmed", "Process", "Sending", "Cancelled", "delete"}
SPECIFICATION Spec
SYMMETRY RequestSymmetry
INVARIANTS
  TypeOK
  StatusFollowsWorkflow
  ChangesAreAnnounced
  ReadersSeeOrders
\* Requests and events are finite.
CHECK_DEADLOCK FALSE
