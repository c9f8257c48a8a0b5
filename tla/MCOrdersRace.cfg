\* Do overlapping requests keep to the permitted transitions?
CONSTANTS
  Orders = {o1}
  Requests = {r1, r2, r3}
  Targets = {"Confirmed", "Process", "Sending", "Cancelled", "delete"}
SPECIFICATION Spec
PROPERTY OnlyPermittedTransitions
\* Requests and events are finite.
CHECK_DEADLOCK FALSE
