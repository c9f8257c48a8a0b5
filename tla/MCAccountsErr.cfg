\* Two sign-ups at the same time, among others.
CONSTANTS
  Users = {u1, u2}
  Emails = {e1}
  Requests = {r1, r2}
  Seed = Seed
  Nil = Nil
  MaxFaults = 0
SPECIFICATION Spec
SYMMETRY Symmetry
INVARIANTS
  SuccessMeansDone
\* Every request is answered at the end.
CHECK_DEADLOCK FALSE
