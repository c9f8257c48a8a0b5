\* Three requests on up to two accounts.
CONSTANTS
  Users = {u1, u2}
  Emails = {e1}
  Requests = {r1, r2, r3}
  Seed = Seed
  Nil = Nil
  MaxFaults = 1
SPECIFICATION Spec
SYMMETRY Symmetry
INVARIANTS
  TypeOK
  LastWriteStands
  MailedLinksWork
  AnswersMatchEffects
\* Every request is answered at the end.
CHECK_DEADLOCK FALSE
