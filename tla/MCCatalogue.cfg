\* Two concurrent requests on one product, two slugs and two categories.
CONSTANTS
  Products = {p1}
  Categories = {c1, c2}
  Slugs = {s1, s2}
  Requests = {r1, r2}
  Workers = {w1, w2}
  MaxOpenConns = 3
  MaxFaults = 1
  None = None
SPECIFICATION FairSpec
INVARIANTS
  TypeOK
  VariantsFollowProduct
  WritesAreAnnounced
  ListedPagesOpen
  SettledIndexIsCurrent
PROPERTY EveryRequestAnswered
\* Every request is answered and every event handled at the end.
CHECK_DEADLOCK FALSE
