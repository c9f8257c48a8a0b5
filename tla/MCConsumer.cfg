\* Two replicas, two messages, and one lost channel, crash or SIGTERM.
CONSTANTS
  Messages = {m1, m2}
  Consumers = {c1, c2}
  NumCopies = 6
  PoolSize = 1
  Prefetch = 1
  MaxRetries = 1
  EnableDLQ = TRUE
  MaxFaults = 1
  NoMessage = NoMessage
  Nobody = Nobody
SPECIFICATION FairSpec
INVARIANTS
  TypeOK
  NoMessageLost
  DeadOnlyAfterMaxRetries
  LoopNeverBlocks
PROPERTY EveryMessageSettles
\* With every message settled nothing is left to do.
CHECK_DEADLOCK FALSE
