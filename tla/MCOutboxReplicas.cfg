\* Two replicas of the service share one table.
CONSTANTS
  NumEvents = 2
  Workers = {w1, w2}
  BatchSize = 2
  MaxRetries = 2
  PublishRetries = 0
  CopyCap = 2
  MaxStops = 1
SPECIFICATION Spec
SYMMETRY ReplicaSymmetry
INVARIANTS
  TypeOK
  ProcessedWasAccepted
  FailedOnlyAfterMaxRetries
PROPERTY ImplementsEventDelivery
