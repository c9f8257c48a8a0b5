\* Can two replicas hold the same row?
CONSTANTS
  NumEvents = 2
  Workers = {w1, w2}
  BatchSize = 2
  MaxRetries = 2
  PublishRetries = 0
  CopyCap = 2
  MaxStops = 1
SPECIFICATION Spec
INVARIANT NoRowPickedUpTwice
