\* One replica, with crashes and restarts.
CONSTANTS
  NumEvents = 2
  Workers = {w1}
  BatchSize = 1
  MaxRetries = 2
  PublishRetries = 1
  CopyCap = 2
  MaxStops = 2
SPECIFICATION FairSpec
PROPERTIES
  SettledIsFinal
  EveryEventSettles
