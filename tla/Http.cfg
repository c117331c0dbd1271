CONSTANTS
  Workers = {w1, w2}
  NoWorker = none
  RetryCount = 2
  BaseDelay = 2
  MinInterval = 1
  Timeout = 1
  MaxFiles = 2
  Resources <- SomeResources
SPECIFICATION FairSpec
INVARIANTS CancelBounded BodiesClosed VerdictSound
PROPERTIES RateRespected FetchEnds
