SPECIFICATION FairSpec
CONSTANTS
  w1 = w1
  w2 = w2
  w3 = w3
  tle = tle
  other = other
  Workers = {w1, w2}
  Jobs <- TwoJobs
  Registered = {tle}
  Interval <- EveryFive
  Lease = 4
  Timeout = 1
  Overrun = 1
  Lag = 2
  BatchSize = 2
  MaxFaults = 2
  NoWorker = NoWorker
  NoJob = NoJob
INVARIANTS
  TypeOK
  OneRunPerJob
  LiveRunNotStale
  RescheduleIsOwn
  RunWasDue
PROPERTIES
  NoZombies
  JobsKeepRunning
