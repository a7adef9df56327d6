SPECIFICATION Spec
CONSTANTS
  w1 = w1
  w2 = w2
  w3 = w3
  tle = tle
  other = other
  Workers = {w1, w2}
  Jobs <- OneJob
  Registered = {tle}
  Interval <- EveryTwo
  Lease = 4
  Timeout = 2
  Overrun = 0
  Lag = 2
  BatchSize = 1
  MaxFaults = 1
  NoWorker = NoWorker
  NoJob = NoJob
SYMMETRY WorkerSymmetry
INVARIANTS
  OneRunPerJob
