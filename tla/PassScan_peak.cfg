SPECIFICATION Spec
CONSTANTS
  MaxTime = 4
  MaxElevation = 2
  TrackSamples = 2
  None = None
CHECK_DEADLOCK FALSE
INVARIANTS
  PeakIsHighest
