SPECIFICATION Spec
CONSTANTS
  MaxTime = 7
  MaxElevation = 1
  TrackSamples = 4
  None = None
CHECK_DEADLOCK FALSE
INVARIANTS
  FindsCompletePasses
  TrackSpansPass
