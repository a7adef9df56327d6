SPECIFICATION Spec
CONSTANTS
  r1 = r1
  r2 = r2
  iss = iss
  Replicas = {r1, r2}
  Satellites = {iss}
  Stations = {1}
  Instants = {1}
  MaxVersion = 2
  MaxRuns = 3
  MaxFaults = 0
  NoEvent = NoEvent
SYMMETRY ReplicaSymmetry
CHECK_DEADLOCK FALSE
INVARIANTS
  NoStalePasses
