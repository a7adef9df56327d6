SPECIFICATION FairSpec
CONSTANTS
  outbox = outbox
  jobs = jobs
  q1 = q1
  q2 = q2
  q3 = q3
  Outbox = outbox
  Jobs = jobs
  Requests = {q1, q2, q3}
  Capacities = {1, 2, 3}
  MaxFaults = 2
INVARIANTS
  TypeOK
  NoPoolDeadlock
  NobodyIsLeftBehind
PROPERTIES
  DispatchesEnd
  ShutdownCompletes
