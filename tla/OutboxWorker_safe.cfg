SPECIFICATION FairSpec
CONSTANTS
  w1 = w1
  w2 = w2
  e1 = e1
  e2 = e2
  h1 = h1
  h2 = h2
  Workers = {w1, w2}
  Events = {e1, e2}
  Handlers = {h1, h2}
  HandlersOf <- TwoAndNone
  Name <- OwnName
  MaxRetries = 2
  Jitter = 1
  MaxBackoff = 2
  Poll = 1
  BatchSize = 1
  MaxAge = 0
  MaxFaults = 2
  NoWorker = NoWorker
  Orphan = Orphan
  NoEvent = NoEvent
INVARIANTS
  TypeOK
  RepetitionsAreFaults
  DeadLetterIsExact
  LockedRowIsAsRead
PROPERTIES
  ImplementsDelivery
  EventsAreClosed
