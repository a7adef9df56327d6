SPECIFICATION FairSpec
CONSTANTS
  w1 = w1
  w2 = w2
  e1 = e1
  e2 = e2
  h1 = h1
  h2 = h2
  Workers = {w1}
  Events = {e1}
  Handlers = {h1, h2}
  HandlersOf <- OneEach
  Name <- OwnName
  MaxRetries = 2
  Jitter = 1
  MaxBackoff = 3
  Poll = 1
  BatchSize = 1
  MaxAge = 0
  MaxFaults = 0
  NoWorker = NoWorker
  Orphan = Orphan
  NoEvent = NoEvent
PROPERTIES
  NotifyWakes
