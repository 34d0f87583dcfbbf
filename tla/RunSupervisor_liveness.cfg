CONSTANTS
  MaxRuns = 2
  Worker = {w}
  Caller = {a}
  ExplicitCtx = {}
  Key = {}
  NoKey = NoKey
  Isolated = Isolated
  AnyRev = AnyRev
  NoThread = NoThread
  MaxQueue = 1
  MaxContexts = 1
  MaxRestarts = 0
SPECIFICATION FairSpec
CHECK_DEADLOCK FALSE
PROPERTIES
  QueueDrains
