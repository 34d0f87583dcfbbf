CONSTANTS
  MaxRuns = 1
  Worker = {w}
  Caller = {a}
  ExplicitCtx = {x}
  Key = {}
  NoKey = NoKey
  Isolated = Isolated
  AnyRev = AnyRev
  NoThread = NoThread
  MaxQueue = 1
  MaxContexts = 1
  MaxRestarts = 1
SPECIFICATION Spec
CHECK_DEADLOCK FALSE
INVARIANT IdleReservationIsInFlight
