CONSTANTS
  MaxRuns = 2
  Worker = {w}
  Caller = {a}
  ExplicitCtx = {}
  Key = {}
  NoKey = NoKey
  Isolated = Isolated
  AnyRev = AnyRev
  NoThread = NoThread
  MaxQueue = 1
  MaxContexts = 2
  MaxRestarts = 1
SPECIFICATION Spec
CHECK_DEADLOCK FALSE
CONSTRAINT Explored
INVARIANTS
  AtMostOncePerRun
  IntentBeforeCall
  OneInFlight
  TruthfulOutcome
  ContextReserved
PROPERTIES
  UncertainFreezesWrites
  SubmitsOnce
