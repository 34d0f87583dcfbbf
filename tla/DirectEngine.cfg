CONSTANTS
  MaxRuns = 2
  Task = {a, b}
  Key = {k}
  NoKey = NoKey
  Prompt = {p, q}
  NoPrompt = NoPrompt
  Scope = {x, y}
  NoTask = NoTask
  MaxTurn = 2
  MaxImports = 1
  MaxRestarts = 1
SPECIFICATION Spec
CHECK_DEADLOCK FALSE
SYMMETRY Symmetry
INVARIANTS
  OneTurnInChat
  TruthfulOutcome
  LookupStaysInChat
  TextOfItsRequest
PROPERTIES
  TurnStateAdvances
  SubmitsOnce
