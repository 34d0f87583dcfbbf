SPECIFICATION Spec
CONSTANTS
  Runs = {r1, r2}
  chat = chat
  Conversation <- OneChat
  Accounts = {a1, a2}
  NoAccount = NoAccount
  NoAnswer = NoAnswer
  MaxObserves = 1
SYMMETRY Symmetry
CHECK_DEADLOCK FALSE
INVARIANTS EndIsOwnTurns RefusalsSendNothing
PROPERTY SentAsCurrentAccount
