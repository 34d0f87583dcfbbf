SPECIFICATION FairSpec
CONSTANTS
  Callers = {c1, c2}
  ProfileFiles <- SomeFiles
INVARIANTS TypeOK TextIsOfLastStart
PROPERTIES SecondStartAnswersUnknown LateCallersSendNothing EveryCallEnds
CHECK_DEADLOCK FALSE
