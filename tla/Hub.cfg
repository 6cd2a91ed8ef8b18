SPECIFICATION PromptSpec
CONSTANTS
  Requests <- MCRequests
  KindOf <- MCKindOf
  Prompt = "prompt"
  Look = "list"
  None = None
  MaxSockets = 2
  MaxRegs = 2
  GraceRounds = 1
CHECK_DEADLOCK FALSE
INVARIANTS AnsweredByItsShare EveryRequestIsHeld
PROPERTIES CallersAreTold LostRequestsRecover
