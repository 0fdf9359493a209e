CONSTANTS
  Nil = Nil
  Null = Null
  Callers = {"t1", "t2"}
  Uses <- MCUses
  Ops <- MCOps
  Inputs <- MCInputs
  Responses <- MCResponses
  Contexts <- MCContexts
  OptionLists <- MCOptionLists
  LogSize = 1
SPECIFICATION FairSpec
CHECK_DEADLOCK FALSE
INVARIANTS
  NoUseAfterDestroy
  ReleasedOnce
  ConversionsFaithful
PROPERTIES
  CallsReturn
