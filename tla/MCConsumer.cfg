SPECIFICATION FairSpec
CONSTANTS
  p1 = p1
  p2 = p2
  Partitions = {p1, p2}
  Callers = {t1}
  t1 = t1
  Modes <- MCModes
  Callbacks = {TRUE, FALSE}
  Quiesce = TRUE
  ChanSize = 1
  MaxEvents = 2
  MaxQueue = 1
  Reader = reader
  Nil = Nil
CHECK_DEADLOCK FALSE
INVARIANTS
  RebalanceHandled
  CloseSafe
PROPERTIES
  ImplementsGroupMember
  CallsReturn
