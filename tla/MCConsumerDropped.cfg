SPECIFICATION Spec
CONSTANTS
  p1 = p1
  Partitions = {p1}
  Callers = {t1}
  t1 = t1
  Modes <- MCForwarding
  Callbacks = {FALSE}
  Quiesce = TRUE
  ChanSize = 1
  MaxEvents = 2
  MaxQueue = 1
  Reader = reader
  Nil = Nil
INVARIANTS
  RebalanceNotLost
CHECK_DEADLOCK FALSE
