SPECIFICATION ReadingSpec
CONSTANTS
  Msgs = {"m2"}
  ViaChannel = {"m2"}
  Refused = {}
  Chans = {"c1"}
  DeliveryChan <- MCDeliveryChan
  Opaques = {"o_m1", "o_m2"}
  Opaque <- MCOpaque
  Callers = {"t1"}
  Flushers = {"f1"}
  Nil = "nil"
  FwdDr = TRUE
  EventsSize = 1
  DeliveryChanSize = 1
  ProduceChannelSize = 1
  QueueMax = 2
  MaxEvents = 1
  MaxOther = 1
  Quiesce = TRUE
  IdMod = 6
CHECK_DEADLOCK FALSE
INVARIANTS
  FlushDelivered
PROPERTIES
  Reported
  
