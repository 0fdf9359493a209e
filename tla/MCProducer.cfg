SPECIFICATION Spec
CONSTANTS
  Msgs = {"m1", "m2", "m3", "m4"}
  ViaChannel = {"m2", "m4"}
  Refused = {"m4"}
  Chans = {"c1"}
  DeliveryChan <- MCDeliveryChan
  Opaques = {"o_m1", "o_m2"}
  Opaque <- MCOpaque
  Callers = {"t1", "t2"}
  Flushers = {}
  Nil = "nil"
  FwdDr = TRUE
  EventsSize = 1
  DeliveryChanSize = 1
  ProduceChannelSize = 1
  QueueMax = 2
  MaxEvents = 2
  MaxOther = 0
  Quiesce = TRUE
  IdMod = 6
CHECK_DEADLOCK FALSE
INVARIANTS
  NoReportLost
  CgoMapExact
  CloseSafe
PROPERTIES
  ImplementsDeliveryReports
