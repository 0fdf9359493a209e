SPECIFICATION MCSpec
CONSTANTS
  Msgs = {"m1", "m2", "m3"}
  TopicOf <- MCTopicOf
  Refused = {"m2"}
  BatchErrors = TRUE
  ChannelSize = 2
  BatchSize = 2
  EventsSize = 1
  QueueMax = 1
  p1 = p1
  p2 = p2
  a1 = a1
  a2 = a2
  Partitions = {p1, p2}
  Procs = {a1, a2}
  Intersections = {"n1", "n2"}
  Scenarios <- MCScenarios
  Nil = Nil
  MaxFaults = 1
  MaxRebalances = 1
\* The producer is closed, the processes have stopped, or everything is done.
CHECK_DEADLOCK FALSE
INVARIANTS
  
  TopicOrder
  ExactlyOnce
  OutputMatchesOffsets
PROPERTIES
  BatchProgress
  Processed
