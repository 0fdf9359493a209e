CONSTANTS
  Goroutines = {"g1", "g2"}
  UseNames <- MCUseNames
  Use <- MCUse
  MaxCalls = 2
  MaxTime = 3
  None = None
SPECIFICATION Spec
CHECK_DEADLOCK FALSE
INVARIANTS
  Readable
  Rotates
  
