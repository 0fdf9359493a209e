CONSTANTS
  Goroutines = {"g1", "g2"}
  MaxRetries = 1
  Lifetimes = {2}
  MaxTime = 2
  None = None
  Urls = 2
  Traffic <- MCTraffic
  Configs <- MCConfigs
  Waits = {1, 2, 3, 5, 8, 20}
SPECIFICATION FairSpec
CHECK_DEADLOCK FALSE
INVARIANTS
  SingleFetch
  Credentials
  Attempts

  
