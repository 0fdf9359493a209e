CONSTANTS
  Goroutines = {"g1"}
  MaxRetries = 1
  Lifetimes = {2}
  MaxTime = 2
  None = None
  Urls = 2
  Traffic <- MCTraffic
  Configs <- MCRetryConfigs
  Waits = {1, 2, 3, 5, 8, 20}
SPECIFICATION FairSpec
INVARIANT RetrySendsBody
CHECK_DEADLOCK FALSE
