SPECIFICATION DriverFairSpec
CONSTANTS
  Threads = {t1, t2}
  Files = {f1, f2}
  QUEUE_NUM = 2
  ELEMENT_NUM = 1
  UINT32_MOD = 2
  Keys <- MCKeys
  Paths <- MCPaths
  MAXLEN = 2
  Tails = {0}
  Msgs <- MCMsgs
  Leftovers <- MCLeftovers
  SMP = FALSE
INVARIANTS DriverTypeOK
PROPERTIES GetReturns CloseReturns ClosingReleases
CHECK_DEADLOCK FALSE
VIEW View
