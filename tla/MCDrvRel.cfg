SPECIFICATION DriverFairSpec
CONSTANTS
  Threads = {t1}
  Files = {f1}
  QUEUE_NUM = 2
  ELEMENT_NUM = 1
  UINT32_MOD = 2
  Keys <- MCKeys
  Paths <- MCPaths
  MAXLEN = 2
  Tails = {0}
  Msgs <- MCMsgs
  Leftovers <- MCLeftovers
  SMP = FALSE
PROPERTIES RelReturns
CHECK_DEADLOCK FALSE
VIEW View
