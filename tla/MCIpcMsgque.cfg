SPECIFICATION LookupSpec
CONSTANTS
  Threads = {t1, t2}
  QUEUE_NUM = 3
  ELEMENT_NUM = 2
  UINT32_MOD = 8
  Keys <- MCKeys
  Paths <- MCPaths
  MAXLEN = 12
  Tails = {97}
  Msgs <- MCMsgs
  Leftovers <- MCLeftovers
  SMP = FALSE
INVARIANTS KeysUnique
PROPERTIES LookupSound LookupComplete
SYMMETRY Symmetry
VIEW View
