SPECIFICATION ReceiveSpec
CONSTANTS
  Threads = {t1, t2}
  QUEUE_NUM = 1
  ELEMENT_NUM = 2
  UINT32_MOD = 4
  Keys <- OneKey
  Paths <- OnePath
  MAXLEN = 2
  Tails = {0}
  Msgs <- ShortMsg
  Leftovers <- ShortLeftover
  Sizes = {1}
  SMP = TRUE
  w1 = w1
  junk = junk
INVARIANTS ReceiveTypeOK FillHoldsLock
PROPERTIES LeakFreezesTable
CHECK_DEADLOCK FALSE
