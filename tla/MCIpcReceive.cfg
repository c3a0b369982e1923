SPECIFICATION ReceiveFairSpec
CONSTANTS
  Threads = {t1, t2}
  QUEUE_NUM = 1
  ELEMENT_NUM = 3
  UINT32_MOD = 9
  Keys <- TwoKeys
  Paths <- OnePath
  MAXLEN = 2
  Tails = {0}
  Msgs <- ShortMsg
  Leftovers <- ShortLeftover
  Sizes = {0, 1}
  SMP = FALSE
  w1 = w1
  junk = junk
INVARIANTS RingsAgree SleeperHasNoBacklog
PROPERTIES AcceptedStays TimedReceiveReturns BacklogServed
VIEW View
