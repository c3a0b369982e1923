SPECIFICATION SendFairSpec
CONSTANTS
  Senders = {t1, t2}
  Keys = {1}
  Data <- MCData
INVARIANTS SendTypeOK SemaphoreIsMutex SemaphoreBounded BufferHoldsOwnData
PROPERTIES OnlyLongCopiesIntrude SendReturns
VIEW View
