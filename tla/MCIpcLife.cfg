SPECIFICATION LifeSpec
CONSTANTS
  running_core = "cpu2"
  Polite <- MCPolite
  MaxDepth = 1
INVARIANTS LifeTypeOK  BothCoresServed NothingReachable
  EnabledHasHandler PoliteServedOnce
PROPERTIES EventKept LeakedClassIsFinal
CHECK_DEADLOCK FALSE
