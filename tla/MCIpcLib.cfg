SPECIFICATION LibSpec
CONSTANTS
  Threads = {t1, t2}
  Ids = {q1, q2}
  Fds = {3, 4}
  MaxCount = 2
  MaxCloses = 2
  Free = Free
INVARIANTS LibTypeOK OneDescriptor HeldKeepsDevice
PROPERTIES ClosesOwnFileOnly
SYMMETRY LibSymmetry
CHECK_DEADLOCK FALSE
