SPECIFICATION Spec
CONSTANTS
  ELEMENT_NUM = 4
  UINT32_MOD = 16
  Msgs = {m1, m2}
  Junk = Junk
INVARIANTS TypeOK RingConsistent
PROPERTIES AcceptedSurvives WrappedIsFinal ImplementsFifo
