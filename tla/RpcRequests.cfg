SPECIFICATION FairSpec
CONSTANTS
  Callers = {c1}
  Consumers = {e1}
  Messages = {m1}
  c1 = c1
  e1 = e1
  m1 = m1
INVARIANTS
  RequestsAreBacked
  NobodyBlocks
PROPERTIES
  EveryRequestSettles
  ScannersEnd
  CutEndsCall
  CallsReturn
CHECK_DEADLOCK FALSE
