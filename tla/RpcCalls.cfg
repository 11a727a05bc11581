SPECIFICATION Spec
CONSTANTS
  Callers = {c1, c2}
  Consumers = {}
  Messages = {}
  c1 = c1
  c2 = c2
SYMMETRY CallerSymmetry
INVARIANTS
  TypeOK
PROPERTIES
  CallSafety
CHECK_DEADLOCK FALSE
