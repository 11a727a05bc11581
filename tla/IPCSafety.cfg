SPECIFICATION Spec
CONSTANTS
  Clients = {c1, c2}
  Requests = {"command", "list_tools", "shutdown", "toolong"}
  Streams <- StdoutOnly
  TooLong <- StdoutOnly
  PipeCap = 1
  SockCap = 1
  MaxSend = 1
  MaxEmit = 1
  Nobody = Nobody
  c1 = c1
  c2 = c2
SYMMETRY ClientSymmetry
INVARIANTS
  LinesAreWhole
  TypeOK
  DiscoveryIsBacked
  NoClientLeaks
CHECK_DEADLOCK FALSE
