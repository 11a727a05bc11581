SPECIFICATION FairSpec
CONSTANTS
  Clients = {c1}
  Requests = {"command", "shutdown", "ping", "ignored"}
  Streams <- StdoutOnly
  TooLong = {}
  PipeCap = 1
  SockCap = 1
  MaxSend = 1
  MaxEmit = 4
  Nobody = Nobody
  c1 = c1
INVARIANTS
  NobodyBlocks
PROPERTIES
  ForwardingNeverSticks
  ShutdownCompletes
CHECK_DEADLOCK FALSE
