SPECIFICATION Spec
CONSTANTS
  Sessions = {s1}
  LongLived = {}
  Daemons = {d1, d2, d3}
  Foreground = FALSE
  Recycling = FALSE
  MaxFaults = 0
  None = None
  s1 = s1
  d1 = d1
  d2 = d2
  d3 = d3
PROPERTIES
  ExitSparesOtherSockets
