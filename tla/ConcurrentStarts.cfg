SPECIFICATION Spec
CONSTANTS
  Sessions = {s1, s2}
  LongLived = {}
  Daemons = {d1, d2}
  Foreground = FALSE
  Recycling = FALSE
  MaxFaults = 0
  None = None
  s1 = s1
  s2 = s2
  d1 = d1
  d2 = d2
INVARIANTS
  FailedStartKillsItsDaemon
