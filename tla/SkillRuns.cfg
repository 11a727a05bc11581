SPECIFICATION FairSpec
CONSTANTS
  Streams = {"stdout", "stderr"}
  Limit = 1
  PipeCap = 2
  MaxPrint = 3
INVARIANTS
  TypeOK
  SuccessIsWhole
  LimitIsExact
PROPERTIES
  DeadlineEndsRun
CHECK_DEADLOCK FALSE
