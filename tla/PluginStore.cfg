SPECIFICATION Spec
CONSTANTS
  MaxVersion = 3
  Pin = 0
  HasRuntime = TRUE
INVARIANTS
  TypeOK
  ConnectRunsVerified
  HalfUpdatesAreSeen
