SPECIFICATION Spec
CONSTANTS
  MaxVersion = 2
  Pin = 0
  HasRuntime = FALSE
INVARIANTS
  InstallIsRetried
