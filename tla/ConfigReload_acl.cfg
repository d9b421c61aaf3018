CONSTANTS
  Runtimes = {"r1"}
  AclRuntimes = {"r1"}
  MaxConfig = 2
  MaxSpec = 1
  Scenarios <- MCQuietScenarios
SPECIFICATION Spec
INVARIANT AclCurrent
CHECK_DEADLOCK FALSE
