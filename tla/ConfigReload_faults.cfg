CONSTANTS
  Runtimes = {"r1", "r2"}
  AclRuntimes = {"r1"}
  MaxConfig = 2
  MaxSpec = 1
  Scenarios <- MCScenarios
SPECIFICATION Spec
INVARIANT TypeOK BootstrapperCurrent NothingForgotten
PROPERTY EditsAreKept
CHECK_DEADLOCK FALSE
