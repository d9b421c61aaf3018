CONSTANTS
  Caches = {"a", "b"}
  MaxVersion = 3
  Names = {1, 2, 3, 4}
  Trouble = {"api", "restart", "module", "revert"}
  None = None
  Missing = Missing
SPECIFICATION Spec
INVARIANT TypeOK NoDanglingReference NothingLeft InSync
CHECK_DEADLOCK FALSE
