CONSTANTS
  MaxGen = 2
  MaxWatchLag = 1
  Dedicated = TRUE
  Caching = TRUE
  Scenarios = {{"edit", "api"}, {"edit", "restart"}, {"edit", "gardener"}, {"edit", "kubeconfig"},
               {"force", "writeback", "restart"}}
  Gone = Gone
  NoShoot = NoShoot
SPECIFICATION Spec
INVARIANT TypeOK NoOrphanShoot AppliedIsComplete UnfinishedIsScheduled KubeconfigDeletedFirst
PROPERTY ImplementsLifecycle
CHECK_DEADLOCK FALSE
