CONSTANTS
  MaxGen = 2
  MaxWatchLag = 1
  Dedicated = FALSE
  Caching = FALSE
  Scenarios = {{"edit", "gardener", "suspend"}, {"edit", "migrate", "kubeconfig", "gclag"}}
  Gone = Gone
  NoShoot = NoShoot
SPECIFICATION Spec
PROPERTY ReadyIsCurrent
CHECK_DEADLOCK FALSE
