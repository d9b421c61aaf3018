CONSTANTS
  Second = 2
  Threshold = 4
  Expiration = 10
  Timeout = 1
  Slack = 1
  MaxTime = 15
  MaxForce = 2
  MaxRestarts = 1
  MaxWatchLag = 1
  Scenarios = {{"seclag", "restart"}, {"api", "delete", "shoot"}}
  None = None
SPECIFICATION Spec
INVARIANT TypeOK NeverExpired SecretGoesWithCluster ReadyHasKubeconfig SyncNotAfterIssue
PROPERTY ForcedIsRotated
CHECK_DEADLOCK FALSE
