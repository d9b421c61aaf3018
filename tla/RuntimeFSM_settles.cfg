CONSTANTS
  MaxGen = 2
  MaxWatchLag = 1
  Dedicated = FALSE
  Caching = FALSE
  Scenarios = {{"edit", "restart", "calm"}, {"force", "writeback", "calm"}}
  Gone = Gone
  NoShoot = NoShoot
SPECIFICATION FairSpec
PROPERTY Settles
CHECK_DEADLOCK FALSE
