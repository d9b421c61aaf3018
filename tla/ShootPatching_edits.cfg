CONSTANTS
  None = None
  Size <- MCSize
  NodeCIDR <- MCNodeCIDR
  PodsCIDR = 29
  DefaultImage <- MCDefaultImage
  FilterGlobal = TRUE
  AclGlobal = TRUE
  DNSInternal = FALSE
  DefaultVersion = 1
  FirstPools <- MCFirstPools
  PoolChoices <- MCPoolChoices
  ZoneLists <- MCZoneLists
  Images <- MCImages
  MaxVersion = 3
  MaxEdits = 3
  Scenarios <- MCScenarios
SPECIFICATION Spec
INVARIANT TypeOK ZonesCovered PodsFit PatchIsStable ExtensionsFollow
PROPERTY NothingTakenBack ConfigKept
CHECK_DEADLOCK FALSE
