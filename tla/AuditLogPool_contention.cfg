CONSTANTS
  r1=r1
  r2=r2
  c1=c1
  c2=c2
  Runtimes <- MCRuntimes
  CRs <- MCCRs
  RegionOf <- OneRegionOf
  RegionsOf <- OneRegionsOf
  InitStates = {"SiemApproved"}
  NoRuntime = NoRuntime
  NoCR = NoCR
  MaxWatchLag = 1
  ApiErrors = TRUE
SPECIFICATION Spec
INVARIANT ConfigIsOwn OrphanedOnlyOnDeletion IInv
PROPERTY ImplementsOwnership
SYMMETRY Symmetry
CHECK_DEADLOCK FALSE
