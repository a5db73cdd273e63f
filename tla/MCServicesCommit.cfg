CONSTANTS
  None = None
  Procs = {0, 1}
  Sizes <- MCSizes
  MaxCalls = 8
  MaxFaults = 0
  IntWidth = 16
  Regions <- MCRegions
  ElementSizes = {1, 2}
  FragmentSizes = {1, 2, 3, 4, 5, 6, 7, 8, 9, 10, 11, 12, 13}
  ChunkSize = 3
  MaxStreams = 2
  Documents <- MCDocuments
  Invalid = Invalid
  ProcCounts = {2}
  MaxConfigs = 2
  MaxJobs = 2
  Targets <- MCTargets
  KindsOf <- MCKindsOf
  MaxRuns = 2
SPECIFICATION ServicesSpec
INVARIANT CommitStoresFragments
CONSTRAINT Programs
CHECK_DEADLOCK FALSE
