SPECIFICATION Spec
CONSTANTS
  AC = AC
  ACOM = ACOM
  None = None
  Names <- MCNames
  Accepts <- MCAccepts
  Clusters <- MCClusters
  RootSlots = 2
  DirSlots = 1
  MaxLen = 2
  MaxOps = 4
  MaxFaults = 1
INVARIANTS
  ClustersAccounted
  NamesAreWhole
  SuccessIsReal
PROPERTIES
  OthersUntouched
