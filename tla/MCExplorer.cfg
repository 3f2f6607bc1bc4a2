CONSTANTS
  A = A
  B = B
  home = home
  d = d
  f = f
  g = g
  None = None
  Drives = {A, B}
  Folders = {home, d}
  Files = {f, g}
  Accepts <- MCAccepts
  ListMax = 4
  MaxCluster = 2
  Slots = {1, 2}
  MaxDepth = 2
  HistoryMax = 3
  HomeDrive = A
  HomeFolder = home
  InitDisks <- MCDisks
  MaxOps = 6
SPECIFICATION Spec
INVARIANT ListMatchesFolder
PROPERTIES ActsWhereShown ContentsKept ImplementsTrail
