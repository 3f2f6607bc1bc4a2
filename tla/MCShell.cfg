CONSTANTS
  d = d
  f = f
  g = g
  None = None
  MaxDrives = 3
  Drives = {0, 1, 2}
  Folders = {d}
  Files = {f, g}
  MaxCluster = 2
  Apps = {1, 2}
  MaxPath = 1
  MaxOps = 5
  Machines <- MCMachines
  ShellMachines <- MCShellMachines
  Accepts <- MCAccepts
  ListMax = 4
  LongNames = {g}
  BeginsWith <- MCBegins
  InitDisks <- MCDisks
SPECIFICATION Spec
CONSTRAINT ParametersKnown
INVARIANTS EveryVolumeOnce ShellKeepsItsPlace
PROPERTIES OnlyWhatIsNamed TabCompletes
