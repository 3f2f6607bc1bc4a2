SPECIFICATION ConSpec
CONSTANTS
  shell = shell
  worker = worker
  off = off
  None = None
  Tasks = {shell, worker}
  Owners = {shell}
  Printer = shell
  Screen <- MCScreen
  Regions <- MCRegions
  Box <- MCBox
  Cols = 2
  Rows = 2
  Letters = {"a"}
  MaxLines = 3
INVARIANTS
  NoLostDamage
  QuietScreenIsCurrent
  ScreenShowsOutput
