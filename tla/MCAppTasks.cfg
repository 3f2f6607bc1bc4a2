SPECIFICATION Spec
CONSTANTS
  FirstPid = 3
  LastPid = 5
  PageCount = 3
  SlotSizes = {1, 2}
  MaxWorkers = 1
CONSTRAINT Undisturbed
INVARIANTS
  LiveDirectoriesIntact
  ArenaSound
PROPERTIES
  TerminatedReusable
  GroupEndsTogether
