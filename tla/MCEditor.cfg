CONSTANTS
  None = None
  Rows = 2
  Cols = 2
  Letters = {"a", "A"}
  Bytes = {"a", "A", " ", "nl", "cr"}
  Capitals <- MCCapitals
  Queries <- MCQueries
  Tree <- MCTree
  RootDir = "root"
  Names = {"U", "F"}
  Untitled = "U"
  InitDisk <- MCInitDisk
  MaxOps = 4
SPECIFICATION Spec
INVARIANTS ScreenShowsText CleanMeansSaved
PROPERTY NothingLost
