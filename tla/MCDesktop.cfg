CONSTANTS
  Width = 3
  MinWidth = 1
  InitWidth = 2
  MaxWindows = 3
  MaxValue = 1
  MaxId = 3
  MaxOps = 2
SPECIFICATION Spec
CONSTRAINT NothingMissed
INVARIANTS ScreenIsCurrent ActiveOnTop HoldEndsWithButton
PROPERTY MovesAsShown
