SPECIFICATION LiveSpec
CONSTANTS
  Keys <- MCKeys
  RingSize = 3
  MaxEvents <- MCEvents
  MaxPackets <- MCPackets
  Present <- MCPresent
  Overtaking = FALSE
  None = None
INVARIANTS
  KeysInOrder
  NoStuckModifiers
PROPERTIES
  TypedIsRead
  PointerCatchesUp
