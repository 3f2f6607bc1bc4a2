\* Five slots, a tick counter that wraps every 4 ticks, quanta 1 and 2.
CONSTANTS
  MaxProcs = 5
  ExternalMin = 3
  TickModulus = 4
  SleepLengths = {1, 2}
  TestQuantum = 1
  ShellQuantum = 2

SPECIFICATION Spec

INVARIANTS
  SwitchIsSound

PROPERTIES
  NewStackNotInUse
  NeverWokenEarly
