SPECIFICATION FgSpec
CONSTANTS
  MaxProcs = 4
  ExternalMin = 2
  TickModulus = 2
  SleepLengths = {1}
  TestQuantum = 1
  ShellQuantum = 2
PROPERTIES
  PromptReturns
  ReadyTasksRun
  SleepersWake
