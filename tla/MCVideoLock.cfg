SPECIFICATION LiveSpec
CONSTANTS
  shell = shell
  worker1 = worker1
  worker2 = worker2
  app = app
  Kernel = {shell, worker1, worker2}
  Apps = {app}
  None = None
  MaxDepth = 2
  Succ <- MCSucc
INVARIANT LockWordsSound
PROPERTY EveryDrawProceeds
