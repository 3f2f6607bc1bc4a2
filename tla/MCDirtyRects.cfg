SPECIFICATION Spec
CONSTANTS
  Width = 4
  Height = 2
  Capacity = 3
  Requests <- MCRequests
INVARIANT ListIsSound
PROPERTY ImplementsDamage
