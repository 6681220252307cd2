CONSTANTS
  MaxTasks = 3
  WaitSignal = TRUE
SPECIFICATION FairSpec
INVARIANTS
  NoLostWakeup
PROPERTIES
  WorksAsQueue
  JoinReturns
