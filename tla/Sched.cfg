SPECIFICATION EitherSpec
CONSTANTS
  MaxTasks = 3
  FuelMax = 2
  MaxImported = 3
  Fair = FALSE
  NoTask = NoTask
  Pool = Pool
  t1 = t1
  t2 = t2
  t3 = t3
  Tasks <- ThreeTasks
  Root = t1
  Parent <- ChainParent
  Kids <- ChainKids
  Uses <- ChainUses
  Donation = 1
  BudgetMax = 1
  Thread = Thread
  Io = Io
  Quiet = Quiet
INVARIANTS EitherTypeOK QueueIsRunnable ReapIsSafe Conserved NoLostWakeup
PROPERTIES NoResurrection RunningFuelIsSafe ImplementsFuelNode FairPolicyServesAll SiblingIsSeen WaitReturns
CHECK_DEADLOCK FALSE
