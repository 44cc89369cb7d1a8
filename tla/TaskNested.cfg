SPECIFICATION FairDriveSpec
CONSTANTS
  t1 = t1
  t2 = t2
  t3 = t3
  Tasks <- ThreeTasks
  Root = t1
  Parent <- ChainParent
  Kids <- ChainKids
  Uses <- NestedUses
  Donation = 3
  BudgetMax = 3
  Thread = Thread
  Io = Io
  Quiet = Quiet
PROPERTIES CompletionIsSeen
CHECK_DEADLOCK FALSE
