SPECIFICATION HostedSpec
CONSTANTS
  Hosts = {"names"}
  Clients = {c1} Paths = {f} Cells = {x} Hole = Hole Absent = Absent Dir = Dir Idle = Idle
  NoHandle = NoHandle MaxOffset = 1
  SvcNames = {"a"} Policy <- Policies MaxServices = 1 MaxRestarts = 1 BaseDelay = 1 MaxDelay = 1
  Backstop = 1 MaxDetaches = 1 MaxClock = 1 MaxAtOnce = 1
  Procs = {"p1"} Pids = {"i1"} PidOf <- ReusedPid Nobody = Nobody Elder = Elder
  Commands = {"s1", "s2"} Eosh = "eosh" Bundle <- Releases UserObjects = {"u"}
  UserNames = {"hello", "eosh"} Unbound = Unbound NoRecord = NoRecord
  MaxStops = 0 MaxIssued = 3 MaxTogether = 2
  Loaders = {"l1"} Keys = {"k1"} Budget = 1 NoDir = NoDir NoFileYet = NoFileYet
  MaxLoads = 1 MaxGcs = 1 MaxCacheKills = 0 MaxUses = 1
INVARIANT UserNamesStay
CHECK_DEADLOCK FALSE
