SPECIFICATION HostedSpec
CONSTANTS
  Hosts = {"fs", "services", "sessions", "names", "images"}
  Clients = {c1, c2} Paths = {f} Cells = {x} Hole = Hole Absent = Absent Dir = Dir Idle = Idle
  NoHandle = NoHandle MaxOffset = 1
  SvcNames = {"a", "b"} Policy <- Policies MaxServices = 2 MaxRestarts = 2 BaseDelay = 1 MaxDelay = 2
  Backstop = 2 MaxDetaches = 2 MaxClock = 2 MaxAtOnce = 1
  Procs = {"p1", "p2", "p3"} Pids = {"i1", "i2"} PidOf <- ReusedPid Nobody = Nobody Elder = Elder
  Commands = {"s1", "s2"} Eosh = "eosh" Bundle <- Releases UserObjects = {"u", "h1"}
  UserNames = {"hello", "tool"} Unbound = Unbound NoRecord = NoRecord
  MaxStops = 1 MaxIssued = 5 MaxTogether = 2
  Loaders = {"l1", "l2"} Keys = {"k1", "k2"} Budget = 1 NoDir = NoDir NoFileYet = NoFileYet
  MaxLoads = 3 MaxGcs = 1 MaxCacheKills = 1 MaxUses = 2
INVARIANTS HostedTypeOK OneOwner LiveSessionsStay NamesKeepTheirOwner LookupsAreWhole
PROPERTIES
  WholeOperations NeverWedged RestartsAreAllowed ServedInTime
  SweepsAreThorough StartsFinish
CHECK_DEADLOCK FALSE
