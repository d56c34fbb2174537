SPECIFICATION Spec
CONSTANTS
  CrashWindow = 2
  CrashLimit = 2
  Backoff = 2
  StopDeferAlert = 2
  AnchorGrace = 1
  Repos = {1}
  Sessions <- MCSessions
  Git = {1}
  UnderRoot = {1}
  Offered <- MCOffered
  MaxTime = 3
  MaxPid = 3
  MaxVersion = 2
  Events = {"resume", "death", "unkillable", "tornmeta"}
  MaxSpawnsPerPass = 1
  Defaults <- MCDefaults
  s1 = s1
  s2 = s2
SYMMETRY Symmetry
INVARIANTS TypeOK StopIsSafe AnchorReplacedOnce EverySupervisorOwned
PROPERTIES ImplementsFleet
