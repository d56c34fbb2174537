SPECIFICATION Spec
CONSTANTS
  CrashWindow = 1
  CrashLimit = 2
  Backoff = 1
  StopDeferAlert = 1
  AnchorGrace = 1
  Repos = {1}
  Sessions = {}
  Git = {1}
  UnderRoot = {1}
  Offered <- MCOffered
  MaxTime = 2
  MaxPid = 3
  MaxVersion = 1
  Events = {"remove", "unkillable"}
  MaxSpawnsPerPass = 1
  Defaults <- MCDefaults
INVARIANTS EverySupervisorOwned
