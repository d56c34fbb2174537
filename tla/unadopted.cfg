SPECIFICATION FairSpec
CONSTANTS
  CrashWindow = 1
  CrashLimit = 2
  Backoff = 1
  StopDeferAlert = 1
  AnchorGrace = 1
  Repos = {1}
  Sessions = {}
  Git = {}
  UnderRoot = {1}
  Offered <- MCSameDir
  MaxTime = 2
  MaxPid = 1
  MaxVersion = 1
  Events = {"remove", "restart"}
  MaxSpawnsPerPass = 1
  Defaults <- MCDefaults
  s1 = s1
PROPERTIES Retires
