SPECIFICATION Spec
CONSTANTS
  CrashWindow = 1
  CrashLimit = 2
  Backoff = 1
  StopDeferAlert = 1
  AnchorGrace = 1
  Repos = {1}
  Sessions <- MCSessions
  Git = {1}
  UnderRoot = {1}
  Offered <- AnySettings
  MaxTime = 2
  MaxPid = 3
  MaxVersion = 2
  Events = {"add", "restart"}
  MaxSpawnsPerPass = 1
  Defaults <- MCDefaults
  s1 = s1
INVARIANTS ReplacementKeepsSessions
