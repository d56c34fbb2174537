SPECIFICATION Spec
CONSTANTS
  CrashWindow = 1
  CrashLimit = 2
  Backoff = 1
  StopDeferAlert = 1
  AnchorGrace = 1
  Repos = {1}
  Sessions <- MCSessions
  Git = {1}
  UnderRoot = {1}
  Offered <- MCOffered
  MaxTime = 2
  MaxPid = 3
  MaxVersion = 2
  Events = {"death", "remove", "restart", "noversion", "exception", "tornmeta"}
  MaxSpawnsPerPass = 1
  Defaults <- MCDefaults
  s1 = s1
INVARIANTS StopIsSafe EverySupervisorOwned CrashesAreDeaths
PROPERTIES RolloutAlertTruthful
