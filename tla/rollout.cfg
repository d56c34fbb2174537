SPECIFICATION Spec
CONSTANTS
  CrashWindow = 1
  CrashLimit = 2
  Backoff = 1
  StopDeferAlert = 1
  AnchorGrace = 1
  Repos = {1, 2}
  Sessions = {}
  Git = {1, 2}
  UnderRoot = {1, 2}
  Offered <- MCOffered
  MaxTime = 2
  MaxPid = 4
  MaxVersion = 2
  Events = {}
  MaxSpawnsPerPass = 2
  Defaults <- MCDefaults
PROPERTIES RolloutAlertCoversFleet
