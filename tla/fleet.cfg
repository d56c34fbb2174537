SPECIFICATION Spec
CONSTANTS
  CrashWindow = 1
  CrashLimit = 2
  Backoff = 2
  StopDeferAlert = 2
  AnchorGrace = 1
  Repos = {1, 2}
  Sessions = {}
  Git = {1, 2}
  UnderRoot = {1, 2}
  Offered <- MCOffered
  MaxTime = 3
  MaxPid = 3
  MaxVersion = 1
  Events = {"death", "add", "remove"}
  MaxSpawnsPerPass = 1
  Defaults <- MCDefaults
INVARIANTS BackoffHonoured CrashesAreDeaths EverySupervisorOwned
PROPERTIES ImplementsFleet
