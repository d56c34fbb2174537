SPECIFICATION Spec
CONSTANTS
  CrashWindow = 1
  CrashLimit = 2
  Backoff = 1
  StopDeferAlert = 1
  AnchorGrace = 1
  Repos = {1}
  Sessions = {}
  Git = {}
  UnderRoot = {1}
  Offered <- AnySettings
  MaxTime = 2
  MaxPid = 3
  MaxVersion = 1
  Events = {"death", "add", "remove", "hand", "directory", "torn", "unreadable", "oserror", "exception"}
  MaxSpawnsPerPass = 1
  Defaults <- MCDefaults
  s1 = s1
INVARIANTS BackoffHonoured CrashesAreDeaths
