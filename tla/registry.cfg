SPECIFICATION FairSpec
CONSTANTS
  Dirs = {1, 2}
  Git = {1}
  Flags <- MCFlags
  Legacy <- MCLegacy
  Registered <- MCRegistered
  DefaultSpawn = "worktree"
  MaxCrashes = 1
INVARIANTS TypeOK RegisteredIsTrusted TablesKept
PROPERTIES RegistryIsAtomic Migrates
