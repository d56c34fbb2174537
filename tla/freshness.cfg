SPECIFICATION FairSpec
CONSTANTS
  Sessions = {s1}
  Hook = TRUE
  AlertAfter = 2
  MaxCommits = 1
  MaxRestarts = 1
  MaxFailures = 2
INVARIANTS TypeOK OneAlertPerStreak HookFollowsMove StaleExplained
PROPERTIES RewrittenOnce KeepsUp OutageReported
