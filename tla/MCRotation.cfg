SPECIFICATION FairSpec
CONSTANTS
  Procs = {p1}
  Overlap = FALSE
  Commands = {"ready", "rotate", "sync"}
  MaxPasswords = 3
  MaxFaults = 4
INVARIANTS TypeOK SettledAgrees LaunchLogsIn
PROPERTIES RefinesCredential PendingResolves
