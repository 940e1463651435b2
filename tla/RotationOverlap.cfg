SPECIFICATION Spec
CONSTANTS
  Procs = {p1, p2}
  Overlap = TRUE
  Commands = {"ready"}
  MaxPasswords = 2
  MaxFaults = 0
INVARIANTS RestLogsIn
