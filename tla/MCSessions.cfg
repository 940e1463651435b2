SPECIFICATION FairSpec
CONSTANTS
  Procs = {p1, p2}
  Tray = tray
  Pids = {s1, s2}
  None = none
  Empty = empty
  MaxFaults = 1
INVARIANTS TypeOK Tracked Debounced
PROPERTIES Reaped Forgotten
