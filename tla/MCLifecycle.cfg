SPECIFICATION FairSpec
CONSTANTS
  Procs = {p1}
  Overlap = FALSE
  Commands = {"start", "stop", "refresh"}
  MaxDaemons = 3
  MaxManifest = 2
  MaxFaults = 2
INVARIANTS TypeOK
PROPERTIES RefinesSlot StopStops RefreshSpares Refreshed StartReturns
