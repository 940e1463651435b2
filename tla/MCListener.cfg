SPECIFICATION FairSpec
CONSTANTS
  N = 3
  OddNames = {3}
  MaxInFlight = 1
  SeenSize = 3
  JanitorAge = 0
  FaultKinds = {"spawn", "load", "persist", "unlink", "crash"}
  MaxFaults = 2
  MaxWrites = 3
INVARIANTS TypeOK ReopenedByFaultOnly
PROPERTIES RefinesInbox RequestsLeave
