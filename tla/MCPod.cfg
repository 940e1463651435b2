SPECIFICATION FairSpec
CONSTANTS
  Clients = {c1, c2}
  IdleActions = {"pause", "stop"}
INVARIANTS TypeOK HandedOver
PROPERTIES IdleOnly Served Attended
