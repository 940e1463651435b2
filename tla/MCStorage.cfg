SPECIFICATION Spec
CONSTANTS
  Admins = {a1, a2}
  Tray = tray
CONSTRAINT Claimed
INVARIANTS TypeOK Kept Found
PROPERTIES RefinesVault
