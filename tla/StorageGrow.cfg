SPECIFICATION Spec
CONSTANTS
  Admins = {a1}
  Tray = tray
PROPERTIES GrowOnlyGrows
