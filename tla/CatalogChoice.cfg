SPECIFICATION CatalogSpec
CONSTANTS
  Apps = {calc, notes}
  Noise = {notes}
  Essential = {}
  Hashed = {}
  Edited = {notes}
  Tray = tray
  Refreshers = {}
  MaxVersion = 1
  MaxEdits = 1
  MaxFaults = 0
INVARIANTS ChoiceKept
