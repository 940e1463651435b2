SPECIFICATION FairCatalog
CONSTANTS
  Apps = {calc, notes}
  Noise = {notes}
  Essential = {}
  Hashed = {notes}
  Edited = {calc}
  Tray = tray
  Refreshers = {window}
  MaxVersion = 1
  MaxEdits = 2
  MaxFaults = 1
CONSTRAINT OneBackfills
INVARIANTS CatalogTypeOK HideKept
PROPERTIES Mirrored
