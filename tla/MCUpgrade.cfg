SPECIFICATION Spec
CONSTANTS
  Clis = {c1}
  Gui = gui
  MaxVersion = 2
CONSTRAINT Claimed
INVARIANTS TypeOK StampTrue
PROPERTIES Settled
