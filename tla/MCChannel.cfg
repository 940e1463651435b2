SPECIFICATION Spec
CONSTANTS
  c1 = c1
  c2 = c2
  c3 = c3
  gui = gui
  cli = cli
  Callers = {c1, c2, c3}
  Procs = {gui, cli}
  Home <- MCHome
  Nobody = Nobody
  MaxToken = 2
CONSTRAINT Claimed
INVARIANTS TypeOK
PROPERTIES OnePush Healed
