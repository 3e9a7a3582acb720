SPECIFICATION Spec
CONSTANTS
  s = s
  c = c
  Shell = s
  Child = c
  Nobody = Nobody
  Keys = {"x", "y", "space", "cr", "nul", "bs", "word", "kill", "intr", "eof", "iac", "will", "sb", "se"}
  Scripts <- SomeScripts
  FIFO = 2
  RING = 3
  TTY_LINE = 3
  TTY_QUEUE = 4
  Lens = {2}
  Threads = {1, 2}
  Patient = TRUE
  MaxMoves = 3
CHECK_DEADLOCK FALSE
INVARIANTS NobodyWaitsInVain TypedOnce
 
