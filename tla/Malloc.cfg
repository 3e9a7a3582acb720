SPECIFICATION Spec
CONSTANTS
  PGSIZE = 8
  HEAD = 3
  MRUNHDR = 2
  m__class <- SomeClasses
  MTRIM = 16
  DIRFIRST = 2
  PERUNIT = 2
  Sizes = {0, 2, 3, 6}
  MaxPages = 5
  MaxLive = 3
CHECK_DEADLOCK FALSE
INVARIANTS Tiled Owned 
