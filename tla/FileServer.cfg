SPECIFICATION Spec
CONSTANTS
  a = a
  b = b
  Nobody = Nobody
  NFAT = 7
  NDATA = 4
  ROOT_SECS = 1
  SLOTS = 7
  CSZ = 2
  Base <- McBase
  Chunks <- McChunks
  Zero <- McZero
  Clients <- Two
  FS_MAXFD = 2
  Volumes <- SomeVolumes
  CutVolumes <- SomeCut
  Files <- FilePaths
  Dirs <- DirPaths
  Lens = {1, 3}
  MaxLen = 3
  MaxRequests = 4
  MaxStops = 2
  Broken = {0}
SYMMETRY Either
CHECK_DEADLOCK FALSE
INVARIANTS NoCrossLink NothingLeaked SlotIsTheirs
 
