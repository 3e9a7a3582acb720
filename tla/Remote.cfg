SPECIFICATION Spec
CONSTANTS
  c1 = c1
  c2 = c2
  Clients <- TwoClients
  None = None
  NPEND = 2
  OUTQ = 3
  VFS_DATA_MAX = 2
  NETBUF = 2
  NFD = 2
  TAGS = 8
  MaxCalls = 4
  MaxFaults = 1
CHECK_DEADLOCK FALSE
INVARIANTS AnswerIsOwn HandleIsTheirs
 
