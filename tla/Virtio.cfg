SPECIFICATION Spec
CONSTANTS
  VQ_SIZE = 4
  IDX = 8
  NRX = 2
  NTX = 4
  MaxFrames = 9
  Sectors = {1, 2}
  Values = {1, 2}
  MaxCalls = 4
  MaxGivenUp = 1
CHECK_DEADLOCK FALSE
INVARIANTS  NoFrameForgotten DiskAsAsked
