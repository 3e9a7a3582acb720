SPECIFICATION Spec
CONSTANTS
  Caller = caller
  Listener = listener
  SEQ = 32
  MSS = 2
  RXQ = 2
  NOOO = 1
  RTO_TRIES = 2
  ISS <- Wrapping
  Writers = {caller}
  MaxBytes = 3
  Sizes = {1, 2}
  MaxNet = 4
  MaxFaults = 2
INVARIANTS  AckedIsTaken
 
CHECK_DEADLOCK FALSE
