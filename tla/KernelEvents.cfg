CONSTANTS
  NTASK = 3
  NBoot = 3
  Idle = 1
  Irqs = {1}
  MaxGen = 0
  BadBuffers = TRUE
  Mortal <- Programs
  Killable <- NotFirst
  WaitIds <- Spawned
  Calls <- EventCalls
SPECIFICATION Spec
INVARIANTS
  NoMissedRendezvous

  
CHECK_DEADLOCK FALSE
