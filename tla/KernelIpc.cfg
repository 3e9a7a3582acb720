CONSTANTS
  NTASK = 4
  NBoot = 3
  Idle = 1
  Irqs = {}
  MaxGen = 1
  BadBuffers = FALSE
  Mortal <- Programs
  Killable <- Programs
  WaitIds <- Spawned
  Calls <- LoaderCalls
SPECIFICATION Spec
INVARIANTS
  QueueSound
  BlockedHasReason
  NobodyWaitsForTheDead
PROPERTIES
  AnsweredOnce
  NoOvertaking
  ImplementsRendezvous
