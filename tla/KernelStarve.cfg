CONSTANTS
  NTASK = 3
  NBoot = 2
  Idle = 1
  Irqs = {}
  MaxGen = 1
  BadBuffers = FALSE
  Mortal <- Programs
  Killable <- Programs
  WaitIds <- Spawned
  Calls <- RoundCalls
SPECIFICATION FairSpec
PROPERTIES
  RunnableRuns
