SPECIFICATION Spec
CHECK_DEADLOCK FALSE
CONSTANTS
  a = a
  b = b
  Nobody = Nobody
  Clients <- Two
  Mortal <- OnlyB
  Does <- Roles
  NTCB = 2
  NPFD = 1
  NREF = 2
  DNS_TRIES = 2
  Lens = {1}
  MaxInputs = 4
INVARIANTS DeliveredOnce AnswerIsOwn 
 
