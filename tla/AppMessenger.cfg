SPECIFICATION FairSpec
CONSTANTS
  job = job
  other = other
  Sender = {job, other}
  Worker = {job}
  Calls <- OneAndTwo
  Depth = 2
CHECK_DEADLOCK FALSE
INVARIANTS
  PayloadAlive
  HandledOnce
PROPERTY
  SendReturns
