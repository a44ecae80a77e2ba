SPECIFICATION FairSpec
CONSTANTS
  job = job
  other = other
  Sender = {job, other}
  Worker = {job, other}
  Calls <- OneEach
  Depth = 1
CHECK_DEADLOCK FALSE
PROPERTY
  SenderUnblocked
