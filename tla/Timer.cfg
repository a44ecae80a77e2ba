SPECIFICATION FairSpec
CONSTANTS
  owner = owner
  other = other
  callback = callback
  Caller = {owner, other, callback}
  Owners = {owner}
  Callback = callback
  Starts = 2
  Restarts = 2
  MaxTimeout = 1
  MaxAge = 1
INVARIANT
  OneThread
PROPERTY
  NotEarly
  TimerFires
