SPECIFICATION FairSpec
CONSTANTS
  c1 = c1
  c2 = c2
  Client = {c1, c2}
  Calls <- TwoAndOne
  Made = 3
  Ticks = 1
CHECK_DEADLOCK FALSE
INVARIANTS
  OneHolder
  NothingLeaks
  OwnAnswer
PROPERTY
  MessagesServed
