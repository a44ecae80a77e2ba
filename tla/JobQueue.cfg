SPECIFICATION QSpec
CONSTANTS
  a = a
  b = b
  c = c
  w1 = w1
  w2 = w2
  t1 = t1
  t2 = t2
  Job = {a, b, c}
  Listened = {a, b, c}
  Worker = {w1, w2}
  Thread = {t1}
  PriorityOf <- Low
  KeyOf <- Twins
  m_jobsAtOnce = 1
  m_lifo = TRUE
  max_workers = 5
CHECK_DEADLOCK FALSE
INVARIANTS
  EntriesSound
  SlotsFilled
  CallbacksOwed
