SPECIFICATION LiveSpec
CONSTANTS
  start = start
  t1 = t1
  t2 = t2
  item = item
  multi = multi
  Workers = {w1, w2}
  Subjects = {start, t1, item}
  Tokens = {t1}
  Sticky = {}
  Start = start
  Copies = {1, 2}
  First = 1
  EventCounts = {2}
  MaxMishaps = 1
INVARIANT QueueInv
INVARIANT EventLogContiguous
INVARIANT OpenSubjectsHaveWork
INVARIANT AppliedAtMostOnce
PROPERTY ImplementsAtomicInstance
PROPERTY EveryContinuationIsDone
CHECK_DEADLOCK FALSE
