SPECIFICATION LiveSpec
CONSTANTS
  s1 = s1  s2 = s2  t1 = t1  t2 = t2  u1 = u1  u2 = u2
  Servers = {s1}
  Tasks = {t1, t2}
  Users = {u1, u2}
  NoOne = NoOne
  Direct = {t2}
  MaxMishaps = 1
INVARIANT WorklistAgreesUndisturbed
PROPERTY OnlyRepeatsTakeTasksAway
PROPERTY EveryCallbackIsBroadcast
CHECK_DEADLOCK FALSE
