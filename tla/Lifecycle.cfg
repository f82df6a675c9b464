SPECIFICATION Spec
CONSTANTS
  a = a  b = b  w1 = w1  key = key
  Ids = {1, 2, 3, 4}
  Callers = {a, b}
  KeyOf <- OneKey
  Deferred = {a}
  Workers = {w1}
  Family <- Chain
  Running = {2}
  Adoptable <- Late
  Purgeable = {1}
  Logs = {"events"}
  Absent = Absent
  MaxClaims = 2
  MaxPurges = 1
  MaxMishaps = 1
INVARIANT CallersAgree
INVARIANT PurgeLeavesNothing
INVARIANT LifecycleInv
PROPERTY NothingComesBack
CHECK_DEADLOCK FALSE
