SPECIFICATION Spec
SYMMETRY Alike
CONSTANTS
  e1 = e1  e2 = e2  owner = owner  procurer = procurer  a = a  b = b
  Events = {e1, e2}
  Tenants = {owner, procurer}
  Owner = owner
  Graphs <- SomeGraphs
  Callers = {a, b}
  Brings = {TRUE}
  Absent = Absent
  MaxDeploys = 2
  MaxOthers = 1
INVARIANT OwnerRowsMatchTheGraph
PROPERTY ActivationIsComplete
PROPERTY TenantsAreApart
CHECK_DEADLOCK FALSE
