SPECIFICATION Spec
CONSTANTS
  HoursPerDay = 2
  MinutesPerHour = 2
  SecondsPerMinute = 2
  MaxPeriods = 1500
  CronYears = 2
  Absent = Absent
  Throws = Throws
  Expressions <- AllExpressions
  FirstAsked <- Deployments
  Delays <- SomeDelays
  MaxFires = 4
  MaxDeploys = 2
  Horizon = 1700
INVARIANT NextIsTheNextDate
INVARIANT NoDateTwice
PROPERTY RedeployKeepsTheDate
CHECK_DEADLOCK FALSE
