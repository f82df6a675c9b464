SPECIFICATION Spec
CONSTANTS
  p1 = p1  p2 = p2  cycle = cycle  rule = rule  folder = folder  mailbox = mailbox  rss = rss  a = a  b = b
  Schedulers <- TwoLoops
  Timers <- OneCycle
  RuleDates <- NoRule
  Folders <- None
  Mailboxes <- None
  RssFeeds <- None
  Skipping <- None
  Items <- TwoItems
  Holds <- ShortAndLong
  Deployments <- JustTheCycle
  Interval = 1
  Repetitions = 2
  RetryBase = 1
  RetryCap = 2
  Never = Never
  MaxTime = 3
  MaxMishaps = 0
  MaxDeploys = 0
INVARIANT OneInstancePerDueTime
