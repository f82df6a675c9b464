SPECIFICATION ClockSpec
CONSTANTS
  p1 = p1  p2 = p2  cycle = cycle  rule = rule  folder = folder  mailbox = mailbox  rss = rss  a = a  b = b
  Schedulers <- OneLoop
  Timers <- TwoTimers
  RuleDates <- TwoDates
  Folders <- OneFolder
  Mailboxes <- OneMailbox
  RssFeeds <- OneRssFeed
  Skipping <- OneFolder
  Items <- TwoItems
  Holds <- ShortAndLong
  Deployments <- FeedsAlone
  Interval = 1
  Repetitions = 2
  RetryBase = 1
  RetryCap = 2
  Never = Never
  MaxTime = 4
  MaxMishaps = 2
  MaxDeploys = 1
INVARIANT OneInstancePerDueTime
INVARIANT RepetitionsAreCounted
INVARIANT NoItemIsSkipped
INVARIANT ItemsStartOnce
PROPERTY PausedStaysPaused
PROPERTY ItemsAreTakenUp
