SPECIFICATION FairSpec
CONSTANTS
  Runs = {r1, r2}
  RetryMaxDays = 1
  RetryMaxLaunchesPerDay = 1
  MaxRetries = 2
  DayParts = 1
  LastDay = 2
  CountBound = 3
INVARIANT TypeOK
INVARIANT DailyCapPerRun
INVARIANT BudgetPerRun
INVARIANT PausedLaunchesOnce
PROPERTY QueueEnds
CHECK_DEADLOCK FALSE
