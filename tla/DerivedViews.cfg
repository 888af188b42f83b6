CONSTANTS
    FirstDay = 5
    LastDay = 8
    MaxGapDays = 2
    SkipRetryDays = 1
    WindowDays = 3
    MaxCrashes = 1
SPECIFICATION ViewsFairSpec
INVARIANTS UnansweredDaysPlanned TodayDescribesTape
PROPERTIES EveryDayAnswered
