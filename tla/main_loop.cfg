SPECIFICATION SpecAnswering
CONSTANTS
  FailLimit = 2
  Always = FALSE
  After = 2
  DefaultReadingTime = 150
  JoinAttempts = 2
  Callback = Callback
  Nil = Nil
  Intervals <- MCIntervals
INVARIANTS FailuresBounded StartupFirst ClockReleased ClearedStaysOff RequestKept
PROPERTIES DeadLinkLeft UptimeAnswered
