SPECIFICATION Spec
CONSTANTS
  FailLimit = 1
  Always = FALSE
  After = 1
  DefaultReadingTime = 150
  JoinAttempts = 1
  Callback = Callback
  Nil = Nil
  Intervals = {30}
PROPERTY DownlinkEnds
