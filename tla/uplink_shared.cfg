SPECIFICATION Spec
CONSTANTS
  main = main
  downlink = downlink
  Senders = {main, downlink}
  Forcing = {main}
  Attempts = 3
  Always = FALSE
  After = 3
INVARIANTS  SerialCadence
PROPERTIES PromiseSpec CallReturns
