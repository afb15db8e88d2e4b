SPECIFICATION Spec
CONSTANTS
  ChannelCount = 2
  Setups <- MCSetups
  Requests <- MCRequests
  Values = {0, 1, 1023}
  Offsets <- MCOffsets
  MaxFailures = 3
CHECK_DEADLOCK FALSE
INVARIANTS SamplesInPlace ReportFresh
