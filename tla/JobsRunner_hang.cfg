SPECIFICATION FairSpec
CONSTANTS
  j1 = j1
  j2 = j2
  j3 = j3
  Jobs <- TwoJobs
  CounterModulus = 3
  MaxStarts = 2
PROPERTIES
  StopReturns
CHECK_DEADLOCK FALSE
