SPECIFICATION FairSpec
CONSTANTS
  j1 = j1
  j2 = j2
  j3 = j3
  Jobs <- ThreeJobs
  CounterModulus = 3
  MaxStarts = 2
INVARIANTS
  TypeOK
  FifoOnce
  AtMostOneLateJob
  StoppedMeansQuiet
  QueueCountExact
PROPERTIES
  JobEventuallyRuns
  ImplementsQueue
\* The model ends when every job was added and the bounded starts are used up.
CHECK_DEADLOCK FALSE
