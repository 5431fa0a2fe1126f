SPECIFICATION FairSpec
CONSTANTS
  Jobs = {"j1", "j2"}
  Default = "default"
  ControlTopics = {"control"}
  None = "none"
  Own = "own"
  Never = 9
  PoolCommands <- MCEarlierJobs
  TopicCommands <- MCFewStops
  Faults = {"create", "status"}
  MaxPool = 2
  MaxCommands = 2
  MaxTime = 2
  MaxSkew = 1
INVARIANTS
  IdleListensOnDefault
PROPERTIES
  StopCommandFindsJob
  EndsAfterStopTime
CHECK_DEADLOCK FALSE
