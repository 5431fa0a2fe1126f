SPECIFICATION Spec
CHECK_DEADLOCK FALSE
CONSTANTS
  Jobs = {"j1", "j2"}
  Default = "default"
  ControlTopics = {"control"}
  None = "none"
  Own = "own"
  Never = 9
  PoolCommands <- MCPoolCommands
  TopicCommands <- MCTopicCommands
  Faults = {"connect", "switch", "create", "status", "job"}
  MaxPool = 2
  MaxCommands = 2
  MaxTime = 2
  MaxSkew = 0
INVARIANTS
  StateOK
  JobsReported
PROPERTIES
  PassedStopTimeStays
