SPECIFICATION FairSpec
CONSTANTS
  Jobs = {"j1", "j2"}
  Default = "default"
  ControlTopics = {"control"}
  None = "none"
  Own = "own"
  Never = 9
  PoolCommands <- MCFewPoolCommands
  TopicCommands <- MCStartsOnControl
  Faults = {}
  MaxPool = 1
  MaxCommands = 2
  MaxTime = 2
  MaxSkew = 0
PROPERTY
  StopCommandFindsJob
CHECK_DEADLOCK FALSE
