SPECIFICATION MCSpec
CHECK_DEADLOCK FALSE
CONSTANTS
  MaxMessageQueueSize = 1
  MessageAdditionLimit = 1
  Endpoints = 2
  Bytes = 2
  MaxErrors = 2
  ReporterList <- MCReporterList
  Metric = {"a", "b", "c"}
  FullName <- MCFullName
  Unnamed = {"c"}
  SinkTypes <- MCSinkTypes
  None = "none"
  MaxLines = 2
  MinTimeout = 2
  MaxTimeout = 3
  WaitForStop = 1
  MaxSignals = 2
INVARIANTS
  SentInOrder
  NoDanglingCounter
PROPERTIES
  EventuallySent
  SignalsEndProgram
