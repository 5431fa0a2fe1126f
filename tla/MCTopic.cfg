SPECIFICATION FairSpec
CHECK_DEADLOCK FALSE
CONSTANTS
  PartitionIDs <- MCPartitionIDs
  Null = "null"
  OffsetEnd <- MCOffsetEnd
  Start = 2
  StartLeeway = 1
  InitialStops = {2}
  StopTimes = {1}
  MinMetadataTimeout = 2
  MaxMetadataTimeout = 3
  MetaDataGiveUp = 1
  OldLogs <- MCOldLogs
  Stamps = {0, 1}
  Faults = {"metadata", "consumer"}
  MaxTime = 2
  MaxLog = 2
  MaxSent = 1
INVARIANTS
  StructureOK
  NoKnownMessageSkipped
PROPERTIES
  ImplementsContract
  TopicEnds
