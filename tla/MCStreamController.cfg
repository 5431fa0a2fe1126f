SPECIFICATION FairSpec
CHECK_DEADLOCK FALSE
CONSTANTS
  Topics <- MCTwo
  Null = Null
  InitialStops = {3}
  StopTimes = {1}
  MaxQueuedWrites = 1
  Faults = {"metadata", "topic", "stream"}
  Commands = {"setStopTime", "stopNow"}
  MaxMessages = 1
  MaxTime = 2
INVARIANTS
  StructureOK
  SuccessIsComplete
PROPERTIES
  StreamsFollowContract
  PausedStreamsResume
  
