SPECIFICATION Spec
CHECK_DEADLOCK FALSE
CONSTANTS
  Topics <- MCThree
  Null = Null
  InitialStops = {1, 4}
  StopTimes = {2}
  MaxQueuedWrites = 1
  Faults = {"stream"}
  Commands = {}
  MaxMessages = 1
  MaxTime = 3
INVARIANT
  StreamersAreValid
