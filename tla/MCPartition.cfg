SPECIFICATION Spec
CHECK_DEADLOCK FALSE
CONSTANTS
  NsPerTick = 1
  StopLeeway = 1
  TimeLimit = 1
  TimeMax = 20
  Writers = {"w1", "w2", "w3"}
  Sources = {"s1", "s2"}
  SourceOf <- MCSourceOf
  Start = 2
  InitialStops = {1, 20}
  StopTimes = {2}
  Repeats = {FALSE}
  TimeStamps = {1, 3}
  Kinds <- MCKinds
  PauseValues = {FALSE}
  MaxTime = 4
  MaxLog = 2
  MaxCalls = 1
  Marks = 1
INVARIANTS
  StructureOK
  NotFinishedEarly
  CompleteUpToStop
  FiltersLoseNothing
