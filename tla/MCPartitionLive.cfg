SPECIFICATION FairSpec
CHECK_DEADLOCK FALSE
CONSTANTS
  NsPerTick = 1
  StopLeeway = 1
  TimeLimit = 1
  TimeMax = 20
  Writers = {"w1"}
  Sources = {"s1"}
  SourceOf <- MCSourceOf
  Start = 2
  InitialStops = {20}
  StopTimes = {1}
  Repeats = {FALSE}
  TimeStamps = {1, 3}
  Kinds <- MCFewKinds
  PauseValues = {TRUE, FALSE}
  MaxTime = 3
  MaxLog = 1
  MaxCalls = 1
  Marks = 2
PROPERTIES
  EndsWhenTold
  FinishesAfterStop
