SPECIFICATION Spec
CONSTANTS
  NsPerTick = 2
  Dests = {d1, d2}
  Start = 1
  StopTimes <- MCStopTimes
  AcceptsRepeated = {TRUE, FALSE}
  TimeStamps <- MCTimeStamps
  MaxMessages = 4
INVARIANTS
  TypeOK
  Accounting
  RecordsExactly
  OrderedUnlessCounted
CHECK_DEADLOCK FALSE
