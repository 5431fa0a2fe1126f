SPECIFICATION MCSpec
CHECK_DEADLOCK FALSE
CONSTANTS
  Kinds = {"f144", "f142", "ev42", "ev44", "se00", "senv", "tdct", "ADAr", "NDAr", "ns10", "ep00", "ep01", "al00"}
  Configs <- MCConfigs
  Messages <- MCMessages
  MaxMessages = 3
  MaxThrown = 1
  UInt32Values = 4
  Sizes <- MCSizes
  Stamps = {0, 1, 2, 4}
  HMessages <- MCHMessages
  MaxNumberHistoric = 2
  MaxAge = 2
  MaxSlices = 5
  MaxFaults = 1
INVARIANTS
  TypeOK
  DamageIsBounded
  IndexesFindTheirMessage
  
  RowsAreHistograms
PROPERTIES
  CompletedRowsStay
