SPECIFICATION JSpec
CHECK_DEADLOCK FALSE
CONSTANTS
  FileNames = {"", "x", "y"}
  Structures <- MCStructures
  InitialisedFile <- initStructure
  Registry <- MCRegistry
  MaxJobs = 2
  MaxHdfFaults = 1
INVARIANTS
  StructureOK
  DatasetsHoldTheirValues
  MetaDataOfThisJob
  StreamsBecomeSources
PROPERTIES
  FinishedFilesStay
