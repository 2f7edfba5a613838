CONSTANTS
  WindowLen = 4
  Top = 8
  MaxCrashes = 2
SPECIFICATION Spec
INVARIANT TypeOK
INVARIANT HandedOnOnce
INVARIANT NoTagTwice
PROPERTY ToleratesReordering
CHECK_DEADLOCK FALSE
