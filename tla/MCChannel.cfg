CONSTANTS
  MsPerSecond = 2
  PeriodSeconds = 1
  MaxRotations = 2
  MaxFramePayload = 2
  HeaderBit = 2
  FinalBit = 8
  WindowLen = 6
  Top = 8
  MaxClockDifference = 1
  MaxLatency = 1
  Agreed = 3
  Contents <- MCContents
  MaxNow = 7
  MaxStreams = 2
SPECIFICATION Spec
INVARIANT TypeOK
INVARIANT KeysAgree
INVARIANT ThreePeriodsEnough
INVARIANT OnTimeIsRecognised
INVARIANT PassedKeysAreGone
INVARIANT ReadOnce
INVARIANT NoTagTwice
INVARIANT NoNonceTwice
INVARIANT ReadAsSent
CHECK_DEADLOCK FALSE
