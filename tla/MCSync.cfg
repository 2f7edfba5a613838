CONSTANTS
  Message = {m1}
  RecordCapacity = 1
  Latency = 1
  MaxDoublings = 0
  MaxSendCount = 2
SPECIFICATION Spec
INVARIANT TypeOK
INVARIANT SeenIsTrue
PROPERTY RequestKeptUntilAnswered
PROPERTY EventuallyReceived
PROPERTY BothComeToKnow
PROPERTY RequestAnswered
CHECK_DEADLOCK FALSE
