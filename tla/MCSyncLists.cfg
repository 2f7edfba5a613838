CONSTANTS
  Message = {m1, m2}
  RecordCapacity = 1
  Latency = 1
  MaxDoublings = 0
  MaxSendCount = 2
SPECIFICATION Spec
PROPERTY AckOwedUntilSent
CHECK_DEADLOCK FALSE
