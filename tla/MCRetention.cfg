CONSTANTS
  Count <- MCCount
  Age <- MCAge
  Day = 2
  MaxMessages = 3
  MaxTime = 5
  MaxClock = 3
SPECIFICATION Spec
PROPERTY KeepsWhatThePolicyNames
CHECK_DEADLOCK FALSE
