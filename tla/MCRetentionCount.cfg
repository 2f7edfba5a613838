CONSTANTS
  Count <- MCCount
  Age <- MCAge
  Day = 2
  MaxMessages = 3
  MaxTime = 3
  MaxClock = 2
SPECIFICATION Spec
PROPERTY CountKeepsMostRecent
CHECK_DEADLOCK FALSE
