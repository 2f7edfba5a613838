CONSTANTS
  Message <- MCMessage
  Graphs <- MCGraphs
SPECIFICATION Spec
INVARIANT UnmarkedIsWellFounded
INVARIANT MarkedRestsOnHorizon
PROPERTY EventuallyDelivered
CHECK_DEADLOCK FALSE
