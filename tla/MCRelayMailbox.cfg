CONSTANTS
  q1 = q1
  kw = kw
  kr = kr
  small = small
  large = large
  huge = huge
  Queue = {q1}
  Key = {kw, kr}
  Registration <- MCOneRegistration
  Blob = {small, large, huge}
  Size <- MCSize
  MaxBlobLen = 2
  MaxQueueLen = 3
  BlobLife = 0
  QueueLife = 1
  Lag = 1
  Conn = {c1, c2}
  Challenge = {h1, h2, h3}
  MaxClock = 0
  MaxStarts = 0
SPECIFICATION Spec
SYMMETRY MCSymmetry
VIEW MCView
PROPERTY ImplementsMailbox
CHECK_DEADLOCK FALSE
