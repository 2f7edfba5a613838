CONSTANTS
  q1 = q1
  kw = kw
  kr = kr
  small = small
  large = large
  huge = huge
  Queue = {q1}
  Key = {kw, kr}
  Registration <- MCRegistration
  Blob = {small}
  Size <- MCSize
  MaxBlobLen = 1
  MaxQueueLen = 2
  BlobLife = 1
  QueueLife = 2
  Lag = 1
  Conn = {c1, c2}
  Challenge = {h1, h2}
  MaxClock = 3
  MaxStarts = 1
SPECIFICATION Spec
SYMMETRY MCSymmetry
INVARIANT ForgottenAtHangup
CHECK_DEADLOCK FALSE
