CONSTANTS
  MaxNesting = 2
  MaxPayloadLen = 10
  HashLen = 2
  TimestampLen = 1
  SignatureLen = 1
  MaxBodyLen = 1
  QueueIdLen = 1
  KeyLen = 2
  ProofLen = 3
  BlobIdLen = 2
  X25519Len = 1
  KemKeyLen = 2
  CiphertextLen = 3
  ContactKeyLen = 2
  CommitmentLen = 2
  Values <- MCValues
  Alphabet <- MCAlphabet
  MaxLen = 6
SPECIFICATION Spec
INVARIANT ReadsBackAsWritten
INVARIANT OneEncoding
PROPERTY VerdictsStand
CHECK_DEADLOCK FALSE
