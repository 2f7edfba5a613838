SPECIFICATION Spec
CONSTANTS
  Identities = {"A", "B", "C"}
  Device <- MCDevice
  IdentityOf <- MCIdentityOf
  ContactOf <- MCContactOf
  RoleOf <- MCRoleOf
  FirstCertified = {"a", "b"}
  Active = {"B"}
  MaxEpoch = 3
  MaxDrawn <- MCMaxDrawn
  MaxSigned = 4
INVARIANT TypeOK
INVARIANT FinishedAgree
INVARIANT KeyUsedOnce
INVARIANT PastIsClosed
INVARIANT AsTheOwnerSaid
PROPERTY RevokedStaysOut
PROPERTY ImplementsDeviceSets
CHECK_DEADLOCK FALSE
