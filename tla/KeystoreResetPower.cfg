SPECIFICATION Spec
CONSTANTS
  zero = zero
  a = a
  b = b
  c = c
  pkZero = pkZero
  pkA = pkA
  pkC = pkC
  Scalars <- MCScalars
  ZeroScalar = zero
  NotHex = NotHex
  PubKeys <- MCPubKeys
  ZeroBytes = ZeroBytes
  sk_to_pk <- MCsk_to_pk
  MAX_KEYSTORE_SIZE = 3
  UID_KEYSTORE = 1
  UID_KEYSTORE_SIZE = 4
  Absent = Absent
  None = None
  Faults <- PowerOnly
INVARIANT ResetErases
