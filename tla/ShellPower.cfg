SPECIFICATION ShellSpec
CONSTANTS
  zero = zero
  a = a
  b = b
  c = c
  d = d
  pkZero = pkZero
  pkA = pkA
  pkC = pkC
  pkD = pkD
  Scalars <- MCScalars
  ZeroScalar = zero
  NotHex = NotHex
  PubKeys <- MCPubKeys
  ZeroBytes = ZeroBytes
  sk_to_pk <- MCsk_to_pk
  MAX_KEYSTORE_SIZE = 5
  UID_KEYSTORE = 1
  UID_KEYSTORE_SIZE = 11
  Absent = Absent
  None = None
  Faults <- PowerAndRemove
  MsgTexts <- AllTexts
  Prefixes = {TRUE, FALSE}
  MaxStray = 1
INVARIANT ShellTypeOK
INVARIANT ShownKeysSurvive
INVARIANT ShownKeyIsStored
INVARIANT SignsWhatWasAsked
INVARIANT SilentImportStored
INVARIANT AnsweredIsDurable
INVARIANT ListedKeysUsable
PROPERTY CommandsEnd
PROPERTY ImplementsRegister
