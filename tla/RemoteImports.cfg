SPECIFICATION RemoteSpec
CONSTANTS
  s0 = s0
  s1 = s1
  s2 = s2
  s3 = s3
  p0 = p0
  p1 = p1
  p2 = p2
  p3 = p3
  Scalars = {s0, s1, s2, s3}
  ZeroScalar = s0
  NotHex = NotHex
  PubKeys = {p0, p1, p2, p3}
  ZeroBytes = ZeroBytes
  sk_to_pk <- PkOf
  MAX_KEYSTORE_SIZE = 2
  UID_KEYSTORE = 1
  UID_KEYSTORE_SIZE = 11
  Absent = Absent
  None = None
  Faults <- PowerOnly
  Files <- MixedFiles
  KeyMem = 2
  Leftovers = {s0}
  SignBodies <- AllBodies
  MaxLeaks = 1
INVARIANTS ImportedAreStored ConfirmedSurvive PassedAreStored
PROPERTY ImportsEnd
