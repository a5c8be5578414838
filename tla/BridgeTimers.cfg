SPECIFICATION FairSpec
CONSTANTS
  c1 = c1
  c2 = c2
  c3 = c3
  NoOne = NoOne
  Conns <- MCConns
  Failures <- AllFailures
INVARIANTS TypeOK LineExclusive OwnResponse
PROPERTIES MutexReleased ConnectionsEnd
CHECK_DEADLOCK FALSE
