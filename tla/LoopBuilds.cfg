SPECIFICATION FairSpec
CONSTANTS
  Settings <- AllBuilds
  MAXBUF = 6
  SIZE_MAX = 20
  Limit = 3
  Fifo = 1
  Requests <- RequestNames
  Form <- Forms
  NoReq = NoReq
  MaxQueued = 1
INVARIANTS TypeOK HandledWhole ResponseOwn
PROPERTY AnsweredWhenClear
CHECK_DEADLOCK FALSE
