SPECIFICATION FairSpec
CONSTANTS
  Settings <- LongHeads
  MAXBUF = 6
  SIZE_MAX = 20
  Limit = 3
  Fifo = 1
  Requests <- RequestNames
  Form <- Forms
  NoReq = NoReq
  MaxQueued = 1
PROPERTY Answered
CHECK_DEADLOCK FALSE
