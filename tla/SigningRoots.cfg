SPECIFICATION Spec
CONSTANTS
  Requests <- SomeRequests
  NoRequest = NoRequest
  MaxServed = 3
  DEPOSIT_CONTRACT_TREE_DEPTH = 4
INVARIANTS TableIntact RootAsSpecified RootsTellApart
