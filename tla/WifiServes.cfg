SPECIFICATION FairSpec
CONSTANTS
  c1 = c1
  c2 = c2
  Clients <- MCClients
  NoClient = NoClient
  MAX_CONTEXTS = 5
  MaxEvents = 2
  Settings <- AllTroubles
INVARIANTS ContextsAccounted ServesOnline
PROPERTIES ServerStarts ClientsAnswered
CHECK_DEADLOCK FALSE
