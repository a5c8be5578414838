SPECIFICATION FairSpec
CONSTANTS
  c1 = c1
  c2 = c2
  Clients <- MCClients
  Main = Main
  MaxDisturbed = 1
  MaxWaiting = 2
  Settings <- AnyTrouble
INVARIANTS ResponseFits
PROPERTIES HandlersEnd
CHECK_DEADLOCK FALSE
