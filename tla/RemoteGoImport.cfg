SPECIFICATION FairSpec
CONSTANTS
  c1 = c1
  c2 = c2
  Clients <- MCClients
  Main = Main
  MaxDisturbed = 1
  MaxWaiting = 3
  Settings <- SilentImport
PROPERTIES StartUpEnds
CHECK_DEADLOCK FALSE
