\* The server starts twice, the client once.
CHECK_DEADLOCK FALSE
CONSTANTS
  srv = srv
  c1 = c1
  r1 = r1
  r2 = r2
  Server = srv
  Clients = {c1}
  Regions = {r1, r2}
  Blocks = {k1, k2}
  Bases = {b1, b2}
  NULL = NULL
  Missing = Missing
  Empty = Empty
  Setup <- MCSetup
  OwnAddress <- MCOwn
  RemoteAddress <- MCRemote
  Listen <- MCListen
  Eventful = {srv}
  Dests = {0, 1, 2, 3}
  MAX_INTERFACES = 2
  MaxSockets = 1
  MaxStarts <- MCStarts
SPECIFICATION FairSpec
INVARIANTS TypeOK  AddresseeAccepts 
PROPERTY ConnectIsNoticed
