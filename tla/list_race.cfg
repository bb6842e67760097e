\* Blocking sockets.
CONSTANTS
  Procs = {p, q}
  Slots = {s1, s2}
  Conns = {c1, c2}
  NULL = NULL
  NonblockConnect = {}
  NonblockAccept = {}
  ListenPort = listenPort
  OwnPorts = {ownPort}
  MaxList = 2
SPECIFICATION Spec
INVARIANT RemoveRemovesItsEntry
