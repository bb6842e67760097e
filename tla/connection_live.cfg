\* One socket per process besides the listening one, fair calls.
CONSTANTS
  Procs = {p, q}
  Slots = {s1}
  Conns = {c1, c2}
  NULL = NULL
  NonblockConnect = {p}
  NonblockAccept = {q}
  ListenPort = listenPort
  OwnPorts = {ownPort}
  MaxList = 3
SPECIFICATION FairSpec
PROPERTIES CloseReturns ConnectReturns AcceptReturns
