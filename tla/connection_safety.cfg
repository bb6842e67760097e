\* Two processes, p with a non-blocking connect, q with a non-blocking accept.
CONSTANTS
  Procs = {p, q}
  Slots = {s1, s2}
  Conns = {c1, c2}
  NULL = NULL
  NonblockConnect = {p}
  NonblockAccept = {q}
  ListenPort = listenPort
  OwnPorts = {ownPort}
  MaxList = 2
SPECIFICATION Spec
SYMMETRY Symmetry
CONSTRAINT NoCrossing
INVARIANTS TypeOK HeldIsLive SoleHolder LeakOnlyOnSimultaneousClose OpenHasBothEnds ListExact FreedAccessOnlyThere
PROPERTIES CloseIsFinal LifecycleRefinement
