\* A slot is used again.
CONSTANTS
  FD_START = 7
  POLLFD_START = 10
  SYSTEM_MAX_FD = 12
  MAX_FDS = 2
  MAX_POLLFDS = 2
  MAX_FDS_LISTEN = 2
  PollLists <- MCPollLists
  MaxNumber = 11
  Files = {3}
SPECIFICATION Spec
INVARIANT ListenerIsOfItsNumber
