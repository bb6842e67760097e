\* Tables of two entries; three numbers for sockets, two for epoll instances. The
\* process can do nothing any more when it has used up and closed all of them.
CHECK_DEADLOCK FALSE
CONSTANTS
  FD_START = 7
  POLLFD_START = 10
  SYSTEM_MAX_FD = 12
  MAX_FDS = 2
  MAX_POLLFDS = 2
  MAX_FDS_LISTEN = 2
  PollLists <- MCPollLists
  MaxNumber = 11
  Files = {3}
SPECIFICATION Spec
INVARIANTS TypeOK NumbersAreUnique OneListenerPerFd ClosedEpollForgets ListenersFollowFds PollRestores PollFailsForCause NullForCause
