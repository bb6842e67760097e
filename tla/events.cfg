\* Integers of 16 bits: a timeout of 33 ms overflows.
CONSTANTS
  Timeouts <- MCTimeouts
  IntMax = 32767
  MaxPackets = 2
  MaxPending = 2
SPECIFICATION FairSpec
INVARIANTS TypeOK NoLostWakeup NoLostHangup LevelInIsTrue TimeoutIsKept
PROPERTIES ReadyReturns ConnectReturns PendingReturns TimedWaitReturns
