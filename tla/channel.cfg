\* Up to 4 bytes before the last send, fragments of 1 byte.
CONSTANTS
  Messages <- MCMessages
  RecvLens = {0, 1, 2}
  MaxSent = 4
  MaxPackets = 3
SPECIFICATION FairSpec
INVARIANTS TypeOK Contiguous EofAfterCloseIsComplete ReportedIsQueued
PROPERTIES StreamRefinement WaitingRecvReturns
