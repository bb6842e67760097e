\* A send and a close between the two steps of a recv.
CONSTANTS
  Messages <- NonEmpty
  RecvLens = {1, 2}
  MaxSent = 4
  MaxPackets = 3
SPECIFICATION Spec
INVARIANT EofMeansDrained
