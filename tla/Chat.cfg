CONSTANTS
  Conns = {c1, c2}
  Incoming = {x, y, z}
  Room = 2
  QueueLen = 1

SPECIFICATION FairSpec
CHECK_DEADLOCK FALSE

INVARIANT TypeOK
INVARIANT ClosedOnce
INVARIANT NoGaps
PROPERTY DisconnectStopsBoth
PROPERTY DroppedIsDisconnected
