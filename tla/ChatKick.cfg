CONSTANTS
  Conns = {c1, c2}
  Incoming = {x, y, z}
  Room = 2
  QueueLen = 1

SPECIFICATION Spec
CHECK_DEADLOCK FALSE

INVARIANT KickedIsSlow
