CONSTANTS
  Conns = {c1, c2}
  Incoming = {1, 2}
  Room = 1
  QueueLen = 1
  Buffered = 1
  Speakers = {c1}
  Leavers = {c2}
  Hello = Hello
  Nobody = Nobody

SPECIFICATION FairRoomSpec
CHECK_DEADLOCK FALSE

INVARIANT RoomTypeOK
INVARIANT ShownOnce
PROPERTY ReachesEveryPage
