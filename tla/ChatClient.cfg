CONSTANTS
  a = a
  r = r
  u = u
  b = b
  Incoming <- MCIncoming
  KindOf <- MCKindOf
  Sockets = {s1, s2, s3}
  Outgoing = {x, y}
  MaxBackoff = 2
  MaxConsole = 1
  MaxOutages = 2
  None = None

SPECIFICATION FairSpec
CHECK_DEADLOCK FALSE

INVARIANT TypeOK
INVARIANT OneWebsocket
INVARIANT NeverStranded
PROPERTY SettlesDown
