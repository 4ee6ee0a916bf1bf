CONSTANTS
  m1 = m1
  m2 = m2
  p = p
  Messages <- MCMessages
  Plain <- MCPlain
  Size <- MCSize
  Readers = {r1, r2}
  WriterBuf = 2
  ConnBuf = 2
  MayTimeout = FALSE
  MayBreak = TRUE
  None = None
  Garbled = Garbled

SPECIFICATION HungPeerSpec
CHECK_DEADLOCK FALSE

INVARIANT TypeOK
INVARIANT WholeMessages
INVARIANT NeverGarbled
PROPERTY ImplementsChannel
PROPERTY CloseLeavesNobodyInside
PROPERTY WrittenIsReceived
