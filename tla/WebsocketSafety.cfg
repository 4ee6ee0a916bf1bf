CONSTANTS
  m1 = m1
  m2 = m2
  p = p
  text = text
  half = half
  double = double
  Messages <- MCMessages
  Plain <- MCPlain
  Foreign <- MCForeign
  ForeignSent <- MCForeignSent
  Size <- MCSize
  Readers = {r1, r2}
  FrameBuf = 2
  None = None
  Garbled = Garbled

SPECIFICATION Spec
CHECK_DEADLOCK FALSE

INVARIANT TypeOK
INVARIANT FramesWhole
INVARIANT FramesIsolated
PROPERTY ImplementsChannel
