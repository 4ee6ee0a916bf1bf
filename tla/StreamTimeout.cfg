CONSTANTS
  m1 = m1
  m2 = m2
  p = p
  Messages <- MCMessages
  Plain <- MCPlain
  Size <- MCSize
  Readers = {r1}
  WriterBuf = 2
  ConnBuf = 2
  MayTimeout = TRUE
  MayBreak = FALSE
  None = None
  Garbled = Garbled

SPECIFICATION Spec
CHECK_DEADLOCK FALSE

INVARIANT WholeMessages
