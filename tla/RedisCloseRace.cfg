CONSTANTS
  Messages = {m1, m2}
  Garbage = {g}
  Conns = {c1, c2, c3}
  None = None
  MaxCloses = 1

SPECIFICATION Spec
SYMMETRY Interchangeable
CHECK_DEADLOCK FALSE

INVARIANT CloseUnsubscribes
