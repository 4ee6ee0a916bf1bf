CONSTANTS
  Messages = {m1, m2}
  Garbage = {g}
  Conns = {c1, c2}
  None = None
  MaxCloses = 1

SPECIFICATION FairSpec
CHECK_DEADLOCK FALSE

INVARIANT TypeOK
INVARIANT PoolSound
INVARIANT NoNilSub
INVARIANT FailsForCause
INVARIANT ClosedIsUnsubscribed
PROPERTY ImplementsPubSub
PROPERTY PushedIsReceived
