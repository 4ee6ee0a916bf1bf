CONSTANTS
  f = f
  s = s
  e = e
  NoError = NoError
  EmptyString = EmptyString
  Sendable <- MCSendable
  Strings <- MCStrings
  Junk <- MCJunk
  MaxFrames = 2

SPECIFICATION Spec
CHECK_DEADLOCK FALSE

INVARIANT TypeOK
INVARIANT RoundTrip
INVARIANT SurvivesRoundTrip
