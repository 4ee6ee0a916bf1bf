CONSTANTS
  MaxUint32 = 1
  MaxInt64 = 2
  EmptyText = ""
  Texts <- MCTexts
  Targets <- MCTargets
  Payloads <- MCPayloads
  Others <- MCOthers

SPECIFICATION StructSpec
CHECK_DEADLOCK FALSE

INVARIANT StructTypeOK
INVARIANT DecodesWhatItNames
INVARIANT RefusedForCause
