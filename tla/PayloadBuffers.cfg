CONSTANTS
  small = small
  large = large
  plain = plain
  boom = boom
  Payloads <- MCPayloads
  Plain <- MCPlain
  SizeOf <- MCSize
  Errors <- MCErrors
  Inputs <- MCInputs
  Writers = {w1, w2}
  WireIds = {x1, x2}
  Servers = {s1, s2}
  MaxKept = 2
  Gens = {0, 1}
  Nil = Nil
  Junk = Junk

SPECIFICATION Spec
SYMMETRY Interchangeable
VIEW ReadableState

INVARIANT TypeOK
INVARIANT EncodedFaithful
INVARIANT HandedOverIntact
INVARIANT KeptBounded
