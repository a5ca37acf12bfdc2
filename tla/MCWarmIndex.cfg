SPECIFICATION Spec
CONSTANTS
  a = a
  b = b
  x = x
  Order <- MCOrder
  Outside = {}
  Tag = {t}
  NoTag = NoTag
  Limit = {0, 1}
  MaxStamp = 2
  Flicker = FALSE
  Unprinted = Unprinted
INVARIANT WarmIsCold
PROPERTIES ServedFresh LimitHolds
