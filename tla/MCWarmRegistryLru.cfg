SPECIFICATION Spec
CONSTANTS
  Client = {c1}
  Observer = {}
  Root = {r1, r2, r3}
  Stamp <- MCStamp
  MaxSize = 2
  Budget = 1
  Cap = 2
  LongMax = 4
  None = None
  c1 = c1
  r1 = r1
  r2 = r2
  r3 = r3
SYMMETRY Symmetry
INVARIANT RegistrySound
PROPERTIES FreshSections ImplementsLru
