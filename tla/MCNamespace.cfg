SPECIFICATION Spec
CONSTANTS
  base = base  top = top
  p1 = p1  p2 = p2
  Query = {p1, p2}
  Project <- MCProject
  Parent <- MCParent
  MaxVersion = 3
  MaxQueries = 2
  MaxTrouble = 1
  None = None
SYMMETRY Symmetry
INVARIANTS NotOutdated ExactWhenQuiet
CHECK_DEADLOCK FALSE
