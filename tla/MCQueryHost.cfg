SPECIFICATION FairSpec
CONSTANTS
  c1 = c1
  c2 = c2
  Connection = {c1, c2}
  Kind = {"embedded", "dedicated"}
  None = None
INVARIANTS StopClosesAll RowIsTrue
PROPERTIES ForeignRowStays ToldToEnd
CHECK_DEADLOCK FALSE
