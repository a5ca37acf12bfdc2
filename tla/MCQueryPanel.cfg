SPECIFICATION FairSpec
CONSTANTS
  a = a
  b = b
  t0 = t0
  t1 = t1
  u = u
  d = d
  None = None
  File = {a, b}
  Text = {t0, t1}
  First <- MCFirst
  Keywords <- MCKeywords
  Scope = {u, d}
  Usages = {u}
  FileLimit = 2
  MaxAsk = 2
  MaxWrite = 1
INVARIANT ReadAsAsked
PROPERTIES ShownAreWanted Settled
CHECK_DEADLOCK FALSE
