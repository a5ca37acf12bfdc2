SPECIFICATION FairSpec
CONSTANTS
  w1 = w1
  w2 = w2
  w3 = w3
  Worker = {w1, w2, w3}
  N = 4
INVARIANT NoHole
PROPERTY Ends
CHECK_DEADLOCK FALSE
