SPECIFICATION Spec
CONSTANTS
  d1 = d1
  d2 = d2
  h = h
  Host = {h}
  Manual = {d1, d2}
  Fallback = {}
  Setting <- MCSetting
  MaxBuild = 2
  None = None
SYMMETRY Symmetry
INVARIANTS AnsweredOnce NoStrayLaunch StaleOnlyIfRebuilt
PROPERTIES OthersKeepTheirs GetsOn
CHECK_DEADLOCK FALSE
