SPECIFICATION FairSpec
CONSTANTS
  Client = {c1, c2}
  Observer = {c2}
  Root = {r1, r2}
  Stamp <- FewStamps
  MaxSize = 1
  Budget = 1
  Cap = 1
  LongMax = 3
  None = None
  c1 = c1
  c2 = c2
  r1 = r1
  r2 = r2
INVARIANT InFlightRegistered
PROPERTIES EngineReleased ObserversAnswered
