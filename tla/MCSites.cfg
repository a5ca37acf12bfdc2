SPECIFICATION Spec
CONSTANTS
    Follows <- MCFollows
    Says <- MCSays
    MaxLines = 5
    PreambleMax = 2
    GapMax = 1
CHECK_DEADLOCK FALSE
INVARIANTS NamesHold SitesHold
