SPECIFICATION StepsSpec
CONSTANTS
    Follows <- MCFollows
    MaxLines = 8
    PreambleMax = 2
    GapMax = 1
    Searched = {"word"}
CHECK_DEADLOCK FALSE
INVARIANTS ScannerIsPushdown ParseExact ReadersInScope BlocksAgree CitationsExact LociExact TalliesExact
