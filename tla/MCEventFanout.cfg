SPECIFICATION FairSpec
CHECK_DEADLOCK FALSE
CONSTANTS
    s1 = s1
    s2 = s2
    Subs = {s1, s2}
    Cap = 2
    MaxSeq = 4
INVARIANTS
    TypeOK
    CaughtUp
    ResendNeverBlocks
    CloseEndsWithReset
PROPERTIES
    ImplementsFeed
    CloseCompletes
