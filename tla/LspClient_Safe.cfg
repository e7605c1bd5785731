SPECIFICATION FairSpec
CONSTANTS
    Calls = {c1, c2}
    Servers = {s1, s2}
    MaxId = 2
    Stoppers = {c2}
    Faults = {"die", "slow", "stall", "garble"}
    Nobody = Nobody
    Closed = Closed
CHECK_DEADLOCK FALSE
INVARIANTS
    TypeOK
    NoServerIsOrphaned
    AnswersMatch
    WaitersAreReachable
PROPERTIES
    EveryCallEnds
