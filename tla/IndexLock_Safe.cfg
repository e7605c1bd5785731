SPECIFICATION Spec
CONSTANTS
    Calls = {c1, c2, c3}
    Nobody = Nobody
    StaleAfter = 4
    Timeout = 6
    BeatEvery = 1
    Lag = 1
    Faults = {"crash", "unlink", "write", "denied"}
SYMMETRY Symmetry
INVARIANTS
    TypeOK
    StaleVerdictIsRight
    ExclusiveUntilAbandoned
    TimeoutMeansContentionOrRefusal
PROPERTY ImplementsMutex
