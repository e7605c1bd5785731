SPECIFICATION Spec
CONSTANTS
    Creators = {k1, k2, k3, k4}
    Scanners = {s1}
    FullScanners = {s1}
    Cap = 2
    Faults = {"copy", "index", "crash", "remove"}
SYMMETRY Symmetry
CHECK_DEADLOCK FALSE
INVARIANTS
    TypeOK
    ListedAreWhole
    NewestAreKept
    NoDirectoryIsForgotten
CONSTRAINT BeforeRace
