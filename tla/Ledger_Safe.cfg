SPECIFICATION Spec
CONSTANTS
    Calls = {c1, c2, c3, c4}
    Agents = {alice, anonymous}
    Anonymous = anonymous
    Topics = {t1}
    Artifacts = {a1, a2}
    Inflated = {a2}
    TTLs = {2, 9}
    ClaimCap = 2
    FindingCap = 2
    ByteCap = 2
    Commands = {"claim", "release", "record", "find"}
    Faults = {"lock", "index", "crash", "unlink", "damage", "read"}
    None = None
SYMMETRY Symmetry
CHECK_DEADLOCK FALSE
INVARIANTS
    TypeOK
    OverlapIsReported
    ClaimsLeaveOnlyWhenDue
    FindingsLeaveOnlyWhenDue
    ListedHaveBlobs
    NoBlobIsForgotten
PROPERTY AlarmIsHonest
