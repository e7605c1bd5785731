SPECIFICATION Spec
CONSTANTS
    Calls = {c1, c2, c3}
    Files = {f1, f2}
    SessionMax = 1
    MaxEdits = 2
    Commands = {"open", "refresh", "evict", "serve"}
    Faults = {"lock", "crash", "unlink", "deadline"}
    None = None
SYMMETRY Symmetry
CHECK_DEADLOCK FALSE
INVARIANTS
    TypeOK
    PayloadsLeaveOnlyWhenDue
    SessionsLeaveOnlyWhenDue
    PayloadsAreAccounted
PROPERTY AnswersAreCurrent
