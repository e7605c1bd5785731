SPECIFICATION Spec
CONSTANTS
    Calls = {c1}
    Servers = {s1}
    MaxId = 2
    Stoppers = {}
    Faults = {"die"}
    Nobody = Nobody
    Closed = Closed
CHECK_DEADLOCK FALSE
INVARIANT NeverWaitsForItself
