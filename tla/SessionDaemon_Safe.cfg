SPECIFICATION FairSpec
CONSTANTS
    Clients = {c1, c2}
    Daemons = {d0, d1, d2, d3}
    Outdated = {d0, d3}
    IdleLimit = {d0, d2}
    UptimeLimit = {d1}
    Commands = {"start", "autostart", "stop", "request"}
    Faults = {"slow", "crash", "die", "wedge"}
    Nobody = Nobody
CHECK_DEADLOCK FALSE
INVARIANTS
    TypeOK
    ExclusiveUntilRobbed
PROPERTIES
    HealthyMetadataIsKept
    EveryOrphanEnds
