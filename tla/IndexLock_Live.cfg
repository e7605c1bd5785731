SPECIFICATION FairSpec
CONSTANTS
    Calls = {c1, c2}
    Nobody = Nobody
    StaleAfter = 4
    Timeout = 6
    BeatEvery = 1
    Lag = 1
    Faults = {"crash", "write", "beatread", "utime", "denied"}
PROPERTIES
    EveryWaitEnds
