SPECIFICATION Spec
CONSTANTS
    Calls = {c1, c2}
    Files = {top, sub}
    Top = {top}
    Hits = {h}
    MaxEdits = 2
    Faults = {"walk", "read", "save", "swap", "spoil", "ignore"}
    Nothing = Nothing
    Alien = Alien
SYMMETRY Symmetry
CHECK_DEADLOCK FALSE
INVARIANTS
    TypeOK
    FreshMeansCurrent
    NothingIsMissed
    NothingLeaks
