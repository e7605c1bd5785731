SPECIFICATION Spec
CONSTANTS
    Calls = {c1, c2}
    Files = {top, sub}
    Top = {top}
    Hits = {h}
    MaxEdits = 2
    Faults = {"swap"}
    Nothing = Nothing
    Alien = Alien
SYMMETRY Symmetry
CHECK_DEADLOCK FALSE
INVARIANT SwapIsRepaired
