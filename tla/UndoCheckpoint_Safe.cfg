SPECIFICATION Spec
CONSTANTS
    Files = {f1, f2, f3}
    Faults = {"unreadable", "unlink", "copy", "torn", "revert", "interrupt", "lost", "edit", "undated", "stat"}
SYMMETRY Symmetry
INVARIANTS
    TypeOK
    AbortLosesNothing
    NoMutationBeforeStaged
    DoneMeansRestored
    LossIsDisclosed
