\* Every setting at its bounds, and the settings that are checked together.
SPECIFICATION Spec
CONSTANTS
    MaxInt32 = 70000
    Environments <- MCEnvironments
    Closers = {c1, c2}
    NoCloser = NoCloser
SYMMETRY CloserSymmetry
INVARIANTS
    StartsAsConfigured
    NothingLeaks
    CloseTruthful
CHECK_DEADLOCK FALSE
