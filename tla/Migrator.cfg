\* Three processes of any of four releases or with files that do not load,
\* failures and crashes at every step.
SPECIFICATION Spec
CONSTANTS
    Runners = {r1, r2, r3}
    Directories <- MCDirectories
SYMMETRY RunnerSymmetry
INVARIANTS
    LedgerTruthful
    OneHistory
PROPERTIES
    HistoryAppends
