\* Two calls with every kind of settings, against a server that may do anything.
SPECIFICATION FairSpec
CONSTANTS
    MaxCalls = 2
    Choices <- MCChoices
INVARIANTS
    TransportKept
    OutcomeTruthful
PROPERTIES
    SendReturns
CHECK_DEADLOCK FALSE
