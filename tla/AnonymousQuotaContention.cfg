\* Two transactions of any kind on the same two rows, by processes with other
\* limits and lagging clocks, while the session is used, revoked and expires.
SPECIFICATION Spec
CONSTANTS
    Sessions = {s1}
    Secrets = {k1}
    IPs = {ip1}
    SessionTTL = 1
    MaxSkew = 1
    MaxClock = 1
    MaxRequests = 1
    Connections = {c1, c2}
    Policies <- MCTwoPolicies
    Charges <- MCMixedCharges
SYMMETRY QuotaSymmetry
INVARIANTS
    DecisionsCurrent
    NoCircularWait
PROPERTIES
    RevokedSpendsNothing
