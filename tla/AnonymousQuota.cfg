\* Two sessions and two addresses, two transactions at once, one window.
SPECIFICATION Spec
CONSTANTS
    Sessions = {s1, s2}
    Secrets = {k1, k2}
    IPs = {ip1, ip2}
    SessionTTL = 1
    MaxSkew = 0
    MaxClock = 1
    MaxRequests = 0
    Connections = {c1, c2}
    Policies <- MCOnePolicy
    Charges <- MCUploadCharge
SYMMETRY QuotaSymmetry
INVARIANTS
    LimitsKept
    UsageBalanced
