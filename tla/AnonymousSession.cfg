\* One session, a second secret that is not genuine, two client addresses,
\* two calls in progress, a deadline inside the clock.
SPECIFICATION SessionSpec
CONSTANTS
    Sessions = {s1}
    Secrets = {k1, k2}
    IPs = {ip1, ip2}
    SessionTTL = 2
    MaxSkew = 1
    MaxClock = 3
    MaxRequests = 2
SYMMETRY SessionSymmetry
INVARIANTS
    LastUseTruthful
PROPERTIES
    RevocationFinal
