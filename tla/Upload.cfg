\* One upload of two parts, its owner and another one, two digests, clocks that
\* may lag by one.
SPECIFICATION Spec
CONSTANTS
    Owners = {alice, bob}
    Uploads = {u1}
    Digests = {d1, d2}
    NoDigest = NoDigest
    BackendParts = {b1}
    DeclaredSizes = {3}
    ChunkSizes = {2}
    PartTries <- MCPartTries
    SessionTTL = 2
    MaxSkew = 1
    MaxClock = 3
    MaxInFlight = 2
SYMMETRY UploadSymmetry
INVARIANTS
    ProgressExact
    AcknowledgedPartsKept
    PlansExact
    OutcomeAgreed
    SessionsAccepted
PROPERTIES
    OnlyForward
    ExpiryFinal
