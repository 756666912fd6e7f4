\* Two owners of either kind, one upload of one part, two digests, creations and
\* deletions racing with the upload and with each other.
SPECIFICATION IntakeSpec
CONSTANTS
    Owners = {alice, guest}
    Anonymous = {guest}
    Creators = {i1, i2}
    NoCreator = NoCreator
    Uploads = {u1}
    Digests = {d1, d2}
    NoDigest = NoDigest
    BackendParts = {b1, b2}
    DeclaredSizes = {1}
    ChunkSizes = {1}
    PartTries <- MCOnePartTry
    SessionTTL = 1
    MaxSkew = 0
    MaxClock = 1
    MaxInFlight = 2
    JobIds = {j1, j2, j3}
    MaxJobCalls = 2
SYMMETRY IntakeSymmetry
INVARIANTS
    TypeOK
    SnapshotCurrent
    CreationsAgree
PROPERTIES
    ImplementsFlow
