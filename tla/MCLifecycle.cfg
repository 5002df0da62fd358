SPECIFICATION FairSpec
CONSTANTS
    b1 = b1
    b2 = b2
    Name <- MCName
    NoName = NoName
    MaxMints = 2
    MaxRoots = 2
    MaxFaults <- MCMaxFaults
    Kind <- MCKind
    Option <- MCOption
    MaxCommits = 2
CHECK_DEADLOCK FALSE
INVARIANTS
    NoOrphan
    TrustRootShared
    ImagesWhole
    ApprovedOnly
PROPERTIES
    ReleaseConverges
