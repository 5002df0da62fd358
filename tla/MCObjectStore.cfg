SPECIFICATION Spec
CONSTANTS
    own = own
    app = app
    r1 = r1
    r2 = r2
    FrameSize = 2
    Key = {own, app}
    AppKey = {app}
    Replica = {r1, r2}
    Absent = Absent
    MaxWrites = 2
    MaxRotations = 1
    MaxCuts = 1
SYMMETRY Replicas
CHECK_DEADLOCK FALSE
INVARIANTS
    OperatorReadsAll
    SweepRetires
    DownloadsWhole
PROPERTIES
    RekeyKeepsReadable
