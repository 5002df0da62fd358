SPECIFICATION Spec
CONSTANTS
    app = app
    newApp = newApp
    Scope <- MCScope
    Key = {1, 2}
    Instance = "prod"
    OtherInstance = "staging"
    Bundle <- MCBundle
    Push <- MCPush
    Session = {s1, s2}
    Request = {r1}
    MaxOutstanding = 1
    MaxBoots = 2
    MaxBuffers = 5
SYMMETRY SessionSymmetry
INVARIANTS
    TypeOK
    KeyBytesOwned
    SealedHoldsNoScope
    NoZeroedWrite
    WrittenByOwner
PROPERTIES
    SingleAttempt
    KeeperOnlyReseeds
    NoRollback
