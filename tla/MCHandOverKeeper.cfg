SPECIFICATION FairSpec
CONSTANTS
    app = app
    newApp = newApp
    p1 = p1
    p2 = p2
    p3 = p3
    m1 = m1
    m2 = m2
    k1 = k1
    Scope <- TwoScopes
    Key = {1, 2, 3}
    Instance = "prod"
    Replicas = 2
    Created <- Apart
    Command = {p1, p2, p3}
    Kind = {"rotate", "run", "unseal"}
    Machine = {m1, m2}
    Keeper = {k1}
    MachineOf <- TwoMachines
    FirstKeys <- MCFirstKeys
    Scene <- Fleet
CHECK_DEADLOCK FALSE
PROPERTIES
    NoKeyTaken
    FreshReseedKeepsWhole
    HandOverNeverUnseals
    KeyringsGrow
    RestartsHealed
