SPECIFICATION Spec
CONSTANTS
    app = app
    newApp = newApp
    p1 = p1
    p2 = p2
    p3 = p3
    m1 = m1
    m2 = m2
    k1 = k1
    Scope <- OneScope
    Key = {1, 2, 3}
    Instance = "prod"
    Replicas = 2
    Created <- Apart
    Command = {p1}
    Kind = {"rotate", "unseal"}
    Machine = {m1}
    Keeper = {k1}
    MachineOf <- OneMachine
    FirstKeys <- MCFirstKeys
    Scene <- Operator
CHECK_DEADLOCK FALSE
INVARIANTS
    NoSplit
