SPECIFICATION FairSpec
CONSTANTS
    system = system
    app = app
    Workload = {system, app}
    Rate <- MCRate
    FirstSize <- MCFirstSize
    Level = {1, 3}
    AdmissionFloor = 3
    Cooldown = 2
    UsageHours = 2
    MinSlots = 1
    MinSize = 1
    Stoppable = {app}
    System = system
    MayRefuse = {app}
    PeriodLength = 3
    MaxTime = 5
    Usd = {0, 5, 25}
    Limit = 8
    CheckpointEvery = 2
    MaxPushes <- MCMaxPushes
    MaxFaults <- MCMaxFaults
CHECK_DEADLOCK FALSE
INVARIANTS
    BilledOnce
    NoHourLost
    GuardStaysOn
PROPERTIES
    LimitEnforced
    CooldownKept
