SPECIFICATION Spec
CONSTANTS
    small = small
    even = even
    odd = odd
    Writer = {odd}
    Length <- MCLength
    Window = 2
    MaxAttempts = 2
    Downloads = {odd}
    Nothing = Nothing
    MaxFaults = 1
CHECK_DEADLOCK FALSE
INVARIANTS
    ObjectsWhole
