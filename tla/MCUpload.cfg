SPECIFICATION FairSpec
CONSTANTS
    small = small
    even = even
    odd = odd
    Writer = {small, even, odd}
    Length <- MCLength
    Window = 2
    MaxAttempts = 2
    Downloads = {}
    Nothing = Nothing
    MaxFaults = 2
CHECK_DEADLOCK FALSE
INVARIANTS
    NoSessionLeft
PROPERTIES
    KeepsContract
    UploadsReturn
