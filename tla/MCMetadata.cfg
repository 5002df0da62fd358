SPECIFICATION Spec
CONSTANTS
    c1 = c1
    c2 = c2
    kernel = kernel
    storage = storage
    Field = {kernel, storage}
    Command = {c1, c2}
    MaxValue = 3
    Overlap = FALSE
    MaxSaves = 5
CHECK_DEADLOCK FALSE
PROPERTIES
    OnlyOwnEdits
    NothingErasedUnseen
    SaveTakesEffect
