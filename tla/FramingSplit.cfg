\* recv returns any piece of what was sent.
CONSTANTS
    Lengths <- MCLengths
    BufferSize = 6
    AnySegmentation = TRUE
SPECIFICATION Spec
INVARIANTS OneMessagePerReceive
