\* Every segmentation that the code puts together again.
CONSTANTS
    Lengths <- MCLengths
    BufferSize = 6
    AnySegmentation = FALSE
SPECIFICATION Spec
INVARIANTS TypeOK 
PROPERTIES ReliableStream
