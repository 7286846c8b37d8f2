SPECIFICATION Spec
CONSTANTS
    Buffers = {b1, b2, b3}
    NoBuffer = NoBuffer
    PageSize = 3
    NPages = 4
    MaxLen = 6
SYMMETRY Symmetry
INVARIANTS TypeOK PartialPageIsSafe
