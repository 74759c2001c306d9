CONSTANTS
    Blocks = {b1, b2, b3, b4}
    Null = Null
    MaxBytes = 8
SYMMETRY Symmetry
SPECIFICATION Spec
INVARIANTS TypeOK WellLinked NoLeak DerefsLive InPlace Contiguous
PROPERTIES ImplementsStream
