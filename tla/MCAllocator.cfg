CONSTANTS
    Thread = {t1, t2}
    Block = {b1, b2, b3}
    Null = Null
    Zero = Zero
    Value = {Zero, v}
    MaxSize = 2
    MaxOverlaps = 1
SPECIFICATION Spec
SYMMETRY Symmetry
INVARIANTS
    TypeOK
    HeapLinked
    NothingLost
PROPERTIES
    ImplementsHeap
CHECK_DEADLOCK FALSE
