CONSTANTS
    Threads = {t1, t2, t3}
    Mutexes = {m1, m2}
SPECIFICATION Spec
SYMMETRY Symmetry
INVARIANTS TypeOK NotAllAsleep
