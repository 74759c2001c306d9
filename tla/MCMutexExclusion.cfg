CONSTANTS
    Threads = {t1, t2}
    Mutexes = {m1}
SPECIFICATION Spec
INVARIANTS MutualExclusion
