CONSTANTS
    Cons = {c1, c2}
    Null = Null
    Wild = Wild
    PackedEvents = FALSE
    SndBuf = 1
    BlockSize = 1
    MaxClients = 3
    MaxIn = 1
    MaxOut = 2
SPECIFICATION Spec
CHECK_DEADLOCK FALSE
SYMMETRY Symmetry
INVARIANTS TypeOK RegisteredLive WriteArmed SentOnce
