CONSTANTS
    Cons = {c1, c2}
    Null = Null
    Wild = Wild
    PackedEvents = FALSE
    SndBuf = 1
    BlockSize = 1
    MaxClients = 2
    MaxIn = 0
    MaxOut = 2
SPECIFICATION FairSpec
CHECK_DEADLOCK FALSE
PROPERTIES Flushed GoneAreClosed
