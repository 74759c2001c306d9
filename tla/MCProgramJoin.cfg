CONSTANTS
    Cells = 3
    Gaps = 2
    Null = 0
    Job = {j1, j2}
    None = None
    Server = {s1}
    Client = {c1}
    Fds = 1
    Thrown <- OneNote
SPECIFICATION FairSpec
PROPERTIES
    JoinReturns
CHECK_DEADLOCK FALSE
