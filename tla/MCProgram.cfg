CONSTANTS
    Cells = 6
    Gaps = 2
    Null = 0
    Job = {j1, j2, j3}
    None = None
    Server = {s1, s2}
    Client = {c1}
    Fds = 2
    Thrown <- OneOrTwo
SPECIFICATION Spec
SYMMETRY Symmetry
INVARIANTS
    TypeOK
    MessagesInOrder
    NothingLeft
    DescriptorsOwned
    JobsListed
CHECK_DEADLOCK FALSE
