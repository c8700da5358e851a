SPECIFICATION LockSpec
CONSTANTS
    p1 = p1
    p2 = p2
    p3 = p3
    Pid <- MCPid
    Workers = 2
    NoFile = NoFile
    Empty = Empty
    IOFails = FALSE
INVARIANTS OnlyOneWins
