SPECIFICATION FairSpec
CONSTANTS
    c1 = c1
    c2 = c2
    s1 = s1
    s2 = s2
    l1 = l1
    i1 = i1
    i2 = i2
    p1 = p1
    Request <- MCRequest
    Viewer <- MCRequest
    Caller <- MCRequest
    Limits <- MCLimits
    Form <- MCForm
    Capacity <- MCCapacity
    Identity <- MCIdentity
    Report <- MCReport
    MaxConnections = 1
    MaxDuration = 1
    Default = Default
    Empty = Empty
    NoAgent = NoAgent
    Unset = Unset
INVARIANTS RowsBounded PolicyWhole 
PROPERTIES UndoNeedsOverlap StreamsImplementSemaphore SlotComesBack AgentRowKept
