SPECIFICATION Spec
CONSTANTS
    u1 = u1
    u2 = u2
    f1 = f1
    t1 = t1
    t2 = t2
    Normal = Normal
    Threat <- MCThreat
    Upload <- MCUpload
    Flow <- MCFlow
    PacketsOf <- MCPacketsOf
    MinPackets = 3
    Window = 3
    AlertWindow = 1
    Skew = 1
    MaxAttempts = 2
    MaxTime = 2
SYMMETRY MCSymmetry
INVARIANTS CountExact RowsApart DurationBounded AlertsBounded
PROPERTIES ConfirmedStays
CHECK_DEADLOCK FALSE
