SPECIFICATION Spec
CONSTANTS
    w1 = w1
    w2 = w2
    a1 = a1
    a2 = a2
    a3 = a3
    Nobody = Nobody
    Worker <- MCWorker
    Address <- MCAddress
    Confidence <- MCConfidence
    Default = 2
    Window = 1
    MaxCache = 2
    Kept = 1
    Skew = 0
    Delay = 2
    MaxTime = 3
SYMMETRY MCSymmetry
INVARIANTS VerdictSound HistorySound
