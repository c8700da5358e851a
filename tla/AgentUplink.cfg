SPECIFICATION Spec
CONSTANTS
    Batch = 1
    Cap = 1
    BufferCap = 2
    SsidChecked = TRUE
    MaxPackets = 3
    MaxRows = 2
    MaxCrashes = 1
    MaxLate = 1
INVARIANTS LossExplained DuplicateExplained NoGap IdSurvives
PROPERTIES UplinkImplementsDelivery
