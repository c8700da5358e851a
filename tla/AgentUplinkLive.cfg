SPECIFICATION FairSpec
CONSTANTS
    Batch = 1
    Cap = 1
    BufferCap = 1
    SsidChecked = TRUE
    MaxPackets = 2
    MaxRows = 2
    MaxCrashes = 1
    MaxLate = 0
PROPERTIES Registers PacketsArrive
