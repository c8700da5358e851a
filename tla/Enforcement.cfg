SPECIFICATION Spec
CONSTANTS
    demoFlow = demoFlow
    Flow <- MCFlow
    DemoFlow <- MCFlow
    Modes <- MCModes
    MinPackets = 2
    Window = 0
    Recent = 1
    TTL = 1
    Delay = 1
    None = None
INVARIANTS BlockJustified ClaimFresh
CHECK_DEADLOCK FALSE
