SPECIFICATION FairSpec
CONSTANTS
    r1 = r1
    r2 = r2
    foreign = foreign
    NoRule = NoRule
    TTL = 2
    Rule <- MCRule
    LocalRule <- MCLocalRule
    PowerShellFails = TRUE
INVARIANTS UntrackedExplained ReportedIsBlocked ShutdownClears
PROPERTIES NoEarlyLift SilentServerLifts
