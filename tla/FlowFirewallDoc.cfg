SPECIFICATION FairSpec
CONSTANTS
    r1 = r1
    r2 = r2
    foreign = foreign
    NoRule = NoRule
    TTL = 1
    Rule <- MCOneRule
    LocalRule <- MCOneRule
    PowerShellFails = FALSE
PROPERTIES OnePromiseKept
