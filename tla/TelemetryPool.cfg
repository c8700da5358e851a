SPECIFICATION FairSpec
CONSTANTS
    u1 = u1
    u2 = u2
    u3 = u3
    Upload <- MCUpload
    Inflight = 2
    PoolSize = 1
    MaxAttempts = 2
    CloseFails = TRUE
INVARIANTS DrainMeansIdle MetricOnce
PROPERTIES UploadsImplementSemaphore PermitComesBack
