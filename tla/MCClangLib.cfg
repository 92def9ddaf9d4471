SPECIFICATION FairSpec
CONSTANTS
    t1 = t1
    t2 = t2
    logA = logA
    logB = logB
    NoLog = NoLog
    NoThread = NoThread
    Threads <- MCThreads
    Logs <- TwoLogs
    MaxCalls = 2
CHECK_DEADLOCK FALSE
INVARIANTS
    TypeOK
    OwnOptions
    LogWritersExclusive
    NoMutualWait
PROPERTIES
    CallsReturn
    DriversIsolated
