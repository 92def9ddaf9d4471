SPECIFICATION FairJITSpec
CONSTANTS
    t1 = t1
    t2 = t2
    logA = logA
    NoLog = NoLog
    NoThread = NoThread
    Threads <- MCThreads
    Logs <- OneLog
    MaxCalls = 2
CHECK_DEADLOCK FALSE
INVARIANTS
    OptionsSettled
    NestedNoMutualWait
PROPERTIES
    JITCallsReturn
    CompilesIsolated
