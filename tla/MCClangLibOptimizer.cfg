SPECIFICATION FairSpec
CONSTANTS
    t1 = t1
    t2 = t2
    logA = logA
    logB = logB
    NoLog = NoLog
    NoThread = NoThread
    Threads <- MCThreads
    Logs <- OneLog
    MaxCalls = 2
CHECK_DEADLOCK FALSE
PROPERTY
    OptimizerAnswers
