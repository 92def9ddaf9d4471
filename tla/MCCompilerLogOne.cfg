SPECIFICATION FairSpec
CONSTANTS
    t1 = t1
    t2 = t2
    c1 = c1
    c2 = c2
    logA = logA
    logB = logB
    fileA = fileA
    fileB = fileB
    NoLog = NoLog
    NoThread = NoThread
    NoCompiler = NoCompiler
    Threads <- MCThreads
    Compilers <- MCCompilers
    Logs <- OneLog
    Files <- OneFile
    FileOf <- OwnFile
    MaxCalls <- MCMaxCalls
INVARIANTS
    NoRace
PROPERTIES
    CallsReturn
    ImplementsAtomicLog
CHECK_DEADLOCK FALSE
