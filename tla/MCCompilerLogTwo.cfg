SPECIFICATION Spec
CONSTANTS
    t1 = t1
    t2 = t2
    c1 = c1
    c2 = c2
    logA = logA
    logB = logB
    fileA = fileA
    fileB = fileB
    NoLog = NoLog
    NoThread = NoThread
    NoCompiler = NoCompiler
    Threads <- MCThreads
    Compilers <- MCCompilers
    Logs <- TwoLogs
    Files <- TwoFiles
    FileOf <- OwnFile
    MaxCalls <- MCMaxCalls
INVARIANTS
    TypeOK
    RefCountExact
    MutexOutlivesUsers
    ExclusiveWriters
    RecordsWhole
PROPERTIES
    OnlyHolderReleases
CHECK_DEADLOCK FALSE
