--------------------------- MODULE MCCompilerLog ---------------------------
(***************************************************************************)
(* Instances of CompilerLog for TLC.                                       *)
(***************************************************************************)
EXTENDS CompilerLogRefinement, TLC

CONSTANTS t1, t2, c1, c2, logA, logB, fileA, fileB

MCThreads == {t1, t2}
MCCompilers == {c1, c2}

OneLog == {logA}
TwoLogs == {logA, logB}

OneFile == {fileA}
TwoFiles == {fileA, fileB}

\* Each path names a file of its own.
OwnFile == [l \in Logs |-> IF l = logA THEN fileA ELSE fileB]

\* One thread may build, use and destroy a compiler, the other build and use one.
MCMaxCalls == t1 :> 3 @@ t2 :> 2

(***************************************************************************)
(* "Acquire the lock of the mutex related to logfileName. Blocking."       *)
(* (Compiler.hpp:180): a thread that came back from lockMutex holds it.    *)
(***************************************************************************)
LockMutexAcquires ==
    \A t \in Threads : pc[t] \in WritePcs => mutexOwner[LogOf(t)] = t
=============================================================================
