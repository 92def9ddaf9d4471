------------------------------ MODULE ClangLib ------------------------------
(***************************************************************************)
(* Calls on clang and opt as libraries                                     *)
(* (lib/CompilerImpl/ClangLibCompiler.cpp), made by several threads.       *)
(*                                                                         *)
(* Two kinds of mutex meet here.  Every log path has one: log_string takes *)
(* it for a line and generateIR for a whole run of the driver; generateBin *)
(* runs its driver without.  And one, opt_parse_mtx, guards LLVM's command *)
(* line options, which are global: runOptimizer resets them, parses its    *)
(* own and reads them until its passes have run.  A report of an error is  *)
(* a log_string in the middle of either.                                   *)
(*                                                                         *)
(* The compilers live throughout, so a log path has its mutex; CompilerLog *)
(* models how it comes and goes.  External: the driver and the passes,     *)
(* which may fail where the code asks whether they did.                    *)
(***************************************************************************)
EXTENDS Naturals, FiniteSets

CONSTANTS
    Threads,     \* threads that call compilers
    Logs,        \* log paths of compilers
    NoLog,       \* the empty path
    NoThread,    \* owner of a free mutex
    MaxCalls     \* bound: calls each thread makes

ASSUME ClangLibAssumption ==
    NoLog \notin Logs /\ NoThread \notin Threads /\ MaxCalls \in Nat

VARIABLES
    op,          \* the call a thread is in
    pc,          \* where in that call
    back,        \* where log_string returns to
    log,         \* logFile of the compiler the call is made on
    calls,       \* calls a thread has begun
    logOwner,    \* who holds the mutex of a log path
    parseOwner,  \* who holds opt_parse_mtx
    options      \* the calls whose options LLVM's globals hold

vars == <<op, pc, back, log, calls, logOwner, parseOwner, options>>

call == <<op, log, calls>>

Ops == {"generateIR", "runOptimizer", "generateBin"}

SayPcs == {"sayLock", "sayUnlock"}

\* Between the lock and the unlock of opt_parse_mtx, and the way out without it.
SectionPcs == {"reset", "parse", "load", "passes", "run", "unlockParse"}
ErrorPcs   == {"rejected", "left"}

DriverPcs == {"logLock", "build", "unlockFailed", "drive", "unlockLog", "check"}

Pcs == {"idle", "parseLock", "return"} \cup SayPcs \cup SectionPcs
            \cup ErrorPcs \cup DriverPcs

\* What follows the log_string of the command line that opens each call.
First == [generateIR |-> "logLock", runOptimizer |-> "parseLock",
          generateBin |-> "build"]

Me(t) == <<t, calls[t]>>

Init ==
    /\ op = [t \in Threads |-> "none"]
    /\ pc = [t \in Threads |-> "idle"]
    /\ back = [t \in Threads |-> "idle"]
    /\ log = [t \in Threads |-> NoLog]
    /\ calls = [t \in Threads |-> 0]
    /\ logOwner = [l \in Logs |-> NoThread]
    /\ parseOwner = NoThread
    /\ options = {}

-----------------------------------------------------------------------------
(* Steps of a call.                                                        *)

Goto(t, where) ==
    /\ pc' = [pc EXCEPT ![t] = where]
    /\ UNCHANGED <<back, call>>

\* log_string, then on to the place named; nothing happens without a log.
Say(t, l, then) ==
    /\ pc' = [pc EXCEPT ![t] = IF l = NoLog THEN then ELSE "sayLock"]
    /\ back' = [back EXCEPT ![t] = then]

Report(t, then) == Say(t, log[t], then) /\ UNCHANGED call

\* The mutexes on a path: nothing is locked or unlocked for the empty one.
Take(t) ==
    IF log[t] = NoLog THEN UNCHANGED logOwner
    ELSE /\ logOwner[log[t]] = NoThread
         /\ logOwner' = [logOwner EXCEPT ![log[t]] = t]

Release(t) ==
    logOwner' = [l \in Logs |-> IF l = log[t] THEN NoThread ELSE logOwner[l]]

Begin(t, o, l) ==
    /\ op[t] = "none"
    /\ calls[t] < MaxCalls
    /\ op' = [op EXCEPT ![t] = o]
    /\ log' = [log EXCEPT ![t] = l]
    /\ calls' = [calls EXCEPT ![t] = @ + 1]
    /\ Say(t, l, First[o])
    /\ UNCHANGED <<logOwner, parseOwner, options>>

\* Forgets which call it was.
ReturnHalf(t) ==
    /\ pc[t] \in {"return", "left"}
    /\ pc' = [pc EXCEPT ![t] = "idle"]
    /\ UNCHANGED <<op, back, log, calls, logOwner, parseOwner, options>>

Return(t) ==
    /\ pc[t] \in {"return", "left"}
    /\ op' = [op EXCEPT ![t] = "none"]
    /\ pc' = [pc EXCEPT ![t] = "idle"]
    /\ UNCHANGED <<back, log, calls, logOwner, parseOwner, options>>

SayLock(t) ==
    /\ pc[t] = "sayLock"
    /\ Take(t)
    /\ Goto(t, "sayUnlock")
    /\ UNCHANGED <<parseOwner, options>>

\* Keeps the mutex of the log.
SayUnlockForgotten(t) ==
    /\ pc[t] = "sayUnlock"
    /\ Goto(t, back[t])
    /\ UNCHANGED <<logOwner, parseOwner, options>>

SayUnlock(t) ==
    /\ pc[t] = "sayUnlock"
    /\ Release(t)
    /\ Goto(t, back[t])
    /\ UNCHANGED <<parseOwner, options>>

-----------------------------------------------------------------------------
(* generateIR and generateBin: the driver, which may print to the log as    *)
(* long as it runs.  Only generateIR has the mutex of the log meanwhile.   *)

\* Starts the driver whoever writes to the log.
LockLogSkipped(t) ==
    /\ pc[t] = "logLock"
    /\ Goto(t, "build")
    /\ UNCHANGED <<logOwner, parseOwner, options>>

LockLog(t) ==
    /\ pc[t] = "logLock"
    /\ Take(t)
    /\ Goto(t, "build")
    /\ UNCHANGED <<parseOwner, options>>

\* No Compilation: generateIR reports it before it unlocks the log.
BuildFails(t) ==
    /\ pc[t] = "build"
    /\ Report(t, IF op[t] = "generateIR" THEN "unlockFailed" ELSE "return")
    /\ UNCHANGED <<logOwner, parseOwner, options>>

UnlockFailed(t) ==
    /\ pc[t] = "unlockFailed"
    /\ Release(t)
    /\ Goto(t, "return")
    /\ UNCHANGED <<parseOwner, options>>

Build(t) ==
    /\ pc[t] = "build"
    /\ Goto(t, "drive")
    /\ UNCHANGED <<logOwner, parseOwner, options>>

Drive(t) ==
    /\ pc[t] = "drive"
    /\ Goto(t, IF op[t] = "generateIR" THEN "unlockLog" ELSE "check")
    /\ UNCHANGED <<logOwner, parseOwner, options>>

\* Leaves the log locked after the driver.
UnlockLogForgotten(t) ==
    /\ pc[t] = "unlockLog"
    /\ Goto(t, "check")
    /\ UNCHANGED <<logOwner, parseOwner, options>>

UnlockLog(t) ==
    /\ pc[t] = "unlockLog"
    /\ Release(t)
    /\ Goto(t, "check")
    /\ UNCHANGED <<parseOwner, options>>

\* The file exists and is returned, or its absence is reported.
Check(t) ==
    /\ pc[t] = "check"
    /\ Goto(t, "return") \/ Report(t, "return")
    /\ UNCHANGED <<logOwner, parseOwner, options>>

-----------------------------------------------------------------------------
(* runOptimizer.                                                           *)

LockParse(t) ==
    /\ pc[t] = "parseLock"
    /\ parseOwner = NoThread
    /\ parseOwner' = t
    /\ Goto(t, "reset")
    /\ UNCHANGED <<logOwner, options>>

\* Leaves the options of earlier calls in effect.
ResetSkipped(t) ==
    /\ pc[t] = "reset"
    /\ Goto(t, "parse")
    /\ UNCHANGED <<logOwner, parseOwner, options>>

Reset(t) ==
    /\ pc[t] = "reset"
    /\ options' = {}
    /\ Goto(t, "parse")
    /\ UNCHANGED <<logOwner, parseOwner>>

Parse(t) ==
    /\ pc[t] = "parse"
    /\ options' = options \cup {Me(t)}
    /\ Goto(t, "load")
    /\ UNCHANGED <<logOwner, parseOwner>>

\* The module cannot be loaded or is broken.
Reject(t) ==
    /\ pc[t] = "load"
    /\ Report(t, "rejected")
    /\ UNCHANGED <<logOwner, parseOwner, options>>

\* A second report when the source is missing; opt_parse_mtx stays locked.
Leave(t) ==
    /\ pc[t] = "rejected"
    /\ Goto(t, "left") \/ Report(t, "left")
    /\ UNCHANGED <<logOwner, parseOwner, options>>

Load(t) ==
    /\ pc[t] = "load"
    /\ Goto(t, "passes")
    /\ UNCHANGED <<logOwner, parseOwner, options>>

\* Passes and output flags are chosen from the options; some are reported.
Passes(t) ==
    /\ pc[t] = "passes"
    /\ Goto(t, "run") \/ Report(t, "run")
    /\ UNCHANGED <<logOwner, parseOwner, options>>

Run(t) ==
    /\ pc[t] = "run"
    /\ Goto(t, "unlockParse")
    /\ UNCHANGED <<logOwner, parseOwner, options>>

\* RunTwice, and the two outputs differ: opt_parse_mtx stays locked.
Diverge(t) ==
    /\ pc[t] = "run"
    /\ Report(t, "left")
    /\ UNCHANGED <<logOwner, parseOwner, options>>

\* Leaves opt_parse_mtx locked after the passes.
UnlockParseForgotten(t) ==
    /\ pc[t] = "unlockParse"
    /\ Goto(t, "return")
    /\ UNCHANGED <<logOwner, parseOwner, options>>

UnlockParse(t) ==
    /\ pc[t] = "unlockParse"
    /\ parseOwner' = NoThread
    /\ Goto(t, "return")
    /\ UNCHANGED <<logOwner, options>>

-----------------------------------------------------------------------------
\* A thread goes on with the call it is in.
Continue(t) ==
    \/ SayLock(t) \/ SayUnlock(t) \/ Return(t)
    \/ LockLog(t) \/ BuildFails(t) \/ UnlockFailed(t) \/ Build(t) \/ Drive(t)
    \/ UnlockLog(t) \/ Check(t)
    \/ LockParse(t) \/ Reset(t) \/ Parse(t) \/ Reject(t) \/ Leave(t) \/ Load(t)
    \/ Passes(t) \/ Run(t) \/ Diverge(t) \/ UnlockParse(t)

Next ==
    \E t \in Threads :
        \/ \E o \in Ops, l \in Logs \cup {NoLog} : Begin(t, o, l)
        \/ Continue(t)

Spec == Init /\ [][Next]_vars

\* A thread inside a call is scheduled again, and drivers and passes end.
FairSpec == Spec /\ \A t \in Threads : WF_vars(Continue(t))

-----------------------------------------------------------------------------
\* Where t is in its call, a report counted with the place it returns to.
Place(t) == IF pc[t] \in SayPcs THEN back[t] ELSE pc[t]

InCall(t) == op[t] # "none"

(***************************************************************************)
(* Type invariant; a thread is somewhere in a call exactly when it is in   *)
(* one.                                                                    *)
(***************************************************************************)
TypeOK ==
    /\ op \in [Threads -> Ops \cup {"none"}]
    /\ pc \in [Threads -> Pcs]
    /\ back \in [Threads -> Pcs]
    /\ log \in [Threads -> Logs \cup {NoLog}]
    /\ calls \in [Threads -> Nat]
    /\ logOwner \in [Logs -> Threads \cup {NoThread}]
    /\ parseOwner \in Threads \cup {NoThread}
    /\ options \subseteq Threads \X Nat
    /\ \A t \in Threads : InCall(t) <=> pc[t] # "idle"

(***************************************************************************)
(* The optimizer loads, chooses and runs its passes under the options of   *)
(* its own call and no other's, whatever calls came before, failed, or     *)
(* wait ("command line options are static and should be accessed           *)
(* exclusively").                                                          *)
(***************************************************************************)
OwnOptions ==
    \A t \in Threads :
        Place(t) \in {"load", "passes", "run"} => options = {Me(t)}

\* t writes to its log: a line of log_string, or the commands that the driver
\* it runs prints there (CCPrintOptions, in a build with VC_DEBUG).
Writes(t) == pc[t] \in {"sayUnlock", "drive"}

\* The driver of generateBin prints to the same file and under no lock.
DrivesUnlocked(t) == op[t] = "generateBin" /\ pc[t] = "drive"

(***************************************************************************)
(* Lines of the log and the drivers of generateIR do not write to a log at *)
(* the same time; whenever two calls do, one of them is a generateBin that *)
(* runs its driver (ClangLibCompiler.cpp:160 has the lock and :641 not).   *)
(***************************************************************************)
LogWritersExclusive ==
    \A t, u \in Threads :
        t # u /\ Writes(t) /\ Writes(u) /\ log[t] = log[u] /\ log[t] # NoLog
            => DrivesUnlocked(t) \/ DrivesUnlocked(u)

\* t waits for a mutex that u holds.
WaitsFor(t, u) ==
    \/ pc[t] \in {"sayLock", "logLock"} /\ log[t] # NoLog /\ logOwner[log[t]] = u
    \/ pc[t] = "parseLock" /\ parseOwner = u

(***************************************************************************)
(* No two threads wait for each other: a report takes a log mutex inside   *)
(* opt_parse_mtx, and no holder of a log mutex ever asks for opt_parse_mtx.*)
(***************************************************************************)
NoMutualWait ==
    \A t, u \in Threads : WaitsFor(t, u) /\ WaitsFor(u, t) => t = u

Returns(t) == InCall(t) ~> ~InCall(t)

\* The two ways a call can keep a mutex it should give back.
ReportsLocked(t) == op[t] = "generateIR" /\ Place(t) = "unlockFailed"
LeavesLocked(t) == Place(t) \in ErrorPcs

(***************************************************************************)
(* Every call returns, as long as no call reports an error between a lock  *)
(* and its unlock.                                                         *)
(***************************************************************************)
CallsReturn ==
    [](\A t \in Threads : ~ReportsLocked(t) /\ ~LeavesLocked(t))
        => \A t \in Threads : Returns(t)

(***************************************************************************)
(* A driver call hangs only with its own log: whatever optimizers leave    *)
(* locked and whatever goes wrong on other logs, generateIR and            *)
(* generateBin return on a log where no generateIR reports while locked,   *)
(* and always on a compiler without a log.                                 *)
(***************************************************************************)
DriversIsolated ==
    \A l \in Logs \cup {NoLog} :
        [](\A t \in Threads : log[t] = l /\ l # NoLog => ~ReportsLocked(t))
            => \A t \in Threads :
                 (op[t] \in {"generateIR", "generateBin"} /\ log[t] = l)
                    ~> ~InCall(t)

(***************************************************************************)
(* "If this method is not able to generate a well-formed optimized output  *)
(* file, it will return an empty path" (ClangLibCompiler.cpp:207): a call  *)
(* of the optimizer returns.                                               *)
(***************************************************************************)
OptimizerAnswers ==
    \A t \in Threads : op[t] = "runOptimizer" ~> ~InCall(t)
=============================================================================
