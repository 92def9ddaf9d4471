------------------------------ MODULE JITCalls ------------------------------
(***************************************************************************)
(* Calls on JITCompilers (lib/CompilerImpl/JITCompiler.cpp), made by       *)
(* several threads.  A program has either these or ClangLibCompilers: both *)
(* define LLVM's options.  The driver, the optimizer and their mutexes are *)
(* ClangLib's, but the optimizer parses its options over the earlier ones, *)
(* and generateBin runs a whole generateIR when the Version has no IR.     *)
(***************************************************************************)
EXTENDS ClangLib

VARIABLE
    nested       \* the threads whose generateIR is part of a generateBin

jitVars == <<vars, nested>>

JITInit == Init /\ nested = {}

-----------------------------------------------------------------------------
\* The command line is logged, after a report that there is no clang.
StartIR(t, l) == Say(t, l, "logLock") \/ Say(t, l, "noClang")

NoClang(t) ==
    /\ pc[t] = "noClang"
    /\ Report(t, "logLock")
    /\ UNCHANGED <<logOwner, parseOwner, options, nested>>

\* generateBin says that it parses the IR there is, or that there is none.
StartJIT(t, o, l) ==
    \/ o = "generateIR" /\ StartIR(t, l)
    \/ o = "runOptimizer" /\ Say(t, l, "parseLock")
    \/ o = "generateBin" /\ (Say(t, l, "parseIR") \/ Say(t, l, "nest"))

BeginJIT(t, o, l) ==
    /\ op[t] = "none"
    /\ calls[t] < MaxCalls
    /\ op' = [op EXCEPT ![t] = o]
    /\ log' = [log EXCEPT ![t] = l]
    /\ calls' = [calls EXCEPT ![t] = @ + 1]
    /\ StartJIT(t, o, l)
    /\ UNCHANGED <<logOwner, parseOwner, options, nested>>

\* Takes the log for the rest of generateBin, and again in generateIR.
NestLocked(t) ==
    /\ pc[t] = "nest"
    /\ Take(t)
    /\ op' = [op EXCEPT ![t] = "generateIR"]
    /\ nested' = nested \cup {t}
    /\ StartIR(t, log[t])
    /\ UNCHANGED <<log, calls, parseOwner, options>>

Nest(t) ==
    /\ pc[t] = "nest"
    /\ op' = [op EXCEPT ![t] = "generateIR"]
    /\ nested' = nested \cup {t}
    /\ StartIR(t, log[t])
    /\ UNCHANGED <<log, calls, logOwner, parseOwner, options>>

\* Whether it returned the file's name or none, generateBin parses that.
Unnest(t) ==
    /\ pc[t] = "return" /\ t \in nested
    /\ op' = [op EXCEPT ![t] = "generateBin"]
    /\ nested' = nested \ {t}
    /\ Say(t, log[t], "parseIR")
    /\ UNCHANGED <<log, calls, logOwner, parseOwner, options>>

ParseIR(t) ==
    /\ pc[t] = "parseIR"
    /\ Goto(t, "return") \/ Report(t, "return")
    /\ UNCHANGED <<logOwner, parseOwner, options, nested>>

\* Takes the mutex whoever holds it.
LockJITAnyway(t) ==
    /\ pc[t] = "parseLock"
    /\ parseOwner' = t
    /\ Goto(t, "parse")
    /\ UNCHANGED <<logOwner, options, nested>>

\* What the options hold is not reset.
LockJIT(t) ==
    /\ pc[t] = "parseLock"
    /\ parseOwner = NoThread
    /\ parseOwner' = t
    /\ Goto(t, "parse")
    /\ UNCHANGED <<logOwner, options, nested>>

-----------------------------------------------------------------------------
\* The steps that are those of a ClangLibCompiler.
AsClangLib(t) ==
    /\ \/ SayLock(t) \/ SayUnlock(t)
       \/ LockLog(t) \/ BuildFails(t) \/ UnlockFailed(t) \/ Build(t) \/ Drive(t)
       \/ UnlockLog(t) \/ Check(t)
       \/ Parse(t) \/ Reject(t) \/ Leave(t) \/ Load(t) \/ Passes(t) \/ Run(t)
       \/ Diverge(t) \/ UnlockParse(t)
       \/ t \notin nested /\ Return(t)
    /\ UNCHANGED nested

ContinueJIT(t) ==
    \/ AsClangLib(t)
    \/ NoClang(t) \/ Nest(t) \/ Unnest(t) \/ ParseIR(t) \/ LockJIT(t)

JITNext ==
    \E t \in Threads :
        \/ \E o \in Ops, l \in Logs \cup {NoLog} : BeginJIT(t, o, l)
        \/ ContinueJIT(t)

JITSpec == JITInit /\ [][JITNext]_jitVars

\* As in ClangLib: a thread inside a call is scheduled again.
FairJITSpec == JITSpec /\ \A t \in Threads : WF_jitVars(ContinueJIT(t))

-----------------------------------------------------------------------------
\* The optimizer of t works under the options it has parsed.
ReadsOptions(t) == Place(t) \in {"load", "passes", "run"}

(***************************************************************************)
(* An optimizer has its own options, and what it has besides them is of    *)
(* calls that are over or about to return: no other thread parses or reads *)
(* options meanwhile ("should be accessed exclusively",                    *)
(* JITCompiler.cpp:262).                                                   *)
(***************************************************************************)
OptionsSettled ==
    \A t \in Threads : ReadsOptions(t) =>
        /\ Me(t) \in options
        /\ \A u \in Threads :
             u # t /\ InCall(u) /\ Me(u) \in options => pc[u] = "return"

(***************************************************************************)
(* No two JIT calls wait for each other, and none for itself but in the    *)
(* two known ways: a generateIR that reports while it holds its log, and   *)
(* an optimizer after one that left opt_parse_mtx locked.  The generateIR  *)
(* of a generateBin never finds its log locked by its own caller.          *)
(***************************************************************************)
NestedNoMutualWait ==
    \A t, u \in Threads :
        WaitsFor(t, u) /\ WaitsFor(u, t) =>
            t = u /\ (ReportsLocked(t) \/ pc[t] = "parseLock")

(***************************************************************************)
(* Two JIT calls never write to a log at the same time: the only driver a  *)
(* JIT runs is that of generateIR, under the mutex of the log              *)
(* (JITCompiler.cpp:175-190), also where generateBin calls it.             *)
(***************************************************************************)
JITLogWritersExclusive ==
    \A t, u \in Threads :
        Writes(t) /\ Writes(u) /\ log[t] = log[u] /\ log[t] # NoLog => t = u

(***************************************************************************)
(* Every JIT call returns, generateBin with the generateIR it nests        *)
(* included, as long as no call reports an error between a lock and its    *)
(* unlock.                                                                 *)
(***************************************************************************)
JITCallsReturn ==
    [](\A t \in Threads : ~ReportsLocked(t) /\ ~LeavesLocked(t))
        => \A t \in Threads : Returns(t)

(***************************************************************************)
(* A failed optimizer stops the optimizers and nothing else                *)
(* (JITCompiler.cpp:279): on a log where no generateIR reports while it is *)
(* locked, every generateIR and generateBin returns.                       *)
(***************************************************************************)
CompilesIsolated ==
    \A l \in Logs \cup {NoLog} :
        [](\A t \in Threads : log[t] = l /\ l # NoLog => ~ReportsLocked(t))
            => \A t \in Threads :
                 (op[t] \in {"generateIR", "generateBin"} /\ log[t] = l)
                    ~> ~InCall(t)
=============================================================================
