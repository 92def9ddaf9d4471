---------------------------- MODULE CompilerLog ----------------------------
(***************************************************************************)
(* The log files of the compilers (lib/Compiler.cpp).                      *)
(*                                                                         *)
(* Every Compiler object names one log file, or none.  All compilers of a  *)
(* process share the static map log_access_mtx_map from the TEXT of a log  *)
(* path to a reference count and a mutex.  The constructor and destructor  *)
(* count references under mtx_map_mtx; lockMutex and unlockMutex look the  *)
(* path up in the same map WITHOUT mtx_map_mtx and then lock or unlock the *)
(* mutex they find.  log_string and log_exec write a record between the    *)
(* two.                                                                    *)
(*                                                                         *)
(* A step of this module is one access to shared memory or to the file.  A *)
(* thread is in one call at a time: op[t] says which, pc[t] where.         *)
(***************************************************************************)
EXTENDS Naturals, Sequences, FiniteSets

CONSTANTS
    Threads,     \* threads of the program that uses the library
    Compilers,   \* identities of Compiler objects
    Logs,        \* non-empty log paths, as they are spelled (the map's keys)
    Files,       \* files of the file system
    FileOf,      \* the file a log path names
    NoLog,       \* the empty path: this compiler does not log
    NoThread,    \* nobody: owner of a free mutex
    NoCompiler,  \* argument of a thread that is in no call
    MaxCalls     \* bound: calls each thread makes

ASSUME LogAssumption ==
    /\ FileOf \in [Logs -> Files]
    /\ NoLog \notin Logs
    /\ NoThread \notin Threads
    /\ NoCompiler \notin Compilers
    /\ MaxCalls \in [Threads -> Nat]

ASSUME FiniteCompilers == IsFiniteSet(Compilers)

VARIABLES
    phase,       \* life of a Compiler object, see Phases
    logFile,     \* Compiler::logFile
    refs,        \* log_access_mtx_map[l].first; 0 when the map has no entry
    mutexOwner,  \* who holds the mutex of entry l
    mapOwner,    \* who holds mtx_map_mtx
    op,          \* the call a thread is in
    pc,          \* where in that call it is
    arg,         \* the compiler the call is about
    seen,        \* the entry the thread's map.find returned, as its count
    torn,        \* threads whose unguarded lookup the map changed under
    raced,       \* history: some lookup ever overlapped a change of the map
    calls,       \* calls a thread has begun
    content      \* what each log file holds

vars == <<phase, logFile, refs, mutexOwner, mapOwner, op, pc, arg, seen, torn,
          raced, calls, content>>

objVars  == <<phase, logFile>>
mapVars  == <<refs, mapOwner, seen>>
raceVars == <<torn, raced>>

-----------------------------------------------------------------------------
(* "new" and "up" are the constructor before and after its reference is    *)
(* counted, "down" and "gone" the destructor before and after it is        *)
(* uncounted.  Only a "live" object is known to threads other than the one *)
(* that builds or destroys it.                                             *)
Phases == {"none", "new", "up", "live", "down", "gone"}

Ops == {"none", "ctor", "dtor", "string", "exec"}

RefPcs   == {"mapLock", "mapFind", "mapWrite", "mapUnlock"}
WritePcs == {"first", "output", "tail"}
LogPcs   == {"findLock", "wait", "findUnlock"} \cup WritePcs
Pcs      == {"idle"} \cup RefPcs \cup LogPcs

Parts == {"line", "command", "output", "end"}

LogOf(t) == logFile[arg[t]]

\* Compilers whose reference the map counts.
Registered(l) ==
    {c \in Compilers : phase[c] \in {"up", "live", "down"} /\ logFile[c] = l}

\* The shared_ptr that keeps a compiler alive while some call uses it.
InUse(c) == \E t \in Threads : op[t] # "none" /\ arg[t] = c

Init ==
    /\ phase = [c \in Compilers |-> "none"]
    /\ logFile = [c \in Compilers |-> NoLog]
    /\ refs = [l \in Logs |-> 0]
    /\ mutexOwner = [l \in Logs |-> NoThread]
    /\ mapOwner = NoThread
    /\ op = [t \in Threads |-> "none"]
    /\ pc = [t \in Threads |-> "idle"]
    /\ arg = [t \in Threads |-> NoCompiler]
    /\ seen = [t \in Threads |-> 0]
    /\ torn = {}
    /\ raced = FALSE
    /\ calls = [t \in Threads |-> 0]
    /\ content = [f \in Files |-> <<>>]

-----------------------------------------------------------------------------
(* Calls begin and end.                                                    *)

Begin(t, o, c, where) ==
    /\ op[t] = "none"
    /\ calls[t] < MaxCalls[t]
    /\ op' = [op EXCEPT ![t] = o]
    /\ arg' = [arg EXCEPT ![t] = c]
    /\ pc' = [pc EXCEPT ![t] = where]
    /\ calls' = [calls EXCEPT ![t] = @ + 1]

Return(t) ==
    /\ op' = [op EXCEPT ![t] = "none"]
    /\ arg' = [arg EXCEPT ![t] = NoCompiler]
    /\ pc' = [pc EXCEPT ![t] = "idle"]
    /\ UNCHANGED calls

Goto(t, where) ==
    /\ pc' = [pc EXCEPT ![t] = where]
    /\ UNCHANGED <<op, arg, calls>>

-----------------------------------------------------------------------------
(* Constructor and destructor: one reference to the log file's entry.      *)

\* A compiler without a log file: addReferenceToLogFile returns at once.
ConstructSilent(c) ==
    /\ phase[c] = "none"
    /\ phase' = [phase EXCEPT ![c] = "live"]
    /\ logFile' = [logFile EXCEPT ![c] = NoLog]
    /\ UNCHANGED <<op, pc, arg, calls, mapVars, mutexOwner, raceVars, content>>

Construct(t, c, l) ==
    /\ phase[c] = "none"
    /\ Begin(t, "ctor", c, "mapLock")
    /\ phase' = [phase EXCEPT ![c] = "new"]
    /\ logFile' = [logFile EXCEPT ![c] = l]
    /\ UNCHANGED <<mapVars, mutexOwner, raceVars, content>>

DestroySilent(c) ==
    /\ phase[c] = "live"
    /\ logFile[c] = NoLog
    /\ ~InUse(c)
    /\ phase' = [phase EXCEPT ![c] = "none"]
    /\ UNCHANGED <<logFile, op, pc, arg, calls, mapVars, mutexOwner, raceVars,
                   content>>

Destroy(t, c) ==
    /\ phase[c] = "live"
    /\ logFile[c] # NoLog
    /\ ~InUse(c)
    /\ Begin(t, "dtor", c, "mapLock")
    /\ phase' = [phase EXCEPT ![c] = "down"]
    /\ UNCHANGED <<logFile, mapVars, mutexOwner, raceVars, content>>

\* Without mtx_map_mtx.
LockMapUnguarded(t) ==
    /\ pc[t] = "mapLock"
    /\ mapOwner' = t
    /\ Goto(t, "mapFind")
    /\ UNCHANGED <<objVars, refs, seen, mutexOwner, raceVars, content>>

LockMap(t) ==
    /\ pc[t] = "mapLock"
    /\ mapOwner = NoThread
    /\ mapOwner' = t
    /\ Goto(t, "mapFind")
    /\ UNCHANGED <<objVars, refs, seen, mutexOwner, raceVars, content>>

FindEntry(t) ==
    /\ pc[t] = "mapFind"
    /\ seen' = [seen EXCEPT ![t] = refs[LogOf(t)]]
    /\ Goto(t, "mapWrite")
    /\ UNCHANGED <<objVars, refs, mapOwner, mutexOwner, raceVars, content>>

\* Erases the entry with one reference left.
NewCountEarly(o, n) ==
    IF o = "ctor" THEN n + 1 ELSE IF n <= 2 THEN 0 ELSE n - 1

\* Takes no notice of an entry that is there, or of one that is not.
NewCountBlind(o, n) == IF o = "ctor" THEN 1 ELSE n - 1

\* The count WriteEntry stores: one more, or one less when there is an entry.
NewCount(o, n) ==
    IF o = "ctor" THEN n + 1 ELSE IF n = 0 THEN 0 ELSE n - 1

\* Lookups in progress in other threads.  An insertion or an erasure relinks
\* the nodes they walk over; an increment of a counter touches nothing they read.
Lookups == {t \in Threads : pc[t] \in {"findLock", "findUnlock"}}

WriteEntry(t) ==
    LET l == LogOf(t)
        n == NewCount(op[t], seen[t])
        relink == (seen[t] = 0) # (n = 0)
        hit == IF relink THEN Lookups ELSE {}
    IN  /\ pc[t] = "mapWrite"
        /\ refs' = [refs EXCEPT ![l] = n]
        /\ mutexOwner' = IF relink THEN [mutexOwner EXCEPT ![l] = NoThread]
                                   ELSE mutexOwner
        /\ torn' = torn \cup hit
        /\ raced' = (raced \/ hit # {})
        /\ phase' = [phase EXCEPT ![arg[t]] =
                        IF op[t] = "ctor" THEN "up" ELSE "gone"]
        /\ Goto(t, "mapUnlock")
        /\ UNCHANGED <<logFile, mapOwner, seen, content>>

UnlockMap(t) ==
    /\ pc[t] = "mapUnlock"
    /\ mapOwner' = NoThread
    /\ seen' = [seen EXCEPT ![t] = 0]
    /\ phase' = [phase EXCEPT ![arg[t]] =
                    IF op[t] = "ctor" THEN "live" ELSE "none"]
    /\ Return(t)
    /\ UNCHANGED <<logFile, refs, mutexOwner, raceVars, content>>

-----------------------------------------------------------------------------
(* log_string and log_exec: lockMutex, the record, unlockMutex.            *)

Log(t, c, o) ==
    /\ phase[c] = "live"
    /\ logFile[c] # NoLog
    /\ Begin(t, o, c, "findLock")
    /\ UNCHANGED <<objVars, mapVars, mutexOwner, raceVars, content>>

\* What map.find may return.  A lookup the map was relinked under is a data
\* race: it may miss an entry that is there.
FindReturns(t) ==
    (IF refs[LogOf(t)] > 0 THEN {"found"} ELSE {"end"})
        \cup (IF t \in torn THEN {"end"} ELSE {})

LockFind(t) ==
    /\ pc[t] = "findLock"
    /\ \E r \in FindReturns(t) :
            Goto(t, IF r = "found" THEN "wait" ELSE "first")
    /\ torn' = torn \ {t}
    /\ UNCHANGED <<objVars, mapVars, mutexOwner, raced, content>>

\* try_lock, its result ignored.
LockMutexTries(t) ==
    /\ pc[t] = "wait"
    /\ mutexOwner' = IF mutexOwner[LogOf(t)] = NoThread
                     THEN [mutexOwner EXCEPT ![LogOf(t)] = t] ELSE mutexOwner
    /\ Goto(t, "first")
    /\ UNCHANGED <<objVars, mapVars, raceVars, content>>

LockMutex(t) ==
    /\ pc[t] = "wait"
    /\ mutexOwner[LogOf(t)] = NoThread
    /\ mutexOwner' = [mutexOwner EXCEPT ![LogOf(t)] = t]
    /\ Goto(t, "first")
    /\ UNCHANGED <<objVars, mapVars, raceVars, content>>

\* One piece of the record of t's current call, appended to the file.
Piece(t, part) == [by |-> t, call |-> calls[t], part |-> part]

Put(t, part) ==
    content' = [content EXCEPT ![FileOf[LogOf(t)]] = Append(@, Piece(t, part))]

\* The mutex is free while the child runs.
WriteFirstUnlocks(t) ==
    /\ pc[t] = "first"
    /\ Put(t, IF op[t] = "string" THEN "line" ELSE "command")
    /\ Goto(t, IF op[t] = "string" THEN "findUnlock" ELSE "output")
    /\ mutexOwner' = IF op[t] = "exec"
                     THEN [mutexOwner EXCEPT ![LogOf(t)] = NoThread] ELSE mutexOwner
    /\ UNCHANGED <<objVars, mapVars, raceVars>>

WriteFirst(t) ==
    /\ pc[t] = "first"
    /\ Put(t, IF op[t] = "string" THEN "line" ELSE "command")
    /\ Goto(t, IF op[t] = "string" THEN "findUnlock" ELSE "output")
    /\ UNCHANGED <<objVars, mapVars, mutexOwner, raceVars>>

\* The child's whole output counts as one piece; a silent child writes none.
CopyOutput(t) ==
    /\ pc[t] = "output"
    /\ Put(t, "output") \/ UNCHANGED content
    /\ Goto(t, "tail")
    /\ UNCHANGED <<objVars, mapVars, mutexOwner, raceVars>>

WriteTail(t) ==
    /\ pc[t] = "tail"
    /\ Put(t, "end")
    /\ Goto(t, "findUnlock")
    /\ UNCHANGED <<objVars, mapVars, mutexOwner, raceVars>>

\* Returns without unlockMutex.
UnlockMutexForgotten(t) ==
    /\ pc[t] = "findUnlock"
    /\ torn' = torn \ {t}
    /\ Return(t)
    /\ UNCHANGED <<objVars, mapVars, mutexOwner, raced, content>>

\* unlockMutex does not ask who holds the mutex it finds.
UnlockMutex(t) ==
    /\ pc[t] = "findUnlock"
    /\ \E r \in FindReturns(t) :
            mutexOwner' = IF r = "found"
                          THEN [mutexOwner EXCEPT ![LogOf(t)] = NoThread]
                          ELSE mutexOwner
    /\ torn' = torn \ {t}
    /\ Return(t)
    /\ UNCHANGED <<objVars, mapVars, raced, content>>

-----------------------------------------------------------------------------
\* A thread goes on with the call it is in.
Continue(t) ==
    \/ LockMap(t) \/ FindEntry(t) \/ WriteEntry(t) \/ UnlockMap(t)
    \/ LockFind(t) \/ LockMutex(t) \/ UnlockMutex(t)
    \/ WriteFirst(t) \/ CopyOutput(t) \/ WriteTail(t)

\* A thread makes a new call.
Call(t) ==
    \E c \in Compilers :
        \/ \E l \in Logs : Construct(t, c, l)
        \/ Destroy(t, c)
        \/ \E o \in {"string", "exec"} : Log(t, c, o)

Silent == \E c \in Compilers : ConstructSilent(c) \/ DestroySilent(c)

Next == Silent \/ \E t \in Threads : Call(t) \/ Continue(t)

Spec == Init /\ [][Next]_vars

\* A thread inside a call is scheduled again, and the programs log_exec runs end.
FairSpec == Spec /\ \A t \in Threads : WF_vars(Continue(t))

-----------------------------------------------------------------------------
(* Type invariant.                                                         *)
TypeOK ==
    /\ phase \in [Compilers -> Phases]
    /\ logFile \in [Compilers -> Logs \cup {NoLog}]
    /\ refs \in [Logs -> Nat]
    /\ mutexOwner \in [Logs -> Threads \cup {NoThread}]
    /\ mapOwner \in Threads \cup {NoThread}
    /\ op \in [Threads -> Ops]
    /\ pc \in [Threads -> Pcs]
    /\ arg \in [Threads -> Compilers \cup {NoCompiler}]
    /\ seen \in [Threads -> Nat]
    /\ torn \subseteq Threads
    /\ raced \in BOOLEAN
    /\ calls \in [Threads -> Nat]
    /\ content \in
         [Files -> Seq([by : Threads, call : Nat, part : Parts])]

(***************************************************************************)
(* The entry of a log path counts exactly the compilers that name it, so   *)
(* it exists as long as one of them does, whatever constructors and        *)
(* destructors run at the same time (Compiler.hpp, "Increments/Decrements  *)
(* the reference counter").                                                *)
(***************************************************************************)
RefCountExact == \A l \in Logs : refs[l] = Cardinality(Registered(l))

(***************************************************************************)
(* A thread that waits for or holds the mutex of a log path never sees its *)
(* entry erased and the mutex destroyed: lockMutex calls lock() through    *)
(* the map's shared_ptr and keeps no reference of its own.                 *)
(***************************************************************************)
MutexOutlivesUsers ==
    \A t \in Threads : pc[t] \in LogPcs => refs[LogOf(t)] > 0

Writing(t) == pc[t] \in WritePcs \cup {"findUnlock"}

(***************************************************************************)
(* As long as no lookup raced with a change of the map, the threads that   *)
(* write to one log path do so one at a time, and the writer holds the     *)
(* path's mutex ("Mutex to regulate exclusive access to log file").        *)
(***************************************************************************)
ExclusiveWriters ==
    ~raced => \A t \in Threads : Writing(t) => mutexOwner[LogOf(t)] = t

(***************************************************************************)
(* As long as no lookup raced, a log mutex is released only by the thread  *)
(* that holds it, and only as that thread leaves log_string or log_exec.   *)
(***************************************************************************)
OnlyHolderReleases ==
    [][ ~raced' =>
          \A l \in Logs, t \in Threads :
            mutexOwner[l] = t /\ mutexOwner'[l] # t =>
                /\ pc[t] = "findUnlock" /\ LogOf(t) = l
                /\ mutexOwner'[l] = NoThread ]_vars

SameRecord(p, q) == p.by = q.by /\ p.call = q.call

Whole(s) ==
    \A i, j, k \in DOMAIN s :
        i < j /\ j < k /\ SameRecord(s[i], s[k]) => SameRecord(s[i], s[j])

(***************************************************************************)
(* No record of a log file is broken up by another thread's: between a     *)
(* command and the end of its output nothing else is written, when no two  *)
(* paths name the file and no lookup raced.                                *)
(***************************************************************************)
RecordsWhole ==
    ~raced /\ (\A k, l \in Logs : FileOf[k] = FileOf[l] => k = l)
        => \A f \in Files : Whole(content[f])

\* One spelling of one log path in the whole program.
SingleLog == \A k, l \in Logs : k = l

(***************************************************************************)
(* When all compilers that log use one path, the unguarded lookups of      *)
(* lockMutex and unlockMutex are harmless: the map changes only while no   *)
(* compiler of that path can be in use.                                    *)
(***************************************************************************)
NoRace == SingleLog => ~raced

(***************************************************************************)
(* Every call on the log returns: no thread waits for ever for a mutex.    *)
(***************************************************************************)
CallsReturn == \A t \in Threads : op[t] # "none" ~> op[t] = "none"
-----------------------------------------------------------------------------
(* The inductive invariant behind RefCountExact, ExclusiveWriters and      *)
(* NoRace.                                                                 *)

\* What op, pc and arg of a thread say together, and of which object.
CallOK(t) ==
    /\ op[t] = "none" <=> pc[t] = "idle"
    /\ op[t] \in {"ctor", "dtor"} <=> pc[t] \in RefPcs
    /\ op[t] \in {"string", "exec"} <=> pc[t] \in LogPcs
    /\ op[t] # "none" => arg[t] \in Compilers /\ logFile[arg[t]] \in Logs
    /\ op[t] = "ctor" =>
         phase[arg[t]] = IF pc[t] = "mapUnlock" THEN "up" ELSE "new"
    /\ op[t] = "dtor" =>
         phase[arg[t]] = IF pc[t] = "mapUnlock" THEN "gone" ELSE "down"
    /\ pc[t] \in LogPcs => phase[arg[t]] = "live"

\* An object is built or destroyed by one thread.
OneBuilder ==
    \A t, u \in Threads :
        pc[t] \in RefPcs /\ pc[u] \in RefPcs /\ arg[t] = arg[u] => t = u

\* The critical section of mtx_map_mtx, and what is read in it.
MapOK(t) ==
    /\ pc[t] \in RefPcs \ {"mapLock"} => mapOwner = t
    /\ pc[t] = "mapWrite" => seen[t] = refs[LogOf(t)]

\* The critical sections of the log mutexes, as long as no lookup raced.
LockInv ==
    ~raced =>
        /\ torn = {}
        /\ \A t \in Threads : Writing(t) => mutexOwner[LogOf(t)] = t
        /\ \A l \in Logs, t \in Threads :
             mutexOwner[l] = t => Writing(t) /\ LogOf(t) = l

CallInv == OneBuilder /\ \A t \in Threads : CallOK(t)

MapInv == \A t \in Threads : MapOK(t)

(***************************************************************************)
(* The inductive invariant: the critical sections of mtx_map_mtx and of    *)
(* the log mutexes, the exact counts, and the object every call is about.  *)
(***************************************************************************)
IInv == TypeOK /\ CallInv /\ MapInv /\ RefCountExact /\ LockInv
=============================================================================
