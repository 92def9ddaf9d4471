--------------------------- MODULE ClangLibProofs ---------------------------
(***************************************************************************)
(* Proofs about ClangLib and about JITCalls, which shares its steps, for   *)
(* any threads, logs and number of calls: the mutexes have the holders the *)
(* code means them to have, hence the optimizer runs under its own         *)
(* options, the writers of a log exclude each other, and no two threads    *)
(* wait for each other.                                                    *)
(*                                                                         *)
(* A mutex that an error leaves locked stays with the thread that left:    *)
(* InSection implies ownership of opt_parse_mtx and is not implied by it.  *)
(* A log mutex on the other hand is never left, only kept for ever, so its *)
(* owner is known exactly (LogOwned); NoMutualWait needs that direction.   *)
(***************************************************************************)
EXTENDS JITCalls, TLAPS

InSection(t) == Place(t) \in SectionPcs \cup ErrorPcs

\* t is between a lock and an unlock of the mutex of its log.
Holds(t) ==
    \/ pc[t] = "sayUnlock"
    \/ Place(t) \in {"unlockFailed", "unlockLog"}
    \/ op[t] = "generateIR" /\ Place(t) \in {"build", "drive"}

\* Where log_string may return to; generateIR's report never gets its lock.
ReturnPcs == {"logLock", "parseLock", "build", "unlockFailed", "return",
              "rejected", "left", "run"}

Returning ==
    \A t \in Threads :
        /\ pc[t] \in SayPcs =>
              /\ log[t] # NoLog
              /\ back[t] \in ReturnPcs
              /\ op[t] = "generateIR" => back[t] # "build"
        /\ ~(pc[t] = "sayUnlock" /\ back[t] = "unlockFailed")
        /\ Place(t) = "logLock" => op[t] = "generateIR"
        /\ Place(t) \in {"build", "drive"} => op[t] \in {"generateIR", "generateBin"}

ParseOwned == \A t \in Threads : InSection(t) => parseOwner = t

Cleared == \A t \in Threads : Place(t) = "parse" => options = {}

LogOwned ==
    \A l \in Logs, t \in Threads :
        logOwner[l] = t <=> log[t] = l /\ Holds(t)

Inv ==
    /\ TypeOK
    /\ Returning
    /\ ParseOwned
    /\ Cleared
    /\ OwnOptions
    /\ LogOwned

-----------------------------------------------------------------------------
\* Inv holds before the first call.
LEMMA InitInv == Init => Inv
<1> SUFFICES ASSUME Init PROVE Inv OBVIOUS
<1> USE ClangLibAssumption DEF Init
<1>1. TypeOK
  BY DEF TypeOK, InCall, Pcs
<1>2. \A t \in Threads : Place(t) = "idle" /\ pc[t] = "idle"
  BY DEF Place, SayPcs
<1>3. Returning /\ ParseOwned /\ Cleared /\ OwnOptions /\ LogOwned
  BY <1>2 DEF Returning, ParseOwned, Cleared, OwnOptions, LogOwned, InSection,
              Holds, SayPcs, SectionPcs, ErrorPcs
<1>4. QED BY <1>1, <1>3 DEF Inv

\* A step of t changes nothing of the calls of the others.
LocalStep(t) ==
    \A u \in Threads \ {t} :
        /\ pc'[u] = pc[u] /\ back'[u] = back[u]
        /\ op'[u] = op[u] /\ log'[u] = log[u] /\ calls'[u] = calls[u]

\* The others stay where they are and hold what they held.
LEMMA OthersStay ==
    ASSUME NEW t \in Threads, LocalStep(t), NEW u \in Threads, u # t
    PROVE  /\ Place(u)' = Place(u)
           /\ Me(u)' = Me(u)
           /\ Holds(u)' <=> Holds(u)
           /\ pc'[u] = pc[u]
           /\ op'[u] = op[u]
           /\ log'[u] = log[u]
           /\ back'[u] = back[u]
BY DEF LocalStep, Place, Me, Holds

-----------------------------------------------------------------------------
\* The part of TypeOK that is about the calls.
Types ==
    /\ op \in [Threads -> Ops \cup {"none"}]
    /\ pc \in [Threads -> Pcs]
    /\ back \in [Threads -> Pcs]
    /\ log \in [Threads -> Logs \cup {NoLog}]
    /\ calls \in [Threads -> Nat]
    /\ \A t \in Threads : InCall(t) <=> pc[t] # "idle"

\* t goes on at w, with or without a report before.
Moves(t, w) == Goto(t, w) \/ (Report(t, w) /\ w \in ReturnPcs \ {"build", "logLock"})

\* A thread that moves is at w, in the same call.
LEMMA Going ==
    ASSUME TypeOK, Returning, NEW t \in Threads, pc[t] # "idle",
           NEW w \in Pcs \ ({"idle", "logLock"} \cup SayPcs),
           w \in {"build", "drive"} => op[t] \in {"generateIR", "generateBin"},
           Moves(t, w)
    PROVE  /\ LocalStep(t) /\ Types' /\ Returning'
           /\ Place(t)' = w /\ pc'[t] # "sayUnlock"
           /\ Me(t)' = Me(t) /\ log'[t] = log[t] /\ op'[t] = op[t]
<1> USE DEF TypeOK, Goto, Report, Say, call
<1>1. CASE Goto(t, w)
  <2>1. LocalStep(t)
    BY <1>1 DEF LocalStep
  <2>2. Types'
    BY <1>1 DEF Types, InCall
  <2>3. Returning'
    BY <1>1 DEF Returning, Place, SayPcs
  <2>4. Place(t)' = w /\ pc'[t] # "sayUnlock" /\ Me(t)' = Me(t)
        /\ log'[t] = log[t] /\ op'[t] = op[t]
    BY <1>1 DEF Place, Me, SayPcs
  <2>5. QED BY <2>1, <2>2, <2>3, <2>4
<1>2. CASE Report(t, w) /\ w \in ReturnPcs \ {"build", "logLock"}
  <2> DEFINE x == IF log[t] = NoLog THEN w ELSE "sayLock"
  <2>0. /\ pc' = [pc EXCEPT ![t] = x] /\ back' = [back EXCEPT ![t] = w]
        /\ UNCHANGED <<op, log, calls>>
        /\ x = w \/ (x = "sayLock" /\ log[t] # NoLog)
    BY <1>2
  <2>a. x \in Pcs /\ x # "idle" /\ x # "sayUnlock"
    BY <2>0 DEF Pcs, SayPcs
  <2> HIDE DEF x
  <2>1. LocalStep(t)
    BY <2>0, <2>a DEF LocalStep
  <2>2. Types'
    BY <2>0, <2>a DEF Types, InCall
  <2>3. Returning'
    BY <1>2, <2>0, <2>a DEF Returning, Place, SayPcs
  <2>4. Place(t)' = w /\ pc'[t] # "sayUnlock" /\ Me(t)' = Me(t)
        /\ log'[t] = log[t] /\ op'[t] = op[t]
    BY <2>0, <2>a DEF Place, Me, SayPcs
  <2>5. QED BY <2>1, <2>2, <2>3, <2>4
<1>3. QED BY <1>1, <1>2 DEF Moves

\* TypeOK is about the calls, and about what they share.
LEMMA TypesSuffice ==
    ASSUME Types', logOwner' \in [Logs -> Threads \cup {NoThread}],
           parseOwner' \in Threads \cup {NoThread}, options' \subseteq Threads \X Nat
    PROVE  TypeOK'
BY DEF Types, TypeOK

\* A step that touches neither a mutex nor the options, and neither enters nor
\* leaves a part of the code where the thread should hold one.
LEMMA QuietStep ==
    ASSUME Inv, NEW t \in Threads, LocalStep(t), Types', Returning',
           UNCHANGED <<logOwner, parseOwner, options>>,
           Me(t)' = Me(t), log'[t] = log[t] \/ ~Holds(t),
           InSection(t)' => InSection(t),
           Holds(t)' <=> Holds(t),
           Place(t)' # "parse",
           Place(t)' \in {"load", "passes", "run"}
                => Place(t) \in {"load", "passes", "run"}
    PROVE  Inv'
<1> USE DEF Inv
<1>1. TypeOK'
  BY TypesSuffice DEF TypeOK
<1>2. ParseOwned'
  BY OthersStay DEF ParseOwned, InSection
<1>3. Cleared' /\ OwnOptions'
  BY OthersStay DEF Cleared, OwnOptions
<1>4. LogOwned'
  BY OthersStay DEF LogOwned
<1>5. QED BY <1>1, <1>2, <1>3, <1>4

-----------------------------------------------------------------------------
(* One lemma for the steps that touch nothing shared, one for each other.  *)

\* Inv survives the steps that touch no mutex and no option.
LEMMA QuietInv ==
    ASSUME Inv, NEW t \in Threads,
           \/ BuildFails(t) \/ Build(t) \/ Drive(t) \/ Check(t) \/ Reject(t)
           \/ Leave(t) \/ Load(t) \/ Passes(t) \/ Run(t) \/ Diverge(t)
    PROVE  Inv'
<1>1. CASE BuildFails(t)
  <2> DEFINE w == IF op[t] = "generateIR" THEN "unlockFailed" ELSE "return"
  <2>1. Moves(t, w) /\ UNCHANGED <<logOwner, parseOwner, options>>
    BY <1>1 DEF BuildFails, Moves, ReturnPcs
  <2>2. pc[t] # "idle" /\ w \in Pcs \ ({"idle", "logLock"} \cup SayPcs)
    BY <1>1 DEF BuildFails, Pcs, SayPcs, SectionPcs, ErrorPcs, DriverPcs
  <2>3. /\ LocalStep(t) /\ Types' /\ Returning'
        /\ Place(t)' = w /\ pc'[t] # "sayUnlock"
        /\ Me(t)' = Me(t) /\ log'[t] = log[t] /\ op'[t] = op[t]
    BY <2>1, <2>2, Going DEF Inv
  <2>4. /\ Place(t) = pc[t] /\ (Holds(t)' <=> Holds(t))
        /\ ~InSection(t)' /\ Place(t)' \in DriverPcs \cup {"return"}
    BY <1>1, <2>3 DEF BuildFails, Holds, Place, InSection, SayPcs, SectionPcs, ErrorPcs, DriverPcs
  <2>5. QED
    BY <2>1, <2>3, <2>4, QuietStep DEF DriverPcs
<1>2. CASE Build(t)
  <2> DEFINE w == "drive"
  <2>1. Moves(t, w) /\ UNCHANGED <<logOwner, parseOwner, options>>
    BY <1>2 DEF Build, Moves, ReturnPcs
  <2>2. pc[t] # "idle" /\ w \in Pcs \ ({"idle", "logLock"} \cup SayPcs)
    BY <1>2 DEF Build, Pcs, SayPcs, SectionPcs, ErrorPcs, DriverPcs
  <2>3. op[t] \in {"generateIR", "generateBin"}
    BY <1>2 DEF Build, Inv, Returning, Place, SayPcs
  <2>4. QED
    BY <1>2, <2>1, <2>2, <2>3, Going, QuietStep
       DEF Build, Inv, InSection, Holds, Place, SayPcs, SectionPcs, ErrorPcs
<1>3. CASE Drive(t)
  <2> DEFINE w == IF op[t] = "generateIR" THEN "unlockLog" ELSE "check"
  <2>1. Moves(t, w) /\ UNCHANGED <<logOwner, parseOwner, options>>
    BY <1>3 DEF Drive, Moves, ReturnPcs
  <2>2. pc[t] # "idle" /\ w \in Pcs \ ({"idle", "logLock"} \cup SayPcs)
    BY <1>3 DEF Drive, Pcs, SayPcs, SectionPcs, ErrorPcs, DriverPcs
  <2>3. /\ LocalStep(t) /\ Types' /\ Returning'
        /\ Place(t)' = w /\ pc'[t] # "sayUnlock"
        /\ Me(t)' = Me(t) /\ log'[t] = log[t] /\ op'[t] = op[t]
    BY <2>1, <2>2, Going DEF Inv
  <2>4. /\ Place(t) = pc[t] /\ (Holds(t)' <=> Holds(t))
        /\ ~InSection(t)' /\ Place(t)' \in DriverPcs \cup {"return"}
    BY <1>3, <2>3 DEF Drive, Holds, Place, InSection, SayPcs, SectionPcs, ErrorPcs, DriverPcs
  <2>5. QED
    BY <2>1, <2>3, <2>4, QuietStep DEF DriverPcs
<1>4. CASE Check(t)
  <2> DEFINE w == "return"
  <2>1. Moves(t, w) /\ UNCHANGED <<logOwner, parseOwner, options>>
    BY <1>4 DEF Check, Moves, ReturnPcs
  <2>2. pc[t] # "idle" /\ w \in Pcs \ ({"idle", "logLock"} \cup SayPcs)
    BY <1>4 DEF Check, Pcs, SayPcs, SectionPcs, ErrorPcs, DriverPcs
  <2>3. QED
    BY <1>4, <2>1, <2>2, Going, QuietStep
       DEF Check, Inv, InSection, Holds, Place, SayPcs, SectionPcs, ErrorPcs
<1>5. CASE Reject(t)
  <2> DEFINE w == "rejected"
  <2>1. Moves(t, w) /\ UNCHANGED <<logOwner, parseOwner, options>>
    BY <1>5 DEF Reject, Moves, ReturnPcs
  <2>2. pc[t] # "idle" /\ w \in Pcs \ ({"idle", "logLock"} \cup SayPcs)
    BY <1>5 DEF Reject, Pcs, SayPcs, SectionPcs, ErrorPcs, DriverPcs
  <2>3. QED
    BY <1>5, <2>1, <2>2, Going, QuietStep
       DEF Reject, Inv, InSection, Holds, Place, SayPcs, SectionPcs, ErrorPcs
<1>6. CASE Leave(t)
  <2> DEFINE w == "left"
  <2>1. Moves(t, w) /\ UNCHANGED <<logOwner, parseOwner, options>>
    BY <1>6 DEF Leave, Moves, ReturnPcs
  <2>2. pc[t] # "idle" /\ w \in Pcs \ ({"idle", "logLock"} \cup SayPcs)
    BY <1>6 DEF Leave, Pcs, SayPcs, SectionPcs, ErrorPcs, DriverPcs
  <2>3. QED
    BY <1>6, <2>1, <2>2, Going, QuietStep
       DEF Leave, Inv, InSection, Holds, Place, SayPcs, SectionPcs, ErrorPcs
<1>7. CASE Load(t)
  <2> DEFINE w == "passes"
  <2>1. Moves(t, w) /\ UNCHANGED <<logOwner, parseOwner, options>>
    BY <1>7 DEF Load, Moves, ReturnPcs
  <2>2. pc[t] # "idle" /\ w \in Pcs \ ({"idle", "logLock"} \cup SayPcs)
    BY <1>7 DEF Load, Pcs, SayPcs, SectionPcs, ErrorPcs, DriverPcs
  <2>3. QED
    BY <1>7, <2>1, <2>2, Going, QuietStep
       DEF Load, Inv, InSection, Holds, Place, SayPcs, SectionPcs, ErrorPcs
<1>8. CASE Passes(t)
  <2> DEFINE w == "run"
  <2>1. Moves(t, w) /\ UNCHANGED <<logOwner, parseOwner, options>>
    BY <1>8 DEF Passes, Moves, ReturnPcs
  <2>2. pc[t] # "idle" /\ w \in Pcs \ ({"idle", "logLock"} \cup SayPcs)
    BY <1>8 DEF Passes, Pcs, SayPcs, SectionPcs, ErrorPcs, DriverPcs
  <2>3. QED
    BY <1>8, <2>1, <2>2, Going, QuietStep
       DEF Passes, Inv, InSection, Holds, Place, SayPcs, SectionPcs, ErrorPcs
<1>9. CASE Run(t)
  <2> DEFINE w == "unlockParse"
  <2>1. Moves(t, w) /\ UNCHANGED <<logOwner, parseOwner, options>>
    BY <1>9 DEF Run, Moves, ReturnPcs
  <2>2. pc[t] # "idle" /\ w \in Pcs \ ({"idle", "logLock"} \cup SayPcs)
    BY <1>9 DEF Run, Pcs, SayPcs, SectionPcs, ErrorPcs, DriverPcs
  <2>3. QED
    BY <1>9, <2>1, <2>2, Going, QuietStep
       DEF Run, Inv, InSection, Holds, Place, SayPcs, SectionPcs, ErrorPcs
<1>10. CASE Diverge(t)
  <2> DEFINE w == "left"
  <2>1. Moves(t, w) /\ UNCHANGED <<logOwner, parseOwner, options>>
    BY <1>10 DEF Diverge, Moves, ReturnPcs
  <2>2. pc[t] # "idle" /\ w \in Pcs \ ({"idle", "logLock"} \cup SayPcs)
    BY <1>10 DEF Diverge, Pcs, SayPcs, SectionPcs, ErrorPcs, DriverPcs
  <2>3. QED
    BY <1>10, <2>1, <2>2, Going, QuietStep
       DEF Diverge, Inv, InSection, Holds, Place, SayPcs, SectionPcs, ErrorPcs
<1>11. QED BY <1>1, <1>2, <1>3, <1>4, <1>5, <1>6, <1>7, <1>8, <1>9, <1>10

\* What a log mutex is about: each compiler has a log or none.
LogTypes ==
    /\ log \in [Threads -> Logs \cup {NoLog}]
    /\ logOwner \in [Logs -> Threads \cup {NoThread}]

\* Taking the mutex of the log, and giving it back, keeps its owner exact.
LEMMA TakeStep ==
    ASSUME LogTypes, LogOwned, NEW t \in Threads, LocalStep(t), Take(t),
           log'[t] = log[t], Holds(t)'
    PROVE  LogOwned' /\ logOwner' \in [Logs -> Threads \cup {NoThread}]
<1>1. CASE log[t] = NoLog
  BY <1>1, OthersStay, ClangLibAssumption DEF LogTypes, LogOwned, Take
<1>2. CASE log[t] # NoLog
  <2>1. logOwner[log[t]] = NoThread /\ logOwner' = [logOwner EXCEPT ![log[t]] = t]
    BY <1>2 DEF Take
  <2>2. log[t] \in Logs
    BY <1>2 DEF LogTypes
  <2>3. QED
    BY <2>1, <2>2, OthersStay, ClangLibAssumption DEF LogTypes, LogOwned
<1>3. QED BY <1>1, <1>2

\* Giving the mutex back does so too.
LEMMA ReleaseStep ==
    ASSUME LogTypes, LogOwned, NEW t \in Threads, LocalStep(t), Release(t),
           log'[t] = log[t], Holds(t), ~Holds(t)'
    PROVE  LogOwned' /\ logOwner' \in [Logs -> Threads \cup {NoThread}]
BY OthersStay, ClangLibAssumption DEF LogTypes, LogOwned, Release

\* What such a step leaves alone: opt_parse_mtx and the options.
LEMMA OnLogOnly ==
    ASSUME Inv, NEW t \in Threads, LocalStep(t), Types', Returning',
           UNCHANGED <<parseOwner, options>>, Me(t)' = Me(t),
           logOwner' \in [Logs -> Threads \cup {NoThread}], LogOwned',
           InSection(t)' => InSection(t),
           Place(t)' \in {"parse", "load", "passes", "run"} => Place(t)' = Place(t)
    PROVE  Inv'
<1> USE DEF Inv
<1>1. TypeOK'
  BY TypesSuffice DEF TypeOK
<1>2. ParseOwned'
  BY OthersStay DEF ParseOwned, InSection
<1>3. Cleared' /\ OwnOptions'
  BY OthersStay DEF Cleared, OwnOptions
<1>4. QED BY <1>1, <1>2, <1>3

\* log_string takes the mutex of the log.
LEMMA SayLockInv ==
    ASSUME Inv, NEW t \in Threads, SayLock(t) PROVE Inv'
<1>1. /\ pc[t] = "sayLock" /\ pc' = [pc EXCEPT ![t] = "sayUnlock"]
      /\ UNCHANGED <<back, op, log, calls, parseOwner, options>> /\ Take(t)
  BY DEF SayLock, Goto, call
<1>2. back[t] # "unlockFailed"
  \* Its caller holds the mutex this report waits for.
  BY <1>1, ClangLibAssumption
     DEF Inv, TypeOK, Returning, LogOwned, Holds, Place, SayPcs, Take
<1>3. LocalStep(t) /\ Types' /\ Returning'
  BY <1>1, <1>2 DEF Inv, TypeOK, Types, LocalStep, Returning, Place, InCall, Pcs, SayPcs
<1>4. Place(t)' = Place(t) /\ Me(t)' = Me(t) /\ Holds(t)' /\ log'[t] = log[t]
  BY <1>1 DEF Inv, TypeOK, Place, Me, Holds, SayPcs
<1>5. QED
  BY <1>1, <1>3, <1>4, TakeStep, OnLogOnly DEF InSection, Inv, TypeOK, LogTypes

\* log_string gives it back.
LEMMA SayUnlockInv ==
    ASSUME Inv, NEW t \in Threads, SayUnlock(t) PROVE Inv'
<1>1. /\ pc[t] = "sayUnlock" /\ pc' = [pc EXCEPT ![t] = back[t]]
      /\ UNCHANGED <<back, op, log, calls, parseOwner, options>> /\ Release(t)
  BY DEF SayUnlock, Goto, call
<1>3. LocalStep(t) /\ Types' /\ Returning'
  BY <1>1 DEF Inv, TypeOK, Types, LocalStep, Returning, Place, InCall, SayPcs, ReturnPcs
<1>4. Place(t)' = Place(t) /\ Me(t)' = Me(t) /\ log'[t] = log[t] /\ Holds(t)
  BY <1>1 DEF Inv, TypeOK, Returning, Place, Me, Holds, SayPcs, ReturnPcs
<1>5. ~Holds(t)'
  BY <1>1 DEF Inv, TypeOK, Returning, ReturnPcs, Holds, Place, SayPcs
<1>6. QED
  BY <1>1, <1>3, <1>4, <1>5, ReleaseStep, OnLogOnly
     DEF InSection, Inv, TypeOK, LogTypes

\* generateIR locks and unlocks the log around the driver.
LEMMA DriverMutexInv ==
    ASSUME Inv, NEW t \in Threads, LockLog(t) \/ UnlockFailed(t) \/ UnlockLog(t)
    PROVE  Inv'
<1> DEFINE w == IF pc[t] = "logLock" THEN "build"
                ELSE IF pc[t] = "unlockLog" THEN "check" ELSE "return"
<1>1. /\ Moves(t, w) /\ UNCHANGED <<parseOwner, options>>
      /\ pc[t] \in {"logLock", "unlockFailed", "unlockLog"}
  BY DEF LockLog, UnlockFailed, UnlockLog, Moves
<1>2. w \in Pcs \ ({"idle", "logLock"} \cup SayPcs) /\ w \in {"build", "check", "return"}
  BY DEF Pcs, SayPcs, DriverPcs
<1>a. w = "build" => op[t] \in {"generateIR", "generateBin"}
  BY <1>1 DEF Inv, Returning, Place, SayPcs
<1>3. /\ LocalStep(t) /\ Types' /\ Returning' /\ Place(t)' = w
      /\ pc'[t] # "sayUnlock" /\ Me(t)' = Me(t) /\ log'[t] = log[t]
      /\ op'[t] = op[t]
  BY <1>1, <1>2, <1>a, Going DEF Inv
<1>4. ~InSection(t)'
  BY <1>2, <1>3 DEF InSection, SectionPcs, ErrorPcs
<1> LogTypes /\ LogOwned
  BY DEF Inv, TypeOK, LogTypes
<1>5. CASE LockLog(t)
  <2>1. Take(t) /\ Place(t) = "logLock"
    BY <1>5 DEF LockLog, Place, SayPcs
  <2>2. Holds(t)'
    BY <1>3, <1>5, <2>1 DEF Inv, Returning, Holds, LockLog
  <2>3. QED
    BY <1>1, <1>2, <1>3, <1>4, <2>1, <2>2, TakeStep, OnLogOnly
<1>6. CASE UnlockFailed(t) \/ UnlockLog(t)
  <2>1. Release(t) /\ Holds(t)
    BY <1>6 DEF UnlockFailed, UnlockLog, Holds, Place, SayPcs
  <2>2. ~Holds(t)'
    BY <1>1, <1>3, <1>6 DEF Holds, UnlockFailed, UnlockLog
  <2>3. QED
    BY <1>1, <1>2, <1>3, <1>4, <2>1, <2>2, ReleaseStep, OnLogOnly
<1>7. QED BY <1>5, <1>6

\* A step on opt_parse_mtx or the options: the logs stay as they are.
LEMMA OffLog ==
    ASSUME LogOwned, NEW t \in Threads, LocalStep(t), UNCHANGED logOwner,
           log'[t] = log[t], ~Holds(t), ~Holds(t)'
    PROVE  LogOwned'
BY OthersStay DEF LogOwned

\* Nobody else is in the section of a thread that is.
LEMMA AloneInSection ==
    ASSUME ParseOwned, NEW t \in Threads, parseOwner \in {t, NoThread},
           NEW u \in Threads, u # t
    PROVE  ~InSection(u)
BY ClangLibAssumption DEF ParseOwned

\* runOptimizer takes opt_parse_mtx, fills the options, and gives it back.
LEMMA SectionInv ==
    ASSUME Inv, NEW t \in Threads,
           LockParse(t) \/ Reset(t) \/ Parse(t) \/ UnlockParse(t)
    PROVE  Inv'
<1> DEFINE w == CASE pc[t] = "parseLock" -> "reset" [] pc[t] = "reset" -> "parse"
                  [] pc[t] = "parse" -> "load" [] OTHER -> "return"
<1>1. /\ Moves(t, w) /\ UNCHANGED logOwner
      /\ pc[t] \in {"parseLock", "reset", "parse", "unlockParse"}
  BY DEF LockParse, Reset, Parse, UnlockParse, Moves
<1>2. w \in Pcs \ ({"idle", "logLock"} \cup SayPcs)
  BY DEF Pcs, SayPcs, SectionPcs
<1>3. /\ LocalStep(t) /\ Types' /\ Returning' /\ Place(t)' = w
      /\ pc'[t] # "sayUnlock" /\ Me(t)' = Me(t) /\ log'[t] = log[t]
  BY <1>1, <1>2, Going DEF Inv
<1>4. Place(t) = pc[t] /\ ~Holds(t) /\ ~Holds(t)'
  BY <1>1, <1>3 DEF Place, Holds, SayPcs
<1>5. LogOwned'
  BY <1>1, <1>3, <1>4, OffLog DEF Inv
<1>6. parseOwner \in {t, NoThread}
  BY <1>1, <1>4
     DEF Inv, ParseOwned, InSection, SectionPcs, LockParse, Reset, Parse, UnlockParse
<1>7. \A u \in Threads \ {t} : ~InSection(u) /\ ~InSection(u)' /\ Place(u)' = Place(u)
  BY <1>3, <1>6, AloneInSection, OthersStay DEF InSection, Inv
<1>8. parseOwner' \in Threads \cup {NoThread} /\ ParseOwned'
  BY <1>1, <1>3, <1>4, <1>6, <1>7
     DEF Inv, TypeOK, ParseOwned, InSection, SectionPcs, ErrorPcs,
         LockParse, Reset, Parse, UnlockParse
<1>9. options' \subseteq Threads \X Nat
  BY DEF Inv, TypeOK, LockParse, Reset, Parse, UnlockParse, Me
<1>10. /\ w = "parse" => options' = {}
       /\ w \in {"load", "passes", "run"} => options' = {Me(t)'}
  <2>1. CASE pc[t] = "parse"
    BY <1>3, <1>4, <2>1
       DEF Inv, Cleared, LockParse, Reset, Parse, UnlockParse
  <2>2. CASE pc[t] # "parse"
    BY <1>1, <2>2 DEF LockParse, Reset, Parse, UnlockParse
  <2>3. QED BY <2>1, <2>2
<1>11. Cleared' /\ OwnOptions'
  <2>1. ASSUME NEW u \in Threads \ {t}
        PROVE  Place(u)' \notin {"parse", "load", "passes", "run"}
    BY <1>7, <2>1 DEF InSection, SectionPcs
  <2>2. QED BY <1>3, <1>10, <2>1 DEF Cleared, OwnOptions
<1>12. QED
  BY <1>1, <1>3, <1>5, <1>8, <1>9, <1>11, TypesSuffice DEF Inv, TypeOK

\* A call begins, with the log_string of its command line.
LEMMA BeginInv ==
    ASSUME Inv, NEW t \in Threads, NEW o \in Ops, NEW l \in Logs \cup {NoLog},
           Begin(t, o, l)
    PROVE  Inv'
<1> DEFINE x == IF l = NoLog THEN First[o] ELSE "sayLock"
<1>1. /\ pc' = [pc EXCEPT ![t] = x] /\ back' = [back EXCEPT ![t] = First[o]]
      /\ op' = [op EXCEPT ![t] = o] /\ log' = [log EXCEPT ![t] = l]
      /\ calls' = [calls EXCEPT ![t] = @ + 1]
      /\ UNCHANGED <<logOwner, parseOwner, options>> /\ op[t] = "none"
  BY DEF Begin, Say
<1>2. First[o] \in {"logLock", "parseLock", "build"}
      /\ (First[o] = "logLock" => o = "generateIR")
      /\ (First[o] = "build" => o = "generateBin") /\ o # "none"
  BY DEF First, Ops
<1>3. x \in Pcs /\ x # "idle" /\ x # "sayUnlock" /\ First[o] \in Pcs
  BY <1>2 DEF Pcs, SayPcs, DriverPcs
<1>4. x = First[o] \/ (x = "sayLock" /\ l # NoLog)
  OBVIOUS
<1> HIDE DEF x
<1>5. pc[t] = "idle"
  BY <1>1 DEF Inv, TypeOK, InCall
<1>6. LocalStep(t) /\ Types'
  BY <1>1, <1>2, <1>3 DEF Inv, TypeOK, Types, LocalStep, InCall
<1>7. Place(t)' = First[o] /\ pc'[t] = x
  BY <1>1, <1>2, <1>4 DEF Inv, TypeOK, Place, SayPcs
<1>8. Returning'
  BY <1>1, <1>2, <1>3, <1>4, <1>7, OthersStay, <1>6
     DEF Inv, TypeOK, Returning, ReturnPcs, SayPcs
<1>9. ~Holds(t) /\ ~Holds(t)' /\ ~InSection(t)'
  BY <1>1, <1>2, <1>3, <1>5, <1>7
     DEF Inv, TypeOK, Holds, InSection, Place, SayPcs, SectionPcs, ErrorPcs
<1>10. TypeOK'
  BY <1>1, <1>6, TypesSuffice DEF Inv, TypeOK
<1>11. ParseOwned' /\ Cleared' /\ OwnOptions'
  BY <1>1, <1>2, <1>6, <1>7, <1>9, OthersStay
     DEF Inv, ParseOwned, Cleared, OwnOptions, InSection
<1>12. LogOwned'
  BY <1>1, <1>6, <1>9, OthersStay DEF Inv, LogOwned
<1>13. QED
  BY <1>8, <1>10, <1>11, <1>12 DEF Inv

\* A call returns, perhaps with opt_parse_mtx still locked.
LEMMA ReturnInv ==
    ASSUME Inv, NEW t \in Threads, Return(t) PROVE Inv'
<1>1. /\ pc' = [pc EXCEPT ![t] = "idle"] /\ op' = [op EXCEPT ![t] = "none"]
      /\ UNCHANGED <<back, log, calls, logOwner, parseOwner, options>>
      /\ pc[t] \in {"return", "left"}
  BY DEF Return
<1>2. LocalStep(t) /\ Types' /\ Returning'
  BY <1>1 DEF Inv, TypeOK, Types, LocalStep, Returning, Place, InCall, Pcs, SayPcs
<1>3. /\ Place(t)' = "idle" /\ Me(t)' = Me(t) /\ log'[t] = log[t]
      /\ ~Holds(t) /\ ~Holds(t)' /\ ~InSection(t)'
  BY <1>1 DEF Inv, TypeOK, Place, Me, Holds, InSection, SayPcs, SectionPcs, ErrorPcs
<1>4. QED
  BY <1>1, <1>2, <1>3, QuietStep

\* Inv is about the variables only.
LEMMA StutterInv == Inv /\ UNCHANGED vars => Inv'
BY DEF Inv, TypeOK, Returning, ParseOwned, Cleared, OwnOptions, LogOwned, vars,
       InSection, Holds, Place, InCall, Me

\* Every step of the calls preserves Inv.
LEMMA StepInv == Inv /\ [Next]_vars => Inv'
<1> SUFFICES ASSUME Inv, Next PROVE Inv'
  BY StutterInv
<1>1. PICK t \in Threads :
          (\E o \in Ops, l \in Logs \cup {NoLog} : Begin(t, o, l)) \/ Continue(t)
  BY DEF Next
<1>2. CASE \E o \in Ops, l \in Logs \cup {NoLog} : Begin(t, o, l)
  BY <1>2, BeginInv
<1>3. CASE Continue(t)
  BY <1>3, SayLockInv, SayUnlockInv, ReturnInv, DriverMutexInv, SectionInv, QuietInv
     DEF Continue
<1>4. QED BY <1>1, <1>2, <1>3

-----------------------------------------------------------------------------
(***************************************************************************)
(* Inv holds in every reachable state.                                     *)
(***************************************************************************)
THEOREM Invariance == Spec => []Inv
BY InitInv, StepInv, PTL DEF Spec

(***************************************************************************)
(* The variables keep their types, and a thread has a place in a call      *)
(* exactly while it is in one.                                             *)
(***************************************************************************)
THEOREM TypeCorrect == Spec => []TypeOK
<1>1. Inv => TypeOK BY DEF Inv
<1>2. QED BY <1>1, Invariance, PTL

(***************************************************************************)
(* runOptimizer works under its own options, also after calls that left    *)
(* opt_parse_mtx locked and never cleaned up.                              *)
(***************************************************************************)
THEOREM OptimizersKeepTheirOptions == Spec => []OwnOptions
<1>1. Inv => OwnOptions BY DEF Inv
<1>2. QED BY <1>1, Invariance, PTL

\* The owner of a log being exact, those who write as its owner exclude each
\* other.
LEMMA OwnersAlone ==
    ASSUME LogTypes, LogOwned, NEW t \in Threads, NEW u \in Threads,
           Holds(t), Holds(u), log[t] = log[u], log[t] # NoLog
    PROVE  t = u
<1>1. log[t] \in Logs
  BY DEF LogTypes
<1>2. QED BY <1>1 DEF LogOwned

(***************************************************************************)
(* While a line or the driver of a generateIR is written to a log, only    *)
(* the drivers of generateBin may write there too.                         *)
(***************************************************************************)
THEOREM WritersExcludeEachOther == Spec => []LogWritersExclusive
<1>1. Inv => LogWritersExclusive
  <2> SUFFICES ASSUME Inv, NEW t \in Threads, NEW u \in Threads, t # u,
                      Writes(t), Writes(u), log[t] = log[u], log[t] # NoLog,
                      ~DrivesUnlocked(t), ~DrivesUnlocked(u)
               PROVE  FALSE
    BY DEF LogWritersExclusive
  <2>1. LogTypes /\ LogOwned
    BY DEF Inv, TypeOK, LogTypes
  <2>2. Holds(t) /\ Holds(u)
    BY DEF Inv, Returning, Writes, DrivesUnlocked, Holds, Place, SayPcs
  <2>3. QED BY <2>1, <2>2, OwnersAlone
<1>2. QED BY <1>1, Invariance, PTL

(***************************************************************************)
(* No two threads wait for each other's mutex: who waits for opt_parse_mtx *)
(* holds no log, and who waits for a log holds at most that very log,      *)
(* when generateIR reports inside its own lock.                            *)
(***************************************************************************)
THEOREM NoCircularWait == Spec => []NoMutualWait
<1>1. Inv => NoMutualWait
  <2> SUFFICES ASSUME Inv, NEW t \in Threads, NEW u \in Threads,
                      WaitsFor(t, u), WaitsFor(u, t)
               PROVE  t = u
    BY DEF NoMutualWait
  <2>1. \A x, y \in Threads :
            pc[x] \in {"sayLock", "logLock"} /\ log[x] # NoLog /\ logOwner[log[x]] = y
                => log[y] = log[x] /\ Holds(y)
    BY DEF Inv, TypeOK, LogOwned
  <2>2. \A x \in Threads : pc[x] = "parseLock" => ~Holds(x)
    BY DEF Holds, Place, SayPcs
  <2>3. QED BY <2>1, <2>2 DEF WaitsFor
<1>2. QED BY <1>1, Invariance, PTL

-----------------------------------------------------------------------------
(***************************************************************************)
(* JITCalls.  The mutexes are those of ClangLib and so are the notions of  *)
(* who holds them.  Two things are new.  The options are not reset, so     *)
(* OptionsOf says of every call that has left its own in them where it can *)
(* be: between parsing and unlocking, or about to return.  And generateIR  *)
(* may run inside a generateBin, so CallOK says which call a thread is in  *)
(* at each place.                                                          *)
(***************************************************************************)
JITPcs == Pcs \cup {"noClang", "nest", "parseIR"}

\* Where log_string may return to.
ReportPcs == {"logLock", "noClang", "parseLock", "nest", "parseIR",
              "unlockFailed", "return", "rejected", "left", "run"}

\* The call a thread at a place is in.
Fits(w, o) ==
    /\ w \in DriverPcs \cup {"noClang"} => o = "generateIR"
    /\ w \in {"parseLock"} \cup SectionPcs \cup ErrorPcs => o = "runOptimizer"
    /\ w \in {"nest", "parseIR"} => o = "generateBin"
    /\ w = "idle" <=> o = "none"

CallOK(t) ==
    /\ Fits(Place(t), op[t])
    /\ pc[t] \in SayPcs => log[t] # NoLog /\ back[t] \in ReportPcs
    /\ ~(pc[t] = "sayUnlock" /\ back[t] = "unlockFailed")
    /\ t \in nested => op[t] = "generateIR"

\* The places of an optimizer after it parsed and before it unlocks.
Parsed == {"load", "passes", "run", "unlockParse", "rejected", "left"}

\* t is in a call whose options LLVM holds.
Kept(t) == InCall(t) /\ Me(t) \in options

OptionsOf(t) ==
    /\ ReadsOptions(t) => Me(t) \in options
    /\ Kept(t) => /\ op[t] = "runOptimizer"
                  /\ Place(t) \in Parsed \/ pc[t] = "return"

OptionsPast == \A p \in options : p[2] <= calls[p[1]]

JITTypes ==
    /\ op \in [Threads -> Ops \cup {"none"}]
    /\ pc \in [Threads -> JITPcs]
    /\ back \in [Threads -> JITPcs]
    /\ log \in [Threads -> Logs \cup {NoLog}]
    /\ calls \in [Threads -> Nat]
    /\ logOwner \in [Logs -> Threads \cup {NoThread}]
    /\ parseOwner \in Threads \cup {NoThread}
    /\ options \subseteq Threads \X Nat
    /\ nested \subseteq Threads

CallsOK == \A t \in Threads : CallOK(t)

OptionsOK == OptionsPast /\ \A t \in Threads : OptionsOf(t)

JITInv ==
    /\ JITTypes
    /\ CallsOK
    /\ ParseOwned
    /\ OptionsOK
    /\ LogOwned

USE DEF SayPcs, SectionPcs, ErrorPcs, DriverPcs, Ops

-----------------------------------------------------------------------------
\* JITInv holds before the first call.
LEMMA JITInitInv == JITInit => JITInv
<1> SUFFICES ASSUME JITInit PROVE JITInv OBVIOUS
<1> USE ClangLibAssumption DEF JITInit, Init
<1>1. JITTypes
  BY DEF JITTypes, JITPcs, Pcs
<1>2. \A t \in Threads : Place(t) = "idle" /\ pc[t] = "idle" /\ op[t] = "none"
  BY DEF Place
<1>3. CallsOK
  BY <1>2 DEF CallsOK, CallOK, Fits
<1>4. ParseOwned /\ OptionsOK /\ LogOwned
  BY <1>2 DEF ParseOwned, OptionsOK, OptionsOf, OptionsPast, Kept, ReadsOptions,
              LogOwned, InSection, Holds
<1>5. QED
  BY <1>1, <1>3, <1>4 DEF JITInv

-----------------------------------------------------------------------------
\* t is next at w, in call o on log l, after a report if it makes one.
Arrives(t, o, l, n, w) ==
    /\ op' = [op EXCEPT ![t] = o]
    /\ log' = [log EXCEPT ![t] = l]
    /\ calls' = [calls EXCEPT ![t] = n]
    /\ \/ /\ pc' = [pc EXCEPT ![t] = w]
          /\ back' = back \/ back' = [back EXCEPT ![t] = w]
       \/ /\ l # NoLog /\ w \in ReportPcs
          /\ pc' = [pc EXCEPT ![t] = "sayLock"]
          /\ back' = [back EXCEPT ![t] = w]

\* What the types of the calls are, apart from what the calls share.
CallTypes ==
    /\ op \in [Threads -> Ops \cup {"none"}]
    /\ pc \in [Threads -> JITPcs]
    /\ back \in [Threads -> JITPcs]
    /\ log \in [Threads -> Logs \cup {NoLog}]
    /\ calls \in [Threads -> Nat]

\* Of a thread that moves on, and of the others.
LEMMA Arriving ==
    ASSUME JITTypes, CallsOK, NEW t \in Threads, NEW o \in Ops \cup {"none"},
           NEW l \in Logs \cup {NoLog}, NEW n \in Nat,
           NEW w \in JITPcs \ SayPcs, Arrives(t, o, l, n, w), Fits(w, o),
           nested' \ {t} = nested \ {t}, t \in nested' => o = "generateIR"
    PROVE  /\ LocalStep(t) /\ CallTypes' /\ CallsOK'
           /\ Place(t)' = w /\ pc'[t] \in {w, "sayLock"}
           /\ op'[t] = o /\ log'[t] = l /\ calls'[t] = n
<1> USE DEF JITTypes
<1> PICK x : /\ pc' = [pc EXCEPT ![t] = x]
             /\ x = w \/ (x = "sayLock" /\ l # NoLog /\ w \in ReportPcs)
             /\ back' = back \/ back' = [back EXCEPT ![t] = w]
             /\ x = "sayLock" => back' = [back EXCEPT ![t] = w]
  BY DEF Arrives
<1>1. x \in JITPcs
  BY DEF JITPcs, Pcs
<1>2. LocalStep(t) /\ pc'[t] = x /\ op'[t] = o /\ log'[t] = l /\ calls'[t] = n
  BY DEF Arrives, LocalStep
<1>3. CallTypes'
  BY <1>1 DEF Arrives, CallTypes
<1>4. Place(t)' = w
  BY <1>2 DEF Place
<1>5. CallOK(t)'
  BY <1>2, <1>4 DEF CallOK
<1>6. ASSUME NEW u \in Threads \ {t} PROVE CallOK(u)'
  <2>1. u \in nested' <=> u \in nested
    OBVIOUS
  <2>2. QED
    BY <1>2, <2>1, OthersStay DEF CallsOK, CallOK
<1>7. QED
  BY <1>2, <1>3, <1>4, <1>5, <1>6 DEF CallsOK

\* What the calls share and their types make the type of the state.
LEMMA JITTypesSuffice ==
    ASSUME JITTypes, NEW t \in Threads, CallTypes', nested' \ {t} = nested \ {t},
           logOwner' \in [Logs -> Threads \cup {NoThread}],
           parseOwner' \in Threads \cup {NoThread},
           options' \subseteq Threads \X Nat
    PROVE  JITTypes'
BY DEF CallTypes, JITTypes

\* A step that changes neither opt_parse_mtx nor the options, and after which
\* t knows no less of them than before.
LEMMA OptionsQuiet ==
    ASSUME JITTypes, ParseOwned, OptionsOK, NEW t \in Threads, LocalStep(t),
           UNCHANGED <<parseOwner, options>>, calls'[t] = calls[t],
           InSection(t)' => InSection(t),
           ReadsOptions(t)' => ReadsOptions(t),
           InCall(t)' => InCall(t),
           Kept(t) /\ InCall(t)' =>
                op'[t] = op[t] /\ (Place(t)' \in Parsed \/ pc'[t] = "return")
    PROVE  ParseOwned' /\ OptionsOK'
<1> USE DEF JITTypes, OptionsOK
<1>1. Me(t)' = Me(t) /\ \A u \in Threads : calls'[u] = calls[u]
  BY DEF Me, LocalStep
<1>2. ParseOwned'
  BY OthersStay DEF ParseOwned, InSection
<1>3. OptionsPast'
  BY <1>1 DEF OptionsPast
<1>4. OptionsOf(t)'
  BY <1>1 DEF OptionsOf, Kept
<1>5. ASSUME NEW u \in Threads \ {t} PROVE OptionsOf(u)'
  BY OthersStay DEF OptionsOf, Kept, ReadsOptions, InCall
<1>6. QED
  BY <1>2, <1>3, <1>4, <1>5

\* A step between two places, that touches nothing shared.
LEMMA QuietJIT ==
    ASSUME JITInv, NEW t \in Threads, NEW o \in Ops \cup {"none"},
           NEW w \in JITPcs \ SayPcs, Arrives(t, o, log[t], calls[t], w),
           Fits(w, o),
           nested' \ {t} = nested \ {t}, t \in nested' => o = "generateIR",
           UNCHANGED <<logOwner, parseOwner, options>>,
           pc[t] \notin SayPcs \cup {"idle"},
           w \in SectionPcs \cup ErrorPcs => pc[t] \in SectionPcs \cup ErrorPcs,
           w \in {"load", "passes", "run"} => pc[t] \in {"load", "passes", "run"},
           pc[t] \in Parsed => w = "idle" \/ (op[t] = o /\ w \in Parsed),
           pc[t] = "return" => w = "idle" \/ op[t] # "runOptimizer",
           Holds(t) <=>
              \/ w \in {"unlockFailed", "unlockLog"}
              \/ o = "generateIR" /\ w \in {"build", "drive"}
    PROVE  JITInv'
<1> USE DEF JITInv
<1>1. log[t] \in Logs \cup {NoLog} /\ calls[t] \in Nat
  BY DEF JITTypes
<1>2. /\ LocalStep(t) /\ CallTypes' /\ CallsOK'
      /\ Place(t)' = w /\ pc'[t] \in {w, "sayLock"}
      /\ op'[t] = o /\ log'[t] = log[t] /\ calls'[t] = calls[t]
  BY <1>1, Arriving
<1>3. Place(t) = pc[t]
  BY DEF Place
<1>4. JITTypes'
  BY <1>2, JITTypesSuffice DEF JITTypes
<1>5. LogOwned'
  BY <1>2, OthersStay DEF LogOwned, Holds
<1>6. CallOK(t)
  BY DEF CallsOK
<1>7. InCall(t)
  BY <1>3, <1>6 DEF CallOK, Fits, InCall
<1>8. Kept(t) /\ InCall(t)' => op'[t] = op[t] /\ Place(t)' \in Parsed
  BY <1>2, <1>3 DEF OptionsOK, OptionsOf, InCall, Fits
<1>9. ParseOwned' /\ OptionsOK'
  BY <1>2, <1>3, <1>7, <1>8, OptionsQuiet DEF InSection, ReadsOptions
<1>10. QED
  BY <1>2, <1>4, <1>5, <1>9

\* Goto and Report stay in the call.
LEMMA Moving ==
    ASSUME JITTypes, NEW t \in Threads, NEW w,
           Goto(t, w) \/ (Report(t, w) /\ w \in ReportPcs)
    PROVE  Arrives(t, op[t], log[t], calls[t], w)
BY DEF JITTypes, Goto, Report, Say, call, Arrives

\* Where t is says which call it is in.
LEMMA Located ==
    ASSUME JITInv, NEW t \in Threads, pc[t] \notin SayPcs
    PROVE  /\ Place(t) = pc[t] /\ Fits(pc[t], op[t])
           /\ op[t] \in Ops \cup {"none"} /\ log[t] \in Logs \cup {NoLog}
           /\ calls[t] \in Nat /\ (t \in nested => op[t] = "generateIR")
BY DEF JITInv, JITTypes, CallsOK, CallOK, Place

-----------------------------------------------------------------------------
\* The steps that touch no mutex and no option and stay in their call.
LEMMA MoveInv ==
    ASSUME JITInv, NEW t \in Threads, UNCHANGED nested,
           \/ NoClang(t) \/ ParseIR(t) \/ BuildFails(t) \/ Build(t) \/ Drive(t)
           \/ Check(t) \/ Reject(t) \/ Leave(t) \/ Load(t) \/ Passes(t) \/ Run(t)
           \/ Diverge(t)
    PROVE  JITInv'
<1> DEFINE Step(w) == Goto(t, w) \/ (Report(t, w) /\ w \in ReportPcs)
<1>1. UNCHANGED <<logOwner, parseOwner, options>>
  BY DEF NoClang, ParseIR, BuildFails, Build, Drive, Check, Reject, Leave, Load,
         Passes, Run, Diverge
<1>2. PICK w : /\ Step(w)
               /\ \/ pc[t] = "noClang" /\ w = "logLock"
                  \/ pc[t] = "parseIR" /\ w = "return"
                  \/ pc[t] = "build" /\ op[t] = "generateIR" /\ w = "unlockFailed"
                  \/ pc[t] = "build" /\ op[t] # "generateIR" /\ w = "return"
                  \/ pc[t] = "build" /\ w = "drive"
                  \/ pc[t] = "drive" /\ op[t] = "generateIR" /\ w = "unlockLog"
                  \/ pc[t] = "drive" /\ op[t] # "generateIR" /\ w = "check"
                  \/ pc[t] = "check" /\ w = "return"
                  \/ pc[t] = "load" /\ w \in {"rejected", "passes"}
                  \/ pc[t] = "rejected" /\ w = "left"
                  \/ pc[t] = "passes" /\ w = "run"
                  \/ pc[t] = "run" /\ w \in {"unlockParse", "left"}
  BY DEF NoClang, ParseIR, BuildFails, Build, Drive, Check, Reject, Leave, Load,
         Passes, Run, Diverge, ReportPcs
<1> HIDE DEF Step
<1>3. Arrives(t, op[t], log[t], calls[t], w)
  BY <1>2, Moving DEF Step, JITInv
<1>4. /\ pc[t] \notin SayPcs \cup {"idle"}
      /\ Place(t) = pc[t] /\ Fits(pc[t], op[t])
      /\ op[t] \in Ops \cup {"none"} /\ (t \in nested => op[t] = "generateIR")
  BY <1>2, Located
<1>5. w \in JITPcs \ SayPcs /\ Fits(w, op[t])
  BY <1>2, <1>4 DEF Fits, JITPcs, Pcs
<1>6. Holds(t) <=>
         \/ w \in {"unlockFailed", "unlockLog"}
         \/ op[t] = "generateIR" /\ w \in {"build", "drive"}
  BY <1>2, <1>4 DEF Holds, Fits
<1>7. QED
  BY <1>1, <1>2, <1>3, <1>4, <1>5, <1>6, QuietJIT DEF Parsed

\* generateBin calls generateIR and goes on when that returns; a call returns.
LEMMA NestInv ==
    ASSUME JITInv, NEW t \in Threads,
           \/ Nest(t) \/ Unnest(t)
           \/ Return(t) /\ t \notin nested /\ UNCHANGED nested
    PROVE  JITInv'
<1>1. UNCHANGED <<logOwner, parseOwner, options>>
  BY DEF Nest, Unnest, Return
<1>2. PICK w, o :
         /\ Arrives(t, o, log[t], calls[t], w)
         /\ nested' \ {t} = nested \ {t} /\ (t \in nested' => o = "generateIR")
         /\ \/ pc[t] = "nest" /\ w \in {"logLock", "noClang"} /\ o = "generateIR"
            \/ /\ pc[t] = "return" /\ t \in nested
               /\ w = "parseIR" /\ o = "generateBin"
            \/ pc[t] \in {"return", "left"} /\ w = "idle" /\ o = "none"
  <2>1. CASE Nest(t)
    <3>1. PICK w \in {"logLock", "noClang"} : Say(t, log[t], w)
      BY <2>1 DEF Nest, StartIR
    <3>2. Arrives(t, "generateIR", log[t], calls[t], w)
      BY <2>1, <3>1 DEF Nest, Say, Arrives, ReportPcs, JITInv, JITTypes
    <3>3. QED
      BY <2>1, <3>2 DEF Nest
  <2>2. CASE Unnest(t)
    <3>1. Arrives(t, "generateBin", log[t], calls[t], "parseIR")
      BY <2>2 DEF Unnest, Say, Arrives, ReportPcs, JITInv, JITTypes
    <3>2. QED
      BY <2>2, <3>1 DEF Unnest
  <2>3. CASE Return(t) /\ t \notin nested /\ UNCHANGED nested
    <3>1. Arrives(t, "none", log[t], calls[t], "idle")
      BY <2>3 DEF Return, Arrives, JITInv, JITTypes
    <3>2. QED
      BY <2>3, <3>1 DEF Return
  <2>4. QED
    BY <2>1, <2>2, <2>3
<1>3. /\ pc[t] \notin SayPcs \cup {"idle"}
      /\ Place(t) = pc[t] /\ Fits(pc[t], op[t])
      /\ (t \in nested => op[t] = "generateIR")
  BY <1>2, Located
<1>4. w \in JITPcs \ SayPcs /\ Fits(w, o) /\ o \in Ops \cup {"none"}
  BY <1>2 DEF Fits, JITPcs, Pcs
<1>5. /\ ~Holds(t) /\ w \notin {"unlockFailed", "unlockLog", "build", "drive"}
  BY <1>2, <1>3 DEF Holds
<1>6. w \notin SectionPcs \cup ErrorPcs
  BY <1>2
<1>7. /\ pc[t] \in Parsed => w = "idle" \/ (op[t] = o /\ w \in Parsed)
      /\ pc[t] = "return" => w = "idle" \/ op[t] # "runOptimizer"
  BY <1>2, <1>3 DEF Parsed, Fits
<1>8. QED
  BY <1>1, <1>2, <1>3, <1>4, <1>5, <1>6, <1>7, QuietJIT

-----------------------------------------------------------------------------
\* A call begins, with a line in the log if it has one.
LEMMA BeginJITInv ==
    ASSUME JITInv, NEW t \in Threads, NEW o \in Ops, NEW l \in Logs \cup {NoLog},
           BeginJIT(t, o, l)
    PROVE  JITInv'
<1> USE DEF JITInv
<1>1. /\ op[t] = "none" /\ calls[t] \in Nat
      /\ UNCHANGED <<logOwner, parseOwner, options, nested>>
  BY DEF BeginJIT, JITTypes
<1>2. PICK w : /\ Arrives(t, o, l, calls[t] + 1, w)
               /\ \/ o = "generateIR" /\ w \in {"logLock", "noClang"}
                  \/ o = "runOptimizer" /\ w = "parseLock"
                  \/ o = "generateBin" /\ w \in {"parseIR", "nest"}
  <2>1. PICK w : /\ Say(t, l, w)
                 /\ \/ o = "generateIR" /\ w \in {"logLock", "noClang"}
                    \/ o = "runOptimizer" /\ w = "parseLock"
                    \/ o = "generateBin" /\ w \in {"parseIR", "nest"}
    BY DEF BeginJIT, StartJIT, StartIR
  <2>2. Arrives(t, o, l, calls[t] + 1, w)
    BY <2>1 DEF BeginJIT, Say, Arrives, ReportPcs
  <2>3. QED
    BY <2>1, <2>2
<1>3. w \in JITPcs \ SayPcs /\ Fits(w, o)
  BY <1>2 DEF Fits, JITPcs, Pcs
<1>4. Place(t) = "idle" /\ pc[t] = "idle" /\ t \notin nested
  BY <1>1 DEF CallsOK, CallOK, Fits, Place, ReportPcs
<1>5. /\ LocalStep(t) /\ CallTypes' /\ CallsOK'
      /\ Place(t)' = w /\ pc'[t] \in {w, "sayLock"}
      /\ op'[t] = o /\ log'[t] = l /\ calls'[t] = calls[t] + 1
  BY <1>1, <1>2, <1>3, <1>4, Arriving
<1>6. JITTypes'
  BY <1>1, <1>5, JITTypesSuffice DEF JITTypes
<1>7. ~Holds(t) /\ ~Holds(t)' /\ ~InSection(t)' /\ ~ReadsOptions(t)'
  BY <1>2, <1>4, <1>5 DEF Holds, InSection, ReadsOptions
<1>8. LogOwned'
  BY <1>1, <1>5, <1>7, OthersStay DEF LogOwned
<1>9. ParseOwned'
  BY <1>1, <1>5, <1>7, OthersStay DEF ParseOwned, InSection
<1>10. OptionsOK'
  <2>1. \A p \in options : p[1] \in Threads /\ p[2] \in Nat /\ calls[p[1]] \in Nat
    BY DEF JITTypes
  <2>2. OptionsPast'
    BY <1>1, <1>5, <2>1 DEF OptionsOK, OptionsPast, LocalStep
  <2>3. Me(t)' \notin options
    <3>1. Me(t)' = <<t, calls[t] + 1>>
      BY <1>5 DEF Me
    <3>2. \A p \in options : p[1] = t => p[2] <= calls[t]
      BY DEF OptionsOK, OptionsPast
    <3>3. ~(calls[t] + 1 <= calls[t])
      BY <1>1
    <3>4. QED
      BY <3>1, <3>2, <3>3
  <2>4. OptionsOf(t)'
    BY <1>1, <1>7, <2>3 DEF OptionsOf, Kept
  <2>5. ASSUME NEW u \in Threads \ {t} PROVE OptionsOf(u)'
    BY <1>1, <1>5, OthersStay DEF OptionsOK, OptionsOf, Kept, ReadsOptions, InCall
  <2>6. QED
    BY <2>2, <2>4, <2>5 DEF OptionsOK
<1>11. QED
  BY <1>5, <1>6, <1>8, <1>9, <1>10

\* A step on the mutex of the log, by which t does not move or ends up outside
\* the optimizer.
LEMMA LogStep ==
    ASSUME JITInv, NEW t \in Threads, LocalStep(t), CallTypes', CallsOK',
           UNCHANGED <<parseOwner, options, nested>>, calls'[t] = calls[t],
           op'[t] = op[t], log'[t] = log[t],
           \/ Place(t)' = Place(t) /\ (pc[t] = "return" => pc'[t] = "return")
           \/ /\ op[t] = "generateIR" /\ ~InSection(t)' /\ ~ReadsOptions(t)',
           \/ Take(t) /\ Holds(t)'
           \/ Release(t) /\ Holds(t) /\ ~Holds(t)'
    PROVE  JITInv'
<1> USE DEF JITInv
<1>1. LogOwned' /\ logOwner' \in [Logs -> Threads \cup {NoThread}]
  BY TakeStep, ReleaseStep DEF JITTypes, LogTypes
<1>2. JITTypes'
  BY <1>1, JITTypesSuffice DEF JITTypes
<1>3. Kept(t) => /\ op[t] = "runOptimizer"
                 /\ Place(t) \in Parsed \/ pc[t] = "return"
  BY DEF OptionsOK, OptionsOf
<1>4. InCall(t)' <=> InCall(t)
  BY DEF InCall
<1>5. ParseOwned' /\ OptionsOK'
  BY <1>3, <1>4, OptionsQuiet DEF InSection, ReadsOptions
<1>6. QED
  BY <1>1, <1>2, <1>5

\* log_string takes the mutex of the log and gives it back.
LEMMA SayInv ==
    ASSUME JITInv, NEW t \in Threads, UNCHANGED nested, SayLock(t) \/ SayUnlock(t)
    PROVE  JITInv'
<1> USE DEF JITInv
<1>1. /\ pc[t] \in SayPcs
      /\ UNCHANGED <<back, op, log, calls, parseOwner, options>>
  BY DEF SayLock, SayUnlock, Goto, call
<1>2. /\ CallOK(t) /\ Place(t) = back[t] /\ back[t] \in ReportPcs
      /\ log[t] # NoLog /\ log[t] \in Logs
  BY <1>1 DEF CallsOK, CallOK, Place, JITTypes
<1>3. CASE SayLock(t)
  <2>1. pc[t] = "sayLock" /\ pc' = [pc EXCEPT ![t] = "sayUnlock"] /\ Take(t)
    BY <1>3 DEF SayLock, Goto
  <2>2. back[t] # "unlockFailed"
    \* Its caller holds the mutex this report waits for.
    BY <1>2, <2>1, ClangLibAssumption DEF LogOwned, Holds, Take
  <2>3. LocalStep(t) /\ CallTypes' /\ pc'[t] = "sayUnlock"
    BY <1>1, <2>1 DEF JITTypes, CallTypes, LocalStep, JITPcs, Pcs
  <2>4. Place(t)' = Place(t) /\ Holds(t)'
    BY <1>1, <1>2, <2>3 DEF Place, Holds
  <2>5. CallsOK'
    <3>1. CallOK(t)'
      BY <1>1, <1>2, <2>2, <2>3, <2>4 DEF CallOK
    <3>2. QED
      BY <2>3, <3>1, OthersStay DEF CallsOK, CallOK
  <2>6. QED
    BY <1>1, <2>1, <2>3, <2>4, <2>5, LogStep
<1>4. CASE SayUnlock(t)
  <2>1. pc[t] = "sayUnlock" /\ pc' = [pc EXCEPT ![t] = back[t]] /\ Release(t)
    BY <1>4 DEF SayUnlock, Goto
  <2>2. LocalStep(t) /\ CallTypes' /\ pc'[t] = back[t]
    BY <1>1, <2>1 DEF JITTypes, CallTypes, LocalStep
  <2>3. Place(t)' = Place(t) /\ Holds(t) /\ ~Holds(t)'
    BY <1>1, <1>2, <2>1, <2>2 DEF Place, Holds, ReportPcs, CallOK
  <2>4. CallsOK'
    <3>1. CallOK(t)'
      BY <1>1, <1>2, <2>2, <2>3 DEF CallOK, ReportPcs
    <3>2. QED
      BY <2>2, <3>1, OthersStay DEF CallsOK, CallOK
  <2>5. QED
    BY <1>1, <2>1, <2>2, <2>3, <2>4, LogStep
<1>5. QED
  BY <1>3, <1>4

\* generateIR takes its log for the driver and gives it back.
LEMMA DriverLogInv ==
    ASSUME JITInv, NEW t \in Threads, UNCHANGED nested,
           LockLog(t) \/ UnlockFailed(t) \/ UnlockLog(t)
    PROVE  JITInv'
<1>1. PICK w :
         /\ Goto(t, w) /\ UNCHANGED <<parseOwner, options>>
         /\ \/ pc[t] = "logLock" /\ w = "build" /\ Take(t)
            \/ pc[t] = "unlockFailed" /\ w = "return" /\ Release(t)
            \/ pc[t] = "unlockLog" /\ w = "check" /\ Release(t)
  BY DEF LockLog, UnlockFailed, UnlockLog
<1>2. /\ Place(t) = pc[t] /\ op[t] = "generateIR"
      /\ log[t] \in Logs \cup {NoLog} /\ calls[t] \in Nat
  BY <1>1, Located DEF Fits
<1>3. w \in JITPcs \ SayPcs /\ Fits(w, op[t])
  BY <1>1, <1>2 DEF Fits, JITPcs, Pcs
<1>4. Arrives(t, op[t], log[t], calls[t], w)
  BY <1>1, Moving DEF JITInv
<1>5. /\ LocalStep(t) /\ CallTypes' /\ CallsOK'
      /\ Place(t)' = w /\ pc'[t] \in {w, "sayLock"}
      /\ op'[t] = op[t] /\ log'[t] = log[t] /\ calls'[t] = calls[t]
  BY <1>2, <1>3, <1>4, Arriving DEF JITInv
<1>6. ~InSection(t)' /\ ~ReadsOptions(t)'
  BY <1>1, <1>5 DEF InSection, ReadsOptions
<1>7. \/ Take(t) /\ Holds(t)'
      \/ Release(t) /\ Holds(t) /\ ~Holds(t)'
  BY <1>1, <1>2, <1>5 DEF Holds
<1>8. QED
  BY <1>1, <1>2, <1>5, <1>6, <1>7, LogStep

\* The optimizer takes opt_parse_mtx, adds its options, and gives it back.
LEMMA OptimizerInv ==
    ASSUME JITInv, NEW t \in Threads, UNCHANGED nested,
           LockJIT(t) \/ Parse(t) \/ UnlockParse(t)
    PROVE  JITInv'
<1> USE DEF JITInv
<1>1. PICK w :
         /\ Goto(t, w) /\ UNCHANGED logOwner
         /\ \/ /\ pc[t] = "parseLock" /\ w = "parse" /\ options' = options
               /\ parseOwner = NoThread /\ parseOwner' = t
            \/ /\ pc[t] = "parse" /\ w = "load" /\ parseOwner' = parseOwner
               /\ options' = options \cup {Me(t)}
            \/ /\ pc[t] = "unlockParse" /\ w = "return" /\ options' = options
               /\ parseOwner' = NoThread
  BY DEF LockJIT, Parse, UnlockParse
<1>2. /\ Place(t) = pc[t] /\ op[t] = "runOptimizer"
      /\ log[t] \in Logs \cup {NoLog} /\ calls[t] \in Nat
  BY <1>1, Located DEF Fits
<1>3. w \in JITPcs \ SayPcs /\ Fits(w, op[t])
  BY <1>1, <1>2 DEF Fits, JITPcs, Pcs
<1>4. Arrives(t, op[t], log[t], calls[t], w)
  BY <1>1, Moving
<1>5. /\ LocalStep(t) /\ CallTypes' /\ CallsOK'
      /\ Place(t)' = w /\ pc'[t] \in {w, "sayLock"}
      /\ op'[t] = op[t] /\ log'[t] = log[t] /\ calls'[t] = calls[t]
  <2>1. t \notin nested
    BY <1>2 DEF CallsOK, CallOK
  <2>2. QED
    BY <1>2, <1>3, <1>4, <2>1, Arriving
<1>6. JITTypes'
  <2>1. parseOwner' \in Threads \cup {NoThread}
    BY <1>1 DEF JITTypes
  <2>2. options' \subseteq Threads \X Nat
    BY <1>1, <1>2 DEF JITTypes, Me
  <2>3. QED
    BY <1>1, <1>5, <2>1, <2>2, JITTypesSuffice DEF JITTypes
<1>7. LogOwned'
  <2>1. ~Holds(t) /\ ~Holds(t)'
    BY <1>1, <1>2, <1>5 DEF Holds
  <2>2. QED
    BY <1>1, <1>5, <2>1, OffLog
<1>8. parseOwner \in {t, NoThread}
  BY <1>1, <1>2 DEF ParseOwned, InSection
<1>9. \A u \in Threads \ {t} : ~InSection(u) /\ ~InSection(u)'
  BY <1>5, <1>8, AloneInSection, OthersStay DEF InSection
<1>10. ParseOwned'
  BY <1>1, <1>2, <1>5, <1>8, <1>9 DEF ParseOwned, InSection
<1>11. Me(t)' = Me(t) /\ options' \subseteq options \cup {Me(t)}
  BY <1>1, <1>5 DEF Me
<1>12. OptionsPast'
  <2>1. \A u \in Threads : calls'[u] = calls[u]
    BY <1>5 DEF LocalStep
  <2>2. \A p \in options' : p[1] \in Threads /\ p[2] <= calls[p[1]]
    BY <1>2, <1>11 DEF OptionsOK, OptionsPast, JITTypes, Me
  <2>3. QED
    BY <2>1, <2>2 DEF OptionsPast
<1>13. OptionsOf(t)'
  <2>1. CASE pc[t] = "parseLock"
    <3>1. ~Kept(t)
      BY <1>2, <2>1 DEF OptionsOK, OptionsOf, Parsed
    <3>2. ~Kept(t)' /\ ~ReadsOptions(t)'
      BY <1>1, <1>2, <1>5, <1>11, <2>1, <3>1 DEF Kept, InCall, ReadsOptions
    <3>3. QED
      BY <3>2 DEF OptionsOf
  <2>2. CASE pc[t] = "parse"
    BY <1>1, <1>2, <1>5, <1>11, <2>2 DEF OptionsOf, Parsed
  <2>3. CASE pc[t] = "unlockParse"
    <3>1. pc'[t] = "return"
      BY <1>1, <2>3 DEF Goto, JITTypes
    <3>2. QED
      BY <1>1, <1>2, <1>5, <2>3, <3>1 DEF OptionsOf, ReadsOptions
  <2>4. QED
    BY <1>1, <2>1, <2>2, <2>3
<1>14. ASSUME NEW u \in Threads \ {t} PROVE OptionsOf(u)'
  <2>1. Me(u) # Me(t)
    BY DEF Me
  <2>2. Me(u) \in options' <=> Me(u) \in options
    BY <1>1, <2>1
  <2>3. OptionsOf(u)
    BY DEF OptionsOK
  <2>4. QED
    BY <1>5, <2>2, <2>3, OthersStay DEF OptionsOf, Kept, ReadsOptions, InCall
<1>15. QED
  BY <1>5, <1>6, <1>7, <1>10, <1>12, <1>13, <1>14 DEF OptionsOK

\* JITInv is about the variables only.
LEMMA JITStutterInv == JITInv /\ UNCHANGED jitVars => JITInv'
BY DEF JITInv, JITTypes, CallsOK, CallOK, ParseOwned, OptionsOK, OptionsOf,
       OptionsPast, Kept, ReadsOptions, LogOwned, InSection, Holds, Place, InCall,
       Me, jitVars, vars

\* Every step of the calls preserves JITInv.
LEMMA JITStepInv == JITInv /\ [JITNext]_jitVars => JITInv'
<1> SUFFICES ASSUME JITInv, JITNext PROVE JITInv'
  BY JITStutterInv
<1>1. PICK t \in Threads :
          \/ \E o \in Ops, l \in Logs \cup {NoLog} : BeginJIT(t, o, l)
          \/ ContinueJIT(t)
  BY DEF JITNext
<1>2. CASE \E o \in Ops, l \in Logs \cup {NoLog} : BeginJIT(t, o, l)
  BY <1>2, BeginJITInv
<1>3. CASE AsClangLib(t)
  BY <1>3, SayInv, DriverLogInv, OptimizerInv, MoveInv, NestInv DEF AsClangLib
<1>4. CASE NoClang(t) \/ ParseIR(t)
  BY <1>4, MoveInv DEF NoClang, ParseIR
<1>5. CASE Nest(t) \/ Unnest(t)
  BY <1>5, NestInv
<1>6. CASE LockJIT(t)
  BY <1>6, OptimizerInv DEF LockJIT
<1>7. QED
  BY <1>1, <1>2, <1>3, <1>4, <1>5, <1>6 DEF ContinueJIT

-----------------------------------------------------------------------------
(***************************************************************************)
(* The mutexes have the holders the code means them to have, a thread is   *)
(* in the call its place belongs to, and the options LLVM holds are of     *)
(* calls that have parsed, in every reachable state.                       *)
(***************************************************************************)
THEOREM JITInvariance == JITSpec => []JITInv
BY JITInitInv, JITStepInv, PTL DEF JITSpec

(***************************************************************************)
(* While an optimizer reads LLVM's options they hold its own, and besides  *)
(* them only those of calls that are over or about to return.              *)
(***************************************************************************)
THEOREM OptionsAreSettled == JITSpec => []OptionsSettled
<1>1. JITInv => OptionsSettled
  <2> SUFFICES ASSUME JITInv, NEW t \in Threads, ReadsOptions(t)
               PROVE  /\ Me(t) \in options
                      /\ \A u \in Threads :
                           u # t /\ InCall(u) /\ Me(u) \in options
                              => pc[u] = "return"
    BY DEF OptionsSettled
  <2> USE DEF JITInv
  <2>1. parseOwner = t
    BY DEF ReadsOptions, ParseOwned, InSection
  <2>2. ASSUME NEW u \in Threads, u # t, Kept(u) PROVE pc[u] = "return"
    <3>1. Place(u) \notin Parsed
      BY <2>1, <2>2, AloneInSection DEF InSection, Parsed
    <3>2. QED
      BY <2>2, <3>1 DEF OptionsOK, OptionsOf
  <2>3. QED
    BY <2>2 DEF OptionsOK, OptionsOf, Kept
<1>2. QED
  BY <1>1, JITInvariance, PTL

(***************************************************************************)
(* Two JIT calls never write to a log at the same time, whether generateIR *)
(* was called by the program or by generateBin.                            *)
(***************************************************************************)
THEOREM JITWritersExcludeEachOther == JITSpec => []JITLogWritersExclusive
<1>1. JITInv => JITLogWritersExclusive
  <2> SUFFICES ASSUME JITInv, NEW t \in Threads, NEW u \in Threads,
                      Writes(t), Writes(u), log[t] = log[u], log[t] # NoLog
               PROVE  t = u
    BY DEF JITLogWritersExclusive
  <2>1. LogTypes /\ LogOwned
    BY DEF JITInv, JITTypes, LogTypes
  <2>2. Holds(t) /\ Holds(u)
    BY DEF JITInv, CallsOK, CallOK, Fits, Writes, Holds, Place
  <2>3. QED BY <2>1, <2>2, OwnersAlone
<1>2. QED
  BY <1>1, JITInvariance, PTL

(***************************************************************************)
(* No two JIT calls wait for each other, and a thread waits for itself     *)
(* only when generateIR reports under its own lock or an optimizer finds   *)
(* opt_parse_mtx left by an earlier call of the same thread.  A generateIR *)
(* within a generateBin never waits for a lock of its caller.              *)
(***************************************************************************)
THEOREM NestedCallsDoNotWait == JITSpec => []NestedNoMutualWait
<1>1. JITInv => NestedNoMutualWait
  <2> SUFFICES ASSUME JITInv, NEW t \in Threads, NEW u \in Threads,
                      WaitsFor(t, u), WaitsFor(u, t)
               PROVE  t = u /\ (ReportsLocked(t) \/ pc[t] = "parseLock")
    BY DEF NestedNoMutualWait
  <2> USE DEF JITInv
  <2>1. \A x, y \in Threads :
           pc[x] \in {"sayLock", "logLock"} /\ log[x] # NoLog
              /\ logOwner[log[x]] = y => log[y] = log[x] /\ Holds(y)
    BY DEF JITTypes, LogOwned
  <2>2. \A x \in Threads : pc[x] = "parseLock" => ~Holds(x)
    BY DEF Holds, Place
  <2>3. t = u
    BY <2>1, <2>2 DEF WaitsFor
  <2>4. CASE pc[t] \in {"sayLock", "logLock"}
    <3>1. Holds(t)
      BY <2>1, <2>3, <2>4 DEF WaitsFor
    <3>2. pc[t] = "sayLock" /\ Place(t) = back[t] /\ back[t] = "unlockFailed"
      BY <2>4, <3>1 DEF Holds, Place, CallsOK, CallOK, ReportPcs
    <3>3. QED
      BY <2>3, <3>2 DEF ReportsLocked, CallsOK, CallOK, Fits
  <2>5. QED
    BY <2>3, <2>4 DEF WaitsFor
<1>2. QED
  BY <1>1, JITInvariance, PTL
=============================================================================
