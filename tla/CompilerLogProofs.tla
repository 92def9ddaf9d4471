------------------------- MODULE CompilerLogProofs -------------------------
(***************************************************************************)
(* Theorems about CompilerLog, for any threads, compilers and log paths.   *)
(*                                                                         *)
(* The inductive invariant is IInv.  RefCountExact is not inductive alone: *)
(* a reference may be counted by a thread that acts on an old value of the *)
(* entry, so CallInv says which object each constructor or destructor is   *)
(* about and MapInv that the value it read is still the entry's.           *)
(* Exclusion in turn rests on the count: a path in use keeps its entry.    *)
(*                                                                         *)
(* What the files hold rests on exclusion: ContentInv says that the pieces *)
(* of an unfinished record are the last of its file.  A file is then, to   *)
(* the reader of AtomicLog, what precedes them, and the piece that ends    *)
(* the record is the step of AtomicLog.                                    *)
(***************************************************************************)
EXTENDS CompilerLogRefinement, FiniteSetTheorems, SequenceTheorems, TLAPS

USE DEF Ops, RefPcs, WritePcs, LogPcs, Pcs

-----------------------------------------------------------------------------
LEMMA RegisteredFinite ==
    ASSUME NEW l \in Logs
    PROVE  IsFiniteSet(Registered(l))
  BY FiniteCompilers, FS_Subset DEF Registered

\* A compiler that is counted for a path gives the path an entry.
LEMMA RegisteredCounts ==
    ASSUME RefCountExact, TypeOK, NEW l \in Logs, NEW c \in Registered(l)
    PROVE  refs[l] > 0
<1>1. IsFiniteSet(Registered(l)) /\ Registered(l) # {}
  BY RegisteredFinite
<1>2. Cardinality(Registered(l)) \in Nat /\ Cardinality(Registered(l)) # 0
  BY <1>1, FS_CardinalityType, FS_EmptySet
<1>3. QED
  BY <1>2 DEF RefCountExact

\* Two compilers that are counted for a path give the entry a count above one.
LEMMA TwoRegisteredCount ==
    ASSUME RefCountExact, TypeOK, NEW l \in Logs,
           NEW c \in Registered(l), NEW d \in Registered(l), c # d
    PROVE  refs[l] > 1
<1> DEFINE rest == Registered(l) \ {c}
<1>1. IsFiniteSet(Registered(l))
  BY RegisteredFinite
<1>2. /\ IsFiniteSet(rest)
      /\ Cardinality(rest) = Cardinality(Registered(l)) - 1
  BY <1>1, FS_RemoveElement
<1>3. Cardinality(rest) \in Nat /\ Cardinality(rest) # 0
  <2>1. d \in rest
    OBVIOUS
  <2>2. QED
    BY <1>2, <2>1, FS_CardinalityType, FS_EmptySet
<1>4. Cardinality(Registered(l)) \in Nat
  BY <1>1, FS_CardinalityType
<1>5. QED
  BY <1>2, <1>3, <1>4 DEF RefCountExact

\* The map is never relinked at a path some thread is using.
LEMMA NoRelinkInUse ==
    ASSUME TypeOK, CallInv, MapInv, RefCountExact,
           NEW t \in Threads, pc[t] = "mapWrite",
           NEW u \in Threads, pc[u] \in LogPcs, LogOf(u) = LogOf(t)
    PROVE  (seen[t] = 0) = (NewCount(op[t], seen[t]) = 0)
<1>1. /\ LogOf(t) \in Logs /\ seen[t] = refs[LogOf(t)] /\ seen[t] \in Nat
      /\ op[t] \in {"ctor", "dtor"}
  BY DEF TypeOK, CallInv, CallOK, MapInv, MapOK, LogOf
<1>2. arg[u] \in Registered(LogOf(t))
  BY DEF TypeOK, CallInv, CallOK, LogOf, Registered
<1>3. refs[LogOf(t)] > 0
  BY <1>1, <1>2, RegisteredCounts
<1>4. CASE op[t] = "ctor"
  BY <1>1, <1>3, <1>4 DEF NewCount
<1>5. CASE op[t] = "dtor"
  <2>1. arg[t] \in Registered(LogOf(t)) /\ arg[t] # arg[u]
    BY <1>1, <1>5 DEF TypeOK, CallInv, CallOK, LogOf, Registered
  <2>2. refs[LogOf(t)] > 1
    BY <1>1, <1>2, <2>1, TwoRegisteredCount
  <2>3. QED
    BY <1>1, <1>5, <2>2 DEF NewCount
<1>6. QED
  BY <1>1, <1>4, <1>5

-----------------------------------------------------------------------------
\* Names for the facts about one call that the steps below share.
LEMMA InCall ==
    ASSUME TypeOK, CallInv, NEW t \in Threads, pc[t] # "idle"
    PROVE  arg[t] \in Compilers /\ LogOf(t) \in Logs
  BY DEF TypeOK, CallInv, CallOK, LogOf

\* A piece appended to a log file leaves the files well formed.
LEMMA PutType ==
    ASSUME TypeOK, NEW t \in Threads, NEW part \in Parts, Put(t, part)
    PROVE  content' \in [Files -> Seq([by : Threads, call : Nat, part : Parts])]
<1>1. Piece(t, part) \in [by : Threads, call : Nat, part : Parts]
  BY DEF Piece, TypeOK
<1> DEFINE P == [by : Threads, call : Nat, part : Parts]
<1>2. ASSUME NEW s \in Seq(P) PROVE Append(s, Piece(t, part)) \in Seq(P)
  BY <1>1
<1>3. content \in [Files -> Seq(P)]
  BY DEF TypeOK
<1> HIDE DEF P
<1>4. content' \in [Files -> Seq(P)]
  BY <1>2, <1>3 DEF Put
<1>5. QED
  BY <1>4 DEF P

LEMMA BeginType ==
    ASSUME TypeOK, NEW t \in Threads, NEW o \in Ops, NEW c \in Compilers,
           NEW where \in Pcs, Begin(t, o, c, where)
    PROVE  /\ op' \in [Threads -> Ops]
           /\ arg' \in [Threads -> Compilers \cup {NoCompiler}]
           /\ pc' \in [Threads -> Pcs]
           /\ calls' \in [Threads -> Nat]
<1>1. op' \in [Threads -> Ops] /\ pc' \in [Threads -> Pcs]
  BY DEF Begin, TypeOK
<1>2. arg' \in [Threads -> Compilers \cup {NoCompiler}]
  BY DEF Begin, TypeOK
<1>3. calls' \in [Threads -> Nat]
  BY DEF Begin, TypeOK
<1>4. QED
  BY <1>1, <1>2, <1>3

LEMMA TypeStep == TypeOK /\ CallInv /\ [Next]_vars => TypeOK'
<1> SUFFICES ASSUME TypeOK, CallInv, [Next]_vars PROVE TypeOK'
  OBVIOUS
<1> USE LogAssumption DEF TypeOK, objVars, mapVars, raceVars, Phases
<1>1. ASSUME NEW c \in Compilers, ConstructSilent(c) PROVE TypeOK'
  BY <1>1 DEF ConstructSilent
<1>2. ASSUME NEW c \in Compilers, DestroySilent(c) PROVE TypeOK'
  BY <1>2 DEF DestroySilent
<1>3. ASSUME NEW t \in Threads, NEW c \in Compilers, NEW l \in Logs,
             Construct(t, c, l)
      PROVE  TypeOK'
  BY <1>3, BeginType DEF Construct
<1>4. ASSUME NEW t \in Threads, NEW c \in Compilers, Destroy(t, c)
      PROVE  TypeOK'
  BY <1>4, BeginType DEF Destroy
<1>5. ASSUME NEW t \in Threads, NEW c \in Compilers,
             NEW o \in {"string", "exec"}, Log(t, c, o)
      PROVE  TypeOK'
  <2>1. o \in Ops /\ "findLock" \in Pcs /\ Begin(t, o, c, "findLock")
    BY <1>5 DEF Log
  <2>2. /\ op' \in [Threads -> Ops]
        /\ arg' \in [Threads -> Compilers \cup {NoCompiler}]
        /\ pc' \in [Threads -> Pcs]
        /\ calls' \in [Threads -> Nat]
    <3> HIDE DEF TypeOK
    <3> QED BY <2>1, BeginType
  <2>3. QED
    BY <1>5, <2>2 DEF Log
<1>6. ASSUME NEW t \in Threads, LockMap(t) PROVE TypeOK'
  BY <1>6 DEF LockMap, Goto
<1>7. ASSUME NEW t \in Threads, FindEntry(t) PROVE TypeOK'
  <2>1. LogOf(t) \in Logs
    BY <1>7, InCall DEF FindEntry
  <2>2. QED
    BY <1>7, <2>1 DEF FindEntry, Goto
<1>8. ASSUME NEW t \in Threads, WriteEntry(t) PROVE TypeOK'
  <2>1. NewCount(op[t], seen[t]) \in Nat
    BY DEF NewCount
  <2>2. torn' \subseteq Threads /\ raced' \in BOOLEAN
    BY <1>8 DEF WriteEntry, Lookups
  <2>3. refs' \in [Logs -> Nat]
        /\ mutexOwner' \in [Logs -> Threads \cup {NoThread}]
    BY <1>8, <2>1 DEF WriteEntry
  <2>4. QED
    BY <1>8, <2>2, <2>3 DEF WriteEntry, Goto
<1>9. ASSUME NEW t \in Threads, UnlockMap(t) PROVE TypeOK'
  BY <1>9 DEF UnlockMap, Return
<1>10. ASSUME NEW t \in Threads, LockFind(t) PROVE TypeOK'
  BY <1>10 DEF LockFind, Goto
<1>11. ASSUME NEW t \in Threads, LockMutex(t) PROVE TypeOK'
  BY <1>11 DEF LockMutex, Goto
<1>12. ASSUME NEW t \in Threads, WriteFirst(t) PROVE TypeOK'
  BY <1>12, PutType DEF WriteFirst, Goto, Parts
<1>13. ASSUME NEW t \in Threads, CopyOutput(t) PROVE TypeOK'
  BY <1>13, PutType DEF CopyOutput, Goto, Parts
<1>14. ASSUME NEW t \in Threads, WriteTail(t) PROVE TypeOK'
  BY <1>14, PutType DEF WriteTail, Goto, Parts
<1>15. ASSUME NEW t \in Threads, UnlockMutex(t) PROVE TypeOK'
  BY <1>15 DEF UnlockMutex, Return
<1>16. CASE UNCHANGED vars
  BY <1>16 DEF vars
<1>17. ASSUME NEW t \in Threads, Continue(t) PROVE TypeOK'
  <2> HIDE DEF TypeOK
  <2> QED
    BY <1>6, <1>7, <1>8, <1>9, <1>10, <1>11, <1>12, <1>13, <1>14, <1>15, <1>17
       DEF Continue
<1>18. QED
  <2> HIDE DEF TypeOK
  <2> QED
    BY <1>1, <1>2, <1>3, <1>4, <1>5, <1>16, <1>17 DEF Next, Silent, Call

-----------------------------------------------------------------------------
LEMMA CallStep == TypeOK /\ CallInv /\ [Next]_vars => CallInv'
<1> SUFFICES ASSUME TypeOK, CallInv, [Next]_vars PROVE CallInv'
  OBVIOUS
<1> USE LogAssumption DEF TypeOK, CallInv, CallOK, OneBuilder, objVars,
                          mapVars, raceVars, Phases, LogOf
<1>1. ASSUME NEW c \in Compilers, ConstructSilent(c) PROVE CallInv'
  BY <1>1 DEF ConstructSilent
<1>2. ASSUME NEW c \in Compilers, DestroySilent(c) PROVE CallInv'
  BY <1>2 DEF DestroySilent, InUse
<1>3. ASSUME NEW t \in Threads, NEW c \in Compilers, NEW l \in Logs,
             Construct(t, c, l)
      PROVE  CallInv'
  <2>1. OneBuilder'
    <3>1. \A u \in Threads : pc[u] \in RefPcs => arg[u] # c
      BY <1>3 DEF Construct
    <3>2. \A u \in Threads : u # t => pc'[u] = pc[u] /\ arg'[u] = arg[u]
      BY <1>3 DEF Construct, Begin
    <3>3. arg'[t] = c
      BY <1>3 DEF Construct, Begin
    <3>4. SUFFICES ASSUME NEW u \in Threads, NEW v \in Threads,
                          pc'[u] \in RefPcs, pc'[v] \in RefPcs,
                          arg'[u] = arg'[v]
                   PROVE  u = v
      OBVIOUS
    <3>5. CASE u # t /\ v # t
      BY <3>2, <3>4, <3>5
    <3>6. CASE u = t \/ v = t
      BY <3>1, <3>2, <3>3, <3>4, <3>6
    <3>7. QED
      BY <3>5, <3>6
  <2>2. ASSUME NEW u \in Threads PROVE CallOK(u)'
    BY <1>3 DEF Construct, Begin
  <2>3. QED
    BY <2>1, <2>2
<1>4. ASSUME NEW t \in Threads, NEW c \in Compilers, Destroy(t, c)
      PROVE  CallInv'
  <2>1. OneBuilder'
    BY <1>4 DEF Destroy, Begin, InUse
  <2>2. ASSUME NEW u \in Threads PROVE CallOK(u)'
    BY <1>4 DEF Destroy, Begin, InUse
  <2>3. QED
    BY <2>1, <2>2
<1>5. ASSUME NEW t \in Threads, NEW c \in Compilers,
             NEW o \in {"string", "exec"}, Log(t, c, o)
      PROVE  CallInv'
  <2>1. OneBuilder'
    BY <1>5 DEF Log, Begin
  <2>2. ASSUME NEW u \in Threads PROVE CallOK(u)'
    BY <1>5 DEF Log, Begin
  <2>3. QED
    BY <2>1, <2>2
<1>6. ASSUME NEW t \in Threads, LockMap(t) PROVE CallInv'
  BY <1>6 DEF LockMap, Goto
<1>7. ASSUME NEW t \in Threads, FindEntry(t) PROVE CallInv'
  BY <1>7 DEF FindEntry, Goto
<1>8. ASSUME NEW t \in Threads, WriteEntry(t) PROVE CallInv'
  <2>1. OneBuilder'
    BY <1>8 DEF WriteEntry, Goto
  <2>2. ASSUME NEW u \in Threads PROVE CallOK(u)'
    BY <1>8 DEF WriteEntry, Goto
  <2>3. QED
    BY <2>1, <2>2
<1>9. ASSUME NEW t \in Threads, UnlockMap(t) PROVE CallInv'
  <2>1. OneBuilder'
    BY <1>9 DEF UnlockMap, Return
  <2>2. ASSUME NEW u \in Threads PROVE CallOK(u)'
    BY <1>9 DEF UnlockMap, Return
  <2>3. QED
    BY <2>1, <2>2
<1>10. ASSUME NEW t \in Threads, LockFind(t) PROVE CallInv'
  BY <1>10 DEF LockFind, Goto
<1>11. ASSUME NEW t \in Threads, LockMutex(t) PROVE CallInv'
  BY <1>11 DEF LockMutex, Goto
<1>12. ASSUME NEW t \in Threads, WriteFirst(t) PROVE CallInv'
  BY <1>12 DEF WriteFirst, Goto
<1>13. ASSUME NEW t \in Threads, CopyOutput(t) PROVE CallInv'
  BY <1>13 DEF CopyOutput, Goto
<1>14. ASSUME NEW t \in Threads, WriteTail(t) PROVE CallInv'
  BY <1>14 DEF WriteTail, Goto
<1>15. ASSUME NEW t \in Threads, UnlockMutex(t) PROVE CallInv'
  BY <1>15 DEF UnlockMutex, Return
<1>16. CASE UNCHANGED vars
  BY <1>16 DEF vars
<1> HIDE DEF CallInv
<1>17. ASSUME NEW t \in Threads, Continue(t) PROVE CallInv'
  BY <1>6, <1>7, <1>8, <1>9, <1>10, <1>11, <1>12, <1>13, <1>14, <1>15, <1>17
     DEF Continue
<1>18. QED
  BY <1>1, <1>2, <1>3, <1>4, <1>5, <1>16, <1>17 DEF Next, Silent, Call

LEMMA MapStep == TypeOK /\ CallInv /\ MapInv /\ [Next]_vars => MapInv'
<1> SUFFICES ASSUME TypeOK, CallInv, MapInv, [Next]_vars,
                    NEW u \in Threads
             PROVE  MapOK(u)'
  BY DEF MapInv
<1> USE LogAssumption DEF TypeOK, CallInv, CallOK, OneBuilder, MapInv, MapOK,
                          objVars, mapVars, raceVars, LogOf
<1>1. ASSUME NEW c \in Compilers, ConstructSilent(c) PROVE MapOK(u)'
  BY <1>1 DEF ConstructSilent
<1>2. ASSUME NEW c \in Compilers, DestroySilent(c) PROVE MapOK(u)'
  BY <1>2 DEF DestroySilent
<1>3. ASSUME NEW t \in Threads, NEW c \in Compilers, NEW l \in Logs,
             Construct(t, c, l)
      PROVE  MapOK(u)'
  BY <1>3 DEF Construct, Begin
<1>4. ASSUME NEW t \in Threads, NEW c \in Compilers, Destroy(t, c)
      PROVE  MapOK(u)'
  BY <1>4 DEF Destroy, Begin
<1>5. ASSUME NEW t \in Threads, NEW c \in Compilers,
             NEW o \in {"string", "exec"}, Log(t, c, o)
      PROVE  MapOK(u)'
  BY <1>5 DEF Log, Begin
<1>6. ASSUME NEW t \in Threads, LockMap(t) PROVE MapOK(u)'
  BY <1>6 DEF LockMap, Goto
<1>7. ASSUME NEW t \in Threads, FindEntry(t) PROVE MapOK(u)'
  BY <1>7 DEF FindEntry, Goto
<1>8. ASSUME NEW t \in Threads, WriteEntry(t) PROVE MapOK(u)'
  BY <1>8 DEF WriteEntry, Goto
<1>9. ASSUME NEW t \in Threads, UnlockMap(t) PROVE MapOK(u)'
  BY <1>9 DEF UnlockMap, Return
<1>10. ASSUME NEW t \in Threads, LockFind(t) PROVE MapOK(u)'
  BY <1>10 DEF LockFind, Goto
<1>11. ASSUME NEW t \in Threads, LockMutex(t) PROVE MapOK(u)'
  BY <1>11 DEF LockMutex, Goto
<1>12. ASSUME NEW t \in Threads, WriteFirst(t) PROVE MapOK(u)'
  BY <1>12 DEF WriteFirst, Goto
<1>13. ASSUME NEW t \in Threads, CopyOutput(t) PROVE MapOK(u)'
  BY <1>13 DEF CopyOutput, Goto
<1>14. ASSUME NEW t \in Threads, WriteTail(t) PROVE MapOK(u)'
  BY <1>14 DEF WriteTail, Goto
<1>15. ASSUME NEW t \in Threads, UnlockMutex(t) PROVE MapOK(u)'
  BY <1>15 DEF UnlockMutex, Return
<1>16. CASE UNCHANGED vars
  BY <1>16 DEF vars
<1> HIDE DEF MapInv, MapOK
<1>17. ASSUME NEW t \in Threads, Continue(t) PROVE MapOK(u)'
  BY <1>6, <1>7, <1>8, <1>9, <1>10, <1>11, <1>12, <1>13, <1>14, <1>15, <1>17
     DEF Continue
<1>18. QED
  BY <1>1, <1>2, <1>3, <1>4, <1>5, <1>16, <1>17 DEF Next, Silent, Call

-----------------------------------------------------------------------------
LEMMA CountStep ==
    TypeOK /\ CallInv /\ MapInv /\ RefCountExact /\ [Next]_vars
        => RefCountExact'
<1> SUFFICES ASSUME TypeOK, CallInv, MapInv, RefCountExact, [Next]_vars,
                    NEW l \in Logs
             PROVE  refs'[l] = Cardinality(Registered(l)')
  BY DEF RefCountExact
<1>a. refs[l] = Cardinality(Registered(l)) /\ IsFiniteSet(Registered(l))
  BY RegisteredFinite DEF RefCountExact
<1>b. ASSUME Registered(l)' = Registered(l), refs'[l] = refs[l]
      PROVE  refs'[l] = Cardinality(Registered(l)')
  BY <1>a, <1>b
<1> USE LogAssumption DEF TypeOK, CallInv, CallOK, objVars, mapVars, LogOf
<1>1. ASSUME NEW c \in Compilers, ConstructSilent(c) \/ DestroySilent(c)
      PROVE  Registered(l)' = Registered(l) /\ refs'[l] = refs[l]
  BY <1>1 DEF ConstructSilent, DestroySilent, Registered
<1>2. ASSUME NEW t \in Threads, Call(t)
      PROVE  Registered(l)' = Registered(l) /\ refs'[l] = refs[l]
  <2>1. ASSUME NEW c \in Compilers, NEW k \in Logs, Construct(t, c, k)
        PROVE  Registered(l)' = Registered(l) /\ refs'[l] = refs[l]
    BY <2>1 DEF Construct, Registered
  <2>2. ASSUME NEW c \in Compilers, Destroy(t, c)
        PROVE  Registered(l)' = Registered(l) /\ refs'[l] = refs[l]
    BY <2>2 DEF Destroy, Registered
  <2>3. ASSUME NEW c \in Compilers, NEW o \in {"string", "exec"}, Log(t, c, o)
        PROVE  Registered(l)' = Registered(l) /\ refs'[l] = refs[l]
    BY <2>3 DEF Log, Registered
  <2>4. QED
    BY <1>2, <2>1, <2>2, <2>3 DEF Call
<1>3. ASSUME NEW t \in Threads, UnlockMap(t)
      PROVE  Registered(l)' = Registered(l) /\ refs'[l] = refs[l]
  BY <1>3 DEF UnlockMap, Registered
<1>4. ASSUME NEW t \in Threads, WriteEntry(t)
      PROVE  refs'[l] = Cardinality(Registered(l)')
  <2> DEFINE c == arg[t]
  <2>1. /\ c \in Compilers /\ op[t] \in {"ctor", "dtor"}
        /\ logFile[c] \in Logs /\ seen[t] = refs[logFile[c]]
        /\ logFile' = logFile
    BY <1>4 DEF WriteEntry, MapInv, MapOK
  <2>2. CASE logFile[c] # l
    <3>1. Registered(l)' = Registered(l) /\ refs'[l] = refs[l]
      BY <1>4, <2>1, <2>2 DEF WriteEntry, Registered
    <3>2. QED
      BY <3>1, <1>b
  <2>3. CASE logFile[c] = l /\ op[t] = "ctor"
    <3>1. c \notin Registered(l)
      BY <1>4, <2>1, <2>3 DEF WriteEntry, Registered
    <3>2. Registered(l)' = Registered(l) \cup {c}
      BY <1>4, <2>1, <2>3 DEF WriteEntry, Registered
    <3>3. refs'[l] = refs[l] + 1
      BY <1>4, <2>1, <2>3 DEF WriteEntry, NewCount
    <3>4. Cardinality(Registered(l) \cup {c}) = Cardinality(Registered(l)) + 1
      BY <1>a, <3>1, FS_AddElement
    <3>5. QED
      BY <1>a, <3>2, <3>3, <3>4
  <2>4. CASE logFile[c] = l /\ op[t] = "dtor"
    <3>1. c \in Registered(l)
      BY <1>4, <2>1, <2>4 DEF WriteEntry, Registered
    <3>2. Registered(l)' = Registered(l) \ {c}
      BY <1>4, <2>1, <2>4 DEF WriteEntry, Registered
    <3>3. refs[l] > 0
      BY <3>1, RegisteredCounts
    <3>4. refs'[l] = refs[l] - 1
      BY <1>4, <2>1, <2>4, <3>3 DEF WriteEntry, NewCount
    <3>5. Cardinality(Registered(l) \ {c}) = Cardinality(Registered(l)) - 1
      BY <1>a, <3>1, FS_RemoveElement
    <3>6. QED
      BY <1>a, <3>2, <3>4, <3>5
  <2>5. QED
    BY <2>1, <2>2, <2>3, <2>4
<1>5. ASSUME NEW t \in Threads,
             \/ LockMap(t) \/ FindEntry(t) \/ LockFind(t) \/ LockMutex(t)
             \/ UnlockMutex(t) \/ WriteFirst(t) \/ CopyOutput(t) \/ WriteTail(t)
      PROVE  Registered(l)' = Registered(l) /\ refs'[l] = refs[l]
  BY <1>5 DEF LockMap, FindEntry, LockFind, LockMutex, UnlockMutex, WriteFirst,
              CopyOutput, WriteTail, Registered
<1>6. CASE UNCHANGED vars
  BY <1>6, <1>b DEF vars, Registered
<1>7. QED
  BY <1>b, <1>1, <1>2, <1>3, <1>4, <1>5, <1>6 DEF Next, Silent, Continue

-----------------------------------------------------------------------------
\* A path in use has an entry, so a lookup that did not race finds it.
LEMMA LookupFinds ==
    ASSUME TypeOK, CallInv, RefCountExact, NEW t \in Threads, pc[t] \in LogPcs,
           t \notin torn
    PROVE  LogOf(t) \in Logs /\ FindReturns(t) = {"found"}
<1>1. LogOf(t) \in Logs /\ arg[t] \in Registered(LogOf(t))
  BY DEF TypeOK, CallInv, CallOK, LogOf, Registered
<1>2. refs[LogOf(t)] > 0
  BY <1>1, RegisteredCounts
<1>3. QED
  BY <1>1, <1>2 DEF FindReturns

LEMMA LockStep ==
    TypeOK /\ CallInv /\ MapInv /\ RefCountExact /\ LockInv /\ [Next]_vars
        => LockInv'
<1> SUFFICES ASSUME TypeOK, CallInv, MapInv, RefCountExact, LockInv,
                    [Next]_vars
             PROVE  LockInv'
  OBVIOUS
<1> USE LogAssumption DEF TypeOK, CallInv, CallOK, LockInv, Writing, LogOf,
                          objVars, mapVars, raceVars
<1>1. ASSUME NEW c \in Compilers, ConstructSilent(c) PROVE LockInv'
  BY <1>1 DEF ConstructSilent
<1>2. ASSUME NEW c \in Compilers, DestroySilent(c) PROVE LockInv'
  BY <1>2 DEF DestroySilent
<1>3. ASSUME NEW t \in Threads, NEW c \in Compilers, NEW l \in Logs,
             Construct(t, c, l)
      PROVE  LockInv'
  BY <1>3 DEF Construct, Begin
<1>4. ASSUME NEW t \in Threads, NEW c \in Compilers, Destroy(t, c)
      PROVE  LockInv'
  BY <1>4 DEF Destroy, Begin
<1>5. ASSUME NEW t \in Threads, NEW c \in Compilers,
             NEW o \in {"string", "exec"}, Log(t, c, o)
      PROVE  LockInv'
  BY <1>5 DEF Log, Begin
<1>6. ASSUME NEW t \in Threads, LockMap(t) PROVE LockInv'
  BY <1>6 DEF LockMap, Goto
<1>7. ASSUME NEW t \in Threads, FindEntry(t) PROVE LockInv'
  BY <1>7 DEF FindEntry, Goto
<1>8. ASSUME NEW t \in Threads, WriteEntry(t), ~raced' PROVE LockInv'
  <2>1. /\ pc' = [pc EXCEPT ![t] = "mapUnlock"] /\ arg' = arg
        /\ logFile' = logFile /\ ~raced /\ torn' = {}
    <3> DEFINE hit == IF (seen[t] = 0) # (NewCount(op[t], seen[t]) = 0)
                      THEN Lookups ELSE {}
    <3>1. /\ raced' = (raced \/ hit # {}) /\ torn' = torn \cup hit
      BY <1>8, Zenon DEF WriteEntry
    <3>2. ~raced /\ hit = {}
      BY <1>8, <3>1, Zenon
    <3>3. torn' = {}
      BY <3>1, <3>2
    <3>4. QED
      BY <1>8, <3>2, <3>3 DEF WriteEntry, Goto
  <2>2. CASE mutexOwner' = mutexOwner
    BY <1>8, <2>1, <2>2 DEF WriteEntry
  <2>3. CASE mutexOwner' # mutexOwner
    <3>1. /\ (seen[t] = 0) # (NewCount(op[t], seen[t]) = 0)
          /\ mutexOwner' = [mutexOwner EXCEPT ![LogOf(t)] = NoThread]
      BY <1>8, <2>3 DEF WriteEntry
    <3>2. \A u \in Threads : pc[u] \in LogPcs => LogOf(u) # LogOf(t)
      <4> HIDE DEF LogOf, TypeOK, CallInv, CallOK, LockInv
      <4>1. pc[t] = "mapWrite"
        BY <1>8 DEF WriteEntry
      <4>2. QED
        BY <3>1, <4>1, NoRelinkInUse
    <3>3. QED
      BY <1>8, <2>1, <3>1, <3>2 DEF WriteEntry
  <2>4. QED
    BY <2>2, <2>3
<1>9. ASSUME NEW t \in Threads, UnlockMap(t) PROVE LockInv'
  BY <1>9 DEF UnlockMap, Return
<1>10. ASSUME NEW t \in Threads, LockFind(t), ~raced' PROVE LockInv'
  <2>1. FindReturns(t) = {"found"}
    BY <1>10, LookupFinds DEF LockFind
  <2>2. pc' = [pc EXCEPT ![t] = "wait"]
    BY <1>10, <2>1 DEF LockFind, Goto
  <2>3. QED
    BY <1>10, <2>2 DEF LockFind, Goto
<1>11. ASSUME NEW t \in Threads, LockMutex(t) PROVE LockInv'
  BY <1>11 DEF LockMutex, Goto
<1>12. ASSUME NEW t \in Threads, WriteFirst(t) PROVE LockInv'
  BY <1>12 DEF WriteFirst, Goto
<1>13. ASSUME NEW t \in Threads, CopyOutput(t) PROVE LockInv'
  BY <1>13 DEF CopyOutput, Goto
<1>14. ASSUME NEW t \in Threads, WriteTail(t) PROVE LockInv'
  BY <1>14 DEF WriteTail, Goto
<1>15. ASSUME NEW t \in Threads, UnlockMutex(t), ~raced' PROVE LockInv'
  <2>1. FindReturns(t) = {"found"}
    BY <1>15, LookupFinds DEF UnlockMutex
  <2>2. mutexOwner' = [mutexOwner EXCEPT ![LogOf(t)] = NoThread]
    BY <1>15, <2>1 DEF UnlockMutex
  <2>3. QED
    BY <1>15, <2>2 DEF UnlockMutex, Return
<1>16. CASE UNCHANGED vars
  BY <1>16 DEF vars
<1>17. CASE raced'
  BY <1>17
<1> HIDE DEF LockInv
<1>18. ASSUME NEW t \in Threads, Continue(t), ~raced' PROVE LockInv'
  BY <1>6, <1>7, <1>8, <1>9, <1>10, <1>11, <1>12, <1>13, <1>14, <1>15, <1>18
     DEF Continue
<1>19. QED
  BY <1>1, <1>2, <1>3, <1>4, <1>5, <1>16, <1>17, <1>18 DEF Next, Silent, Call

-----------------------------------------------------------------------------
LEMMA Initially == Init => IInv
<1> SUFFICES ASSUME Init PROVE IInv
  OBVIOUS
<1>1. TypeOK
  <2> DEFINE P == [by : Threads, call : Nat, part : Parts]
  <2>1. <<>> \in Seq(P)
    OBVIOUS
  <2> HIDE DEF P
  <2>2. content \in [Files -> Seq(P)]
    BY <2>1 DEF Init
  <2>3. content \in [Files -> Seq([by : Threads, call : Nat, part : Parts])]
    BY <2>2 DEF P
  <2>4. QED
    BY <2>3, LogAssumption DEF Init, TypeOK, Phases
<1>2. CallInv /\ MapInv
  BY DEF Init, CallInv, CallOK, OneBuilder, MapInv, MapOK
<1>3. RefCountExact
  <2>1. \A l \in Logs : Registered(l) = {}
    BY DEF Init, Registered
  <2>2. QED
    BY <2>1, FS_EmptySet DEF Init, RefCountExact
<1>4. LockInv
  BY LogAssumption DEF Init, LockInv, Writing
<1>5. QED
  BY <1>1, <1>2, <1>3, <1>4 DEF IInv

(***************************************************************************)
(* IInv holds in every reachable state: whatever the threads, compilers,   *)
(* log paths and files are.                                                *)
(***************************************************************************)
THEOREM Invariance == Spec => []IInv
<1>1. IInv /\ [Next]_vars => IInv'
  BY TypeStep, CallStep, MapStep, CountStep, LockStep DEF IInv
<1>2. QED
  BY Initially, <1>1, PTL DEF Spec

(***************************************************************************)
(* Every variable keeps its type.                                          *)
(***************************************************************************)
THEOREM TypeCorrect == Spec => []TypeOK
<1>1. IInv => TypeOK
  BY DEF IInv
<1>2. QED
  BY Invariance, <1>1, PTL

(***************************************************************************)
(* addReferenceToLogFile and removeReferenceToLogFile count exactly the    *)
(* compilers that name a path.                                             *)
(***************************************************************************)
THEOREM CountsExact == Spec => []RefCountExact
<1>1. IInv => RefCountExact
  BY DEF IInv
<1>2. QED
  BY Invariance, <1>1, PTL

(***************************************************************************)
(* lockMutex and unlockMutex never use the mutex of an erased entry.       *)
(***************************************************************************)
THEOREM MutexLives == Spec => []MutexOutlivesUsers
<1>1. IInv => MutexOutlivesUsers
  <2> SUFFICES ASSUME IInv, NEW t \in Threads, pc[t] \in LogPcs
               PROVE  refs[LogOf(t)] > 0
    BY DEF MutexOutlivesUsers
  <2>1. LogOf(t) \in Logs /\ arg[t] \in Registered(LogOf(t))
    BY DEF IInv, TypeOK, CallInv, CallOK, LogOf, Registered
  <2>2. QED
    BY <2>1, RegisteredCounts DEF IInv
<1>2. QED
  BY Invariance, <1>1, PTL

(***************************************************************************)
(* Mutual exclusion of the writers to a path, up to the first data race.   *)
(***************************************************************************)
THEOREM Exclusion == Spec => []ExclusiveWriters
<1>1. IInv => ExclusiveWriters
  BY DEF IInv, LockInv, ExclusiveWriters
<1>2. QED
  BY Invariance, <1>1, PTL

(***************************************************************************)
(* A log mutex is released by its holder only, up to the first data race.  *)
(***************************************************************************)
THEOREM HolderReleases == Spec => OnlyHolderReleases
<1> DEFINE Release ==
      ~raced' =>
        \A l \in Logs, t \in Threads :
          mutexOwner[l] = t /\ mutexOwner'[l] # t =>
            /\ pc[t] = "findUnlock" /\ LogOf(t) = l
            /\ mutexOwner'[l] = NoThread
<1>1. IInv /\ [Next]_vars => [Release]_vars
  <2> SUFFICES ASSUME IInv, [Next]_vars, ~raced',
                      NEW l \in Logs, NEW t \in Threads,
                      mutexOwner[l] = t, mutexOwner'[l] # t
               PROVE  /\ pc[t] = "findUnlock" /\ LogOf(t) = l
                      /\ mutexOwner'[l] = NoThread
    OBVIOUS
  <2> USE DEF IInv
  <2>1. ~raced
    BY DEF Next, Silent, Call, Continue, ConstructSilent, DestroySilent,
           Construct, Destroy, Log, LockMap, FindEntry, WriteEntry, UnlockMap,
           LockFind, LockMutex, UnlockMutex, WriteFirst, CopyOutput, WriteTail,
           raceVars, vars
  <2>2. Writing(t) /\ LogOf(t) = l
    BY <2>1 DEF LockInv
  <2>3. PICK u \in Threads : WriteEntry(u) \/ LockMutex(u) \/ UnlockMutex(u)
    BY DEF Next, Silent, Call, Continue, ConstructSilent, DestroySilent,
           Construct, Destroy, Log, LockMap, FindEntry, UnlockMap,
           LockFind, WriteFirst, CopyOutput, WriteTail, vars
  <2>4. CASE WriteEntry(u)
    <3>1. /\ pc[u] = "mapWrite" /\ LogOf(u) = l
          /\ (seen[u] = 0) # (NewCount(op[u], seen[u]) = 0)
      BY <2>4 DEF WriteEntry, TypeOK
    <3>2. QED
      BY <2>2, <3>1, NoRelinkInUse DEF Writing
  <2>5. CASE LockMutex(u)
    BY <2>5, LogAssumption DEF LockMutex, TypeOK
  <2>6. CASE UnlockMutex(u)
    <3>1. LogOf(u) = l /\ pc[u] = "findUnlock"
      BY <2>6 DEF UnlockMutex, TypeOK
    <3>2. u = t
      BY <2>1, <3>1 DEF LockInv, Writing
    <3>3. QED
      BY <2>6, <3>1, <3>2 DEF UnlockMutex, TypeOK
  <2>7. QED
    BY <2>3, <2>4, <2>5, <2>6
<1>2. QED
  BY Invariance, <1>1, PTL DEF Spec, OnlyHolderReleases

(***************************************************************************)
(* A program that spells one log path in one way never has a data race on  *)
(* the map, so Exclusion and HolderReleases hold without condition in it.  *)
(***************************************************************************)
THEOREM OneLogNeverRaces == Spec => []NoRace
<1>1. Init => NoRace
  BY DEF Init, NoRace
<1>2. IInv /\ NoRace /\ [Next]_vars => NoRace'
  <2> SUFFICES ASSUME IInv, NoRace, [Next]_vars, SingleLog PROVE ~raced'
    BY DEF NoRace, SingleLog
  <2> USE DEF IInv
  <2>1. ASSUME NEW t \in Threads, WriteEntry(t) PROVE ~raced'
    <3>1. ASSUME NEW u \in Lookups
          PROVE  (seen[t] = 0) = (NewCount(op[t], seen[t]) = 0)
      <4>1. u \in Threads /\ pc[u] \in LogPcs /\ pc[t] = "mapWrite"
        BY <2>1 DEF Lookups, WriteEntry
      <4>2. LogOf(u) = LogOf(t)
        BY <4>1, InCall DEF SingleLog
      <4>3. QED
        BY <4>1, <4>2, NoRelinkInUse
    <3>2. QED
      BY <2>1, <3>1 DEF WriteEntry, NoRace
  <2>2. CASE ~ \E t \in Threads : WriteEntry(t)
    BY <2>2 DEF NoRace, Next, Silent, Call, Continue, ConstructSilent,
           DestroySilent, Construct, Destroy, Log, LockMap, FindEntry,
           UnlockMap, LockFind, LockMutex, UnlockMutex, WriteFirst, CopyOutput,
           WriteTail, raceVars, vars
  <2>3. QED
    BY <2>1, <2>2
<1>3. QED
  BY Invariance, <1>1, <1>2, PTL DEF Spec

-----------------------------------------------------------------------------
(* What the files hold: RecordsWhole.                                      *)

\* No two paths name a file.
OneName == \A k, l \in Logs : FileOf[k] = FileOf[l] => k = l

\* A piece of t's call, or of its last one.
Current(t, p) == p.by = t /\ p.call = calls[t]

\* t has written the command of its record and not yet the end.
Open(t) == pc[t] \in {"output", "tail"}

MayHaveWritten == {"idle", "output", "tail", "findUnlock"}

\* Who has not reached the file in its call has no piece of that call in it.
CallsKept ==
    /\ \A t \in Threads :
         calls[t] <= MaxCalls[t] /\ (op[t] # "none" => calls[t] >= 1)
    /\ \A f \in Files : \A i \in DOMAIN content[f] :
         LET p == content[f][i]
         IN  /\ p.call <= calls[p.by]
             /\ p.call = calls[p.by] => pc[p.by] \in MayHaveWritten

\* The last pieces of the file are what t has written of its record, and no
\* other piece anywhere is of that record.
OpenAt(t, m) ==
    LET f == FileOf[LogOf(t)]
        s == content[f]
    IN  /\ \/ Len(s) = m + 1
           \/ Len(s) = m + 2 /\ pc[t] = "tail" /\ s[m + 2] = Piece(t, "output")
        /\ s[m + 1] = Piece(t, "command")
        /\ \A g \in Files : \A i \in DOMAIN content[g] :
             Current(t, content[g][i]) => g = f /\ i > m

OpenAtEnd == \A t \in Threads : Open(t) => \E m \in Nat : OpenAt(t, m)

ContentInv ==
    /\ CallsKept
    /\ ~raced /\ OneName => OpenAtEnd /\ \A f \in Files : Whole(content[f])

Pieces == [by : Threads, call : Nat, part : Parts]

LEMMA RacesStay == [Next]_vars /\ raced => raced'
  BY DEF Next, Silent, Call, Continue, ConstructSilent, DestroySilent,
         Construct, Destroy, Log, LockMap, FindEntry, WriteEntry, UnlockMap,
         LockFind, LockMutex, UnlockMutex, WriteFirst, CopyOutput, WriteTail,
         raceVars, vars

\* What Put does to the file, piece by piece.
LEMMA PutDoes ==
    ASSUME TypeOK, NEW t \in Threads, NEW part \in Parts, LogOf(t) \in Logs,
           Put(t, part)
    PROVE  LET f == FileOf[LogOf(t)]
               s == content[f]
           IN  /\ f \in Files /\ s \in Seq(Pieces) /\ Len(s) \in Nat
               /\ Piece(t, part) \in Pieces
               /\ content'[f] \in Seq(Pieces)
               /\ Len(content'[f]) = Len(s) + 1
               /\ DOMAIN s = 1 .. Len(s)
               /\ DOMAIN content'[f] = 1 .. (Len(s) + 1)
               /\ content'[f][Len(s) + 1] = Piece(t, part)
               /\ \A i \in 1 .. Len(s) : content'[f][i] = s[i]
               /\ \A g \in Files \ {f} : content'[g] = content[g]
<1> DEFINE f == FileOf[LogOf(t)]
           s == content[f]
<1>1. Piece(t, part) \in Pieces
  BY DEF Piece, TypeOK, Pieces
<1>2. f \in Files /\ content \in [Files -> Seq(Pieces)]
  BY LogAssumption DEF TypeOK, Pieces
<1>3. /\ s \in Seq(Pieces)
      /\ content' = [content EXCEPT ![f] = Append(s, Piece(t, part))]
  BY <1>2 DEF Put
<1>4. /\ content'[f] = Append(s, Piece(t, part))
      /\ \A g \in Files \ {f} : content'[g] = content[g]
  BY <1>2, <1>3
<1> HIDE DEF f, s
<1>5. /\ Len(s) \in Nat /\ DOMAIN s = 1 .. Len(s)
      /\ Append(s, Piece(t, part)) \in Seq(Pieces)
      /\ Len(Append(s, Piece(t, part))) = Len(s) + 1
      /\ DOMAIN Append(s, Piece(t, part)) = 1 .. (Len(s) + 1)
      /\ Append(s, Piece(t, part))[Len(s) + 1] = Piece(t, part)
      /\ \A i \in 1 .. Len(s) : Append(s, Piece(t, part))[i] = s[i]
  BY <1>1, <1>3
<1>6. QED
  BY <1>1, <1>2, <1>3, <1>4, <1>5 DEF f, s

\* A step that writes nothing and ends no record.
LEMMA ContentQuiet ==
    ASSUME TypeOK, ContentInv, content' = content, raced => raced',
           \A t \in Threads :
              /\ calls'[t] <= MaxCalls[t] /\ (op'[t] # "none" => calls'[t] >= 1)
              /\ \/ calls'[t] = calls[t] + 1
                 \/ /\ calls'[t] = calls[t]
                    /\ pc[t] \in MayHaveWritten => pc'[t] \in MayHaveWritten
              /\ pc'[t] \in {"output", "tail"} =>
                   /\ Open(t) /\ calls'[t] = calls[t] /\ LogOf(t)' = LogOf(t)
                   /\ pc[t] = "tail" => pc'[t] = "tail"
    PROVE  ContentInv'
<1>1. ASSUME NEW f \in Files, NEW i \in DOMAIN content[f]
      PROVE  content[f][i].by \in Threads /\ content[f][i].call \in Nat
  <2> HIDE DEF Pieces
  <2>1. content[f] \in Seq(Pieces)
    BY DEF TypeOK, Pieces
  <2>2. content[f][i] \in Pieces
    BY <2>1
  <2>3. QED
    BY <2>2 DEF Pieces
<1>2. CallsKept'
  <2>1. ASSUME NEW f \in Files, NEW i \in DOMAIN content[f],
               NEW p, p = content[f][i]
        PROVE  /\ p.call <= calls'[p.by]
               /\ p.call = calls'[p.by] => pc'[p.by] \in MayHaveWritten
    <3>1. p.by \in Threads /\ p.call \in Nat
      BY <1>1, <2>1
    <3>2. /\ p.call <= calls[p.by]
          /\ p.call = calls[p.by] => pc[p.by] \in MayHaveWritten
      BY <2>1 DEF ContentInv, CallsKept
    <3>3. calls[p.by] \in Nat
      BY <3>1 DEF TypeOK
    <3>4. QED
      BY <3>1, <3>2, <3>3
  <2>2. QED
    BY <2>1 DEF CallsKept
<1>3. ASSUME ~raced', OneName
      PROVE  OpenAtEnd' /\ \A f \in Files : Whole(content'[f])
  <2>1. OpenAtEnd /\ \A f \in Files : Whole(content[f])
    BY <1>3 DEF ContentInv
  <2>2. ASSUME NEW t \in Threads, Open(t)'
        PROVE  \E m \in Nat : OpenAt(t, m)'
    <3>1. /\ Open(t) /\ calls'[t] = calls[t] /\ LogOf(t)' = LogOf(t)
          /\ pc[t] = "tail" => pc'[t] = "tail"
      BY <2>2 DEF Open
    <3>2. PICK m \in Nat : OpenAt(t, m)
      BY <2>1, <3>1 DEF OpenAtEnd
    <3>3. OpenAt(t, m)'
      BY <3>1, <3>2 DEF OpenAt, Current, Piece
    <3>4. QED
      BY <3>3
  <2>3. QED
    BY <2>1, <2>2 DEF OpenAtEnd
<1>4. QED
  BY <1>2, <1>3 DEF ContentInv, OneName

\* What WriteFirst, CopyOutput and WriteTail do next, with what they write.
Writes(t, part, where) ==
    \/ pc[t] = "first" /\ part = "line" /\ where = "findUnlock"
    \/ pc[t] = "first" /\ part = "command" /\ where = "output"
    \/ pc[t] = "output" /\ part = "output" /\ where = "tail"
    \/ pc[t] = "tail" /\ part = "end" /\ where = "findUnlock"

\* Two threads that are about to write, or have, have different files.
LEMMA FilesApart ==
    ASSUME TypeOK, CallInv, LockInv, ~raced, OneName,
           NEW t \in Threads, NEW u \in Threads, t # u, Writing(t), Writing(u)
    PROVE  FileOf[LogOf(t)] # FileOf[LogOf(u)]
<1>1. mutexOwner[LogOf(t)] = t /\ mutexOwner[LogOf(u)] = u
  BY DEF LockInv
<1>2. LogOf(t) \in Logs /\ LogOf(u) \in Logs
  BY InCall DEF Writing
<1>3. QED
  BY <1>1, <1>2 DEF OneName

LEMMA ContentWritten ==
    ASSUME TypeOK, CallInv, LockInv, ContentInv, NEW t \in Threads,
           NEW part \in Parts, NEW where, Put(t, part), Writes(t, part, where),
           Goto(t, where), UNCHANGED <<logFile, raced>>
    PROVE  ContentInv'
<1> DEFINE f == FileOf[LogOf(t)]
           s == content[f]
           n == Len(s)
           new == Piece(t, part)
<1>1. /\ LogOf(t) \in Logs /\ Writing(t) /\ op[t] # "none"
      /\ calls[t] \in Nat /\ calls[t] >= 1
  BY InCall DEF Writes, Writing, TypeOK, CallInv, CallOK, ContentInv, CallsKept
<1>2. /\ op' = op /\ calls' = calls /\ arg' = arg /\ pc'[t] = where
      /\ \A u \in Threads \ {t} : pc'[u] = pc[u]
      /\ \A u \in Threads : LogOf(u)' = LogOf(u)
  BY DEF Goto, TypeOK, LogOf
<1>3. /\ f \in Files /\ n \in Nat /\ new \in Pieces
      /\ DOMAIN s = 1 .. n /\ DOMAIN content'[f] = 1 .. (n + 1)
      /\ Len(content'[f]) = n + 1
      /\ content'[f][n + 1] = new
      /\ \A i \in 1 .. n : content'[f][i] = s[i]
      /\ \A g \in Files \ {f} : content'[g] = content[g]
  BY <1>1, PutDoes
<1>4. new.by = t /\ new.call = calls[t] /\ new.part = part
  BY DEF Piece
<1> HIDE DEF f, s, n, new
\* A piece that is there after the step was there before, or is the new one.
<1>5. \A g \in Files : \A i \in DOMAIN content'[g] :
         \/ i \in DOMAIN content[g] /\ content'[g][i] = content[g][i]
         \/ g = f /\ i = n + 1 /\ content'[g][i] = new
  <2>1. ASSUME NEW i \in DOMAIN content'[f], i # n + 1
        PROVE  i \in DOMAIN content[f] /\ content'[f][i] = content[f][i]
    BY <1>3, <2>1 DEF s
  <2>2. QED
    BY <1>3, <2>1
<1>6. CallsKept'
  <2>1. ASSUME NEW g \in Files, NEW i \in DOMAIN content'[g],
               NEW p, p = content'[g][i]
        PROVE  /\ p.call <= calls'[p.by]
               /\ p.call = calls'[p.by] => pc'[p.by] \in MayHaveWritten
    <3>1. CASE p = new
      BY <1>1, <1>2, <1>4, <3>1 DEF Writes, MayHaveWritten
    <3>2. CASE i \in DOMAIN content[g] /\ p = content[g][i]
      <4>1. /\ p.call <= calls[p.by]
            /\ p.call = calls[p.by] => pc[p.by] \in MayHaveWritten
        BY <3>2 DEF ContentInv, CallsKept
      <4>2. pc'[t] \in MayHaveWritten
        BY <1>2 DEF Writes, MayHaveWritten
      <4>3. p.by \in Threads
        <5>1. content[g] \in Seq(Pieces)
          BY DEF TypeOK, Pieces
        <5> HIDE DEF Pieces
        <5>2. p \in Pieces
          BY <3>2, <5>1
        <5>3. QED
          BY <5>2 DEF Pieces
      <4>4. QED
        BY <1>2, <4>1, <4>2, <4>3
    <3>3. QED
      BY <1>5, <2>1, <3>1, <3>2
  <2>2. \A u \in Threads :
           calls'[u] <= MaxCalls[u] /\ (op'[u] # "none" => calls'[u] >= 1)
    BY <1>2 DEF ContentInv, CallsKept
  <2>3. QED
    BY <2>1, <2>2 DEF CallsKept
<1>7. ASSUME ~raced', OneName
      PROVE  OpenAtEnd' /\ \A g \in Files : Whole(content'[g])
  <2>1. ~raced /\ OpenAtEnd /\ \A g \in Files : Whole(content[g])
    BY <1>7 DEF ContentInv
  <2>2. ASSUME pc[t] = "first"
        PROVE  /\ Open(t)' => \E m \in Nat : OpenAt(t, m)'
               /\ Whole(content'[f])
    <3>1. \A g \in Files : \A i \in DOMAIN content[g] :
             ~Current(t, content[g][i])
      BY <2>2 DEF ContentInv, CallsKept, Current, MayHaveWritten
    <3>2. ASSUME Open(t)' PROVE \E m \in Nat : OpenAt(t, m)'
      <4>1. part = "command"
        BY <1>2, <2>2, <3>2 DEF Open, Writes
      <4>2. PICK m \in Nat : m = n
        BY <1>3
      <4>3. (\A g \in Files : \A i \in DOMAIN content[g] :
               Current(t, content[g][i]) => g = FileOf[LogOf(t)] /\ i > m)'
        BY <1>2, <1>3, <1>5, <3>1, <4>2 DEF Current, f
      <4>4. (FileOf[LogOf(t)])' = f /\ (Piece(t, "command"))' = new
        BY <1>2, <4>1 DEF f, new, Piece
      <4>5. OpenAt(t, m)'
        BY <1>3, <4>2, <4>3, <4>4 DEF OpenAt
      <4>6. QED
        BY <4>5
    <3>3. \A i \in 1 .. n : ~SameRecord(s[i], new)
      BY <1>3, <1>4, <3>1 DEF Current, SameRecord, s
    <3>4. Whole(content'[f])
      <4>1. SUFFICES ASSUME NEW i \in 1 .. (n + 1), NEW j \in 1 .. (n + 1),
                            NEW k \in 1 .. (n + 1), i < j, j < k,
                            SameRecord(content'[f][i], content'[f][k])
                     PROVE  SameRecord(content'[f][i], content'[f][j])
        BY <1>3 DEF Whole
      <4>2. k # n + 1 /\ i \in 1 .. n /\ j \in 1 .. n /\ k \in 1 .. n
        BY <1>3, <3>3, <4>1
      <4>3. Whole(s)
        BY <1>3, <2>1 DEF s
      <4>4. QED
        BY <1>3, <4>1, <4>2, <4>3 DEF Whole
    <3>5. QED
      BY <3>2, <3>4
  <2>3. ASSUME pc[t] # "first"
        PROVE  /\ Open(t)' => \E m \in Nat : OpenAt(t, m)'
               /\ Whole(content'[f])
    <3>1. Open(t)
      BY <2>3 DEF Writes, Open
    <3>2. PICK m \in Nat : OpenAt(t, m)
      BY <2>1, <3>1 DEF OpenAtEnd
    <3>3. /\ n \in {m + 1, m + 2}
          /\ pc[t] = "output" => n = m + 1
          /\ \A j \in 1 .. n : j > m => Current(t, s[j])
          /\ \A g \in Files : \A i \in DOMAIN content[g] :
               Current(t, content[g][i]) => g = f /\ i > m
          /\ s[m + 1] = Piece(t, "command")
      BY <1>3, <3>2 DEF OpenAt, Current, Piece, s, n, f
    <3>4. Open(t)' => OpenAt(t, m)'
      <4>1. ASSUME Open(t)' PROVE part = "output" /\ where = "tail" /\ n = m + 1
        BY <1>2, <2>3, <3>3, <4>1 DEF Open, Writes
      <4>2. \A g \in Files : \A i \in DOMAIN content'[g] :
               (Current(t, content[g][i]))' => g = f /\ i > m
        BY <1>2, <1>5, <3>3 DEF Current
      <4>3. FileOf[LogOf(t)]' = f /\ Piece(t, "output")' = Piece(t, "output")
            /\ Piece(t, "command")' = Piece(t, "command")
        BY <1>2 DEF f, Piece
      <4>4. ASSUME Open(t)'
            PROVE  /\ Len(content'[f]) = m + 2 /\ pc'[t] = "tail"
                   /\ content'[f][m + 2] = Piece(t, "output")
                   /\ content'[f][m + 1] = Piece(t, "command")
        BY <1>2, <1>3, <3>3, <4>1, <4>4 DEF new
      <4>5. QED
        BY <4>2, <4>3, <4>4 DEF OpenAt
    <3>5. Whole(content'[f])
      <4>1. SUFFICES ASSUME NEW i \in 1 .. (n + 1), NEW j \in 1 .. (n + 1),
                            NEW k \in 1 .. (n + 1), i < j, j < k,
                            SameRecord(content'[f][i], content'[f][k])
                     PROVE  SameRecord(content'[f][i], content'[f][j])
        BY <1>3 DEF Whole
      <4>2. i \in 1 .. n /\ j \in 1 .. n
        BY <1>3, <4>1
      <4>3. CASE k = n + 1
        <5>1. Current(t, s[i])
          BY <1>3, <1>4, <4>1, <4>2, <4>3 DEF SameRecord, Current
        <5>2. i > m
          BY <1>3, <3>3, <4>2, <5>1 DEF s
        <5>3. Current(t, s[j])
          BY <3>3, <4>1, <4>2, <5>2
        <5>4. QED
          BY <1>3, <4>2, <5>1, <5>3 DEF SameRecord, Current
      <4>4. CASE k # n + 1
        <5>1. Whole(s) /\ k \in 1 .. n
          BY <1>3, <2>1, <4>4 DEF s
        <5>2. QED
          BY <1>3, <4>1, <4>2, <5>1 DEF Whole
      <4>5. QED
        BY <4>3, <4>4
    <3>6. QED
      BY <3>4, <3>5
  <2>4. ASSUME NEW u \in Threads \ {t}, Open(u)'
        PROVE  \E m \in Nat : OpenAt(u, m)'
    <3>1. Open(u) /\ Writing(u) /\ pc'[u] = pc[u]
      BY <1>2, <2>4 DEF Open, Writing
    <3>2. FileOf[LogOf(u)] # f
      BY <1>1, <1>7, <2>1, <3>1, FilesApart DEF f
    <3>3. PICK m \in Nat : OpenAt(u, m)
      BY <2>1, <3>1 DEF OpenAtEnd
    <3>4. FileOf[LogOf(u)] \in Files
      BY <3>1, InCall, LogAssumption DEF Open
    <3>5. /\ FileOf[LogOf(u)]' = FileOf[LogOf(u)]
          /\ content'[FileOf[LogOf(u)]] = content[FileOf[LogOf(u)]]
      BY <1>2, <1>3, <3>2, <3>4
    <3>6. \A g \in Files : \A i \in DOMAIN content'[g] :
             (Current(u, content[g][i]))' => g = FileOf[LogOf(u)] /\ i > m
      BY <1>2, <1>4, <1>5, <3>3 DEF OpenAt, Current
    <3>7. OpenAt(u, m)'
      BY <1>2, <3>1, <3>3, <3>5, <3>6 DEF OpenAt, Piece
    <3>8. QED
      BY <3>7
  <2>5. OpenAtEnd'
    <3>1. Open(t)' => \E m \in Nat : OpenAt(t, m)'
      BY <2>2, <2>3
    <3>2. QED
      BY <2>4, <3>1 DEF OpenAtEnd
  <2>6. \A g \in Files : Whole(content'[g])
    BY <1>3, <2>1, <2>2, <2>3
  <2>7. QED
    BY <2>5, <2>6
<1>8. QED
  BY <1>6, <1>7 DEF ContentInv, OneName

LEMMA ContentStep ==
    ASSUME IInv, ContentInv, [Next]_vars
    PROVE  ContentInv'
<1> USE DEF IInv
<1>1. /\ raced => raced'
      /\ \A t \in Threads : /\ calls[t] \in Nat /\ calls[t] <= MaxCalls[t]
                            /\ op[t] # "none" => calls[t] >= 1
                            /\ op[t] = "none" <=> pc[t] = "idle"
  BY RacesStay DEF ContentInv, CallsKept, TypeOK, CallInv, CallOK
<1>2. \A t \in Threads : pc[t] \in LogPcs =>
           arg[t] \in Compilers /\ phase[arg[t]] = "live"
  BY DEF CallInv, CallOK
\* A thread goes on, or returns, and writes nothing.
<1>3. ASSUME NEW t \in Threads, NEW where,
             UNCHANGED <<content, logFile>>, pc' = [pc EXCEPT ![t] = where],
             calls' = calls,
             \/ op' = op /\ arg' = arg
             \/ /\ op' = [op EXCEPT ![t] = "none"]
                /\ \A u \in Threads \ {t} : arg'[u] = arg[u],
             pc[t] \in MayHaveWritten => where \in MayHaveWritten,
             where \in {"output", "tail"} => /\ Open(t) /\ LogOf(t)' = LogOf(t)
                                            /\ where = "tail"
      PROVE  ContentInv'
  <2>1. /\ pc'[t] = where
        /\ \A u \in Threads \ {t} : pc'[u] = pc[u] /\ LogOf(u)' = LogOf(u)
    BY <1>3 DEF TypeOK, LogOf
  <2>2. \A u \in Threads : op'[u] # "none" => op[u] # "none"
    BY <1>3 DEF TypeOK
  <2>3. QED
    BY <1>1, <1>3, <2>1, <2>2, ContentQuiet DEF Open
\* A thread begins a call.
<1>4. ASSUME NEW t \in Threads, NEW o, NEW c, NEW where, Begin(t, o, c, where),
             content' = content, where \notin {"output", "tail"},
             \A u \in Threads :
                pc[u] \in LogPcs => logFile'[arg[u]] = logFile[arg[u]]
      PROVE  ContentInv'
  <2>1. /\ pc'[t] = where /\ calls'[t] = calls[t] + 1 /\ calls[t] < MaxCalls[t]
        /\ \A u \in Threads \ {t} : /\ pc'[u] = pc[u] /\ arg'[u] = arg[u]
                                    /\ calls'[u] = calls[u] /\ op'[u] = op[u]
    BY <1>4 DEF Begin, TypeOK
  <2>2. \A u \in Threads \ {t} : pc[u] \in LogPcs => LogOf(u)' = LogOf(u)
    BY <1>4, <2>1 DEF LogOf
  <2>3. MaxCalls[t] \in Nat
    BY LogAssumption
  <2>4. QED
    BY <1>1, <1>4, <2>1, <2>2, <2>3, ContentQuiet DEF Open
\* A compiler that does not log is built or destroyed: nobody uses it.
<1>5. ASSUME NEW c \in Compilers, ConstructSilent(c) \/ DestroySilent(c)
      PROVE  ContentInv'
  <2>1. UNCHANGED <<op, pc, arg, calls, content>>
    BY <1>5 DEF ConstructSilent, DestroySilent
  <2>2. \A u \in Threads : pc[u] \in LogPcs => LogOf(u)' = LogOf(u)
    BY <1>2, <1>5 DEF ConstructSilent, DestroySilent, LogOf, TypeOK
  <2>3. QED
    BY <1>1, <2>1, <2>2, ContentQuiet DEF Open
<1>6. ASSUME NEW t \in Threads, Call(t) PROVE ContentInv'
  <2>1. ASSUME NEW c \in Compilers, NEW l \in Logs, Construct(t, c, l)
        PROVE  ContentInv'
    BY <1>2, <1>4, <2>1 DEF Construct
  <2>2. ASSUME NEW c \in Compilers, Destroy(t, c) PROVE ContentInv'
    BY <1>4, <2>2 DEF Destroy
  <2>3. ASSUME NEW c \in Compilers, NEW o \in {"string", "exec"}, Log(t, c, o)
        PROVE  ContentInv'
    BY <1>4, <2>3 DEF Log, objVars
  <2>4. QED
    BY <1>6, <2>1, <2>2, <2>3 DEF Call
<1>7. ASSUME NEW t \in Threads, LockMap(t) \/ FindEntry(t) \/ WriteEntry(t)
      PROVE  ContentInv'
  BY <1>3, <1>7
     DEF LockMap, FindEntry, WriteEntry, Goto, objVars, MayHaveWritten
<1>8. ASSUME NEW t \in Threads, LockFind(t) \/ LockMutex(t) PROVE ContentInv'
  BY <1>3, <1>8 DEF LockFind, LockMutex, Goto, objVars, MayHaveWritten
<1>9. ASSUME NEW t \in Threads, UnlockMap(t) \/ UnlockMutex(t) PROVE ContentInv'
  <2>1. \A u \in Threads \ {t} : arg'[u] = arg[u]
    BY <1>9 DEF UnlockMap, UnlockMutex, Return, TypeOK
  <2>2. QED
    BY <1>3, <1>9, <2>1
       DEF UnlockMap, UnlockMutex, Return, objVars, MayHaveWritten
<1>10. ASSUME NEW t \in Threads, WriteFirst(t) PROVE ContentInv'
  <2>1. op[t] \in {"string", "exec"}
    BY <1>10 DEF WriteFirst, CallInv, CallOK
  <2>2. QED
    BY <1>10, <2>1, ContentWritten
       DEF WriteFirst, Writes, Parts, objVars, raceVars
<1>11. ASSUME NEW t \in Threads, CopyOutput(t) PROVE ContentInv'
  <2>1. CASE content' = content
    <3>1. LogOf(t)' = LogOf(t)
      BY <1>11 DEF CopyOutput, Goto, objVars, LogOf
    <3>2. QED
      BY <1>3, <1>11, <2>1, <3>1
         DEF CopyOutput, Goto, objVars, Open, MayHaveWritten
  <2>2. CASE Put(t, "output")
    BY <1>11, <2>2, ContentWritten
       DEF CopyOutput, Writes, Parts, objVars, raceVars
  <2>3. QED
    BY <1>11, <2>1, <2>2 DEF CopyOutput
<1>12. ASSUME NEW t \in Threads, WriteTail(t) PROVE ContentInv'
  BY <1>12, ContentWritten DEF WriteTail, Writes, Parts, objVars, raceVars
<1>13. CASE UNCHANGED vars
  <2>1. UNCHANGED <<op, pc, arg, calls, content, logFile>>
    BY <1>13 DEF vars
  <2>2. \A u \in Threads : LogOf(u)' = LogOf(u)
    BY <2>1 DEF LogOf
  <2>3. QED
    BY <1>1, <2>1, <2>2, ContentQuiet DEF Open
<1>14. ASSUME NEW t \in Threads, Continue(t) PROVE ContentInv'
  BY <1>7, <1>8, <1>9, <1>10, <1>11, <1>12, <1>14 DEF Continue
<1>15. QED
  BY <1>5, <1>6, <1>13, <1>14 DEF Next, Silent

LEMMA ContentInitially == Init => ContentInv
<1> SUFFICES ASSUME Init PROVE ContentInv
  OBVIOUS
<1>1. \A f \in Files : content[f] = <<>> /\ DOMAIN content[f] = {}
  BY DEF Init
<1>2. CallsKept
  BY <1>1, LogAssumption DEF Init, CallsKept
<1>3. OpenAtEnd
  BY DEF Init, OpenAtEnd, Open
<1>4. \A f \in Files : Whole(content[f])
  BY <1>1 DEF Whole
<1>5. QED
  BY <1>2, <1>3, <1>4 DEF ContentInv

(***************************************************************************)
(* What the log files hold: who has begun a record in a file has its       *)
(* pieces at the end of that file, as long as no lookup raced.             *)
(***************************************************************************)
THEOREM ContentInvariance == Spec => []ContentInv
<1>1. IInv /\ ContentInv /\ [Next]_vars => ContentInv'
  BY ContentStep
<1>2. QED
  BY <1>1, ContentInitially, Invariance, PTL DEF Spec

(***************************************************************************)
(* No record is broken up by another thread's while log_exec runs a child, *)
(* up to the first data race, when every file has one path.                *)
(***************************************************************************)
THEOREM RecordsStayWhole == Spec => []RecordsWhole
<1>1. ContentInv => RecordsWhole
  BY DEF ContentInv, RecordsWhole, OneName
<1>2. QED
  BY <1>1, ContentInvariance, PTL

-----------------------------------------------------------------------------
(* The refinement of AtomicLog.                                            *)

\* The state in which one thread at a time writes to a file.
Orderly == IInv /\ ContentInv /\ ~raced /\ OneName

LEMMA FileTyped ==
    ASSUME TypeOK, NEW f \in Files
    PROVE  /\ content[f] \in Seq(Pieces) /\ Len(content[f]) \in Nat
           /\ DOMAIN content[f] = 1 .. Len(content[f])
<1>1. content[f] \in Seq(Pieces)
  BY DEF TypeOK, Pieces
<1> HIDE DEF Pieces
<1>2. QED
  BY <1>1

LEMMA PieceTyped ==
    ASSUME TypeOK, NEW f \in Files, NEW i \in DOMAIN content[f]
    PROVE  /\ content[f] \in Seq(Pieces) /\ i \in 1 .. Len(content[f])
           /\ content[f][i] \in Pieces
           /\ content[f][i].by \in Threads /\ content[f][i].call \in Nat
<1>1. content[f] \in Seq(Pieces)
  BY DEF TypeOK, Pieces
<1> HIDE DEF Pieces
<1>2. content[f][i] \in Pieces /\ i \in 1 .. Len(content[f])
  BY <1>1
<1>3. QED
  BY <1>1, <1>2 DEF Pieces

\* A pending piece is of the record that is open in its file.
LEMMA PendingIsOpen ==
    ASSUME Orderly, NEW f \in Files, NEW i \in DOMAIN content[f],
           Pending(content[f][i])
    PROVE  LET t == content[f][i].by
           IN  /\ t \in Threads /\ Open(t) /\ f = FileOf[LogOf(t)]
               /\ Current(t, content[f][i])
<1> DEFINE t == content[f][i].by
<1>1. t \in Threads
  BY PieceTyped DEF Orderly, IInv
<1>2. Open(t) /\ Current(t, content[f][i])
  BY DEF Pending, Open, Current
<1>3. PICK m \in Nat : OpenAt(t, m)
  BY <1>1, <1>2 DEF Orderly, ContentInv, OpenAtEnd
<1>4. f = FileOf[LogOf(t)]
  BY <1>2, <1>3 DEF OpenAt
<1>5. QED
  BY <1>1, <1>2, <1>4

\* Of a file with an open record the reader sees what comes before it.
LEMMA SettledOpen ==
    ASSUME Orderly, NEW t \in Threads, Open(t), NEW m \in Nat, OpenAt(t, m)
    PROVE  LET f == FileOf[LogOf(t)]
           IN  f \in Files /\ SettledPart(f) = 1 .. m /\ m < Len(content[f])
<1> DEFINE f == FileOf[LogOf(t)]
           s == content[f]
<1>1. Writing(t) /\ LogOf(t) \in Logs /\ f \in Files
  BY InCall, LogAssumption DEF Open, Writing, Orderly, IInv
<1>2. s \in Seq(Pieces) /\ Len(s) \in Nat /\ DOMAIN s = 1 .. Len(s)
  BY <1>1, FileTyped DEF Orderly, IInv
<1>3. m < Len(s) /\ m + 1 \in DOMAIN s /\ Pending(s[m + 1])
  BY <1>2 DEF OpenAt, Pending, Piece, Open
<1>4. ASSUME NEW j \in DOMAIN s, j <= m PROVE ~Pending(s[j])
  <2> SUFFICES ASSUME Pending(s[j]) PROVE FALSE
    OBVIOUS
  <2> DEFINE u == s[j].by
  <2>1. u \in Threads /\ Open(u) /\ f = FileOf[LogOf(u)] /\ Current(u, s[j])
    BY <1>1, PendingIsOpen
  <2>2. u = t
    BY <1>1, <2>1, FilesApart DEF Orderly, IInv, Open, Writing
  <2>3. j > m
    BY <1>1, <2>1, <2>2 DEF OpenAt
  <2>4. QED
    BY <1>2, <1>4, <2>3
<1>5. \A k \in 1 .. Len(s) :
         (\A j \in 1 .. k : ~Pending(s[j])) <=> k <= m
  BY <1>2, <1>3, <1>4
<1>6. SettledPart(f) = 1 .. m
  BY <1>2, <1>3, <1>5 DEF SettledPart
<1>7. QED
  BY <1>1, <1>3, <1>6

\* To the reader nothing happens when no record begins, ends or grows.
LEMMA SettledQuiet ==
    ASSUME TypeOK, content' = content,
           \A u \in Threads : /\ Open(u)' <=> Open(u)
                              /\ Open(u) => calls'[u] = calls[u]
    PROVE  Settled' = Settled
<1>1. ASSUME NEW f \in Files, NEW i \in DOMAIN content[f]
      PROVE  Pending(content[f][i])' <=> Pending(content[f][i])
  BY <1>1, PieceTyped DEF Pending, Open
<1>2. ASSUME NEW f \in Files PROVE SettledPart(f)' = SettledPart(f)
  <2>1. DOMAIN content[f] = 1 .. Len(content[f])
    BY FileTyped
  <2>2. \A k \in DOMAIN content[f] : \A j \in 1 .. k : j \in DOMAIN content[f]
    BY <2>1
  <2>3. QED
    BY <1>1, <2>2 DEF SettledPart
<1>3. QED
  BY <1>2 DEF Settled

\* A piece of a record that stays open is appended: the reader does not see it.
LEMMA SettledAppend ==
    ASSUME TypeOK, NEW t \in Threads, NEW part \in Parts, LogOf(t) \in Logs,
           NEW f, f = FileOf[LogOf(t)], NEW n, n = Len(content[f]),
           Put(t, part), calls' = calls, pc'[t] \in {"output", "tail"},
           \A u \in Threads \ {t} : pc'[u] = pc[u],
           \/ Open(t)
           \/ \A g \in Files : \A i \in DOMAIN content[g] :
                ~Current(t, content[g][i])
    PROVE  Settled' = Settled
<1>1. /\ f \in Files /\ n \in Nat /\ DOMAIN content[f] = 1 .. n
      /\ DOMAIN content'[f] = 1 .. (n + 1)
      /\ content'[f][n + 1] = Piece(t, part)
      /\ \A i \in 1 .. n : content'[f][i] = content[f][i]
      /\ \A g \in Files \ {f} : content'[g] = content[g]
  BY PutDoes
<1>2. ASSUME NEW g \in Files, NEW i \in DOMAIN content[g]
      PROVE  Pending(content[g][i])' <=> Pending(content[g][i])
  <2> DEFINE p == content[g][i]
  <2>1. content'[g][i] = p
    BY <1>1
  <2>2. p.by \in Threads
    BY PieceTyped
  <2>3. pc'[p.by] \in {"output", "tail"} /\ calls[p.by] = p.call
          <=> Pending(p)
    BY <2>2 DEF Pending, Open, Current
  <2>4. QED
    BY <2>1, <2>3 DEF Pending
<1>3. Pending(content[f][n + 1])'
  BY <1>1 DEF Piece, Pending
<1>4. \A g \in Files \ {f} : SettledPart(g)' = SettledPart(g)
  <2>1. ASSUME NEW g \in Files \ {f} PROVE SettledPart(g)' = SettledPart(g)
    <3>1. DOMAIN content[g] = 1 .. Len(content[g]) /\ content'[g] = content[g]
      BY <1>1, FileTyped
    <3>2. \A k \in DOMAIN content[g] : \A j \in 1 .. k : j \in DOMAIN content[g]
      BY <3>1
    <3>3. QED
      BY <1>2, <3>1, <3>2 DEF SettledPart
  <2>2. QED
    BY <2>1
<1>5. SettledPart(f)' = SettledPart(f)
  <2>1. \A k \in 1 .. n : (\A j \in 1 .. k : ~Pending(content[f][j]))' <=>
                           (\A j \in 1 .. k : ~Pending(content[f][j]))
    <3>1. \A j \in 1 .. n : Pending(content[f][j])' <=> Pending(content[f][j])
      BY <1>1, <1>2
    <3>2. \A k \in 1 .. n : \A j \in 1 .. k : j \in 1 .. n
      BY <1>1
    <3>3. QED
      BY <3>1, <3>2
  <2>2. ~(\A j \in 1 .. (n + 1) : ~Pending(content[f][j]))'
    BY <1>1, <1>3
  <2>3. \A k \in 1 .. (n + 1) : k \in 1 .. n \/ k = n + 1
    BY <1>1
  <2>4. QED
    BY <1>1, <2>1, <2>2, <2>3 DEF SettledPart
<1>6. QED
  <2>1. \A i \in SettledPart(f) : i \in 1 .. n
    BY <1>1 DEF SettledPart
  <2>2. QED
    BY <1>1, <1>4, <1>5, <2>1 DEF Settled

\* t ends its record: the reader sees all of the file, and the others as before.
LEMMA SettledClose ==
    ASSUME Orderly, NEW t \in Threads, NEW part \in Parts, Writing(t),
           NEW f, f = FileOf[LogOf(t)], Put(t, part), Goto(t, "findUnlock")
    PROVE  Settled' = [Settled EXCEPT ![f] = content'[f]]
<1>1. LogOf(t) \in Logs /\ TypeOK
  BY InCall DEF Writing, Orderly, IInv
<1> DEFINE n == Len(content[f])
<1>2. /\ f \in Files /\ n \in Nat /\ DOMAIN content[f] = 1 .. n
      /\ content'[f] \in Seq(Pieces) /\ DOMAIN content'[f] = 1 .. (n + 1)
      /\ content'[f][n + 1] = Piece(t, part)
      /\ \A i \in 1 .. n : content'[f][i] = content[f][i]
      /\ \A g \in Files \ {f} : content'[g] = content[g]
  BY <1>1, PutDoes
<1>3. /\ calls' = calls /\ pc'[t] = "findUnlock"
      /\ \A u \in Threads \ {t} : pc'[u] = pc[u]
  BY <1>1 DEF Goto, TypeOK
<1>4. ASSUME NEW i \in 1 .. (n + 1) PROVE ~Pending(content[f][i])'
  <2>1. CASE i = n + 1
    BY <1>2, <1>3, <2>1 DEF Pending, Piece
  <2>2. CASE i # n + 1
    <3> DEFINE p == content[f][i]
    <3>1. i \in DOMAIN content[f] /\ p.by \in Threads /\ content'[f][i] = p
      BY <1>1, <1>2, <2>2, PieceTyped
    <3>2. p.by = t => ~Pending(content[f][i])'
      BY <1>3, <3>1 DEF Pending
    <3>3. ASSUME p.by # t, Pending(content[f][i])' PROVE FALSE
      <4>1. Pending(p)
        BY <1>3, <3>1, <3>3 DEF Pending
      <4>2. Open(p.by) /\ f = FileOf[LogOf(p.by)]
        BY <1>2, <3>1, <4>1, PendingIsOpen
      <4>3. Writing(p.by)
        BY <4>2 DEF Open, Writing
      <4>4. QED
        BY <3>1, <3>3, <4>2, <4>3, FilesApart DEF Orderly, IInv
    <3>4. QED
      BY <3>2, <3>3
  <2>3. QED
    BY <2>1, <2>2
<1>5. Settled'[f] = content'[f]
  <2>1. (SettledPart(f))' = 1 .. (n + 1)
    <3> HIDE DEF n
    <3>1. \A k \in 1 .. (n + 1) : \A j \in 1 .. k : j \in 1 .. (n + 1)
      BY <1>2
    <3>2. QED
      BY <1>2, <1>4, <3>1 DEF SettledPart
  <2>2. Settled'[f] = [i \in 1 .. (n + 1) |-> content'[f][i]]
    BY <1>2, <2>1 DEF Settled
  <2>3. content'[f] = [i \in 1 .. (n + 1) |-> content'[f][i]]
    BY <1>2
  <2>4. QED
    BY <2>2, <2>3
<1>6. ASSUME NEW g \in Files \ {f} PROVE Settled'[g] = Settled[g]
  <2>1. DOMAIN content[g] = 1 .. Len(content[g]) /\ content'[g] = content[g]
    BY <1>1, <1>2, FileTyped
  <2>2. ASSUME NEW i \in DOMAIN content[g]
        PROVE  Pending(content[g][i])' <=> Pending(content[g][i])
    <3> DEFINE p == content[g][i]
    <3>1. p.by \in Threads
      BY <1>1, PieceTyped
    <3>2. ASSUME p.by = t, Pending(p) PROVE FALSE
      BY <1>2, <2>2, <3>2, PendingIsOpen
    <3>3. p.by = t => ~Pending(content[g][i])'
      BY <1>3, <2>1 DEF Pending
    <3>4. p.by # t => (Pending(content[g][i])' <=> Pending(p))
      BY <1>3, <2>1, <3>1 DEF Pending
    <3>5. QED
      BY <3>2, <3>3, <3>4
  <2>3. \A k \in DOMAIN content[g] : \A j \in 1 .. k : j \in DOMAIN content[g]
    BY <2>1
  <2>4. SettledPart(g)' = SettledPart(g)
    BY <2>1, <2>2, <2>3 DEF SettledPart
  <2>5. QED
    BY <2>1, <2>4 DEF Settled
<1>7. QED
  BY <1>2, <1>5, <1>6 DEF Settled

\* Without an open record the reader sees all of a writer's file.
LEMMA SettledWhole ==
    ASSUME Orderly, NEW t \in Threads, Writing(t), ~Open(t)
    PROVE  Settled[FileOf[LogOf(t)]] = content[FileOf[LogOf(t)]]
<1> DEFINE f == FileOf[LogOf(t)]
           s == content[f]
<1>1. f \in Files /\ TypeOK
  BY InCall, LogAssumption DEF Writing, Orderly, IInv
<1>2. s \in Seq(Pieces) /\ Len(s) \in Nat /\ DOMAIN s = 1 .. Len(s)
  BY <1>1, FileTyped
<1>3. ASSUME NEW i \in DOMAIN s PROVE ~Pending(s[i])
  <2> SUFFICES ASSUME Pending(s[i]) PROVE FALSE
    OBVIOUS
  <2> DEFINE u == s[i].by
  <2>1. u \in Threads /\ Open(u) /\ f = FileOf[LogOf(u)]
    BY <1>1, PendingIsOpen
  <2>2. u # t /\ Writing(u)
    BY <2>1 DEF Open, Writing
  <2>3. QED
    BY <2>1, <2>2, FilesApart DEF Orderly, IInv
<1> HIDE DEF s
<1>4. \A k \in 1 .. Len(s) : \A j \in 1 .. k : j \in DOMAIN s
  BY <1>2
<1>5. SettledPart(f) = DOMAIN s
  BY <1>2, <1>3, <1>4 DEF SettledPart, s
<1>6. s = [i \in DOMAIN s |-> s[i]]
  BY <1>2
<1>7. QED
  BY <1>1, <1>5, <1>6 DEF Settled, s

\* What a reader has seen of t is older than the record t is writing.
LEMMA RecordIsFresh ==
    ASSUME Orderly, NEW t \in Threads, pc[t] = "first" \/ Open(t)
    PROVE  Atomic!Fresh(t, calls[t])
<1> SUFFICES ASSUME NEW f \in Files, NEW i \in SettledPart(f),
                    content[f][i].by = t
             PROVE  content[f][i].call < calls[t]
  BY DEF Atomic!Fresh, Settled
<1> DEFINE p == content[f][i]
<1>1. i \in DOMAIN content[f] /\ i \in 1 .. i /\ ~Pending(p)
  <2>1. i \in DOMAIN content[f] /\ \A j \in 1 .. i : ~Pending(content[f][j])
    BY DEF SettledPart
  <2>2. i \in 1 .. Len(content[f]) /\ Len(content[f]) \in Nat
    BY <2>1, FileTyped DEF Orderly, IInv
  <2>3. QED
    BY <2>1, <2>2
<1>2. p.call \in Nat /\ calls[t] \in Nat
  BY <1>1, PieceTyped DEF Orderly, IInv, TypeOK
<1>3. p.call <= calls[t] /\ (p.call = calls[t] => pc[t] \in MayHaveWritten)
  BY <1>1 DEF Orderly, ContentInv, CallsKept
<1>4. p.call # calls[t]
  BY <1>1, <1>3 DEF Pending, Open, MayHaveWritten
<1>5. QED
  BY <1>2, <1>3, <1>4

\* When a sequence is the one followed by the other.
LEMMA Concatenated ==
    ASSUME NEW S, NEW a \in Seq(S), NEW r \in Seq(S), NEW c \in Seq(S),
           Len(c) = Len(a) + Len(r),
           \A i \in 1 .. Len(a) : c[i] = a[i],
           \A i \in 1 .. Len(r) : c[Len(a) + i] = r[i]
    PROVE  c = a \o r
<1>1. /\ a \o r \in Seq(S) /\ Len(a \o r) = Len(a) + Len(r)
      /\ \A i \in 1 .. Len(a) + Len(r) :
           (a \o r)[i] = IF i <= Len(a) THEN a[i] ELSE r[i - Len(a)]
  BY ConcatProperties
<1>2. Len(a) \in Nat /\ Len(r) \in Nat
  OBVIOUS
<1>3. ASSUME NEW i \in 1 .. Len(a) + Len(r) PROVE c[i] = (a \o r)[i]
  <2>1. CASE i <= Len(a)
    BY <1>1, <1>2, <2>1
  <2>2. CASE i > Len(a)
    <3>1. i - Len(a) \in 1 .. Len(r) /\ Len(a) + (i - Len(a)) = i
      BY <1>2, <2>2
    <3>2. c[i] = r[i - Len(a)]
      BY <3>1
    <3>3. QED
      BY <1>1, <1>2, <2>2, <3>2
  <2>3. QED
    BY <1>2, <2>1, <2>2
<1>4. QED
  BY <1>1, <1>3, SeqEqual

\* The end of a record completes what is open in the file to a whole record.
LEMMA RecordCompletes ==
    ASSUME Orderly, NEW t \in Threads, NEW part \in Parts, Put(t, part),
           Writes(t, part, "findUnlock"), NEW f, f = FileOf[LogOf(t)]
    PROVE  \E shape \in Atomic!Shapes :
              content'[f] = Settled[f] \o Atomic!Record(t, calls[t], shape)
<1>1. /\ TypeOK /\ LogOf(t) \in Logs /\ Writing(t) /\ calls[t] \in Nat
  BY InCall DEF Writes, Writing, Orderly, IInv, TypeOK
<1> DEFINE s == content[f]
           c == content'[f]
           n == Len(s)
<1>2. /\ f \in Files /\ n \in Nat /\ DOMAIN s = 1 .. n /\ s \in Seq(Pieces)
      /\ c \in Seq(Pieces) /\ Len(c) = n + 1
      /\ c[n + 1] = Piece(t, part)
      /\ \A i \in 1 .. n : c[i] = s[i]
  BY <1>1, PutDoes
<1> HIDE DEF s, c, n
<1>3. ASSUME NEW part2 \in Parts
      PROVE  [by |-> t, call |-> calls[t], part |-> part2] \in Pieces
  BY <1>1 DEF Pieces
<1>4. CASE pc[t] = "first"
  <2> DEFINE r == Atomic!Record(t, calls[t], <<"line">>)
  <2>1. r \in Seq(Pieces) /\ Len(r) = 1 /\ r[1] = Piece(t, "line")
    BY <1>1, <1>3 DEF Atomic!Record, Piece, Parts, Pieces
  <2>2. Settled[f] = s /\ part = "line"
    BY <1>1, <1>4, SettledWhole DEF Writes, Open, s
  <2> HIDE DEF r
  <2>3. c = s \o r
    <3> HIDE DEF Pieces
    <3>1. n = Len(s)
      BY DEF n
    <3>2. s \in Seq(Pieces) /\ r \in Seq(Pieces) /\ c \in Seq(Pieces)
      BY <1>2, <2>1
    <3>3. Len(c) = Len(s) + Len(r)
      BY <1>2, <2>1, <3>1
    <3>4. \A i \in 1 .. Len(s) : c[i] = s[i]
      BY <1>2, <3>1
    <3>5. \A i \in 1 .. Len(r) : c[Len(s) + i] = r[i]
      BY <1>2, <2>1, <2>2, <3>1
    <3>6. QED
      BY <3>2, <3>3, <3>4, <3>5, Concatenated, Zenon
  <2>4. QED
    BY <2>2, <2>3 DEF Atomic!Shapes, r, c
<1>5. CASE pc[t] = "tail"
  <2>1. PICK m \in Nat : OpenAt(t, m)
    BY <1>5 DEF Orderly, ContentInv, OpenAtEnd, Open
  <2>2. SettledPart(f) = 1 .. m /\ m < n
    BY <1>5, <2>1, SettledOpen DEF Open, n, s
  <2>3. Settled[f] = [i \in 1 .. m |-> s[i]]
    BY <1>2, <2>2 DEF Settled, s
  <2> DEFINE a == [i \in 1 .. m |-> s[i]]
  <2>4. a \in Seq(Pieces) /\ Len(a) = m /\ \A i \in 1 .. m : a[i] = s[i]
    <3>1. \A i \in 1 .. m : s[i] \in Pieces
      <4> HIDE DEF Pieces
      <4>1. QED
        BY <1>2, <2>2 DEF n
    <3>2. QED
      BY <3>1
  <2> HIDE DEF a
  <2>5. part = "end" /\ s[m + 1] = Piece(t, "command")
    BY <1>5, <2>1 DEF Writes, OpenAt, s
  <2>6. CASE n = m + 1
    <3> DEFINE r == Atomic!Record(t, calls[t], <<"command", "end">>)
    <3>1. /\ r \in Seq(Pieces) /\ Len(r) = 2
          /\ r[1] = Piece(t, "command") /\ r[2] = Piece(t, "end")
      BY <1>1, <1>3 DEF Atomic!Record, Piece, Parts, Pieces
    <3> HIDE DEF r
    <3>2. \A i \in 1 .. m : c[i] = a[i]
      BY <1>2, <2>4, <2>6
    <3>3. \A i \in 1 .. 2 : c[m + i] = r[i]
      BY <1>2, <2>5, <2>6, <3>1
    <3>4. c = a \o r
      <4> HIDE DEF Pieces
      <4>1. a \in Seq(Pieces) /\ r \in Seq(Pieces) /\ c \in Seq(Pieces)
        BY <1>2, <2>4, <3>1
      <4>2. Len(c) = Len(a) + Len(r)
        BY <1>2, <2>4, <2>6, <3>1
      <4>3. \A i \in 1 .. Len(a) : c[i] = a[i]
        BY <2>4, <3>2
      <4>4. \A i \in 1 .. Len(r) : c[Len(a) + i] = r[i]
        BY <2>4, <3>1, <3>3
      <4>5. QED
        BY <4>1, <4>2, <4>3, <4>4, Concatenated, Zenon
    <3>5. QED
      BY <2>3, <3>4 DEF Atomic!Shapes, r, c, a
  <2>7. CASE n = m + 2 /\ s[m + 2] = Piece(t, "output")
    <3> DEFINE r == Atomic!Record(t, calls[t], <<"command", "output", "end">>)
    <3>1. /\ r \in Seq(Pieces) /\ Len(r) = 3 /\ r[1] = Piece(t, "command")
          /\ r[2] = Piece(t, "output") /\ r[3] = Piece(t, "end")
      BY <1>1, <1>3 DEF Atomic!Record, Piece, Parts, Pieces
    <3> HIDE DEF r
    <3>2. \A i \in 1 .. m : c[i] = a[i]
      BY <1>2, <2>4, <2>7
    <3>3. \A i \in 1 .. 3 : c[m + i] = r[i]
      BY <1>2, <2>5, <2>7, <3>1
    <3>4. c = a \o r
      <4> HIDE DEF Pieces
      <4>1. a \in Seq(Pieces) /\ r \in Seq(Pieces) /\ c \in Seq(Pieces)
        BY <1>2, <2>4, <3>1
      <4>2. Len(c) = Len(a) + Len(r)
        BY <1>2, <2>4, <2>7, <3>1
      <4>3. \A i \in 1 .. Len(a) : c[i] = a[i]
        BY <2>4, <3>2
      <4>4. \A i \in 1 .. Len(r) : c[Len(a) + i] = r[i]
        BY <2>4, <3>1, <3>3
      <4>5. QED
        BY <4>1, <4>2, <4>3, <4>4, Concatenated, Zenon
    <3>5. QED
      BY <2>3, <3>4 DEF Atomic!Shapes, r, c, a
  <2>8. QED
    BY <2>1, <2>6, <2>7 DEF OpenAt, n, s
<1>6. QED
  BY <1>4, <1>5 DEF Writes

-----------------------------------------------------------------------------
LEMMA RefinementInitially == Init => Atomic!Init
<1> SUFFICES ASSUME Init, NEW f \in Files
             PROVE  Settled[f] = <<>>
  BY DEF Atomic!Init, Settled
<1>1. content[f] = <<>> /\ DOMAIN content[f] = {}
  BY DEF Init
<1>2. SettledPart(f) = {}
  BY <1>1 DEF SettledPart
<1>3. Settled[f] = [i \in {} |-> content[f][i]]
  BY <1>2 DEF Settled
<1>4. QED
  BY <1>3

\* A step that ends a record is a write of the atomic log.
LEMMA RecordIsWritten ==
    ASSUME Orderly, NEW t \in Threads, NEW part \in Parts, Put(t, part),
           Writes(t, part, "findUnlock"), Goto(t, "findUnlock")
    PROVE  Atomic!Next
<1>1. PICK f \in Files : f = FileOf[LogOf(t)]
  BY InCall, LogAssumption DEF Writes, Writing, Orderly, IInv
<1>2. Writing(t) /\ (pc[t] = "first" \/ Open(t)) /\ op[t] # "none"
  BY DEF Writes, Writing, Open, Orderly, IInv, CallInv, CallOK
<1>3. Settled' = [Settled EXCEPT ![f] = content'[f]]
  BY <1>1, <1>2, SettledClose
<1>4. PICK shape \in Atomic!Shapes :
         content'[f] = Settled[f] \o Atomic!Record(t, calls[t], shape)
  BY <1>1, RecordCompletes
<1>5. PICK n \in 1 .. MaxCalls[t] : n = calls[t]
  <2>1. calls[t] \in Nat /\ calls[t] <= MaxCalls[t] /\ calls[t] >= 1
    BY <1>2 DEF Orderly, ContentInv, CallsKept, IInv, TypeOK
  <2>2. MaxCalls[t] \in Nat
    BY LogAssumption
  <2>3. QED
    BY <2>1, <2>2
<1>6. Atomic!Fresh(t, n)
  BY <1>2, <1>5, RecordIsFresh
<1>7. Atomic!Write(t, f, n, shape)
  BY <1>3, <1>4, <1>5, <1>6 DEF Atomic!Write
<1>8. QED
  BY <1>7 DEF Atomic!Next

LEMMA RefinementStep ==
    ASSUME Orderly, [Next]_vars
    PROVE  Atomic!Next \/ Settled' = Settled
<1> USE DEF Orderly, IInv
\* A thread goes on, or returns, and writes nothing.
<1>1. ASSUME NEW t \in Threads, NEW where, content' = content, calls' = calls,
             pc' = [pc EXCEPT ![t] = where],
             where \in {"output", "tail"} <=> Open(t)
      PROVE  Settled' = Settled
  <2>1. pc'[t] = where /\ \A u \in Threads \ {t} : pc'[u] = pc[u]
    BY <1>1 DEF TypeOK
  <2>2. QED
    BY <1>1, <2>1, SettledQuiet DEF Open
\* A thread begins a call.
<1>2. ASSUME NEW t \in Threads, NEW o, NEW c, NEW where, Begin(t, o, c, where),
             content' = content, where \notin {"output", "tail"}
      PROVE  Settled' = Settled
  <2>1. /\ pc'[t] = where /\ pc[t] = "idle"
        /\ \A u \in Threads \ {t} : pc'[u] = pc[u] /\ calls'[u] = calls[u]
    BY <1>2 DEF Begin, TypeOK, CallInv, CallOK
  <2>2. QED
    BY <1>2, <2>1, SettledQuiet DEF Open
<1>3. ASSUME Silent \/ UNCHANGED vars PROVE Settled' = Settled
  <2>1. UNCHANGED <<pc, calls, content>>
    BY <1>3 DEF Silent, ConstructSilent, DestroySilent, vars
  <2>2. QED
    BY <2>1, SettledQuiet DEF Open
<1>4. ASSUME NEW t \in Threads, Call(t) PROVE Settled' = Settled
  <2>1. ASSUME NEW c \in Compilers, NEW l \in Logs, Construct(t, c, l)
        PROVE  Settled' = Settled
    BY <1>2, <2>1 DEF Construct
  <2>2. ASSUME NEW c \in Compilers, Destroy(t, c) PROVE Settled' = Settled
    BY <1>2, <2>2 DEF Destroy
  <2>3. ASSUME NEW c \in Compilers, NEW o \in {"string", "exec"}, Log(t, c, o)
        PROVE  Settled' = Settled
    BY <1>2, <2>3 DEF Log
  <2>4. QED
    BY <1>4, <2>1, <2>2, <2>3 DEF Call
<1>5. ASSUME NEW t \in Threads, LockMap(t) \/ FindEntry(t) \/ WriteEntry(t)
      PROVE  Settled' = Settled
  BY <1>1, <1>5 DEF LockMap, FindEntry, WriteEntry, Goto, Open
<1>6. ASSUME NEW t \in Threads, LockFind(t) \/ LockMutex(t)
      PROVE  Settled' = Settled
  BY <1>1, <1>6 DEF LockFind, LockMutex, Goto, Open
<1>7. ASSUME NEW t \in Threads, UnlockMap(t) \/ UnlockMutex(t)
      PROVE  Settled' = Settled
  BY <1>1, <1>7 DEF UnlockMap, UnlockMutex, Return, Open
\* A piece of a record that goes on.
<1>8. ASSUME NEW t \in Threads, NEW part \in Parts,
             NEW where \in {"output", "tail"},
             Put(t, part), Writes(t, part, where), Goto(t, where)
      PROVE  Settled' = Settled
  <2>1. LogOf(t) \in Logs
    BY <1>8, InCall DEF Writes, Writing
  <2>2. PICK f \in Files : f = FileOf[LogOf(t)]
    BY <2>1, LogAssumption
  <2>3. PICK n \in Nat : n = Len(content[f])
    BY FileTyped
  <2>4. /\ calls' = calls /\ pc'[t] \in {"output", "tail"}
        /\ \A u \in Threads \ {t} : pc'[u] = pc[u]
    BY <1>8 DEF Goto, TypeOK
  <2>5. \/ Open(t)
        \/ \A g \in Files : \A i \in DOMAIN content[g] :
             ~Current(t, content[g][i])
    BY <1>8 DEF Writes, Open, ContentInv, CallsKept, Current, MayHaveWritten
  <2>6. QED
    BY <1>8, <2>1, <2>2, <2>3, <2>4, <2>5, SettledAppend
<1>9. ASSUME NEW t \in Threads, WriteFirst(t)
      PROVE  Atomic!Next \/ Settled' = Settled
  <2>1. CASE op[t] = "string"
    BY <1>9, <2>1, RecordIsWritten DEF WriteFirst, Writes, Parts
  <2>2. CASE op[t] # "string"
    BY <1>8, <1>9, <2>2 DEF WriteFirst, Writes, Parts
  <2>3. QED
    BY <2>1, <2>2
<1>10. ASSUME NEW t \in Threads, CopyOutput(t) PROVE Settled' = Settled
  <2>1. CASE content' = content
    BY <1>1, <1>10, <2>1 DEF CopyOutput, Goto, Open
  <2>2. CASE Put(t, "output")
    BY <1>8, <1>10, <2>2 DEF CopyOutput, Writes, Parts
  <2>3. QED
    BY <1>10, <2>1, <2>2 DEF CopyOutput
<1>11. ASSUME NEW t \in Threads, WriteTail(t) PROVE Atomic!Next
  BY <1>11, RecordIsWritten DEF WriteTail, Writes, Parts
<1>12. ASSUME NEW t \in Threads, Continue(t)
       PROVE  Atomic!Next \/ Settled' = Settled
  BY <1>5, <1>6, <1>7, <1>9, <1>10, <1>11, <1>12 DEF Continue
<1>13. QED
  BY <1>3, <1>4, <1>12 DEF Next

(***************************************************************************)
(* With one path for every file and no lookup that raced, log_string and   *)
(* log_exec append whole records one at a time, in the order of each       *)
(* thread's calls, as AtomicLog promises.                                  *)
(***************************************************************************)
THEOREM AtomicUnlessRaced ==
    ASSUME OneName
    PROVE  Spec /\ []~raced => ImplementsAtomicLog
<1>1. IInv /\ ContentInv /\ ~raced => Orderly
  BY DEF Orderly
<1>2. IInv /\ ContentInv /\ ~raced /\ [Next]_vars => [Atomic!Next]_Settled
  BY <1>1, RefinementStep
<1>3. QED
  BY <1>2, RefinementInitially, Invariance, ContentInvariance,
     PTL DEF Spec, ImplementsAtomicLog, Atomic!Spec

(***************************************************************************)
(* When every compiler that logs names one log path, no lookup races and   *)
(* the log always keeps that promise.                                      *)
(***************************************************************************)
THEOREM LogIsAtomic ==
    ASSUME SingleLog
    PROVE  Spec => ImplementsAtomicLog
<1>1. OneName
  BY DEF SingleLog, OneName
<1>2. Spec /\ []~raced => ImplementsAtomicLog
  BY <1>1, AtomicUnlessRaced
<1>3. NoRace => ~raced
  BY DEF NoRace
<1>4. QED
  BY <1>2, <1>3, OneLogNeverRaces, PTL
=============================================================================
