------------------------- MODULE LLVMInstanceProofs -------------------------
(***************************************************************************)
(* Proofs about LLVMInstance, for any number of threads.                   *)
(*                                                                         *)
(* That one manager is made rests on what a thread inside getInstance can  *)
(* meet (Alone, InMaking); when LLVM is up, on that and on the live        *)
(* managers being exactly those a shared pointer owns (NoLeak, Shutdown).  *)
(***************************************************************************)
EXTENDS LLVMInstance, TLAPS

\* A thread has a manager of its own between making and assigning it, and no
\* compiler yet; nobody is inside getInstance after the end, and then there is
\* no instance.
Inside ==
    /\ \A t \in Threads :
         /\ new[t] # None <=> pc[t] = "assign"
         /\ pc[t] # "idle" => holds[t] = None
    /\ exited => instance = None /\ \A t \in Threads : pc[t] = "idle"

\* A manager that was made is the instance, or about to become it.
InMaking ==
    instance = None /\ ~exited /\ made > 0 => \E t \in Threads : pc[t] = "assign"

Alone ==
    ~overlapped =>
        /\ made <= 1
        /\ instance = None /\ ~exited =>
             \A t, u \in Threads : pc[t] # "idle" /\ pc[u] # "idle" => t = u
        /\ \A t \in Threads :
             /\ pc[t] \in {"make", "assign"} => instance = None
             /\ pc[t] = "make" => made = 0

NoLeak == live \subseteq Owned(instance, new, holds)

Shutdown ==
    /\ live = {} /\ made > 0 => llvm = "shut"
    /\ made <= 1 /\ live # {} => llvm = "up"
    /\ made = 0 => llvm = "down"

IInv == TypeOK /\ Inside /\ InMaking /\ Alone /\ NoLeak /\ Shutdown

LEMMA InitInv == Init => IInv
<1> SUFFICES ASSUME Init PROVE IInv
    OBVIOUS
<1> USE DEF Init, None
<1>1. TypeOK
  <2>1. Owned(instance, new, holds) \subseteq {None}
        BY DEF Owned
  <2>2. drops \in 0 .. MaxDrops
        BY LLVMInstanceAssumption
  <2>3. /\ pc \in [Threads -> {"idle", "test", "make", "assign", "copy"}]
        /\ new \in [Threads -> 0 .. made] /\ holds \in [Threads -> 0 .. made]
        /\ instance \in 0 .. made /\ made \in Nat /\ live \subseteq 1 .. made
        OBVIOUS
  <2>4. llvm \in {"down", "up", "shut"} /\ exited \in BOOLEAN
        /\ overlapped \in BOOLEAN
        OBVIOUS
  <2> HIDE DEF Init
  <2> QED BY <2>1, <2>2, <2>3, <2>4 DEF TypeOK
<1>2. Inside /\ InMaking /\ Alone
      BY DEF Inside, InMaking, Alone
<1>3. NoLeak /\ Shutdown
      BY DEF NoLeak, Shutdown
<1> QED BY <1>1, <1>2, <1>3 DEF IInv

\* What Shutdown says follows from letting go, and from nothing else changing.
LEMMA LetGoShuts ==
    ASSUME IInv, LetGo, made' = made, made > 0
    PROVE  Shutdown'
<1>1. live' \subseteq live /\ live \subseteq 1 .. made /\ made \in Nat
      BY DEF LetGo, IInv, TypeOK
<1>2. CASE live' = live
      BY <1>2 DEF LetGo, IInv, Shutdown
<1>3. CASE live' # live
  <2>1. llvm' = "shut"
        BY <1>3 DEF LetGo
  <2>2. made <= 1 => live' = {}
    <3> SUFFICES ASSUME made <= 1 PROVE live' = {}
        OBVIOUS
    <3>1. \A m \in live : m = 1
          BY <1>1
    <3>2. \E m \in live : m \notin live'
          BY <1>1, <1>3
    <3> QED BY <1>1, <3>1, <3>2
  <2> QED BY <2>1, <2>2 DEF Shutdown
<1> QED BY <1>2, <1>3

LEMMA EnterKeepsInv ==
    ASSUME IInv, NEW t \in Threads, Enter(t)
    PROVE  IInv'
<1> USE DEF Enter, IInv
<1>1. TypeOK' /\ NoLeak' /\ Shutdown'
      BY DEF TypeOK, NoLeak, Shutdown, Owned
<1>2. Inside' /\ InMaking'
      BY DEF TypeOK, Inside, InMaking
<1>3. Alone'
      BY DEF TypeOK, Alone
<1> QED BY <1>1, <1>2, <1>3

LEMMA TestKeepsInv ==
    ASSUME IInv, NEW t \in Threads, Test(t)
    PROVE  IInv'
<1> USE DEF Test, IInv
<1>1. TypeOK' /\ NoLeak' /\ Shutdown'
      BY DEF TypeOK, NoLeak, Shutdown, Owned
<1>2. Inside' /\ InMaking'
      BY DEF TypeOK, Inside, InMaking
<1>3. Alone'
  <2>1. ~exited
        BY DEF Inside
  <2>2. ~overlapped /\ instance = None => made = 0
        BY <2>1 DEF TypeOK, Alone, InMaking
  <2> QED BY <2>2 DEF TypeOK, Alone
<1> QED BY <1>1, <1>2, <1>3

LEMMA MakeKeepsInv ==
    ASSUME IInv, NEW t \in Threads, Make(t)
    PROVE  IInv'
<1> USE DEF Make, IInv
<1>1. TypeOK'
  <2>1. made \in Nat /\ made' = made + 1 /\ 0 .. made \subseteq 0 .. made'
        BY DEF TypeOK
  <2>2. new' \in [Threads -> 0 .. made'] /\ holds' \in [Threads -> 0 .. made']
        BY <2>1 DEF TypeOK
  <2>3. live' \subseteq 1 .. made' /\ instance' \in 0 .. made'
        BY <2>1 DEF TypeOK
  <2>4. Owned(instance, new, holds)' \subseteq live' \cup {None}
        BY DEF TypeOK, Owned
  <2>5. /\ pc' \in [Threads -> {"idle", "test", "make", "assign", "copy"}]
        /\ llvm' = "up" /\ made' \in Nat /\ drops' \in 0 .. MaxDrops
        /\ exited' \in BOOLEAN /\ overlapped' \in BOOLEAN
        BY <2>1 DEF TypeOK
  <2> HIDE DEF Make, IInv
  <2> QED BY <2>2, <2>3, <2>4, <2>5 DEF TypeOK
<1>2. Inside' /\ InMaking'
      BY DEF TypeOK, Inside, InMaking, None
<1>3. Alone'
      BY DEF TypeOK, Alone, Inside
<1>4. NoLeak'
  <2>1. new[t] = None
        BY DEF Inside
  <2>2. new'[t] = made + 1 /\ \A u \in Threads \ {t} : new'[u] = new[u]
        BY DEF TypeOK
  <2>3. \A m \in live : m # None
        BY DEF TypeOK, None
  <2>4. ASSUME NEW m \in live PROVE m \in Owned(instance, new, holds)'
    <3>1. m = instance \/ \E u \in Threads : m = new[u] \/ m = holds[u]
          BY DEF NoLeak, Owned
    <3>2. \A u \in Threads : m = new[u] => u # t
          BY <2>1, <2>3
    <3> QED BY <2>2, <3>1, <3>2 DEF Owned
  <2>5. made + 1 \in Owned(instance, new, holds)'
        BY <2>2 DEF Owned
  <2> QED BY <2>4, <2>5 DEF NoLeak
<1>5. Shutdown'
      BY DEF TypeOK, Shutdown
<1> QED BY <1>1, <1>2, <1>3, <1>4, <1>5

LEMMA AssignKeepsInv ==
    ASSUME IInv, NEW t \in Threads, Assign(t)
    PROVE  IInv'
<1> USE DEF Assign, IInv
<1>1. new[t] \in 1 .. made /\ made > 0 /\ made \in Nat
      BY DEF TypeOK, Inside, None
<1>2. live' = live \cap Owned(instance', new', holds') /\ llvm' \in {llvm, "shut"}
      BY DEF LetGo
<1>3. Owned(instance', new', holds') \subseteq Owned(instance, new, holds) \cup {None}
      BY DEF TypeOK, Owned
<1>4. TypeOK'
  <2>1. new' \in [Threads -> 0 .. made] /\ instance' \in 0 .. made
        BY <1>1 DEF TypeOK, None
  <2> QED BY <1>2, <1>3, <2>1 DEF TypeOK
<1>5. Inside' /\ InMaking'
      BY <1>1 DEF TypeOK, Inside, InMaking, None
<1>6. Alone'
      BY <1>1 DEF TypeOK, Alone, Inside, None
<1>7. NoLeak'
      BY <1>2 DEF NoLeak
<1>8. Shutdown'
      BY <1>1, LetGoShuts
<1> QED BY <1>4, <1>5, <1>6, <1>7, <1>8

LEMMA CopyKeepsInv ==
    ASSUME IInv, NEW t \in Threads, Copy(t)
    PROVE  IInv'
<1> USE DEF Copy, IInv
<1>1. TypeOK' /\ Shutdown'
      BY DEF TypeOK, Shutdown, Owned
<1>2. Inside' /\ InMaking'
      BY DEF TypeOK, Inside, InMaking
<1>3. Alone'
      BY DEF TypeOK, Alone
<1>4. NoLeak'
  <2>1. holds[t] = None
        BY DEF Inside
  <2> QED BY <2>1 DEF TypeOK, NoLeak, Owned, None
<1> QED BY <1>1, <1>2, <1>3, <1>4

LEMMA DropKeepsInv ==
    ASSUME IInv, NEW t \in Threads, Drop(t)
    PROVE  IInv'
<1> USE DEF Drop, IInv
<1>1. made > 0 /\ made \in Nat
      BY DEF TypeOK, None
<1>2. live' = live \cap Owned(instance', new', holds') /\ llvm' \in {llvm, "shut"}
      BY DEF LetGo
<1>3. Owned(instance', new', holds') \subseteq Owned(instance, new, holds) \cup {None}
      BY DEF TypeOK, Owned
<1>4. TypeOK'
  <2>1. holds' \in [Threads -> 0 .. made] /\ drops' \in 0 .. MaxDrops
        BY <1>1, LLVMInstanceAssumption DEF TypeOK, None
  <2> QED BY <1>2, <1>3, <2>1 DEF TypeOK
<1>5. Inside' /\ InMaking' /\ Alone'
      BY DEF Inside, InMaking, Alone
<1>6. NoLeak'
      BY <1>2 DEF NoLeak
<1>7. Shutdown'
      BY <1>1, LetGoShuts
<1> QED BY <1>4, <1>5, <1>6, <1>7

LEMMA ExitKeepsInv ==
    ASSUME IInv, Exit
    PROVE  IInv'
<1> USE DEF Exit, IInv
<1>1. live' = live \cap Owned(instance', new', holds') /\ llvm' \in {llvm, "shut"}
      BY DEF LetGo
<1>2. Owned(instance', new', holds') \subseteq Owned(instance, new, holds) \cup {None}
      BY DEF TypeOK, Owned
<1>3. TypeOK'
  <2>1. instance' \in 0 .. made
        BY DEF TypeOK, None
  <2> QED BY <1>1, <1>2, <2>1 DEF TypeOK
<1>4. Inside' /\ InMaking' /\ Alone'
      BY DEF Inside, InMaking, Alone
<1>5. NoLeak'
      BY <1>1 DEF NoLeak
<1>6. Shutdown'
  <2>1. CASE made > 0
        BY <2>1, LetGoShuts
  <2>2. CASE made = 0
    <3>1. live = {} /\ live' = {}
      <4>1. live \subseteq 1 .. 0
            BY <2>2 DEF TypeOK
      <4>2. 1 .. 0 = {}
            OBVIOUS
      <4> QED BY <1>1, <4>1, <4>2
    <3> QED BY <2>2, <3>1 DEF Shutdown, LetGo
  <2> QED BY <2>1, <2>2 DEF TypeOK
<1> QED BY <1>3, <1>4, <1>5, <1>6

LEMMA NextInv == IInv /\ [Next]_vars => IInv'
<1> SUFFICES ASSUME IInv, [Next]_vars PROVE IInv'
    OBVIOUS
<1>1. ASSUME NEW t \in Threads,
             Enter(t) \/ Test(t) \/ Make(t) \/ Assign(t) \/ Copy(t) \/ Drop(t)
      PROVE  IInv'
      BY <1>1, EnterKeepsInv, TestKeepsInv, MakeKeepsInv, AssignKeepsInv,
         CopyKeepsInv, DropKeepsInv
<1>2. CASE Exit
      BY <1>2, ExitKeepsInv
<1>3. CASE UNCHANGED vars
      BY <1>3 DEF vars, IInv, TypeOK, Inside, InMaking, Alone, NoLeak, Shutdown,
                  Owned
<1> QED BY <1>1, <1>2, <1>3 DEF Next

\* The inductive invariant holds of every behaviour.
THEOREM Invariance == Spec => []IInv
<1> QED BY InitInv, NextInv, PTL DEF Spec

-----------------------------------------------------------------------------

\* Types, and that no pointer is left to a manager that was destroyed.
THEOREM TypeCorrect == Spec => []TypeOK
<1>1. IInv => TypeOK
      BY DEF IInv
<1> QED BY <1>1, Invariance, PTL

\* The test of getInstance is enough when the first call is over before the
\* next: then, with any number of threads, one manager is made.
THEOREM SingletonUnlessRaced == Spec => []OneManager
<1>1. IInv => OneManager
      BY DEF IInv, Alone, OneManager
<1> QED BY <1>1, Invariance, PTL

\* The one manager keeps LLVM up for every compiler that lives.
THEOREM UsersHaveLLVM == Spec => []UpWhileUsed
<1>1. IInv => UpWhileUsed
  <2> SUFFICES ASSUME IInv, ~overlapped, NEW t \in Threads, holds[t] # None
               PROVE  llvm = "up"
      BY DEF UpWhileUsed
  <2>1. made <= 1
        BY DEF IInv, Alone
  <2>2. holds[t] \in live
        BY DEF IInv, TypeOK, Owned
  <2> QED BY <2>1, <2>2 DEF IInv, Shutdown
<1> QED BY <1>1, Invariance, PTL

\* LLVM is shut down when the program and its last compiler have ended.
THEOREM ShutdownLast == Spec => []ShutAtTheEnd
<1>1. IInv => ShutAtTheEnd
  <2> SUFFICES ASSUME IInv PROVE ShutAtTheEnd
      OBVIOUS
  <2> DEFINE over == exited /\ \A t \in Threads : holds[t] = None
  <2>1. ASSUME over, made > 0 PROVE llvm = "shut"
    <3>1. \A t \in Threads : new[t] = None
          BY <2>1 DEF IInv, Inside
    <3>2. Owned(instance, new, holds) \subseteq {None}
          BY <2>1, <3>1 DEF IInv, Inside, Owned
    <3>3. live = {}
          BY <3>2 DEF IInv, NoLeak, TypeOK, None
    <3> QED BY <2>1, <3>3 DEF IInv, Shutdown
  <2>2. ASSUME ~overlapped, llvm = "shut" PROVE over
    <3>0. made <= 1
          BY <2>2 DEF IInv, Alone
    <3>1. live = {} /\ made > 0
          BY <2>2, <3>0 DEF IInv, Shutdown, TypeOK
    <3>2. instance = None /\ \A t \in Threads : new[t] = None /\ holds[t] = None
          BY <3>1 DEF IInv, TypeOK, Owned
    <3>3. exited
          BY <3>1, <3>2 DEF IInv, InMaking, Inside
    <3> QED BY <3>2, <3>3
  <2> QED BY <2>1, <2>2 DEF ShutAtTheEnd
<1> QED BY <1>1, Invariance, PTL
=============================================================================
