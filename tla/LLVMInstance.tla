---------------------------- MODULE LLVMInstance ----------------------------
(***************************************************************************)
(* The manager of LLVM's global state (ClangLLVM/LLVMInstanceManager): a   *)
(* lazily made singleton whose making initialises LLVM and whose end shuts *)
(* it down.  getInstance tests, fills and copies the static shared pointer *)
(* without a lock; each compiler that uses LLVM keeps a copy.              *)
(*                                                                         *)
(* Each thread makes and drops one compiler at a time.  External: LLVM is  *)
(* up from its initialisation to llvm_shutdown, whoever asked for either.  *)
(***************************************************************************)
EXTENDS Naturals

CONSTANTS
    Threads,     \* threads that construct compilers
    MaxDrops     \* bound: how many compilers are destroyed

ASSUME LLVMInstanceAssumption == MaxDrops \in Nat

VARIABLES
    instance,    \* the static pointer: a manager or None
    made,        \* how many managers were made; they are 1 .. made
    live,        \* those that were not destroyed
    pc,          \* where a thread is in getInstance
    new,         \* the manager a thread has made and not assigned, or None
    holds,       \* _llvmManager of the thread's compiler, or None
    llvm,        \* "down", "up" or "shut"
    drops,       \* compilers destroyed
    exited,      \* the static objects are destroyed
    overlapped   \* history: a call met another while there was no manager

vars == <<instance, made, live, pc, new, holds, llvm, drops, exited, overlapped>>

None == 0

Init ==
    /\ instance = None
    /\ made = 0
    /\ live = {}
    /\ pc = [t \in Threads |-> "idle"]
    /\ new = [t \in Threads |-> None]
    /\ holds = [t \in Threads |-> None]
    /\ llvm = "down"
    /\ drops = 0
    /\ exited = FALSE
    /\ overlapped = FALSE

-----------------------------------------------------------------------------
\* The managers that some shared pointer owns.
Owned(static, pending, held) ==
    {static} \cup {pending[t] : t \in Threads} \cup {held[t] : t \in Threads}

\* A shared pointer lets go of its manager: the last to do so destroys it.
LetGo ==
    /\ live' = live \cap Owned(instance', new', holds')
    /\ llvm' = IF live' = live THEN llvm ELSE "shut"

\* The constructor of a compiler calls getInstance.
Enter(t) ==
    /\ pc[t] = "idle" /\ holds[t] = None /\ ~exited
    /\ pc' = [pc EXCEPT ![t] = "test"]
    /\ overlapped' = (overlapped \/
         (instance = None /\ \E u \in Threads : pc[u] # "idle"))
    /\ UNCHANGED <<instance, made, live, new, holds, llvm, drops, exited>>

\* Makes a manager at each call.
TestNothing(t) ==
    /\ pc[t] = "test"
    /\ pc' = [pc EXCEPT ![t] = "make"]
    /\ UNCHANGED <<instance, made, live, new, holds, llvm, drops, exited,
                   overlapped>>

Test(t) ==
    /\ pc[t] = "test"
    /\ pc' = [pc EXCEPT ![t] = IF instance = None THEN "make" ELSE "copy"]
    /\ UNCHANGED <<instance, made, live, new, holds, llvm, drops, exited,
                   overlapped>>

\* new LLVMInstanceManager() runs initializeLLVM.
Make(t) ==
    /\ pc[t] = "make"
    /\ made' = made + 1
    /\ live' = live \cup {made + 1}
    /\ new' = [new EXCEPT ![t] = made + 1]
    /\ llvm' = "up"
    /\ pc' = [pc EXCEPT ![t] = "assign"]
    /\ UNCHANGED <<instance, holds, drops, exited, overlapped>>

Assign(t) ==
    /\ pc[t] = "assign"
    /\ instance' = new[t]
    /\ new' = [new EXCEPT ![t] = None]
    /\ pc' = [pc EXCEPT ![t] = "copy"]
    /\ UNCHANGED <<made, holds, drops, exited, overlapped>>
    /\ LetGo

Copy(t) ==
    /\ pc[t] = "copy"
    /\ holds' = [holds EXCEPT ![t] = instance]
    /\ pc' = [pc EXCEPT ![t] = "idle"]
    /\ UNCHANGED <<instance, made, live, new, llvm, drops, exited, overlapped>>

\* The destructor of a compiler.
Drop(t) ==
    /\ holds[t] # None /\ drops < MaxDrops
    /\ holds' = [holds EXCEPT ![t] = None]
    /\ drops' = drops + 1
    /\ UNCHANGED <<instance, made, pc, new, exited, overlapped>>
    /\ LetGo

\* The singleton outlives the program.
ExitLeaking ==
    /\ ~exited /\ \A t \in Threads : pc[t] = "idle"
    /\ exited' = TRUE
    /\ UNCHANGED <<instance, made, live, pc, new, holds, llvm, drops, overlapped>>

\* The program ends.  A compiler that is left, in an object of static storage,
\* keeps the manager.
Exit ==
    /\ ~exited /\ \A t \in Threads : pc[t] = "idle"
    /\ exited' = TRUE
    /\ instance' = None
    /\ UNCHANGED <<made, pc, new, holds, drops, overlapped>>
    /\ LetGo

Next ==
    \/ \E t \in Threads :
         Enter(t) \/ Test(t) \/ Make(t) \/ Assign(t) \/ Copy(t) \/ Drop(t)
    \/ Exit

Spec == Init /\ [][Next]_vars

-----------------------------------------------------------------------------
(* Properties.                                                             *)

(***************************************************************************)
(* Type invariant; whoever points to a manager points to a live one.       *)
(***************************************************************************)
TypeOK ==
    /\ made \in Nat
    /\ live \subseteq 1 .. made
    /\ pc \in [Threads -> {"idle", "test", "make", "assign", "copy"}]
    /\ new \in [Threads -> 0 .. made]
    /\ holds \in [Threads -> 0 .. made]
    /\ instance \in 0 .. made
    /\ llvm \in {"down", "up", "shut"}
    /\ drops \in 0 .. MaxDrops
    /\ exited \in BOOLEAN /\ overlapped \in BOOLEAN
    /\ Owned(instance, new, holds) \subseteq live \cup {None}

(***************************************************************************)
(* "A lazy-initialized singleton" (LLVMInstanceManager.hpp:57): unless     *)
(* another call of getInstance meets the first one, one manager is made.   *)
(***************************************************************************)
OneManager == ~overlapped => made <= 1

(***************************************************************************)
(* LLVM is up while a compiler that uses it exists, even past the end of   *)
(* the static objects, unless calls of getInstance overlapped the first:   *)
(* then there may be two managers, and the end of either shuts LLVM down   *)
(* under the other's compilers.                                            *)
(***************************************************************************)
UpWhileUsed ==
    ~overlapped => \A t \in Threads : holds[t] # None => llvm = "up"

(***************************************************************************)
(* "Calls llvm_shutdown() at the end of the program"                       *)
(* (LLVMInstanceManager.hpp:60): with the last owner after its end, and,   *)
(* unless the first calls overlapped, not before.                          *)
(***************************************************************************)
ShutAtTheEnd ==
    LET over == exited /\ \A t \in Threads : holds[t] = None
    IN  /\ over /\ made > 0 => llvm = "shut"
        /\ ~overlapped /\ llvm = "shut" => over
=============================================================================
