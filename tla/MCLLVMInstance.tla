--------------------------- MODULE MCLLVMInstance ---------------------------
(***************************************************************************)
(* An instance of LLVMInstance for TLC: three threads.                     *)
(***************************************************************************)
EXTENDS LLVMInstance, TLC

CONSTANTS t1, t2, t3

MCThreads == {t1, t2, t3}
ThreadSymmetry == Permutations(MCThreads)
=============================================================================
