------------------------------- MODULE MCJIT -------------------------------
(***************************************************************************)
(* Instances of JIT for TLC: two Versions over one compiler, for every     *)
(* choice of the functions their sources define and of the lists asked for.*)
(***************************************************************************)
EXTENDS JIT, TLC

CONSTANTS v1, v2, f1, f2

TwoVersions == {v1, v2}
TwoFns == {f1, f2}
OneHostFn == {f2}

\* Nothing, one function, and two.
Lists == {<<>>, <<f1>>, <<f2, f1>>}

VersionSymmetry == Permutations(TwoVersions)
=============================================================================
