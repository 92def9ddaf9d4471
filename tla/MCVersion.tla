----------------------------- MODULE MCVersion -----------------------------
(***************************************************************************)
(* Instances of Version for TLC.                                           *)
(***************************************************************************)
EXTENDS Version, TLC

CONSTANTS v1, v2, f1, f2

TwoVersions == {v1, v2}

\* Ids are compared and never ordered.
VersionSymmetry == Permutations(TwoVersions)

AllKinds == {"plain", "ir", "opt"}
NoIR == {"plain"}

OneFn == {f1}
TwoFns == {f1, f2}

\* Two functions, one of them asked for twice.
TwiceList == {<<f1, f2, f1>>}
SingleList == {<<f1>>}
=============================================================================
