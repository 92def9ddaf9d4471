----------------------------- MODULE MCClangLib -----------------------------
(***************************************************************************)
(* Instances of ClangLib for TLC.                                          *)
(***************************************************************************)
EXTENDS ClangLib, TLC

CONSTANTS t1, t2, logA, logB

MCThreads == {t1, t2}
OneLog == {logA}
TwoLogs == {logA, logB}
=============================================================================
