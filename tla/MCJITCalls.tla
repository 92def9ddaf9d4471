----------------------------- MODULE MCJITCalls -----------------------------
(***************************************************************************)
(* An instance of JITCalls for TLC: two threads, each with a JITCompiler   *)
(* on the same log path or one without a log.                              *)
(***************************************************************************)
EXTENDS JITCalls

CONSTANTS t1, t2, logA

MCThreads == {t1, t2}
OneLog == {logA}
=============================================================================
