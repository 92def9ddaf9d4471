--------------------------- MODULE MCPassPipeline ---------------------------
(***************************************************************************)
(* An instance of PassPipelineReference for TLC: every command line of at  *)
(* most MaxLine options over three levels, a pass that has a constructor   *)
(* and one that has none.                                                  *)
(***************************************************************************)
EXTENDS PassPipelineReference, SequencesExt

CONSTANTS p, q, MaxLine

MCLevels == {"link", "O1", "O3"}
MCPasses == {p, q}
MCNormal == {p}

MCLines == BoundedSeq(MCLevels \cup MCPasses, MaxLine)
=============================================================================
