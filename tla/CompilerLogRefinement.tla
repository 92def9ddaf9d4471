----------------------- MODULE CompilerLogRefinement -----------------------
(***************************************************************************)
(* The log of lib/Compiler.cpp implements AtomicLog when one path is used: *)
(* a reader who leaves out the record being written sees whole records     *)
(* appended one at a time.                                                 *)
(***************************************************************************)
EXTENDS CompilerLog

\* A piece of a record whose writer has not reached its end.
Pending(p) == pc[p.by] \in {"output", "tail"} /\ calls[p.by] = p.call

\* The pieces of a file before the record that is being written.
SettledPart(f) ==
    {k \in DOMAIN content[f] : \A j \in 1 .. k : ~Pending(content[f][j])}

Settled == [f \in Files |-> [i \in SettledPart(f) |-> content[f][i]]]

Atomic == INSTANCE AtomicLog WITH content <- Settled

(***************************************************************************)
(* Every step of the code appends a whole record or, to the reader, does   *)
(* nothing.                                                                *)
(***************************************************************************)
ImplementsAtomicLog == Atomic!Spec
=============================================================================
