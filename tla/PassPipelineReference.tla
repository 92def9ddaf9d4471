----------------------- MODULE PassPipelineReference -----------------------
(***************************************************************************)
(* What a pipeline is to be, said of the command line alone.               *)
(***************************************************************************)
EXTENDS PassPipeline

\* The code's order of the levels.
Rank == [link |-> 1, O0 |-> 2, O1 |-> 3, O2 |-> 4, Os |-> 5, Oz |-> 6, O3 |-> 7]

\* Of two levels with no pass between them the code's order decides, of all
\* else the order on the command line.
Precedes(args, i, j) ==
    LET between == {k \in DOMAIN args : k \in (i + 1) .. (j - 1)
                                        \/ k \in (j + 1) .. (i - 1)}
    IN  IF /\ args[i] \in Levels /\ args[j] \in Levels
           /\ \A k \in between : args[k] \in Levels
        THEN Rank[args[i]] < Rank[args[j]]
        ELSE i < j

\* What a command line adds: its passes with a constructor, each time, and its
\* levels, where they are given last.
Added(args) ==
    {i \in DOMAIN args : \/ args[i] \in Normal
                         \/ args[i] \in Levels /\ IsLast(args, i)}

\* The sequence has what the command line adds, each where its turn is.
AsGiven(seq, args) ==
    LET turn(i) == Cardinality({j \in Added(args) : j = i \/ Precedes(args, j, i)})
    IN  /\ Len(seq) = Cardinality(Added(args))
        /\ \A i \in Added(args) : seq[turn(i)] = args[i]

Unverified == Only(pipeline, Levels \cup Passes)

(***************************************************************************)
(* A call whose options are all its own has the pipeline of its command    *)
(* line, whatever calls came before: every pass and level once and in      *)
(* place, and code generation at the one level that was given.             *)
(***************************************************************************)
PipelineAsAsked ==
    /\ pc = "built" /\ Fresh => AsGiven(Unverified, line)
    /\ CodeGenAsGiven

\* t ends with s.
EndsWith(t, s) ==
    /\ Len(s) <= Len(t)
    /\ \A i \in 1 .. Len(s) : t[Len(t) - Len(s) + i] = s[i]

(***************************************************************************)
(* Every call, a JIT's with the options of earlier ones too, runs its own  *)
(* passes last and in order, and each level it was given, once.            *)
(***************************************************************************)
OwnPassesRun ==
    /\ pc = "built" => EndsWith(Only(pipeline, Passes), Only(line, Normal))
    /\ LevelsOnce
=============================================================================
