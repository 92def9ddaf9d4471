---------------------------- MODULE PassPipeline ----------------------------
(***************************************************************************)
(* How runOptimizer makes a pipeline of its options (ClangLibCompiler.cpp, *)
(* JITCompiler.cpp, ClangLLVM/OptUtils.hpp): the passes in the order of    *)
(* the command line, and each level (-O2, -std-link-opts, ...) where it    *)
(* stands between them.  The options are LLVM's globals, which live from   *)
(* call to call; a ClangLibCompiler resets them and a JITCompiler does not.*)
(*                                                                         *)
(* One call at a time, as opt_parse_mtx has it (ClangLib, JITCalls).  What *)
(* a level adds is one element here.  External: the parser of the command  *)
(* line, which sets an option and its position, the last one of an option  *)
(* that is given twice, or appends to the list.                            *)
(***************************************************************************)
EXTENDS Selection

CONSTANTS
    Levels,      \* the levels that are asked for
    Passes,      \* names of passes
    Normal,      \* those that have a normal constructor
    Lines,       \* the command lines a call may have
    MaxCalls     \* bound: how many calls

LevelNames == {"link", "O0", "O1", "O2", "Os", "Oz", "O3"}

Verify == "verify"

ASSUME PassPipelineAssumption ==
    /\ Levels \subseteq LevelNames
    /\ Normal \subseteq Passes
    /\ Passes \cap (LevelNames \cup {Verify}) = {}
    /\ Lines \subseteq Seq(Levels \cup Passes)
    /\ MaxCalls \in Nat

VARIABLES
    class,       \* "ClangLib" or "JIT"
    verifies,    \* "never", "each" (-verify-each) or "end"
    line,        \* the command line of this call
    calls,       \* calls begun
    on,          \* the levels whose option is true
    position,    \* where each level was last given
    list,        \* PassList: the passes and their positions
    next,        \* i, in PassList
    pipeline,    \* what has been added to Passes
    codegen,     \* the level for the target machine
    pc           \* "idle", "adding" or "built"

setup == <<class, verifies>>
vars == <<setup, line, calls, on, position, list, next, pipeline,
          codegen, pc>>

Init ==
    /\ class \in {"ClangLib", "JIT"}
    /\ verifies \in {"never", "each", "end"}
    /\ line = <<>>
    /\ calls = 0
    /\ on = {}
    /\ position = [l \in Levels |-> 0]
    /\ list = <<>>
    /\ next = 1
    /\ pipeline = <<>>
    /\ codegen = "None"
    /\ pc = "idle"

-----------------------------------------------------------------------------
\* The options a call starts from.
ResetSkipped(x, none) == x
AfterReset(x, none) == IF class = "ClangLib" THEN none ELSE x

Given(args) == {args[i] : i \in DOMAIN args}

\* The option is not given again behind this position.
IsLast(args, i) == \A j \in DOMAIN args : args[j] = args[i] => j <= i

\* The passes of a command line, each with its position.
Placed(args) ==
    Picked([i \in DOMAIN args |-> <<args[i], i>>],
           {i \in DOMAIN args : args[i] \in Passes})

\* The first of these levels that is on; -O0, -Os and -Oz count for nothing.
GetCodeGenOptLevel(levels) ==
    IF "O1" \in levels THEN "Less"
    ELSE IF "O2" \in levels THEN "Default"
    ELSE IF "O3" \in levels THEN "Aggressive" ELSE "None"

Parse(args) ==
    /\ pc = "idle" /\ calls < MaxCalls
    /\ calls' = calls + 1
    /\ line' = args
    /\ on' = AfterReset(on, {}) \cup (Given(args) \cap Levels)
    /\ position' =
         [l \in Levels |-> IF l \in Given(args)
                           THEN CHOOSE i \in DOMAIN args :
                                    args[i] = l /\ IsLast(args, i)
                           ELSE AfterReset(position[l], 0)]
    /\ list' = AfterReset(list, <<>>) \o Placed(args)
    /\ codegen' = GetCodeGenOptLevel(on')
    /\ next' = 1
    /\ pipeline' = <<>>
    /\ pc' = "adding"
    /\ UNCHANGED setup

\* The levels given before a place of the command line and not added yet.
Due(place) == {l \in on : position[l] < place}

\* Some levels, in the order in which the code asks for them.
InOrder(levels) ==
    LET ask(l) == IF l \in levels THEN <<l>> ELSE <<>>
    IN  ask("link") \o ask("O0") \o ask("O1") \o ask("O2")
            \o ask("Os") \o ask("Oz") \o ask("O3")

AddUnverified(pass) == IF pass \in Normal THEN <<pass>> ELSE <<>>

\* A pass that has no normal constructor is reported and left out.
AddPass(pass) ==
    IF pass \notin Normal THEN <<>>
    ELSE IF verifies = "each" THEN <<pass, Verify>> ELSE <<pass>>

\* One turn of the loop that does not take back the levels it added.
NextPassKeepingLevels ==
    /\ pc = "adding" /\ next <= Len(list)
    /\ pipeline' = pipeline \o InOrder(Due(list[next][2]))
                            \o AddPass(list[next][1])
    /\ next' = next + 1
    /\ UNCHANGED <<setup, line, calls, on, position, list, codegen, pc>>

\* One turn of the loop over PassList.
NextPass ==
    /\ pc = "adding" /\ next <= Len(list)
    /\ pipeline' = pipeline \o InOrder(Due(list[next][2]))
                            \o AddPass(list[next][1])
    /\ on' = on \ Due(list[next][2])
    /\ next' = next + 1
    /\ UNCHANGED <<setup, line, calls, position, list, codegen, pc>>

\* The levels that are left; of their options only link's is taken back.
AddRest ==
    /\ pc = "adding" /\ next > Len(list)
    /\ pipeline' = pipeline \o InOrder(on)
                            \o (IF verifies = "end" THEN <<Verify>> ELSE <<>>)
    /\ on' = on \ {"link"}
    /\ pc' = "built"
    /\ UNCHANGED <<setup, line, calls, position, list, next, codegen>>

\* The passes run and the call returns.
RunPasses ==
    /\ pc = "built"
    /\ pc' = "idle"
    /\ UNCHANGED <<setup, line, calls, on, position, list, next, pipeline,
                   codegen>>

Next ==
    \/ \E args \in Lines : Parse(args)
    \/ NextPass \/ AddRest \/ RunPasses

Spec == Init /\ [][Next]_vars

-----------------------------------------------------------------------------
(* Properties.                                                             *)

(***************************************************************************)
(* Unless -disable-verify is given no pass is the last word on the module: *)
(* a verifier comes after each pass that is named, and after the levels    *)
(* too where it is added on completion.                                    *)
(***************************************************************************)
PassesVerified ==
    pc = "built" /\ verifies # "never" =>
        \A i \in DOMAIN pipeline :
            \/ pipeline[i] \in Passes \/ verifies = "end"
            => \E j \in DOMAIN pipeline : j >= i /\ pipeline[j] = Verify

\* Each level of a command line is in its pipeline, once.
LevelsOnce ==
    pc = "built" =>
        \A l \in Given(line) \cap Levels :
            \E i \in DOMAIN pipeline :
                \A j \in DOMAIN pipeline : pipeline[j] = l <=> j = i

\* No options of an earlier call are left.
Fresh == class = "ClangLib" \/ calls = 1

CodeGenLevels == [O1 |-> "Less", O2 |-> "Default", O3 |-> "Aggressive"]

\* Code is generated at the one level that was given.
CodeGenAsGiven ==
    pc = "built" /\ Fresh =>
        \A l \in DOMAIN CodeGenLevels :
            Given(line) \cap DOMAIN CodeGenLevels = {l}
                => codegen = CodeGenLevels[l]
=============================================================================
