-------------------------- MODULE BuilderReference --------------------------
(***************************************************************************)
(* What the option lists of a Version are, said of the calls its builder   *)
(* received and not of the lists the builder keeps.                        *)
(***************************************************************************)
EXTENDS Builder

\* The stage whose list a call works on.
StageOf(call) ==
    CASE call \in {"options", "removeOption"} -> "options"
      [] call \in {"genIRoptions", "removeGenIROption"} -> "genIR"
      [] call \in {"optOptions", "removeOptOption"} -> "opt"
      [] OTHER -> "none"

Sets(r, stage) ==
    r.call \in {"options", "genIRoptions", "optOptions"} /\ StageOf(r.call) = stage

Removes(r, stage, tag) ==
    /\ r.call \in {"removeOption", "removeGenIROption", "removeOptOption"}
    /\ StageOf(r.call) = stage
    /\ r.arg = tag

\* The options a call contributes to the list of a stage.
Contribution(r, stage) ==
    CASE Sets(r, stage) -> r.arg
      [] r.call = "addIncludeDir" /\ stage # "opt" -> <<IncludeDir(r.arg)>>
      [] r.call = "addLinkingDir" /\ stage = "options" -> <<LinkDir(r.arg)>>
      [] OTHER -> <<>>

\* The list of a stage that the j-th call contributes; the first is the start.
Source(start, h, stage, j) ==
    IF j = 0 THEN start[stage] ELSE Contribution(h[j], stage)

\* No call after the j-th replaces or removes the option.
Survives(h, stage, j, option) ==
    \A k \in j + 1 .. Len(h) :
        ~Sets(h[k], stage) /\ ~Removes(h[k], stage, TagOf(option))

\* The options that remain: <<j, i>> is the i-th that the j-th call contributed.
Remaining(start, h, stage) ==
    LET left(j) == {i \in DOMAIN Source(start, h, stage, j) :
                       Survives(h, stage, j, Source(start, h, stage, j)[i])}
    IN  UNION {{<<j, i>> : i \in left(j)} : j \in 0 .. Len(h)}

\* p is q, or was asked for before it.
NotAfter(p, q) == p[1] < q[1] \/ (p[1] = q[1] /\ p[2] <= q[2])

\* The flags, in the order of the calls; two stages have them in front.
Defines(h, stage) ==
    LET given == Picked(h, {j \in DOMAIN h : /\ h[j].call = "addFunctionFlag"
                                             /\ h[j].arg # None})
    IN  IF stage = "opt" THEN <<>>
        ELSE [i \in DOMAIN given |-> Define(given[i].arg)]

\* The list has the flags and then what remains, each where its turn is.
AsAsked(list, start, h, stage) ==
    LET flags == Defines(h, stage)
        all == Remaining(start, h, stage)
        turn(p) == Cardinality({q \in all : NotAfter(q, p)})
    IN  /\ Len(list) = Len(flags) + Cardinality(all)
        /\ \A n \in DOMAIN flags : list[n] = flags[n]
        /\ \A p \in all :
             list[Len(flags) + turn(p)] = Source(start, h, stage, p[1])[p[2]]

(***************************************************************************)
(* A Version has, for each stage, the options its builder was asked for:   *)
(* in the order of the calls, those of a list that was set replacing the   *)
(* ones before, those of a removed tag gone, the function flags in front   *)
(* and out of reach of both (Version.cpp:350, :414-460); a clone starts    *)
(* from the lists of its Version, flags included; nothing of what came     *)
(* before a reset remains.                                                 *)
(***************************************************************************)
BuiltAsAsked ==
    \A v \in Versions : Exists(v) =>
        \A stage \in Stages :
            AsAsked(built[v].fields[stage], built[v].base, built[v].asked, stage)
=============================================================================
