----------------------------- MODULE MCBuilder -----------------------------
(***************************************************************************)
(* An instance of Builder for TLC: two functions, one word for every flag, *)
(* directory and source, one list of two options of which one has a tag    *)
(* that is removed.                                                        *)
(***************************************************************************)
EXTENDS BuilderReference

CONSTANTS b1, v1, v2, f, g, w

OneBuilder == {b1}
TwoVersions == {v1, v2}
MCNames == {f, g}
MCWords == {w}
MCLists == {<< <<"o", w>>, <<"includeDir", w>> >>}
MCTags == {"includeDir", "enable_define"}

MCSymmetry == Permutations(TwoVersions) \cup Permutations(MCNames)
=============================================================================
