----------------------------- MODULE Selection ------------------------------
(***************************************************************************)
(* Some elements of a sequence, in their order: what list::remove_if       *)
(* leaves of a list.  Elements are told by position, so that a list may    *)
(* hold one element twice.                                                 *)
(***************************************************************************)
EXTENDS Integers, Sequences, FiniteSets

\* The n-th smallest number of a set.
Nth(S, n) == CHOOSE i \in S : Cardinality({j \in S : j <= i}) = n

\* The elements of s at the positions S.
Picked(s, S) == [n \in 1 .. Cardinality(S) |-> s[Nth(S, n)]]

\* The elements of s that are in T.
Only(s, T) == Picked(s, {i \in DOMAIN s : s[i] \in T})
=============================================================================
