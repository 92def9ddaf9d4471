----------------------------- MODULE AtomicLog -----------------------------
(***************************************************************************)
(* What the log of the compilers promises to whoever reads a log file:     *)
(* every call of log_string or log_exec appends its whole record at once,  *)
(* and the records of one thread appear in the order of its calls.         *)
(***************************************************************************)
EXTENDS Naturals, Sequences

CONSTANTS Threads, Files, MaxCalls

VARIABLE content

Init == content = [f \in Files |-> <<>>]

\* The pieces of a record; log_string's has one, log_exec's a command, what
\* the command printed, if anything, and an end.
Shapes == {<<"line">>, <<"command", "end">>, <<"command", "output", "end">>}

Record(t, n, shape) ==
    [i \in DOMAIN shape |-> [by |-> t, call |-> n, part |-> shape[i]]]

\* Later than everything t wrote to any file.
Fresh(t, n) ==
    \A f \in Files : \A i \in DOMAIN content[f] :
        content[f][i].by = t => content[f][i].call < n

Write(t, f, n, shape) ==
    /\ Fresh(t, n)
    /\ content' = [content EXCEPT ![f] = @ \o Record(t, n, shape)]

Next == \E t \in Threads : \E f \in Files, n \in 1 .. MaxCalls[t], s \in Shapes :
            Write(t, f, n, s)

Spec == Init /\ [][Next]_content
=============================================================================
