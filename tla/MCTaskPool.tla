----------------------------- MODULE MCTaskPool -----------------------------
(* Small instances of TaskPool for TLC.                                    *)
EXTENDS TaskPool, TLC

CONSTANTS c1, c2, c3  \* the calls

\* c3 is awaited by both others, c2 also by c1: a task with two awaiters.
Diamond == (c1 :> {c2, c3}) @@ (c2 :> {c3}) @@ (c3 :> {})

Symmetry == Permutations(Workers)
=============================================================================
