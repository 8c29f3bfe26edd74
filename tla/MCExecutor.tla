----------------------------- MODULE MCExecutor -----------------------------
(* Model-checking instance of Executor. *)
EXTENDS Executor

CONSTANTS c1, c2, sweep

\* One of the two commands calls a reducer, the other is of any kind.
MCInit == Init /\ kind[c1] = "call"
MCSpec == MCInit /\ [][Next]_vars /\ Fairness
=============================================================================
