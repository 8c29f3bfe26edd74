----------------------------- MODULE MCRuntime -----------------------------
(* Model-checking instance of Runtime.  Each initial state bounds another   *)
(* part of the behaviour.                                                   *)
EXTENDS Runtime, TLC

CONSTANTS c1, c2

\* The clients ask for the same ConnectionID.
MCIdOf == [c \in {c1, c2} |-> "id"]

\* Either client may be the one that dials or sends.
Symmetry == Permutations({c1, c2})

Left(builds, starts, serves, offline) ==
    left = [builds |-> builds, starts |-> starts, serves |-> serves, offline |-> offline]
Sending(c, n) == [d \in Conns |-> IF d = c THEN n ELSE 0]

\* No client: two Starts, a second Runtime, ListenAndServe, offline operations.
Restarted(c) == BuiltInit /\ ConnInit({}, Sending(c, 0), "off", 0) /\ Left(1, 2, 1, 2)

\* One client dials while the runtime is started and closed.
Started(c) == BuiltInit /\ ConnInit({c}, Sending(c, 0), "off", 0) /\ Left(0, 1, 0, 1)

\* Two clients are served until the runtime is closed; one sends a request.
Served(c) == ReadyInit /\ ConnInit(Conns, Sending(c, 1), "running", 0) /\ Left(0, 0, 0, 0)

\* One client sends a request more than may be handled at a time, and the
\* executor fails.
Flooded(c) == ReadyInit /\ ConnInit({c}, Sending(c, 2), "running", 1) /\ Left(0, 0, 0, 0)

\* Two clients connect and leave, and the executor fails.
Latched(c) == ReadyInit /\ ConnInit(Conns, Sending(c, 0), "running", 1) /\ Left(0, 0, 0, 0)

MCInit == \E c \in Conns : Restarted(c) \/ Started(c) \/ Served(c) \/ Flooded(c) \/ Latched(c)
MCSpec == MCInit /\ [][Next]_vars
=============================================================================
