--------------------------- MODULE ReducerService ---------------------------
(***************************************************************************)
(* What the executor promises the callers of its commands: an accepted     *)
(* command takes effect at most once, at one point between its acceptance  *)
(* and its answer, and the single answer tells whether it did.             *)
(***************************************************************************)
EXTENDS Sequences

CONSTANTS
    Cmds,     \* the commands of callers
    Sweep     \* the author of the service's own transactions

VARIABLES
    accepted, \* the commands that were accepted
    effects,  \* the transactions, oldest first
    resp      \* per command: "none", or its answer

vars == <<accepted, effects, resp>>

TookEffect(c) == \E i \in DOMAIN effects : effects[i] = c

Init ==
    /\ accepted = {}
    /\ effects = <<>>
    /\ resp = [c \in Cmds |-> "none"]

Accept(c) ==
    /\ c \notin accepted
    /\ accepted' = accepted \cup {c}
    /\ UNCHANGED <<effects, resp>>

Execute(c) ==
    /\ c \in accepted /\ resp[c] = "none" /\ ~TookEffect(c)
    /\ effects' = Append(effects, c)
    /\ UNCHANGED <<accepted, resp>>

ExecuteSweep ==
    /\ effects' = Append(effects, Sweep)
    /\ UNCHANGED <<accepted, resp>>

\* "unknown": visible, but not known to be durable.
Answer(c) ==
    /\ c \in accepted /\ resp[c] = "none"
    /\ \E status \in IF TookEffect(c) THEN {"committed", "unknown"}
                                      ELSE {"ok", "failed"} :
         resp' = [resp EXCEPT ![c] = status]
    /\ UNCHANGED <<accepted, effects>>

Next ==
    \/ \E c \in Cmds : Accept(c) \/ Execute(c) \/ Answer(c)
    \/ ExecuteSweep

Spec == Init /\ [][Next]_vars
=============================================================================
