------------------------------ MODULE MCFanOut ------------------------------
(***************************************************************************)
(* Instances of FanOut for TLC.                                            *)
(***************************************************************************)
EXTENDS FanOut

CONSTANTS c1, c2, q1, none

\* A local caller that reads confirmed results, and before it perhaps a fast
\* reader that asks for a durable success.
MCCalls ==
    <<{[caller |-> c1, flag |-> "local"], [caller |-> c2, flag |-> "durable"]},
      {[caller |-> c1, flag |-> "local"]}>>

\* Commits of others, a call of the client that asks for no answer of its success,
\* and then one that does.
MCLiveCalls ==
    <<{[caller |-> none, flag |-> "none"], [caller |-> c1, flag |-> "quiet"]},
      {[caller |-> none, flag |-> "none"], [caller |-> c1, flag |-> "full"]}>>

MCChanges == {{q1}}

\* One message that cannot be encoded, to the fast reader or to the only client.
MCUnencoded == [c \in {c1, c2} |-> IF c = c2 THEN 1 ELSE 0]
MCLiveUnencoded == [c \in {c1} |-> 1]
=============================================================================
