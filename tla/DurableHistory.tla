--------------------------- MODULE DurableHistory ---------------------------
(***************************************************************************)
(* What the commit log promises its callers: a history of changesets of    *)
(* which a confirmed prefix survives every restart.                        *)
(***************************************************************************)
EXTENDS Integers, Sequences, SequencesExt

CONSTANT Changesets

VARIABLES
    hist,   \* the committed changesets, oldest first
    acked   \* the prefix confirmed durable to some caller

vars == <<hist, acked>>

Init == hist = <<>> /\ acked = <<>>

Commit ==
    /\ \E c \in Changesets : hist' = Append(hist, c)
    /\ UNCHANGED acked

\* More of the history is confirmed.
Confirm ==
    /\ \E n \in Len(acked) .. Len(hist) : acked' = SubSeq(hist, 1, n)
    /\ UNCHANGED hist

\* A restart may lose the tail that was not confirmed; what it recovers is
\* confirmed from then on.
Restart ==
    \E n \in Len(acked) .. Len(hist) :
        hist' = SubSeq(hist, 1, n) /\ acked' = hist'

Next == Commit \/ Confirm \/ Restart

Spec == Init /\ [][Next]_vars
=============================================================================
