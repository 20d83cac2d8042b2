---------------------------- MODULE FinalityWait ----------------------------
(***************************************************************************)
(* What run() relies on when it awaits observeChainHeight: the wait ends   *)
(* well only once the snapshot height is final, ends badly only once the   *)
(* v3 node is gone, and does not change its mind.  SnapshotWatch, with its *)
(* timer and overlapping polls, implements this specification.             *)
(***************************************************************************)

VARIABLES
    final,    \* the snapshot height is final
    up,       \* the v3 node is running
    outcome   \* "none" before the wait is over, then "final" or "lost"

vars == <<final, up, outcome>>

Init == final \in BOOLEAN /\ up = TRUE /\ outcome = "none"

BecomeFinal ==
    /\ up /\ ~final
    /\ final' = TRUE
    /\ UNCHANGED <<up, outcome>>

LoseNode ==
    /\ up
    /\ up' = FALSE
    /\ UNCHANGED <<final, outcome>>

GoOn ==
    /\ outcome = "none" /\ final
    /\ outcome' = "final"
    /\ UNCHANGED <<final, up>>

GiveUp ==
    /\ outcome = "none" /\ ~up
    /\ outcome' = "lost"
    /\ UNCHANGED <<final, up>>

Next == BecomeFinal \/ LoseNode \/ GoOn \/ GiveUp

Spec == Init /\ [][Next]_vars
=============================================================================
