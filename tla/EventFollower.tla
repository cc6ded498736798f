--------------------------- MODULE EventFollower ---------------------------
(***************************************************************************)
(* What the Product API expects of its realtime mirror, without sockets    *)
(* and timers: while the mirror follows the gateway it counts every        *)
(* approval event once, while it is away it counts none, and after it was  *)
(* closed it never counts again.  Events that happen while it is away are  *)
(* gone for good.                                                          *)
(***************************************************************************)
EXTENDS Integers

CONSTANTS MaxApprovals,   \* bound on the approvals pending in the runtime
          MaxCount        \* bound on the count

VARIABLES
    phase,      \* away, following, closing, closed
    approvals,  \* pending in the runtime
    count       \* the mirror's count of them

vars == <<phase, approvals, count>>

Init == phase = "away" /\ approvals = 0 /\ count = 0

\* The connection is made or lost; nothing else ends an absence.
Connect == phase = "away" /\ phase' = "following" /\ UNCHANGED <<approvals, count>>

Lose == phase = "following" /\ phase' = "away" /\ UNCHANGED <<approvals, count>>

\* close() ends at once or waits for the connection to end.
Close ==
    /\ phase \in {"away", "following"}
    /\ phase' \in {"closing", "closed"}
    /\ UNCHANGED <<approvals, count>>

Closed == phase = "closing" /\ phase' = "closed" /\ UNCHANGED <<approvals, count>>

\* Whether the mirror sees an event that is published now.
Sees(seen) ==
    \/ phase = "following" /\ seen
    \/ phase \in {"away", "closed"} /\ ~seen
    \/ phase = "closing"

Requested(seen) ==
    /\ Sees(seen)
    /\ approvals < MaxApprovals /\ approvals' = approvals + 1
    /\ count' = IF seen THEN count + 1 ELSE count
    /\ count' <= MaxCount
    /\ UNCHANGED phase

Resolved(seen) ==
    /\ Sees(seen)
    /\ approvals > 0 /\ approvals' = approvals - 1
    /\ count' = IF seen /\ count > 0 THEN count - 1 ELSE count
    /\ UNCHANGED phase

Next ==
    \/ Connect \/ Lose \/ Close \/ Closed
    \/ \E seen \in BOOLEAN : Requested(seen) \/ Resolved(seen)

Spec == Init /\ [][Next]_vars

=============================================================================
