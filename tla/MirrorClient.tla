---------------------------- MODULE MirrorClient ----------------------------
(***************************************************************************)
(* The client with which the Product API server follows the realtime       *)
(* gateway: startRealtimeMirrorClient, its socket, its reconnect timer and *)
(* its close().  What the events do to the repository is in ProductStore;  *)
(* here the approval events and the count of pending approvals stand for   *)
(* them.                                                                   *)
(*                                                                         *)
(* Sockets are numbered in the order connect() makes them.                 *)
(***************************************************************************)
EXTENDS Integers, FiniteSets

CONSTANTS MaxAttempts,    \* bound on the sockets of one behaviour
          MaxApprovals,   \* bound on the approvals pending in the runtime
          MaxCount        \* bound on the Product API's count

ASSUME MirrorAssumption ==
    MaxAttempts \in Nat \ {0} /\ MaxApprovals \in Nat /\ MaxCount \in Nat

VARIABLES
    made,           \* sockets made so far
    sock,           \* every socket: unused, connecting, open, closing, closed
    socket,         \* the variable socket, 0 for null
    reconnectTimer, \* whether the timer is armed
    stopped,
    awaited,        \* the socket whose close event close() awaits, 0 for none
    returned,       \* close() has returned
    approvals,      \* the runtime's pending approvals
    pendingApprovals \* the Product API's count of them

clientVars == <<made, sock, socket, reconnectTimer, stopped, awaited, returned>>
countVars  == <<approvals, pendingApprovals>>
vars       == <<clientVars, countVars>>

Attempts == 1..MaxAttempts
Live(k)  == sock[k] \in {"connecting", "open", "closing"}

Init ==
    /\ made = 1
    /\ sock = [k \in Attempts |-> IF k = 1 THEN "connecting" ELSE "unused"]
    /\ socket = 1
    /\ reconnectTimer = FALSE
    /\ stopped = FALSE
    /\ awaited = 0
    /\ returned = FALSE
    /\ approvals = 0 /\ pendingApprovals = 0

\* Mutant: the timer is armed although the client is stopped.
scheduleReconnect_Stopped == reconnectTimer' = TRUE

\* A timer that is armed stays; none is armed after close().
scheduleReconnect == reconnectTimer' = (reconnectTimer \/ ~stopped)

\* Mutant: a socket that could not connect is not replaced.
AfterClose_OnlyOpened(k) ==
    IF sock[k] = "connecting" THEN UNCHANGED reconnectTimer ELSE scheduleReconnect

\* The end of the close handler.
AfterClose(k) == scheduleReconnect

SocketOpen(k) ==
    /\ sock[k] = "connecting"
    /\ sock' = [sock EXCEPT ![k] = "open"]
    /\ UNCHANGED <<made, socket, reconnectTimer, stopped, awaited, returned, countVars>>

\* The close event, after a failed connect, a lost connection or close(): the
\* handler of connect() and, for the socket it awaits, that of close().
SocketClosed(k) ==
    /\ Live(k)
    /\ sock' = [sock EXCEPT ![k] = "closed"]
    /\ socket' = IF socket = k THEN 0 ELSE socket
    /\ AfterClose(k)
    /\ returned' = (returned \/ awaited = k)
    /\ UNCHANGED <<made, stopped, awaited, countVars>>

\* Mutant: the callback does not forget the timer, and connects again.
TimerFired_Kept == reconnectTimer

TimerFired == FALSE

\* The timer's callback: connect(), which does nothing once stopped.
ReconnectTimer ==
    /\ reconnectTimer /\ made < MaxAttempts
    /\ reconnectTimer' = TimerFired
    /\ IF stopped THEN UNCHANGED <<made, sock, socket>>
       ELSE /\ made' = made + 1
            /\ sock' = [sock EXCEPT ![made + 1] = "connecting"]
            /\ socket' = made + 1
    /\ UNCHANGED <<stopped, awaited, returned, countVars>>

\* Mutant: close() awaits a close event whether or not there is a socket.
NothingToAwait_Never == FALSE

\* close() returns at once when there is no socket, or a closed one.
NothingToAwait == socket = 0 \/ ~Live(socket)

\* close(): no reconnect from here; the socket is closed or, while it is
\* connecting, terminated, and its close event awaited.
Close ==
    /\ ~stopped
    /\ stopped' = TRUE
    /\ reconnectTimer' = FALSE
    /\ socket' = 0
    /\ IF NothingToAwait
       THEN returned' = TRUE /\ UNCHANGED <<sock, awaited>>
       ELSE /\ awaited' = socket
            /\ sock' = [k \in Attempts |-> IF k = socket THEN "closing" ELSE sock[k]]
            /\ UNCHANGED returned
    /\ UNCHANGED <<made, countVars>>

\* The sockets whose message handler runs for an event the gateway publishes
\* now: the open ones, and perhaps one that is closing.
Receivers == {R \in SUBSET {k \in Attempts : sock[k] \in {"open", "closing"}} :
                \A k \in Attempts : sock[k] = "open" => k \in R}

\* approval.requested: every handler counts it.
ApprovalRequested ==
    /\ approvals < MaxApprovals
    /\ approvals' = approvals + 1
    /\ \E R \in Receivers : /\ pendingApprovals + Cardinality(R) <= MaxCount
                           /\ pendingApprovals' = pendingApprovals + Cardinality(R)
    /\ UNCHANGED clientVars

\* Mutant: the count has no floor.
CountedDown_NoFloor(n) == pendingApprovals - n

\* Mutant: one resolved approval clears them all.
CountedDown_ToZero(n) == IF n = 0 THEN pendingApprovals ELSE 0

\* n handlers take one off each, and none goes below zero.
CountedDown(n) == IF n > pendingApprovals THEN 0 ELSE pendingApprovals - n

\* approval.resolved.
ApprovalResolved ==
    /\ approvals > 0
    /\ approvals' = approvals - 1
    /\ \E R \in Receivers : pendingApprovals' = CountedDown(Cardinality(R))
    /\ UNCHANGED clientVars

Next ==
    \/ \E k \in Attempts : SocketOpen(k) \/ SocketClosed(k)
    \/ ReconnectTimer
    \/ Close
    \/ ApprovalRequested \/ ApprovalResolved

Spec == Init /\ [][Next]_vars

\* The ws library ends a close handshake without an answer by a timeout, and a
\* terminated handshake at once.
FairSpec == Spec /\ \A k \in Attempts : WF_vars(sock[k] = "closing" /\ SocketClosed(k))

-----------------------------------------------------------------------------
(* Properties.                                                             *)

\* Type invariant.
TypeOK ==
    /\ made \in Attempts
    /\ sock \in [Attempts -> {"unused", "connecting", "open", "closing", "closed"}]
    /\ socket \in 0..made
    /\ reconnectTimer \in BOOLEAN /\ stopped \in BOOLEAN /\ returned \in BOOLEAN
    /\ awaited \in 0..made
    /\ approvals \in 0..MaxApprovals /\ pendingApprovals \in 0..MaxCount

\* Every event is mirrored at most once: there is one live socket at most, and
\* none while the timer is armed (scheduleReconnect runs only in the close
\* handler, and connect() never looks at the socket it replaces).
OneSocket == \A k, j \in Attempts : Live(k) => (Live(j) => k = j) /\ ~reconnectTimer

\* Until close() the mirror has a socket or a timer that makes one, so an
\* outage of the gateway of any length ends in a new connection.
MirrorNeverStranded == ~stopped => reconnectTimer \/ \E k \in Attempts : Live(k)

\* After close() has returned nothing can touch the repository any more: no
\* live socket and no timer.
ReturnedIsQuiet == returned => ~reconnectTimer /\ \A k \in Attempts : ~Live(k)

\* What the sockets, the timer and close() amount to.
Phase == CASE returned            -> "closed"
           [] ~returned /\ stopped -> "closing"
           [] OTHER                -> IF \E k \in Attempts : sock[k] = "open" THEN "following" ELSE "away"

Follower == INSTANCE EventFollower WITH phase <- Phase, count <- pendingApprovals

\* The mirror is a follower of events: one that is connected counts every event
\* exactly once, one that is not counts none, and close() is final, whichever
\* sockets come and go (connect, scheduleReconnect, close, handleMessage).
FollowsEvents == Follower!Spec

\* close() returns, in whatever state it finds the socket.
CloseReturns == stopped ~> returned

=============================================================================
