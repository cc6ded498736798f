------------------------- MODULE MirrorClientProofs -------------------------
(***************************************************************************)
(* The realtime mirror's client, for any number of sockets and approvals:  *)
(* type correctness, at most one live socket, no stranding before close(), *)
(* nothing left after it, and that the client implements EventFollower.    *)
(***************************************************************************)
EXTENDS MirrorClient, FiniteSetTheorems, TLAPS

USE MirrorAssumption DEF Attempts

\* The number of handlers that run for an event is a natural number.
LEMMA ReceiversFinite ==
    ASSUME NEW R \in Receivers
    PROVE  Cardinality(R) \in Nat
<1>1. IsFiniteSet(1..MaxAttempts)
  BY FS_Interval
<1>2. R \subseteq 1..MaxAttempts
  BY DEF Receivers
<1> QED
  BY <1>1, <1>2, FS_Subset, FS_CardinalityType

\* TypeOK in two halves, the flags by themselves.
DataType ==
    /\ made \in Attempts
    /\ sock \in [Attempts -> {"unused", "connecting", "open", "closing", "closed"}]
    /\ socket \in 0..made
    /\ awaited \in 0..made
    /\ approvals \in 0..MaxApprovals /\ pendingApprovals \in 0..MaxCount
FlagType == reconnectTimer \in BOOLEAN /\ stopped \in BOOLEAN /\ returned \in BOOLEAN

LEMMA TypeHalves == TypeOK <=> DataType /\ FlagType
  BY DEF TypeOK, DataType, FlagType

LEMMA TypeInit == Init => TypeOK
<1> SUFFICES ASSUME Init PROVE DataType /\ FlagType
  BY TypeHalves
<1>1. DataType
  BY DEF Init, DataType
<1>2. FlagType
  BY DEF Init, FlagType
<1> QED  BY <1>1, <1>2

LEMMA TypeStep ==
    ASSUME TypeOK, [Next]_vars
    PROVE  TypeOK'
<1>0. DataType /\ FlagType
  BY TypeHalves
<1>a. DataType'
  <2> USE <1>0 DEF DataType, vars, clientVars, countVars
  <2>1. ASSUME NEW k \in Attempts, SocketOpen(k) PROVE DataType'
    BY <2>1 DEF SocketOpen
  <2>2. ASSUME NEW k \in Attempts, SocketClosed(k) PROVE DataType'
    BY <2>2 DEF SocketClosed
  <2>3. CASE ReconnectTimer
    BY <2>3 DEF ReconnectTimer
  <2>4. CASE Close
    BY <2>4 DEF Close, NothingToAwait, Live
  <2>5. CASE ApprovalRequested
    BY <2>5, ReceiversFinite DEF ApprovalRequested
  <2>6. CASE ApprovalResolved
    BY <2>6, ReceiversFinite DEF ApprovalResolved, CountedDown
  <2>7. CASE UNCHANGED vars
    BY <2>7
  <2> QED
    BY <2>1, <2>2, <2>3, <2>4, <2>5, <2>6, <2>7 DEF Next
<1>b. FlagType'
  BY <1>0 DEF FlagType, Next, SocketOpen, SocketClosed, AfterClose, scheduleReconnect,
              ReconnectTimer, TimerFired, Close, ApprovalRequested, ApprovalResolved,
              vars, clientVars
<1>c. TypeOK' <=> DataType' /\ FlagType'
  BY DEF TypeOK, DataType, FlagType
<1> QED
  BY <1>a, <1>b, <1>c

\* The client keeps its types; the count of approvals never falls below zero.
THEOREM TypeCorrect == Spec => []TypeOK
<1>1. Init => TypeOK
  BY TypeInit
<1>2. TypeOK /\ [Next]_vars => TypeOK'
  BY TypeStep
<1> QED
  BY <1>1, <1>2, PTL DEF Spec

-----------------------------------------------------------------------------
\* Before close() the live socket is the one in the variable socket, and there
\* is a timer exactly when there is none; from close() on it is the awaited one.
Inv ==
    /\ TypeOK
    /\ ~stopped => /\ \A k \in Attempts : Live(k) <=> k = socket
                   /\ reconnectTimer <=> socket = 0
                   /\ \A k \in Attempts : sock[k] # "closing"
                   /\ awaited = 0 /\ ~returned
    /\ stopped  => /\ \A k \in Attempts : Live(k) => k = awaited /\ ~returned
                   /\ ~reconnectTimer /\ socket = 0

LEMMA InvInit == Init => Inv
<1> SUFFICES ASSUME Init PROVE Inv
  OBVIOUS
<1>1. TypeOK
  BY TypeInit
<1>2. \A k \in Attempts : (Live(k) <=> k = 1) /\ sock[k] # "closing"
  BY DEF Init, Live
<1> QED
  BY <1>1, <1>2 DEF Init, Inv

LEMMA InvStep ==
    ASSUME Inv, [Next]_vars
    PROVE  Inv'
<1>0. TypeOK /\ TypeOK'
  BY TypeStep DEF Inv
<1> USE DEF Inv, Live, vars, clientVars, countVars
<1>1. ASSUME NEW k \in Attempts, SocketOpen(k) PROVE Inv'
  BY <1>0, <1>1 DEF SocketOpen, TypeOK
<1>2. ASSUME NEW k \in Attempts, SocketClosed(k) PROVE Inv'
  <2>1. /\ Live(k)
        /\ \A j \in Attempts : Live(j)' <=> Live(j) /\ j # k
        /\ socket' = IF socket = k THEN 0 ELSE socket
        /\ stopped' = stopped /\ awaited' = awaited
        /\ reconnectTimer' = (reconnectTimer \/ ~stopped)
        /\ returned' = (returned \/ awaited = k)
    BY <1>0, <1>2 DEF SocketClosed, AfterClose, scheduleReconnect, TypeOK
  <2>2. CASE stopped
    BY <1>0, <2>1, <2>2
  <2>3. CASE ~stopped
    <3>0. k # 0
      OBVIOUS
    <3>1. socket = k /\ awaited = 0 /\ ~returned
      BY <2>1, <2>3
    <3>2. socket' = 0 /\ awaited' = 0 /\ reconnectTimer' /\ ~returned' /\ ~stopped'
      BY <2>1, <2>3, <3>0, <3>1, Zenon
    <3>3. \A j \in Attempts : ~Live(j)' /\ j # 0
      BY <2>1, <2>3, <3>1
    <3> QED  BY <1>0, <3>2, <3>3
  <2> QED  BY <2>2, <2>3
<1>3. CASE ReconnectTimer
  BY <1>0, <1>3 DEF ReconnectTimer, TimerFired, TypeOK
<1>4. CASE Close
  BY <1>0, <1>4 DEF Close, NothingToAwait, TypeOK
<1>5. CASE ApprovalRequested \/ ApprovalResolved
  BY <1>0, <1>5 DEF ApprovalRequested, ApprovalResolved
<1>6. CASE UNCHANGED vars
  BY <1>0, <1>6
<1> QED
  BY <1>1, <1>2, <1>3, <1>4, <1>5, <1>6 DEF Next

\* The invariant holds throughout, and each safety property follows from it.
LEMMA Invariance == Spec => []Inv
  BY InvInit, InvStep, PTL DEF Spec

\* At most one socket is live, and none while the timer is armed: the mirror
\* handles no event twice, although connect() never closes a socket.
THEOREM AtMostOneSocket == Spec => []OneSocket
<1>1. Inv => OneSocket
  BY DEF Inv, OneSocket
<1> QED
  BY <1>1, Invariance, PTL

\* Until close() there is always a socket or a timer that makes one.
THEOREM NoStranding == Spec => []MirrorNeverStranded
<1>1. Inv => MirrorNeverStranded
  BY DEF Inv, MirrorNeverStranded, TypeOK
<1> QED
  BY <1>1, Invariance, PTL

\* When close() has returned no socket and no timer is left.
THEOREM QuietAfterClose == Spec => []ReturnedIsQuiet
<1>1. Inv => ReturnedIsQuiet
  BY DEF Inv, ReturnedIsQuiet
<1> QED
  BY <1>1, Invariance, PTL

-----------------------------------------------------------------------------
(* The refinement of EventFollower.                                        *)

Following == \E k \in Attempts : sock[k] = "open"

PhaseIs ==
    /\ returned => Phase = "closed"
    /\ ~returned /\ stopped => Phase = "closing"
    /\ ~returned /\ ~stopped /\ Following => Phase = "following"
    /\ ~returned /\ ~stopped /\ ~Following => Phase = "away"

LEMMA PhaseValue == PhaseIs
  BY DEF PhaseIs, Phase, Following

\* At most one handler runs for an event: exactly one while the mirror follows,
\* none while it is away or closed.
LEMMA HandlersOfEvent ==
    ASSUME Inv, NEW R \in Receivers
    PROVE  \E seen \in BOOLEAN : Follower!Sees(seen) /\ Cardinality(R) = (IF seen THEN 1 ELSE 0)
<1> DEFINE k == IF stopped THEN awaited ELSE socket
<1>1. R \subseteq {k}
  BY DEF Inv, Receivers, Live
<1>2. R = {} \/ R = {k}
  BY <1>1
<1>3. Following => R # {}
  BY DEF Following, Receivers
<1>4. CASE R = {}
  <2>1. ~Following
    BY <1>3, <1>4
  <2>2. Follower!Sees(FALSE)
    BY <2>1, PhaseValue DEF PhaseIs, Follower!Sees
  <2>3. Cardinality(R) = 0
    BY <1>4, FS_EmptySet
  <2> QED  BY <2>2, <2>3
<1>5. CASE R = {k}
  <2>1. k \in Attempts /\ sock[k] \in {"open", "closing"}
    BY <1>5 DEF Receivers
  <2>2. ~returned
    BY <2>1 DEF Inv, Live
  <2>3. CASE stopped
    BY <2>2, <2>3, <1>5, PhaseValue, FS_Singleton DEF PhaseIs, Follower!Sees
  <2>4. CASE ~stopped
    <3>1. sock[k] = "open"
      BY <2>1, <2>4 DEF Inv
    <3>2. Follower!Sees(TRUE)
      BY <2>1, <2>2, <2>4, <3>1, PhaseValue DEF PhaseIs, Follower!Sees, Following
    <3> QED  BY <3>2, <1>5, FS_Singleton
  <2> QED  BY <2>3, <2>4
<1> QED
  BY <1>2, <1>4, <1>5

LEMMA RefinementStep ==
    ASSUME Inv, Inv', [Next]_vars
    PROVE  [Follower!Next]_Follower!vars
<1>0. PhaseIs /\ PhaseIs'
  BY DEF PhaseIs, Phase, Following
<1> USE DEF clientVars, countVars, vars, Live
<1>1. ASSUME NEW k \in Attempts, SocketOpen(k)
      PROVE  Follower!Connect \/ UNCHANGED Follower!vars
  <2>1. UNCHANGED <<stopped, returned, approvals, pendingApprovals>>
    BY <1>1 DEF SocketOpen
  <2>2. CASE ~stopped
    <3>1. ~Following /\ ~returned
      BY <1>1, <2>2 DEF Inv, SocketOpen, Following
    <3>2. Following'
      BY <1>1 DEF Inv, TypeOK, SocketOpen, Following
    <3> QED  BY <1>0, <2>1, <2>2, <3>1, <3>2 DEF PhaseIs, Follower!Connect
  <2>3. CASE stopped
    BY <1>0, <2>1, <2>3 DEF PhaseIs, Follower!vars
  <2> QED  BY <2>2, <2>3
<1>2. ASSUME NEW k \in Attempts, SocketClosed(k)
      PROVE  Follower!Lose \/ Follower!Closed \/ UNCHANGED Follower!vars
  <2>1. /\ UNCHANGED <<stopped, approvals, pendingApprovals>>
        /\ returned' = (returned \/ awaited = k)
    BY <1>2 DEF SocketClosed
  <2>2. CASE ~stopped
    <3>1. ~returned /\ ~returned'
      BY <2>1, <2>2 DEF Inv
    <3>2. ~Following'
      BY <1>2, <2>2 DEF Inv, TypeOK, SocketClosed, Following
    <3> QED  BY <1>0, <2>1, <2>2, <3>1, <3>2 DEF PhaseIs, Follower!Lose, Follower!vars
  <2>3. CASE stopped
    <3>1. ~returned /\ returned'
      BY <1>2, <2>1, <2>3 DEF Inv, SocketClosed
    <3> QED  BY <1>0, <2>1, <2>3, <3>1 DEF PhaseIs, Follower!Closed
  <2> QED  BY <2>2, <2>3
<1>3. CASE ReconnectTimer
  <2>1. ~stopped /\ ~returned /\ ~Following
    BY <1>3 DEF ReconnectTimer, Inv, Following
  <2>2. UNCHANGED <<stopped, returned, approvals, pendingApprovals>>
    BY <1>3 DEF ReconnectTimer
  <2>3. ~Following'
    BY <1>3, <2>1 DEF ReconnectTimer, Inv, TypeOK, Following
  <2> QED  BY <1>0, <2>1, <2>2, <2>3 DEF PhaseIs, Follower!vars
<1>4. CASE Close
  <2>1. ~stopped /\ ~returned /\ stopped' /\ UNCHANGED <<approvals, pendingApprovals>>
    BY <1>4 DEF Close, Inv
  <2>2. Phase \in {"away", "following"}
    BY <1>0, <2>1 DEF PhaseIs
  <2>3. Phase' \in {"closing", "closed"}
    BY <1>0, <2>1 DEF PhaseIs
  <2> QED  BY <2>1, <2>2, <2>3 DEF Follower!Close, Follower!Next
<1>5. CASE ApprovalRequested
  <2>1. PICK R \in Receivers : /\ pendingApprovals + Cardinality(R) <= MaxCount
                               /\ pendingApprovals' = pendingApprovals + Cardinality(R)
    BY <1>5 DEF ApprovalRequested
  <2>2. PICK seen \in BOOLEAN : Follower!Sees(seen) /\ Cardinality(R) = (IF seen THEN 1 ELSE 0)
    BY HandlersOfEvent
  <2>3. Phase' = Phase
    BY <1>5 DEF ApprovalRequested, Phase
  <2>4. Follower!Requested(seen)
    BY <1>5, <2>1, <2>2, <2>3 DEF Inv, TypeOK, ApprovalRequested, Follower!Requested
  <2> QED  BY <2>4 DEF Follower!Next
<1>6. CASE ApprovalResolved
  <2>1. PICK R \in Receivers : pendingApprovals' = CountedDown(Cardinality(R))
    BY <1>6 DEF ApprovalResolved
  <2>2. PICK seen \in BOOLEAN : Follower!Sees(seen) /\ Cardinality(R) = (IF seen THEN 1 ELSE 0)
    BY HandlersOfEvent
  <2>3. Phase' = Phase
    BY <1>6 DEF ApprovalResolved, Phase
  <2>4. Follower!Resolved(seen)
    BY <1>6, <2>1, <2>2, <2>3 DEF Inv, TypeOK, ApprovalResolved, CountedDown, Follower!Resolved
  <2> QED  BY <2>4 DEF Follower!Next
<1>7. CASE UNCHANGED vars
  BY <1>7 DEF Phase, Follower!vars
<1> QED
  BY <1>1, <1>2, <1>3, <1>4, <1>5, <1>6, <1>7 DEF Next, Follower!Next

\* The mirror implements the follower of events: connected it counts each event
\* exactly once, otherwise never, and close() is final.
THEOREM Implements == Spec => FollowsEvents
<1>1. Init => Follower!Init
  BY DEF Init, Phase, Follower!Init
<1>2. Inv /\ Inv' /\ [Next]_vars => [Follower!Next]_Follower!vars
  BY RefinementStep
<1> QED
  BY <1>1, <1>2, Invariance, PTL DEF Spec, FollowsEvents, Follower!Spec
=============================================================================
