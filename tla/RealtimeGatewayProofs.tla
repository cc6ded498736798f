----------------------- MODULE RealtimeGatewayProofs -----------------------
(***************************************************************************)
(* Type correctness of the realtime gateway, and that every client notices *)
(* the loss of numbered events between two others it receives one after    *)
(* the other.                                                              *)
(***************************************************************************)
EXTENDS RealtimeGateway, TLAPS

USE GatewayAssumption DEF Open

\* A step that publishes an event keeps the types of what it changes.
LEMMA BroadcastType ==
    ASSUME TypeOK, NEW seq \in 0..MaxSeq, createEventFrame(seq)
    PROVE  /\ nextEventSeq' \in 0..MaxSeq
           /\ lastSeq' \in [Sockets -> 0..MaxSeq \cup {None}]
  BY DEF TypeOK, createEventFrame

LEMMA TypeStep ==
    ASSUME TypeOK, [Next]_vars
    PROVE  TypeOK'
<1> USE DEF TypeOK, upstreamVars, serverVars, clientVars, vars, Reached
<1>1. CASE \E f \in UpstreamFrames : NumberedEvent(f)
  <2>1. PICK f \in UpstreamFrames : NumberedEvent(f)
    BY <1>1
  <2>2. /\ upSeq + 1 \in 0..MaxSeq
        /\ upSeq' = upSeq + 1
        /\ UNCHANGED serverVars
        /\ createEventFrame(upSeq + 1) \/ UNCHANGED <<nextEventSeq, clientVars>>
    BY <2>1 DEF NumberedEvent
  <2>3. CASE createEventFrame(upSeq + 1)
    <3>1. counted' \subseteq Sockets /\ behind' \subseteq Sockets /\ misled' \subseteq Sockets
      BY <2>1 DEF NumberedEvent
    <3> QED  BY <2>2, <2>3, <3>1, BroadcastType
  <2>4. CASE UNCHANGED <<nextEventSeq, clientVars>>
    BY <2>2, <2>4
  <2> QED  BY <2>2, <2>3, <2>4
<1>2. CASE \E f \in UpstreamFrames : TargetedEvent(f)
  <2>1. /\ nextEventSeq + 1 \in 0..MaxSeq
        /\ createEventFrame(nextEventSeq + 1)
        /\ counted' \subseteq Sockets /\ behind' \subseteq Sockets
        /\ UNCHANGED <<upSeq, misled, serverVars>>
    BY <1>2 DEF TargetedEvent
  <2> QED  BY <2>1, BroadcastType
<1>3. CASE \E f \in UpstreamFrames : LostEvent(f)
  BY <1>3 DEF LostEvent
<1>4. CASE UpstreamRestart
  BY <1>4 DEF UpstreamRestart
<1>5. CASE \E c \in Sockets : Connection(c)
  BY <1>5 DEF Connection
<1>6. CASE \E c \in Sockets : sendHello(c)
  BY <1>6 DEF sendHello
<1>7. CASE \E c \in Sockets : SocketClosed(c)
  BY <1>7 DEF SocketClosed
<1>8. CASE Close
  BY <1>8 DEF Close
<1>9. CASE SourceClosed
  BY <1>9 DEF SourceClosed
<1>10. CASE ServerClosed
  BY <1>10 DEF ServerClosed
<1>11. CASE UNCHANGED vars
  BY <1>11
<1> QED
  BY <1>1, <1>2, <1>3, <1>4, <1>5, <1>6, <1>7, <1>8, <1>9, <1>10, <1>11 DEF Next

\* The gateway keeps its types, and its set of clients is exactly the set of
\* sockets in use, through every order of connections, events and shutdown.
THEOREM TypeCorrect == Spec => []TypeOK
<1>1. Init => TypeOK
  BY DEF Init, TypeOK
<1>2. TypeOK /\ [Next]_vars => TypeOK'
  BY TypeStep
<1> QED
  BY <1>1, <1>2, PTL DEF Spec

-----------------------------------------------------------------------------
\* Why a loss is seen: the number a client counts by is one upstream has
\* reached, and upstream is past it once the client missed an event.
NumbersInv ==
    /\ \A c \in counted : lastSeq[c] # None /\ lastSeq[c] <= upSeq
    /\ \A c \in behind : c \in counted /\ lastSeq[c] < upSeq

\* A client that has something to miss has its hello behind it.
HelloInv ==
    /\ behind \subseteq greeted
    /\ greeted \cap awaiting = {}
    /\ \A c \in greeted \cup awaiting : sock[c] # "new"

Inv == TypeOK /\ NumbersInv /\ HelloInv /\ misled = {}

LEMMA InvInit == Init => Inv
  BY DEF Init, Inv, TypeOK, NumbersInv, HelloInv

LEMMA InvStep ==
    ASSUME Inv, [Next]_vars
    PROVE  Inv'
<1>0. TypeOK /\ TypeOK'
  BY TypeStep DEF Inv
<1> SUFFICES NumbersInv' /\ HelloInv' /\ misled' = {}
  BY <1>0 DEF Inv
<1> USE DEF Inv, TypeOK, NumbersInv, HelloInv, upstreamVars, serverVars, clientVars, vars
<1>1. CASE \E f \in UpstreamFrames : NumberedEvent(f)
  <2>1. PICK f \in UpstreamFrames : NumberedEvent(f)
    BY <1>1
  <2>2. upSeq' = upSeq + 1 /\ UNCHANGED serverVars
    BY <2>1 DEF NumberedEvent
  <2>3. CASE Shown(f) /\ phase = "serving"
    <3>1. /\ lastSeq' = [c \in Sockets |-> IF c \in Reached THEN upSeq + 1 ELSE lastSeq[c]]
          /\ counted' = counted \cup Reached
          /\ behind' = behind \ {c \in Reached : IsGap(c, upSeq + 1)}
          /\ misled' = misled \cup {c \in Reached \cap behind : ~IsGap(c, upSeq + 1)}
      BY <2>1, <2>3 DEF NumberedEvent, createEventFrame
    <3>2. \A c \in behind : IsGap(c, upSeq + 1)
      BY <1>0 DEF IsGap
    <3>3. misled' = {} /\ behind' = behind \ Reached
      BY <3>1, <3>2
    <3>4. Reached \subseteq Sockets
      BY <1>0 DEF Reached
    <3>5. NumbersInv'
      BY <1>0, <2>2, <3>1, <3>3, <3>4
    <3>6. HelloInv'
      BY <2>2, <3>3
    <3> QED  BY <3>3, <3>5, <3>6
  <2>4. CASE ~(Shown(f) /\ phase = "serving")
    BY <1>0, <2>1, <2>2, <2>4 DEF NumberedEvent
  <2> QED  BY <2>3, <2>4
<1>2. CASE \E f \in UpstreamFrames : TargetedEvent(f)
  <2>1. /\ lastSeq' = [c \in Sockets |-> IF c \in Reached THEN nextEventSeq + 1 ELSE lastSeq[c]]
        /\ counted' = counted \ Reached /\ behind' = behind \ Reached
        /\ UNCHANGED <<upSeq, misled, serverVars>>
    BY <1>2 DEF TargetedEvent, createEventFrame
  <2> QED  BY <1>0, <2>1
<1>3. CASE \E f \in UpstreamFrames : LostEvent(f)
  BY <1>0, <1>3 DEF LostEvent
<1>4. CASE UpstreamRestart
  BY <1>0, <1>4 DEF UpstreamRestart
<1>5. CASE \E c \in Sockets : Connection(c)
  BY <1>0, <1>5 DEF Connection
<1>6. CASE \E c \in Sockets : sendHello(c)
  BY <1>0, <1>6 DEF sendHello
<1>7. CASE \E c \in Sockets : SocketClosed(c)
  BY <1>0, <1>7 DEF SocketClosed
<1>8. CASE Close
  BY <1>8 DEF Close
<1>9. CASE SourceClosed
  BY <1>0, <1>9 DEF SourceClosed
<1>10. CASE ServerClosed
  BY <1>10 DEF ServerClosed
<1>11. CASE UNCHANGED vars
  BY <1>11
<1> QED
  BY <1>1, <1>2, <1>3, <1>4, <1>5, <1>6, <1>7, <1>8, <1>9, <1>10, <1>11 DEF Next

\* No client takes a later numbered event for the next one after it missed
\* some, as long as no event without a number and no restart of upstream came
\* between: what the gateway filters hides no loss, and the next numbered event
\* restores the count that one without a number upset (createEventFrame, the
\* lastSeq check of the client).
THEOREM LossesAreSeen == Spec => []LossIsDetected
<1>1. Inv /\ [Next]_vars => Inv'
  BY InvStep
<1>2. Inv => LossIsDetected
  BY DEF Inv, LossIsDetected
<1> QED
  BY InvInit, <1>1, <1>2, PTL DEF Spec

=============================================================================
