----------------------- MODULE OpenClawSourceProofs -----------------------
(***************************************************************************)
(* Proofs about OpenClawSource, for every bound on the connection attempts *)
(* and every set of requests.  The invariant is built in three layers: the *)
(* types with Newest (the fields only ever name the newest attempt), then  *)
(* Running (why the source is never stranded) and Handshake (why a request *)
(* never precedes the handshake), each inductive relative to the first.    *)
(***************************************************************************)
EXTENDS OpenClawSource, TLAPS

\* this.socket, this.connectPromise and this.connectRequestId are null or
\* those of the newest attempt; callbacks of older sockets can only null them.
Newest ==
    /\ socket \in {0, opened}
    /\ promise \in {0, opened}
    /\ connectRequest \in {0, opened}

Base == TypeOK /\ Newest

\* A connect promise that is kept belongs to a socket that is still to close.
Running ==
    /\ promise # 0 => Live(promise)
    /\ closing = "no" => ~stopped
    /\ subscribed => closing = "no"
    /\ NeverStranded

\* What a hello, a resolved promise and a connect request in flight stand for.
Handshake ==
    /\ hello /\ socket # 0 => socket \in authed
    /\ \A a \in Sockets : settled[a] = "resolved" => a \in authed
    /\ \A m \in inflight : m.id.method = "connect" => m.on = m.id.of
    /\ CallsOnlyAfterHandshake

-----------------------------------------------------------------------------
(* Type correctness and Newest.                                            *)

LEMMA IdsTyped ==
    /\ \A a \in Sockets : ConnectId(a) \in Ids /\ SubscribeId(a) \in Ids
    /\ \A r \in Requests : CallId(r) \in Ids
BY DEF Ids

LEMMA IdFields ==
    ASSUME NEW i \in Ids
    PROVE  /\ i.method = "connect" => i.of \in Sockets /\ i = ConnectId(i.of)
           /\ i.method = "sessions.subscribe" => i.of \in Sockets
           /\ i.method = "call" => i.of \in Requests
           /\ i.method \in {"connect", "sessions.subscribe", "call"}
BY DEF Ids, ConnectId, SubscribeId, CallId

\* A new attempt is typed, and is the newest.
LEMMA AttemptBase ==
    ASSUME ConnTypeOK, SrcTypeOK, NEW a, Attempt(a)
    PROVE  a \in Sockets /\ ConnTypeOK' /\ SrcTypeOK' /\ Newest'
  <1>1. a \in Sockets
    BY MaxSocketsAssumption DEF ConnTypeOK, Attempt, Sockets
  <1>2. ConnTypeOK'
    BY <1>1, MaxSocketsAssumption DEF ConnTypeOK, Attempt
  <1>3. SrcTypeOK'
    BY <1>1 DEF SrcTypeOK, Attempt
  <1>4. Newest'
    BY DEF Newest, Attempt
  <1> QED BY <1>1, <1>2, <1>3, <1>4

LEMMA EnsureConnectedVoidBase ==
    ASSUME Base, EnsureConnectedVoid
    PROVE  ConnTypeOK' /\ SrcTypeOK' /\ Newest' /\ voidWaits' \in SUBSET Sockets
  <1> USE DEF Base, TypeOK
  <1>1. CASE UNCHANGED <<connVars, srcVars, voidWaits>>
    BY <1>1 DEF ConnTypeOK, SrcTypeOK, CallTypeOK, Newest, connVars, srcVars
  <1>2. CASE promise # 0 /\ voidWaits' = voidWaits \cup {promise} /\ UNCHANGED <<connVars, srcVars>>
    BY <1>2 DEF ConnTypeOK, SrcTypeOK, CallTypeOK, Newest, connVars, srcVars
  <1>3. CASE Attempt(opened + 1) /\ voidWaits' = voidWaits \cup {opened + 1}
    BY <1>3, AttemptBase DEF CallTypeOK
  <1> QED BY <1>1, <1>2, <1>3 DEF EnsureConnectedVoid

\* fail and its consequences keep the types.
LEMMA FailBase ==
    ASSUME Base, NEW as, Fail(as)
    PROVE  /\ promise' \in {0} \cup Sockets /\ promise' \in {0, opened}
           /\ settled' \in [Sockets -> {"none", "pending", "resolved", "rejected"}]
           /\ RejectWaiters(as) \in [Requests -> {"idle", "waiting", "sent", "resolved", "rejected"}]
           /\ AliveAfter(as) \in BOOLEAN
  <1>1. promise' \in {0} \cup Sockets /\ promise' \in {0, opened}
    BY DEF Base, TypeOK, SrcTypeOK, Newest, Fail
  <1>2. settled' \in [Sockets -> {"none", "pending", "resolved", "rejected"}]
    BY DEF Base, TypeOK, SrcTypeOK, Fail
  <1>3. RejectWaiters(as) \in [Requests -> {"idle", "waiting", "sent", "resolved", "rejected"}]
    BY DEF Base, TypeOK, CallTypeOK, RejectWaiters
  <1>4. AliveAfter(as) \in BOOLEAN
    BY DEF AliveAfter
  <1> QED BY <1>1, <1>2, <1>3, <1>4

LEMMA RequestBase == ASSUME Base, NEW r \in Requests, Request(r) PROVE Base'
  <1> USE DEF Base, TypeOK
  <1>1. CASE Connected \/ (promise # 0 /\ settled[promise] = "resolved")
    <2> /\ IF CanSend
           THEN /\ req' = [req EXCEPT ![r] = "sent"]
                /\ pending' = pending \cup {CallId(r)}
                /\ inflight' = inflight \cup {[id |-> CallId(r), on |-> socket]}
           ELSE /\ req' = [req EXCEPT ![r] = "rejected"]
                /\ UNCHANGED <<pending, inflight>>
        /\ UNCHANGED <<sock, challenged, authed, opened, socket, hello, promise, settled,
                       connectSent, connectRequest, challenger, waitsOn>>
        /\ UNCHANGED <<timeVars, stopVars, voidWaits, alive>>
      BY <1>1 DEF Request
    <2>1. CanSend => socket \in Sockets
      BY DEF CanSend, SrcTypeOK
    <2>2. ConnTypeOK'
      BY <2>1, IdsTyped DEF ConnTypeOK
    <2>3. SrcTypeOK'
      BY IdsTyped DEF SrcTypeOK
    <2>4. StopTypeOK'
      BY DEF StopTypeOK, timeVars, stopVars
    <2>5. CallTypeOK' /\ Newest'
      BY DEF CallTypeOK, Newest
    <2> QED BY <2>2, <2>3, <2>4, <2>5
  <1>2. CASE ~Connected /\ promise # 0 /\ settled[promise] # "resolved"
    BY <1>2 DEF Request, ConnTypeOK, SrcTypeOK, StopTypeOK, CallTypeOK, Newest,
                connVars, srcVars, timeVars, stopVars
  <1>3. CASE ~Connected /\ promise = 0
    <2>1. Attempt(opened + 1)
      BY <1>3 DEF Request
    <2>2. ConnTypeOK' /\ SrcTypeOK' /\ Newest' /\ opened + 1 \in Sockets
      BY <2>1, AttemptBase
    <2>3. StopTypeOK' /\ CallTypeOK'
      BY <1>3, <2>2 DEF Request, StopTypeOK, CallTypeOK, timeVars, stopVars
    <2> QED BY <2>2, <2>3
  <1> QED BY <1>1, <1>2, <1>3

LEMMA ReceiveChallengeBase == ASSUME Base, NEW s \in Sockets, ReceiveChallenge(s) PROVE Base'
  <1> USE DEF Base, TypeOK
  <1>1. CASE connectSent
    BY <1>1 DEF ReceiveChallenge, ConnTypeOK, SrcTypeOK, StopTypeOK, CallTypeOK, Newest,
                srcVars, timeVars, stopVars
  <1>2. CASE ~connectSent
    <2>1. CanSend => socket = opened /\ opened \in Sockets
      BY DEF CanSend, SrcTypeOK, Newest
    <2>2. opened \in {0} \cup Sockets
      BY MaxSocketsAssumption DEF ConnTypeOK, Sockets
    <2>3. ~CanSend => Fail({s}) /\ req' = RejectWaiters({s}) /\ alive' = AliveAfter({s})
      BY <1>2 DEF ReceiveChallenge
    <2>4. CanSend => /\ pending' = pending \cup {ConnectId(opened)}
                     /\ inflight' = inflight \cup {[id |-> ConnectId(opened), on |-> socket]}
                     /\ challenger' = [challenger EXCEPT ![opened] = s]
                     /\ UNCHANGED <<promise, settled, req, alive>>
      BY <1>2 DEF ReceiveChallenge
    <2>5. ~CanSend => UNCHANGED <<pending, inflight, challenger>>
      BY <1>2 DEF ReceiveChallenge
    <2>6. /\ connectSent' = TRUE /\ connectRequest' = opened
           /\ UNCHANGED <<socket, hello>>
           /\ challenged' = challenged \cup {s}
           /\ UNCHANGED <<sock, authed, opened>>
      BY <1>2 DEF ReceiveChallenge
    <2>7. ConnTypeOK'
      <3>1. inflight' \in SUBSET [id : Ids, on : Sockets]
        BY <2>1, <2>4, <2>5, IdsTyped DEF ConnTypeOK
      <3> QED BY <3>1, <2>6 DEF ConnTypeOK
    <2>8. SrcTypeOK'
      <3>1. CASE CanSend
        BY <2>1, <2>2, <2>4, <2>6, <3>1, IdsTyped DEF SrcTypeOK
      <3>2. CASE ~CanSend
        BY <1>2, <2>2, <2>3, <3>2, FailBase DEF ReceiveChallenge, SrcTypeOK
      <3> QED BY <3>1, <3>2
    <2>9. StopTypeOK'
      BY DEF ReceiveChallenge, StopTypeOK, timeVars, stopVars
    <2>10. CallTypeOK'
      <3>1. CASE CanSend
        BY <1>2, <3>1 DEF ReceiveChallenge, CallTypeOK
      <3>2. CASE ~CanSend
        BY <2>3, <3>2, FailBase DEF ReceiveChallenge, CallTypeOK
      <3> QED BY <3>1, <3>2
    <2>11. Newest'
      BY <1>2, <2>3, FailBase DEF ReceiveChallenge, Newest
    <2> QED BY <2>7, <2>8, <2>9, <2>10, <2>11
  <1> QED BY <1>1, <1>2

LEMMA HelloOkBase ==
    ASSUME Base, NEW m \in inflight, m.id = ConnectId(m.id.of), HelloOk(m),
           authed' = authed \cup {m.on}, UNCHANGED <<sock, challenged, opened, waitsOn, voidWaits>>
    PROVE  ConnTypeOK' /\ SrcTypeOK' /\ CallTypeOK' /\ Newest'
  <1> USE DEF Base, TypeOK
  <1> DEFINE waiters == IF settled[m.on] = "pending" THEN Waiting(m.on) ELSE {}
             sends   == {SubscribeId(m.on)} \cup {CallId(r) : r \in waiters}
  <1>1. m.on \in Sockets /\ waiters \subseteq Requests
    BY DEF ConnTypeOK, Waiting
  <1>2. sends \subseteq Ids
    BY <1>1, IdsTyped
  <1>3. CanSend => socket \in Sockets
    BY DEF CanSend, SrcTypeOK
  <1>4. inflight' \subseteq [id : Ids, on : Sockets]
    <2>1. CASE CanSend
      <3>1. inflight' = (inflight \ {m}) \cup {[id |-> i, on |-> socket] : i \in sends}
        BY <2>1 DEF HelloOk
      <3> QED BY <1>2, <1>3, <2>1, <3>1 DEF ConnTypeOK
    <2>2. CASE ~CanSend
      BY <2>2 DEF HelloOk, Answered, ConnTypeOK
    <2> QED BY <2>1, <2>2
  <1>5. pending' \subseteq Ids
    <2>1. pending' \subseteq pending \cup sends
      BY DEF HelloOk
    <2> QED BY <1>2, <2>1 DEF SrcTypeOK
  <1>6. ConnTypeOK'
    BY <1>1, <1>4 DEF ConnTypeOK
  <1>7. SrcTypeOK'
    BY <1>1, <1>5 DEF HelloOk, SrcTypeOK
  <1>8. CallTypeOK'
    BY DEF HelloOk, CallTypeOK
  <1>9. Newest'
    BY DEF HelloOk, Newest
  <1> QED BY <1>6, <1>7, <1>8, <1>9

LEMMA ConnectAnswerBase ==
    ASSUME Base, NEW m \in inflight, NEW ok \in BOOLEAN, ConnectAnswer(m, ok) PROVE Base'
  <1> USE DEF Base, TypeOK
  <1>1. m.on \in Sockets /\ m.id = ConnectId(m.id.of)
    BY DEF ConnTypeOK, ConnectAnswer
  <1>2. StopTypeOK'
    BY DEF ConnectAnswer, StopTypeOK, timeVars, stopVars
  <1>3. CASE m.id \in pending /\ ok /\ connectRequest = m.id.of
    <2>1. HelloOk(m) /\ authed' = authed \cup {m.on} /\ UNCHANGED <<sock, challenged, opened, waitsOn, voidWaits>>
      BY <1>3 DEF ConnectAnswer
    <2> QED BY <1>1, <1>2, <2>1, HelloOkBase
  <1>4. CASE ~(m.id \in pending /\ ok /\ connectRequest = m.id.of)
    <2>1. /\ inflight' = inflight \ {m} /\ authed' \in {authed, authed \cup {m.on}}
          /\ UNCHANGED <<sock, challenged, opened, waitsOn, voidWaits>>
          /\ pending' \subseteq pending
          /\ UNCHANGED <<socket, hello, connectSent, connectRequest, challenger>>
      BY <1>4 DEF ConnectAnswer, Answered, srcVars
    <2>2. \/ UNCHANGED <<promise, settled, req, alive>>
          \/ \E s : Fail({s}) /\ req' = RejectWaiters({s}) /\ alive' = AliveAfter({s})
      BY <1>4 DEF ConnectAnswer, srcVars
    <2>3. /\ promise' \in {0} \cup Sockets /\ promise' \in {0, opened}
          /\ settled' \in [Sockets -> {"none", "pending", "resolved", "rejected"}]
          /\ req' \in [Requests -> {"idle", "waiting", "sent", "resolved", "rejected"}]
          /\ alive' \in BOOLEAN
      <3>1. CASE UNCHANGED <<promise, settled, req, alive>>
        BY <3>1 DEF SrcTypeOK, CallTypeOK, Newest
      <3>2. ASSUME NEW s, Fail({s}), req' = RejectWaiters({s}), alive' = AliveAfter({s})
            PROVE  /\ promise' \in {0} \cup Sockets /\ promise' \in {0, opened}
                   /\ settled' \in [Sockets -> {"none", "pending", "resolved", "rejected"}]
                   /\ req' \in [Requests -> {"idle", "waiting", "sent", "resolved", "rejected"}]
                   /\ alive' \in BOOLEAN
        BY <3>2, FailBase
      <3> QED BY <2>2, <3>1, <3>2
    <2>4. ConnTypeOK'
      BY <1>1, <2>1 DEF ConnTypeOK
    <2>5. SrcTypeOK' /\ Newest'
      BY <2>1, <2>3 DEF SrcTypeOK, Newest
    <2>6. CallTypeOK'
      BY <2>1, <2>3 DEF CallTypeOK
    <2> QED BY <1>2, <2>4, <2>5, <2>6
  <1> QED BY <1>3, <1>4

LEMMA RequestTimeoutBase == ASSUME Base, NEW i \in Ids, RequestTimeout(i) PROVE Base'
  <1> USE DEF Base, TypeOK
  <1> DEFINE as == IF i.method = "connect" THEN {challenger[i.of]} ELSE {}
  <1>1. /\ Fail(as)
        /\ req' = [r \in Requests |-> IF i = CallId(r) THEN "rejected" ELSE RejectWaiters(as)[r]]
        /\ alive' = (AliveAfter(as) /\ i.method # "sessions.subscribe")
    BY DEF RequestTimeout
  <1>2. CallTypeOK'
    BY <1>1, FailBase DEF RequestTimeout, CallTypeOK
  <1>3. SrcTypeOK' /\ Newest'
    BY <1>1, FailBase DEF RequestTimeout, SrcTypeOK, Newest, connVars
  <1>4. ConnTypeOK' /\ StopTypeOK'
    BY DEF RequestTimeout, ConnTypeOK, StopTypeOK, connVars, timeVars, stopVars
  <1> QED BY <1>2, <1>3, <1>4

LEMMA CloseBase == ASSUME Base, Close PROVE Base'
  <1> USE DEF Base, TypeOK
  <1> DEFINE as == {challenger[i.of] : i \in {j \in pending : j.method = "connect"}}
  <1>1. /\ Fail(as)
        /\ req' = [r \in Requests |-> IF CallId(r) \in pending THEN "rejected" ELSE RejectWaiters(as)[r]]
        /\ alive' = (AliveAfter(as) /\ \A i \in pending : i.method # "sessions.subscribe")
    BY DEF Close
  <1>2. CallTypeOK'
    BY <1>1, FailBase DEF Close, CallTypeOK
  <1>3. SrcTypeOK' /\ Newest'
    BY <1>1, FailBase DEF Close, SrcTypeOK, Newest
  <1>4. ConnTypeOK'
    BY DEF Close, ConnTypeOK, SrcTypeOK
  <1>5. StopTypeOK'
    BY DEF Close, StopTypeOK, SrcTypeOK
  <1> QED BY <1>2, <1>3, <1>4, <1>5

\* Every step keeps the types and Newest.
LEMMA BaseInductive == Base /\ [Next]_vars => Base'
  <1> SUFFICES ASSUME Base, [Next]_vars PROVE Base'
    OBVIOUS
  <1>1. CASE Subscribe
    BY <1>1, EnsureConnectedVoidBase DEF Base, TypeOK, StopTypeOK, CallTypeOK, Subscribe, timeVars
  <1>2. CASE GetSnapshot
    BY <1>2, EnsureConnectedVoidBase
       DEF Base, TypeOK, StopTypeOK, CallTypeOK, GetSnapshot, timeVars, stopVars
  <1>3. ASSUME NEW t \in Sockets, TimerFires(t) PROVE Base'
    BY <1>3, EnsureConnectedVoidBase DEF Base, TypeOK, StopTypeOK, CallTypeOK, TimerFires, stopVars
  <1>4. ASSUME NEW r \in Requests, Request(r) PROVE Base'
    BY <1>4, RequestBase
  <1>5. ASSUME NEW s \in Sockets, SocketOpen(s) \/ SocketClosing(s) PROVE Base'
    <2> USE <1>5 DEF Base, TypeOK, SocketOpen, SocketClosing, srcVars, timeVars, stopVars, callVars
    <2>1. ConnTypeOK' BY DEF ConnTypeOK
    <2>2. SrcTypeOK' /\ Newest' BY DEF SrcTypeOK, Newest
    <2>3. StopTypeOK' /\ CallTypeOK' BY DEF StopTypeOK, CallTypeOK
    <2> QED BY <2>1, <2>2, <2>3
  <1>6. ASSUME NEW s \in Sockets, SocketClose(s) PROVE Base'
    <2> USE <1>6 DEF Base, TypeOK, SocketClose, OnClose, timeVars, callVars
    <2>1. ConnTypeOK' BY DEF ConnTypeOK
    <2>2. SrcTypeOK' /\ Newest' BY DEF SrcTypeOK, Newest
    <2>3. StopTypeOK' BY DEF StopTypeOK
    <2>4. CallTypeOK' BY DEF CallTypeOK
    <2> QED BY <2>1, <2>2, <2>3, <2>4
  <1>7. ASSUME NEW s \in Sockets, ConnectFails(s) PROVE Base'
    <2> USE <1>7 DEF Base, TypeOK, ConnectFails, OnClose, timeVars
    <2>1. ConnTypeOK' BY DEF ConnTypeOK
    <2>2. SrcTypeOK' /\ Newest' BY DEF SrcTypeOK, Newest
    <2>3. StopTypeOK' BY DEF StopTypeOK
    <2>4. CallTypeOK' BY DEF CallTypeOK, AliveAfter, RejectWaiters
    <2> QED BY <2>1, <2>2, <2>3, <2>4
  <1>8. ASSUME NEW s \in Sockets, ReceiveChallenge(s) PROVE Base'
    BY <1>8, ReceiveChallengeBase
  <1>9. ASSUME NEW m \in inflight, NEW ok \in BOOLEAN, ConnectAnswer(m, ok) PROVE Base'
    BY <1>9, ConnectAnswerBase
  <1>10. ASSUME NEW m \in inflight, NEW ok \in BOOLEAN, SubscribeAnswer(m, ok) PROVE Base'
    <2> USE <1>10 DEF Base, TypeOK, SubscribeAnswer, Answered, timeVars, stopVars
    <2>1. ConnTypeOK' BY DEF ConnTypeOK
    <2>2. SrcTypeOK' /\ Newest' BY DEF SrcTypeOK, Newest
    <2>3. StopTypeOK' /\ CallTypeOK' BY DEF StopTypeOK, CallTypeOK
    <2> QED BY <2>1, <2>2, <2>3
  <1>11. ASSUME NEW m \in inflight, NEW ok \in BOOLEAN, CallAnswer(m, ok) PROVE Base'
    <2> USE <1>11 DEF Base, TypeOK, CallAnswer, Answered, timeVars, stopVars
    <2>1. ConnTypeOK' BY DEF ConnTypeOK
    <2>2. SrcTypeOK' /\ Newest' BY DEF SrcTypeOK, Newest
    <2>3. StopTypeOK' /\ CallTypeOK' BY DEF StopTypeOK, CallTypeOK
    <2> QED BY <2>1, <2>2, <2>3
  <1>12. ASSUME NEW i \in Ids, RequestTimeout(i) PROVE Base'
    BY <1>12, RequestTimeoutBase
  <1>13. CASE Close
    BY <1>13, CloseBase
  <1>14. CASE UNCHANGED vars
    <2> USE <1>14 DEF Base, TypeOK, vars, connVars, srcVars, timeVars, stopVars, callVars
    <2>1. ConnTypeOK' /\ SrcTypeOK' BY DEF ConnTypeOK, SrcTypeOK
    <2>2. StopTypeOK' /\ CallTypeOK' /\ Newest' BY DEF StopTypeOK, CallTypeOK, Newest
    <2> QED BY <2>1, <2>2
  <1> QED
    BY <1>1, <1>2, <1>3, <1>4, <1>5, <1>6, <1>7, <1>8, <1>9, <1>10, <1>11, <1>12, <1>13, <1>14
       DEF Next

LEMMA BaseInit == Init => Base
  <1> SUFFICES ASSUME Init PROVE Base
    OBVIOUS
  <1>1. ConnTypeOK
    BY MaxSocketsAssumption DEF Init, ConnTypeOK
  <1>2. SrcTypeOK
    BY DEF Init, SrcTypeOK
  <1>3. StopTypeOK
    BY DEF Init, StopTypeOK
  <1>4. CallTypeOK /\ Newest
    BY DEF Init, CallTypeOK, Newest
  <1> QED BY <1>1, <1>2, <1>3, <1>4 DEF Base, TypeOK

\* The fields of OpenClawGatewaySource keep their types in every behaviour.
THEOREM TypeCorrect == Spec => []TypeOK
  <1>1. Base => TypeOK
    BY DEF Base
  <1> QED BY BaseInit, BaseInductive, <1>1, PTL DEF Spec

-----------------------------------------------------------------------------
(* The source is never stranded.                                           *)

LEMMA RunningInductive == Base /\ Running /\ [Next]_vars => Running'
  <1> SUFFICES ASSUME Base, Running, [Next]_vars PROVE Running'
    OBVIOUS
  \* An attempt is a live socket; without one, the reason not to make one is live.
  <1>1. ASSUME EnsureConnectedVoid, UNCHANGED <<stopped, closing>>, subscribed' => closing = "no"
        PROVE  Running'
    <2> USE <1>1 DEF Running, NeverStranded, Live
    <2>1. CASE Connected /\ UNCHANGED <<connVars, srcVars>>
      BY <2>1 DEF Connected, CanSend, connVars, srcVars, Base, TypeOK, SrcTypeOK
    <2>2. CASE promise # 0 /\ UNCHANGED <<connVars, srcVars>>
      BY <2>2 DEF connVars, srcVars, Base, TypeOK, SrcTypeOK
    <2>3. CASE Attempt(opened + 1)
      <3>1. opened + 1 \in Sockets /\ promise' = opened + 1 /\ sock'[opened + 1] = "connecting"
        BY <2>3, AttemptBase DEF Attempt, Base, TypeOK, ConnTypeOK
      <3> QED BY <3>1
    <2> QED BY <1>1, <2>1, <2>2, <2>3 DEF EnsureConnectedVoid
  \* Steps that leave the sockets live that were.
  <1>2. ASSUME \A s \in Sockets : sock[s] # sock'[s] => sock'[s] \in {"aborting", "open", "closing"},
               promise' \in {0, promise}, UNCHANGED timers,
               \/ UNCHANGED <<subscribed, stopped, closing>>
               \/ ~subscribed' /\ closing' # "no",
               alive' => alive
        PROVE  Running'
    BY <1>2 DEF Running, NeverStranded, Live, Base, TypeOK, SrcTypeOK, StopTypeOK
  \* A close event arms a timer while somebody listens.
  <1>3. ASSUME NEW s \in Sockets, OnClose(s), promise' = 0, UNCHANGED <<subscribed, stopped>>
        PROVE  Running'
    BY <1>3 DEF Running, NeverStranded, OnClose, timeVars
  <1>4. CASE Subscribe
    BY <1>1, <1>4 DEF Subscribe
  <1>5. CASE GetSnapshot
    BY <1>1, <1>5 DEF GetSnapshot, stopVars, Running
  <1>6. ASSUME NEW t \in Sockets, TimerFires(t) PROVE Running'
    BY <1>1, <1>6 DEF TimerFires, stopVars, Running
  <1>7. ASSUME NEW r \in Requests, Request(r) PROVE Running'
    <2> USE <1>7 DEF timeVars, stopVars, connVars, srcVars
    <2>1. CASE Connected \/ promise # 0
      <3>1. UNCHANGED <<sock, promise, timers, subscribed, stopped, closing, alive>>
        BY <2>1 DEF Request
      <3> QED BY <1>2, <3>1
    <2>2. CASE ~Connected /\ promise = 0
      <3>1. Attempt(opened + 1) /\ UNCHANGED <<timers, subscribed, stopped, closing, alive>>
        BY <2>2 DEF Request
      <3>2. opened + 1 \in Sockets /\ promise' = opened + 1 /\ sock'[opened + 1] = "connecting"
        BY <3>1, AttemptBase DEF Attempt, Base, TypeOK, ConnTypeOK
      <3> QED BY <3>1, <3>2 DEF Running, NeverStranded, Live
    <2> QED BY <2>1, <2>2
  <1>8. ASSUME NEW s \in Sockets, SocketOpen(s) \/ SocketClosing(s) PROVE Running'
    <2>1. /\ \A x \in Sockets : sock[x] # sock'[x] => sock'[x] \in {"aborting", "open", "closing"}
          /\ UNCHANGED <<promise, timers, subscribed, stopped, closing, alive>>
      BY <1>8 DEF SocketOpen, SocketClosing, srcVars, timeVars, stopVars, callVars,
                  Base, TypeOK, ConnTypeOK
    <2> QED BY <1>2, <2>1
  <1>9. ASSUME NEW s \in Sockets, SocketClose(s) \/ ConnectFails(s) PROVE Running'
    BY <1>3, <1>9 DEF SocketClose, ConnectFails
  <1>10. ASSUME NEW s \in Sockets, ReceiveChallenge(s) PROVE Running'
    <2>1. UNCHANGED <<sock, timers, subscribed, stopped, closing>> /\ (alive' => alive) /\ promise' \in {0, promise}
      BY <1>10 DEF ReceiveChallenge, Fail, AliveAfter, srcVars, timeVars, stopVars
    <2> QED BY <1>2, <2>1
  <1>11. ASSUME NEW m \in inflight, NEW ok \in BOOLEAN,
                ConnectAnswer(m, ok) \/ SubscribeAnswer(m, ok) \/ CallAnswer(m, ok)
         PROVE  Running'
    <2>1. UNCHANGED <<sock, timers, subscribed, stopped, closing>> /\ alive /\ promise' \in {0, promise}
      BY <1>11 DEF ConnectAnswer, HelloOk, SubscribeAnswer, CallAnswer, Receives, Fail,
                   srcVars, timeVars, stopVars
    <2> QED BY <1>2, <2>1
  <1>12. ASSUME NEW i \in Ids, RequestTimeout(i) PROVE Running'
    <2>1. UNCHANGED <<sock, timers, subscribed, stopped, closing>> /\ alive /\ promise' \in {0, promise}
      BY <1>12 DEF RequestTimeout, Fail, connVars, timeVars, stopVars
    <2> QED BY <1>2, <2>1
  <1>13. CASE Close
    <2>1. promise' \in {0, promise} /\ ~subscribed' /\ closing' # "no" /\ stopped'
      BY <1>13 DEF Close, Fail
    <2>2. promise # 0 => sock'[promise] \in {"connecting", "aborting", "open", "closing"}
      BY <1>13 DEF Close, Running, Live, Base, TypeOK, ConnTypeOK, SrcTypeOK
    <2> QED BY <2>1, <2>2 DEF Running, NeverStranded, Live
  <1>14. CASE UNCHANGED vars
    BY <1>14 DEF Running, NeverStranded, Live, vars, connVars, srcVars, timeVars, stopVars, callVars
  <1> QED
    BY <1>4, <1>5, <1>6, <1>7, <1>8, <1>9, <1>10, <1>11, <1>12, <1>13, <1>14 DEF Next

\* While somebody listens, a socket or a reconnect timer is always left, so the
\* source never stops trying to be connected.
THEOREM NoStranding == Spec => []NeverStranded
  <1>1. Init => Running
    BY DEF Init, Running, NeverStranded
  <1>2. Base /\ Running => NeverStranded
    BY DEF Running
  <1> QED BY BaseInit, BaseInductive, RunningInductive, <1>1, <1>2, PTL DEF Spec

-----------------------------------------------------------------------------
(* No request before the handshake.                                        *)

\* Steps that send nothing keep Handshake when they only null or reject.
LEMMA QuietHandshake ==
    ASSUME Base, Handshake, inflight' \subseteq inflight, authed \subseteq authed',
           hello' => hello /\ socket' \in {0, socket},
           \A a \in Sockets : settled'[a] = "resolved" => settled[a] = "resolved"
    PROVE  Handshake'
BY DEF Handshake, CallsOnlyAfterHandshake, Base, TypeOK, ConnTypeOK

\* A new attempt forgets the hello and resolves nothing.
LEMMA AttemptHandshake ==
    ASSUME Base, Handshake, NEW a, Attempt(a)
    PROVE  Handshake'
  <1>1. \A b \in Sockets : settled'[b] = "resolved" => settled[b] = "resolved"
    BY DEF Attempt, Base, TypeOK, SrcTypeOK
  <1>2. inflight' = inflight /\ authed' = authed /\ hello' = FALSE
    BY DEF Attempt
  <1> QED BY <1>1, <1>2, QuietHandshake

LEMMA FailResolves ==
    ASSUME NEW as, Fail(as)
    PROVE  \A a \in Sockets : settled'[a] = "resolved" => settled[a] = "resolved"
BY DEF Fail

LEMMA EnsureConnectedVoidHandshake ==
    ASSUME Base, Handshake, EnsureConnectedVoid
    PROVE  Handshake'
  <1>1. CASE UNCHANGED <<connVars, srcVars>>
    BY <1>1, QuietHandshake DEF connVars, srcVars
  <1>2. CASE Attempt(opened + 1)
    BY <1>2, AttemptHandshake
  <1> QED BY <1>1, <1>2 DEF EnsureConnectedVoid

\* The socket a request goes out on is the newest, and the newest is
\* authenticated when there is a hello or its promise has resolved.
LEMMA RequestHandshake ==
    ASSUME Base, Handshake, NEW r \in Requests, Request(r) PROVE Handshake'
  <1>1. CASE Connected \/ (promise # 0 /\ settled[promise] = "resolved")
    <2>1. UNCHANGED <<authed, socket, hello, settled>>
      BY <1>1 DEF Request
    <2>2. CASE CanSend
      <3>1. socket \in authed
        BY <1>1, <2>2 DEF Handshake, Connected, CanSend, Base, Newest, TypeOK, SrcTypeOK
      <3>2. inflight' = inflight \cup {[id |-> CallId(r), on |-> socket]}
        BY <1>1, <2>2 DEF Request
      <3> QED BY <2>1, <3>1, <3>2 DEF Handshake, CallsOnlyAfterHandshake, CallId
    <2>3. CASE ~CanSend
      <3>1. inflight' = inflight
        BY <1>1, <2>3 DEF Request
      <3> QED BY <2>1, <3>1, QuietHandshake
    <2> QED BY <2>2, <2>3
  <1>2. CASE ~Connected /\ promise # 0 /\ settled[promise] # "resolved"
    BY <1>2, QuietHandshake DEF Request, connVars, srcVars
  <1>3. CASE ~Connected /\ promise = 0
    BY <1>3, AttemptHandshake DEF Request
  <1> QED BY <1>1, <1>2, <1>3

\* The connect request of the newest attempt goes out on its own socket.
LEMMA ReceiveChallengeHandshake ==
    ASSUME Base, Handshake, NEW s \in Sockets, ReceiveChallenge(s) PROVE Handshake'
  <1>1. UNCHANGED <<authed, socket, hello>>
    BY DEF ReceiveChallenge, srcVars
  <1>2. CASE ~connectSent /\ CanSend
    <2>1. /\ inflight' = inflight \cup {[id |-> ConnectId(opened), on |-> socket]}
          /\ UNCHANGED settled
      BY <1>2 DEF ReceiveChallenge
    <2>2. socket = opened
      BY <1>2 DEF CanSend, Base, Newest
    <2> QED BY <1>1, <2>1, <2>2 DEF Handshake, CallsOnlyAfterHandshake, ConnectId
  <1>3. CASE connectSent \/ ~CanSend
    <2>1. inflight' = inflight /\ (UNCHANGED settled \/ Fail({s}))
      BY <1>3 DEF ReceiveChallenge, srcVars
    <2> QED BY <1>1, <2>1, FailResolves, QuietHandshake
  <1> QED BY <1>2, <1>3

\* The hello-ok of the newest attempt arrives on the newest socket, and
\* what is sent after it goes out on that socket.
LEMMA ConnectAnswerHandshake ==
    ASSUME Base, Handshake, NEW m \in inflight, NEW ok \in BOOLEAN, ConnectAnswer(m, ok)
    PROVE  Handshake'
  <1>1. m \in [id : Ids, on : Sockets] /\ m.id = ConnectId(m.id.of)
    BY DEF Base, TypeOK, ConnTypeOK, ConnectAnswer
  <1>2. m.id.method = "connect" /\ m.on = m.id.of
    BY <1>1 DEF ConnectId, Handshake
  <1>3. CASE m.id \in pending /\ ok /\ connectRequest = m.id.of
    <2>1. authed' = authed \cup {m.on} /\ HelloOk(m)
      BY <1>3 DEF ConnectAnswer
    <2>2. m.on = opened /\ m.on # 0 /\ socket \in {0, m.on} /\ socket' = socket
      BY <1>1, <1>2, <1>3, <2>1, MaxSocketsAssumption DEF Base, Newest, Sockets, HelloOk
    <2>3. socket' # 0 => socket' \in authed'
      BY <2>1, <2>2
    <2>4. \A a \in Sockets : settled'[a] = "resolved" => a \in authed'
      BY <2>1 DEF HelloOk, Handshake, Base, TypeOK, SrcTypeOK
    <2>5. \A n \in inflight' : n \in inflight \/ (n.id.method # "connect" /\ n.on \in authed')
      <3> DEFINE waiters == IF settled[m.on] = "pending" THEN Waiting(m.on) ELSE {}
                 sends   == {SubscribeId(m.on)} \cup {CallId(r) : r \in waiters}
      <3>1. CASE CanSend
        <4>1. inflight' = (inflight \ {m}) \cup {[id |-> i, on |-> socket] : i \in sends}
          BY <2>1, <3>1 DEF HelloOk
        <4>2. \A i \in sends : i.method # "connect"
          BY DEF SubscribeId, CallId
        <4>3. socket \in authed'
          BY <2>1, <2>2, <3>1 DEF CanSend
        <4> QED BY <4>1, <4>2, <4>3
      <3>2. CASE ~CanSend
        BY <2>1, <3>2 DEF HelloOk, Answered
      <3> QED BY <3>1, <3>2
    <2> QED BY <2>1, <2>3, <2>4, <2>5 DEF Handshake, CallsOnlyAfterHandshake
  <1>4. CASE ~(m.id \in pending /\ ok /\ connectRequest = m.id.of)
    <2>1. /\ inflight' \subseteq inflight /\ authed \subseteq authed' /\ UNCHANGED <<socket, hello>>
          /\ UNCHANGED settled \/ \E s : Fail({s})
      BY <1>4 DEF ConnectAnswer, Answered, srcVars
    <2> QED BY <2>1, FailResolves, QuietHandshake
  <1> QED BY <1>3, <1>4

LEMMA HandshakeInductive == Base /\ Handshake /\ [Next]_vars => Handshake'
  <1> SUFFICES ASSUME Base, Handshake, [Next]_vars PROVE Handshake'
    OBVIOUS
  <1>1. CASE Subscribe \/ GetSnapshot \/ (\E t \in Sockets : TimerFires(t))
    BY <1>1, EnsureConnectedVoidHandshake DEF Subscribe, GetSnapshot, TimerFires
  <1>2. ASSUME NEW r \in Requests, Request(r) PROVE Handshake'
    BY <1>2, RequestHandshake
  <1>3. ASSUME NEW s \in Sockets, SocketOpen(s) \/ SocketClosing(s) PROVE Handshake'
    BY <1>3, QuietHandshake DEF SocketOpen, SocketClosing, srcVars
  <1>4. ASSUME NEW s \in Sockets, SocketClose(s) \/ ConnectFails(s) PROVE Handshake'
    <2>1. inflight' \subseteq inflight /\ UNCHANGED authed /\ hello' = FALSE
      BY <1>4 DEF SocketClose, ConnectFails, OnClose
    <2>2. \A a \in Sockets : settled'[a] = "resolved" => settled[a] = "resolved"
      BY <1>4 DEF SocketClose, ConnectFails
    <2> QED BY <2>1, <2>2, QuietHandshake
  <1>5. ASSUME NEW s \in Sockets, ReceiveChallenge(s) PROVE Handshake'
    BY <1>5, ReceiveChallengeHandshake
  <1>6. ASSUME NEW m \in inflight, NEW ok \in BOOLEAN, ConnectAnswer(m, ok) PROVE Handshake'
    BY <1>6, ConnectAnswerHandshake
  <1>7. ASSUME NEW m \in inflight, NEW ok \in BOOLEAN, SubscribeAnswer(m, ok) \/ CallAnswer(m, ok)
        PROVE  Handshake'
    BY <1>7, QuietHandshake DEF SubscribeAnswer, CallAnswer, Answered
  <1>8. ASSUME NEW i \in Ids, RequestTimeout(i) PROVE Handshake'
    <2>1. UNCHANGED <<inflight, authed, socket, hello>> /\ \E as : Fail(as)
      BY <1>8 DEF RequestTimeout, connVars
    <2> QED BY <2>1, FailResolves, QuietHandshake
  <1>9. CASE Close
    <2>1. UNCHANGED <<inflight, authed, hello>> /\ socket' = 0 /\ \E as : Fail(as)
      BY <1>9 DEF Close
    <2> QED BY <2>1, FailResolves, QuietHandshake
  <1>10. CASE UNCHANGED vars
    BY <1>10, QuietHandshake DEF vars, connVars, srcVars
  <1> QED
    BY <1>1, <1>2, <1>3, <1>4, <1>5, <1>6, <1>7, <1>8, <1>9, <1>10 DEF Next

\* Nothing but the connect request itself is ever sent on a socket whose
\* handshake the upstream has not accepted.
THEOREM HandshakeFirst == Spec => []CallsOnlyAfterHandshake
  <1>1. Init => Handshake
    BY DEF Init, Handshake, CallsOnlyAfterHandshake
  <1>2. Base /\ Handshake => CallsOnlyAfterHandshake
    BY DEF Handshake
  <1> QED BY BaseInit, BaseInductive, HandshakeInductive, <1>1, <1>2, PTL DEF Spec

=============================================================================
