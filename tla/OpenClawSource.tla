-------------------------- MODULE OpenClawSource --------------------------
(***************************************************************************)
(* OpenClawGatewaySource: the one connection of the realtime gateway to    *)
(* the OpenClaw gateway.  It keeps a socket, a connect promise, the hello  *)
(* of the handshake, a map of pending requests and a reconnect timer, and  *)
(* changes them from WebSocket callbacks, timers and calls that may come   *)
(* in any order.  A socket that was replaced keeps its callbacks, so the   *)
(* events of an old socket act on the fields of a newer one.               *)
(*                                                                         *)
(* Sockets are numbered in the order they are opened; socket a belongs to  *)
(* connection attempt a, and so does its connect promise.  Code that runs  *)
(* in the microtasks of one callback is part of the callback's action.     *)
(***************************************************************************)
EXTENDS Naturals, FiniteSets

CONSTANTS MaxSockets,   \* bound on the connection attempts of one behaviour
          Requests      \* calls of request() by gateway clients

ASSUME MaxSocketsAssumption == MaxSockets \in Nat

VARIABLES
    sock,           \* readyState of every socket, as the ws library keeps it
    challenged,     \* sockets on which the upstream sent connect.challenge
    authed,         \* sockets on which the upstream accepted the handshake
    inflight,       \* requests the upstream has to answer: [id, on]
    opened,         \* number of sockets opened so far
    socket,         \* this.socket, 0 for null
    hello,          \* this.hello # null
    promise,        \* this.connectPromise: its attempt, 0 for null
    settled,        \* the state of each attempt's connect promise
    connectSent,    \* this.connectSent
    connectRequest, \* this.connectRequestId: the attempt it was made in, 0 for null
    challenger,     \* per attempt: the socket whose challenge made it send connect
    pending,        \* keys of this.pending
    timers,         \* armed reconnect timers, named by the socket whose close armed them
    reconnectTimer, \* this.reconnectTimer, 0 for null
    subscribed,     \* this.listeners.size > 0
    stopped,        \* this.stopped
    closing,        \* close(): "no", "waiting" for the socket's close, "done"
    closeWaits,     \* the socket close() waits for
    req,            \* the state of every call of request()
    waitsOn,        \* the attempt whose promise a waiting request awaits
    voidWaits,      \* attempts awaited by a `void` call, whose rejection nobody handles
    alive           \* the process runs: an unhandled rejection ends it

connVars == <<sock, challenged, authed, inflight, opened>>
srcVars  == <<socket, hello, promise, settled, connectSent, connectRequest, challenger, pending>>
timeVars == <<timers, reconnectTimer>>
stopVars == <<subscribed, stopped, closing, closeWaits>>
callVars == <<req, waitsOn, voidWaits, alive>>
vars     == <<connVars, srcVars, timeVars, stopVars, callVars>>

Sockets == 1..MaxSockets

ConnectId(a)   == [method |-> "connect", of |-> a]
SubscribeId(a) == [method |-> "sessions.subscribe", of |-> a]
CallId(r)      == [method |-> "call", of |-> r]

Ids == {ConnectId(a) : a \in Sockets} \cup {SubscribeId(a) : a \in Sockets}
       \cup {CallId(r) : r \in Requests}

Init ==
    /\ sock = [s \in Sockets |-> "unused"]
    /\ challenged = {} /\ authed = {} /\ inflight = {}
    /\ opened = 0
    /\ socket = 0 /\ hello = FALSE
    /\ promise = 0 /\ settled = [s \in Sockets |-> "none"]
    /\ connectSent = FALSE /\ connectRequest = 0
    /\ challenger = [s \in Sockets |-> 0]
    /\ pending = {}
    /\ timers = {} /\ reconnectTimer = 0
    /\ subscribed = FALSE /\ stopped = FALSE
    /\ closing = "no" /\ closeWaits = 0
    /\ req = [r \in Requests |-> "idle"]
    /\ waitsOn = [r \in Requests |-> 0]
    /\ voidWaits = {}
    /\ alive = TRUE

-----------------------------------------------------------------------------
(* ensureConnected: return the hello, await the promise, or open a socket. *)

\* Mutant: sendRequest refuses a socket that is not open, but not a null one.
CanSend_NullSocket == socket = 0 \/ sock[socket] = "open"

\* The check sendRequest starts with.
CanSend == socket # 0 /\ sock[socket] = "open"

\* Mutant: an open socket is taken for a connected one.
Connected_WithoutHello == CanSend

Connected == hello /\ CanSend

Attempt(a) ==
    /\ opened < MaxSockets
    /\ a = opened + 1
    /\ opened' = a
    /\ sock' = [sock EXCEPT ![a] = "connecting"]
    /\ socket' = a
    /\ hello' = FALSE
    /\ promise' = a
    /\ settled' = [settled EXCEPT ![a] = "pending"]
    /\ connectSent' = FALSE
    /\ connectRequest' = 0
    /\ UNCHANGED <<challenged, authed, inflight, challenger, pending>>

\* A `void ensureConnected()` (subscribe, the reconnect timer) or a getSnapshot
\* of a `void sendHello`: nothing follows, and nobody handles a rejection.
EnsureConnectedVoid ==
    \/ /\ Connected
       /\ UNCHANGED <<connVars, srcVars, voidWaits>>
    \/ /\ ~Connected /\ promise # 0
       /\ voidWaits' = voidWaits \cup {promise}
       /\ UNCHANGED <<connVars, srcVars>>
    \/ /\ ~Connected /\ promise = 0
       /\ Attempt(opened + 1)
       /\ voidWaits' = voidWaits \cup {opened + 1}

\* createRealtimeGatewayServer subscribes once.
Subscribe ==
    /\ alive /\ ~subscribed /\ closing = "no"
    /\ opened = 0
    /\ subscribed' = TRUE
    /\ EnsureConnectedVoid
    /\ UNCHANGED <<timeVars, stopped, closing, closeWaits, req, waitsOn, alive>>

\* A browser connects to the gateway, whose sendHello asks for the snapshot;
\* the gateway takes connections until close() of the source has returned.
GetSnapshot ==
    /\ alive /\ opened > 0 /\ closing # "done"
    /\ EnsureConnectedVoid
    /\ UNCHANGED <<timeVars, stopVars, req, waitsOn, alive>>

TimerFires(t) ==
    /\ alive /\ t \in timers
    /\ timers' = timers \ {t}
    /\ reconnectTimer' = 0
    /\ EnsureConnectedVoid
    /\ UNCHANGED <<stopVars, req, waitsOn, alive>>

\* request(): sendRequest follows as soon as ensureConnected has resolved.
Request(r) ==
    /\ alive /\ opened > 0
    /\ req[r] = "idle"
    /\ \/ /\ Connected \/ (promise # 0 /\ settled[promise] = "resolved")
          /\ IF CanSend
             THEN /\ req' = [req EXCEPT ![r] = "sent"]
                  /\ pending' = pending \cup {CallId(r)}
                  /\ inflight' = inflight \cup {[id |-> CallId(r), on |-> socket]}
             ELSE /\ req' = [req EXCEPT ![r] = "rejected"]
                  /\ UNCHANGED <<pending, inflight>>
          /\ UNCHANGED <<sock, challenged, authed, opened, socket, hello, promise, settled,
                         connectSent, connectRequest, challenger, waitsOn>>
       \/ /\ ~Connected /\ promise # 0 /\ settled[promise] # "resolved"
          /\ req' = [req EXCEPT ![r] = "waiting"]
          /\ waitsOn' = [waitsOn EXCEPT ![r] = promise]
          /\ UNCHANGED <<connVars, srcVars>>
       \/ /\ ~Connected /\ promise = 0
          /\ Attempt(opened + 1)
          /\ req' = [req EXCEPT ![r] = "waiting"]
          /\ waitsOn' = [waitsOn EXCEPT ![r] = opened + 1]
    /\ UNCHANGED <<timeVars, stopVars, voidWaits, alive>>

-----------------------------------------------------------------------------
(* fail: forget the promise, whichever attempt it is of, and reject the    *)
(* attempts in as.  A void waiter of a rejected attempt ends the process.  *)

Waiting(a) == {r \in Requests : req[r] = "waiting" /\ waitsOn[r] = a}

Rejects(as) == {a \in as : settled[a] = "pending"}

Fail(as) ==
    /\ promise' = IF as = {} THEN promise ELSE 0
    /\ settled' = [a \in Sockets |-> IF a \in Rejects(as) THEN "rejected" ELSE settled[a]]

AliveAfter(as) == alive /\ Rejects(as) \cap voidWaits = {}

RejectWaiters(as) ==
    [r \in Requests |-> IF \E a \in Rejects(as) : r \in Waiting(a) THEN "rejected" ELSE req[r]]

\* The close callback, of any socket: it clears the fields of the current one.
OnClose(s) ==
    /\ socket' = 0
    /\ hello' = FALSE
    /\ IF ~stopped /\ subscribed
       THEN timers' = timers \cup {s} /\ reconnectTimer' = s
       ELSE UNCHANGED timeVars
    /\ IF closing = "waiting" /\ closeWaits = s
       THEN closing' = "done" ELSE UNCHANGED closing
    /\ sock' = [sock EXCEPT ![s] = "closed"]
    /\ inflight' = {m \in inflight : m.on # s}

SocketOpen(s) ==
    /\ alive /\ sock[s] = "connecting"
    /\ sock' = [sock EXCEPT ![s] = "open"]
    /\ UNCHANGED <<challenged, authed, inflight, opened, srcVars, timeVars, stopVars, callVars>>

\* The upstream starts the closing handshake: readyState is CLOSING until the
\* close event.
SocketClosing(s) ==
    /\ alive /\ sock[s] = "open"
    /\ sock' = [sock EXCEPT ![s] = "closing"]
    /\ UNCHANGED <<challenged, authed, inflight, opened, srcVars, timeVars, stopVars, callVars>>

\* The connection is refused, or close() aborted it: ws emits error and close
\* in one turn.
ConnectFails(s) ==
    /\ alive /\ sock[s] \in {"connecting", "aborting"}
    /\ OnClose(s)
    /\ promise' = 0
    /\ settled' = [a \in Sockets |-> IF a \in Rejects({s}) THEN "rejected" ELSE settled[a]]
    /\ req' = RejectWaiters({s})
    /\ alive' = AliveAfter({s})
    /\ UNCHANGED <<challenged, authed, opened, connectSent, connectRequest, challenger, pending,
                   subscribed, stopped, closeWaits, waitsOn, voidWaits>>

\* Mutant: the close callback forgets to arm the timer when a timer is armed
\* or a connect promise is pending.
SocketClose_NoTimerIfBusy(s) ==
    /\ alive /\ sock[s] \in {"open", "closing"}
    /\ socket' = 0 /\ hello' = FALSE
    /\ IF ~stopped /\ subscribed /\ promise = 0
       THEN timers' = timers \cup {s} /\ reconnectTimer' = s
       ELSE UNCHANGED timeVars
    /\ closing' = IF closing = "waiting" /\ closeWaits = s THEN "done" ELSE closing
    /\ sock' = [sock EXCEPT ![s] = "closed"]
    /\ inflight' = {m \in inflight : m.on # s}
    /\ promise' = 0
    /\ UNCHANGED <<challenged, authed, opened, settled, connectSent, connectRequest, challenger,
                   pending, subscribed, stopped, closeWaits, callVars>>

\* An established socket closes: the connect promise is dropped unsettled.
SocketClose(s) ==
    /\ alive /\ sock[s] \in {"open", "closing"}
    /\ OnClose(s)
    /\ promise' = 0
    /\ UNCHANGED <<challenged, authed, opened, settled, connectSent, connectRequest, challenger,
                   pending, subscribed, stopped, closeWaits, callVars>>

-----------------------------------------------------------------------------
(* handleMessage.                                                          *)

\* connect.challenge on s: send connect, once per attempt, on this.socket.
ReceiveChallenge(s) ==
    /\ alive /\ sock[s] \in {"open", "closing"} /\ s \notin challenged
    /\ challenged' = challenged \cup {s}
    /\ \/ /\ connectSent
          /\ UNCHANGED <<inflight, srcVars, req, alive>>
       \/ /\ ~connectSent
          /\ connectSent' = TRUE
          /\ connectRequest' = opened
          /\ IF CanSend
             THEN /\ pending' = pending \cup {ConnectId(opened)}
                  /\ inflight' = inflight \cup {[id |-> ConnectId(opened), on |-> socket]}
                  /\ challenger' = [challenger EXCEPT ![opened] = s]
                  /\ UNCHANGED <<promise, settled, req, alive>>
             ELSE /\ Fail({s})
                  /\ req' = RejectWaiters({s})
                  /\ alive' = AliveAfter({s})
                  /\ UNCHANGED <<pending, inflight, challenger>>
          /\ UNCHANGED <<socket, hello>>
    /\ UNCHANGED <<sock, authed, opened, timeVars, stopVars, waitsOn, voidWaits>>

Answered(m) == inflight' = inflight \ {m}

Receives(m) == alive /\ m \in inflight /\ sock[m.on] \in {"open", "closing"}

\* hello-ok for the connect request of the current attempt: the hello is kept,
\* the promise resolved, sessions.subscribe sent, and every waiting request goes
\* out on this.socket.
HelloOk(m) ==
    LET waiters == IF settled[m.on] = "pending" THEN Waiting(m.on) ELSE {}
        sends   == {SubscribeId(m.on)} \cup {CallId(r) : r \in waiters}
    IN  /\ hello' = TRUE
        /\ settled' = [settled EXCEPT ![m.on] = IF @ = "pending" THEN "resolved" ELSE @]
        /\ IF CanSend
           THEN /\ pending' = (pending \ {m.id}) \cup sends
                /\ inflight' = (inflight \ {m}) \cup {[id |-> i, on |-> socket] : i \in sends}
                /\ req' = [r \in Requests |-> IF r \in waiters THEN "sent" ELSE req[r]]
                /\ UNCHANGED alive
           ELSE /\ pending' = pending \ {m.id}
                /\ Answered(m)
                /\ req' = [r \in Requests |-> IF r \in waiters THEN "rejected" ELSE req[r]]
                /\ alive' = FALSE
        /\ UNCHANGED <<promise, connectSent, connectRequest, challenger, socket>>

\* The answer to a connect request.  Only the current attempt's sets the hello;
\* a late one of an earlier attempt authenticates its socket all the same.
ConnectAnswer(m, ok) ==
    LET a == m.id.of
    IN  /\ Receives(m) /\ m.id = ConnectId(a)
        /\ authed' = IF ok THEN authed \cup {m.on} ELSE authed
        /\ \/ /\ m.id \notin pending
              /\ Answered(m)
              /\ UNCHANGED <<srcVars, req, alive>>
           \/ /\ m.id \in pending /\ ok /\ connectRequest = a
              /\ HelloOk(m)
           \/ /\ m.id \in pending /\ ok /\ connectRequest # a
              /\ pending' = pending \ {m.id}
              /\ Answered(m)
              /\ UNCHANGED <<socket, hello, promise, settled, connectSent, connectRequest,
                             challenger, req, alive>>
           \/ /\ m.id \in pending /\ ~ok
              /\ pending' = pending \ {m.id}
              /\ Answered(m)
              /\ LET s == IF connectRequest = a THEN m.on ELSE challenger[a]
                 IN  /\ Fail({s})
                     /\ req' = RejectWaiters({s})
                     /\ alive' = AliveAfter({s})
              /\ UNCHANGED <<socket, hello, connectSent, connectRequest, challenger>>
        /\ UNCHANGED <<sock, challenged, opened, timeVars, stopVars, waitsOn, voidWaits>>

\* The answer to sessions.subscribe: nobody handles its rejection.
SubscribeAnswer(m, ok) ==
    /\ Receives(m) /\ m.id.method = "sessions.subscribe"
    /\ Answered(m)
    /\ pending' = pending \ {m.id}
    /\ alive' = (ok \/ m.id \notin pending)
    /\ UNCHANGED <<sock, challenged, authed, opened, socket, hello, promise, settled, connectSent,
                   connectRequest, challenger, timeVars, stopVars, req, waitsOn, voidWaits>>

CallAnswer(m, ok) ==
    /\ Receives(m) /\ m.id.method = "call"
    /\ Answered(m)
    /\ pending' = pending \ {m.id}
    /\ req' = IF m.id \in pending
              THEN [req EXCEPT ![m.id.of] = IF ok THEN "resolved" ELSE "rejected"]
              ELSE req
    /\ UNCHANGED <<sock, challenged, authed, opened, socket, hello, promise, settled, connectSent,
                   connectRequest, challenger, timeVars, stopVars, waitsOn, voidWaits, alive>>

-----------------------------------------------------------------------------
(* The timer of a pending request, and close().                            *)

\* Mutant: the timer is cleared with the socket, so a request whose socket
\* is gone never times out.
RequestTimeout_OnlyIfConnected(i) ==
    /\ alive /\ CanSend /\ i \in pending
    /\ pending' = pending \ {i}
    /\ LET as == IF i.method = "connect" THEN {challenger[i.of]} ELSE {}
       IN  /\ Fail(as)
           /\ req' = [r \in Requests |-> IF i = CallId(r) THEN "rejected" ELSE RejectWaiters(as)[r]]
           /\ alive' = (AliveAfter(as) /\ i.method # "sessions.subscribe")
    /\ UNCHANGED <<connVars, socket, hello, connectSent, connectRequest, challenger,
                   timeVars, stopVars, waitsOn, voidWaits>>

RequestTimeout(i) ==
    /\ alive /\ i \in pending
    /\ pending' = pending \ {i}
    /\ LET as == IF i.method = "connect" THEN {challenger[i.of]} ELSE {}
       IN  /\ Fail(as)
           /\ req' = [r \in Requests |-> IF i = CallId(r) THEN "rejected" ELSE RejectWaiters(as)[r]]
           /\ alive' = (AliveAfter(as) /\ i.method # "sessions.subscribe")
    /\ UNCHANGED <<connVars, socket, hello, connectSent, connectRequest, challenger,
                   timeVars, stopVars, waitsOn, voidWaits>>

\* The gateway unsubscribes and calls close(): the held timer is cleared, the
\* pending requests rejected, and this.socket, if any, is closed and awaited.
Close ==
    LET as == {challenger[i.of] : i \in {j \in pending : j.method = "connect"}}
    IN  /\ alive /\ subscribed /\ closing = "no"
        /\ subscribed' = FALSE
        /\ stopped' = TRUE
        /\ timers' = timers \ {reconnectTimer}
        /\ reconnectTimer' = 0
        /\ pending' = {}
        /\ Fail(as)
        /\ req' = [r \in Requests |-> IF CallId(r) \in pending THEN "rejected" ELSE RejectWaiters(as)[r]]
        /\ alive' = (AliveAfter(as) /\ \A i \in pending : i.method # "sessions.subscribe")
        /\ socket' = 0
        /\ closeWaits' = socket
        /\ closing' = IF socket = 0 THEN "done" ELSE "waiting"
        /\ sock' = IF socket = 0 THEN sock
                   ELSE [sock EXCEPT ![socket] = CASE @ = "connecting" -> "aborting"
                                                   [] @ = "open" -> "closing"
                                                   [] OTHER -> @]
        /\ UNCHANGED <<challenged, authed, inflight, opened, hello, connectSent, connectRequest,
                       challenger, waitsOn, voidWaits>>

Next ==
    \/ Subscribe
    \/ GetSnapshot
    \/ \E t \in Sockets : TimerFires(t)
    \/ \E r \in Requests : Request(r)
    \/ \E s \in Sockets : \/ SocketOpen(s) \/ SocketClosing(s) \/ SocketClose(s)
                         \/ ConnectFails(s) \/ ReceiveChallenge(s)
    \/ \E m \in inflight, ok \in BOOLEAN :
          ConnectAnswer(m, ok) \/ SubscribeAnswer(m, ok) \/ CallAnswer(m, ok)
    \/ \E i \in Ids : RequestTimeout(i)
    \/ Close

Spec == Init /\ [][Next]_vars

\* A setTimeout callback runs once its delay is over.
FairSpec == Spec /\ \A i \in Ids : WF_vars(RequestTimeout(i))

-----------------------------------------------------------------------------
(* Properties.                                                             *)

ConnTypeOK ==
    /\ sock \in [Sockets -> {"unused", "connecting", "aborting", "open", "closing", "closed"}]
    /\ challenged \in SUBSET Sockets
    /\ authed \in SUBSET Sockets
    /\ inflight \in SUBSET [id : Ids, on : Sockets]
    /\ opened \in 0..MaxSockets

SrcTypeOK ==
    /\ socket \in {0} \cup Sockets
    /\ hello \in BOOLEAN
    /\ promise \in {0} \cup Sockets
    /\ settled \in [Sockets -> {"none", "pending", "resolved", "rejected"}]
    /\ connectSent \in BOOLEAN
    /\ connectRequest \in {0} \cup Sockets
    /\ challenger \in [Sockets -> {0} \cup Sockets]
    /\ pending \in SUBSET Ids

StopTypeOK ==
    /\ timers \in SUBSET Sockets
    /\ reconnectTimer \in {0} \cup Sockets
    /\ subscribed \in BOOLEAN
    /\ stopped \in BOOLEAN
    /\ closing \in {"no", "waiting", "done"}
    /\ closeWaits \in {0} \cup Sockets

CallTypeOK ==
    /\ req \in [Requests -> {"idle", "waiting", "sent", "resolved", "rejected"}]
    /\ waitsOn \in [Requests -> {0} \cup Sockets]
    /\ voidWaits \in SUBSET Sockets
    /\ alive \in BOOLEAN

\* Type invariant of the source and of the upstream's side of its sockets.
TypeOK == ConnTypeOK /\ SrcTypeOK /\ StopTypeOK /\ CallTypeOK

Live(s) == sock[s] \in {"connecting", "aborting", "open", "closing"}

\* While somebody listens, the source is never left with neither a socket nor
\* a reconnect timer, whatever callbacks of old sockets cleared its fields: the
\* next event always comes (ensureConnected, close callback).
NeverStranded ==
    (alive /\ subscribed) => (\E s \in Sockets : Live(s)) \/ timers # {}

\* A client's request only goes out on a socket whose handshake the upstream
\* has accepted (request awaits ensureConnected, which resolves at hello-ok).
CallsOnlyAfterHandshake ==
    \A m \in inflight : m.id.method # "connect" => m.on \in authed

\* A request that was sent is answered, times out, or is rejected by close(),
\* even if its socket is long gone (the timer of sendRequest).
SentRequestsSettle ==
    \A r \in Requests : req[r] = "sent" ~> (req[r] \in {"resolved", "rejected"} \/ ~alive)

\* When an established upstream connection is lost, the gateway process stays
\* up and reconnects (reconnectTimer).
SurvivesUpstreamOutage == (\E s \in authed : sock[s] = "closed") => alive

=============================================================================
