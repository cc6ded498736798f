-------------------------- MODULE SessionRealtime --------------------------
(***************************************************************************)
(* The session page in the browser: the hook useSessionRealtime, the       *)
(* RealtimeGatewayClient objects it makes and the reducer of               *)
(* RealtimeState, against a gateway that broadcasts the events of every    *)
(* session to every socket.                                                *)
(*                                                                         *)
(* Clients are numbered in the order they are made.  A callback runs with  *)
(* the session key of the render that made it: a client keeps the key of   *)
(* its connectGateway, also when the route has moved on.  React runs the   *)
(* effects of a render some time after the dispatch that caused it, so     *)
(* activeRunRef follows chatRunId late (Render).                           *)
(***************************************************************************)
EXTENDS RealtimeState, SequencesExt

CONSTANTS Sessions,      \* session keys of the gateway, one is the first route
          DemoSession,   \* the session the mock frames name
          ApprovalIds,
          MaxClients,    \* bound on the clients of one behaviour
          MaxEvents,     \* bound on published events and user actions
          Inputs         \* the kinds of events and user actions of the instance

AllInputs == {"route", "submit", "stop", "sync", "delta", "tool", "report", "end",
              "message", "approval", "gap"}

ASSUME PageAssumption ==
    /\ MaxClients \in Nat \ {0} /\ MaxEvents \in Nat /\ Inputs \subseteq AllInputs
    /\ None \notin Sessions

VARIABLES
    sessionKey,   \* options.sessionKey, from the route
    mounted,
    page,         \* the reducer state and the refs, see InitPage
    renderedRun,  \* chatRunId of the last render whose effects have run
    closedByUser, \* closedByUserRef
    timer,        \* reconnectTimerRef: the session key of its closure, None for null
    clientRef,    \* clientRef, 0 for null
    made,         \* clients made so far
    sock,         \* connection of every client's socket
    keyOf,        \* the session key in every client's callbacks
    lastSeq,      \* lastSeq of every client
    wire,         \* frames sent to every socket and not yet received
    greeted,      \* clients the gateway has sent its hello
    seq,          \* last sequence number the gateway used
    running,      \* upstream: the run of every session, 0 when idle
    transcript,   \* upstream: the messages of every session
    clock         \* events and user actions so far

pageVars    == <<sessionKey, mounted, page, renderedRun, closedByUser, timer, clientRef>>
clientVars  == <<made, sock, keyOf, lastSeq>>
gatewayVars == <<wire, greeted, seq, running, transcript, clock>>
vars        == <<pageVars, clientVars, gatewayVars>>

Clients == 1..MaxClients

\* A client whose close() was called has no this.socket, and receives nothing more.
Ready(p, c) == c # 0 /\ sock[c] = "open" /\ c \notin p.closed

\* requests: the pending requests of all clients in the order they were made.
InitPage ==
    [ st         |-> realtimeReducer(initialRealtimeState, plain("connect.start")),
      activeRun  |-> None,     \* activeRunRef
      deferred   |-> FALSE,    \* pendingSessionMessageReloadRef
      requests   |-> << >>,
      mockFrames |-> << >>,    \* mock frames whose timers are armed
      closed     |-> {} ]      \* clients whose close() was called

\* The page is mounted on a session and has made its first client.
Init ==
    /\ sessionKey \in Sessions
    /\ mounted = TRUE
    /\ page = InitPage
    /\ renderedRun = None
    /\ closedByUser = FALSE
    /\ timer = None
    /\ clientRef = 1
    /\ made = 1
    /\ sock = [c \in Clients |-> IF c = 1 THEN "connecting" ELSE "unused"]
    /\ keyOf = [c \in Clients |-> IF c = 1 THEN sessionKey ELSE None]
    /\ lastSeq = [c \in Clients |-> None]
    /\ wire = [c \in Clients |-> << >>]
    /\ greeted = {}
    /\ seq = 0
    /\ running = [s \in Sessions |-> 0]
    /\ transcript = [s \in Sessions |-> << >>]
    /\ clock = 0

-----------------------------------------------------------------------------
(* What callbacks do to the page.                                          *)

\* React ignores a dispatch after the page is gone.
Dispatch(p, a) == IF mounted THEN [p EXCEPT !.st = realtimeReducer(@, a)] ELSE p

\* The run and the tool call of the demo are number 0.
mockRealtimeFrames ==
    << [chat(DemoSession, 0, "delta", 1) EXCEPT !.event = "agent"],
       toolStatus(DemoSession, 0, 0),
       chat(DemoSession, 0, "delta", 2),
       chat(DemoSession, 0, "final", 3),
       approval("approval.requested", "approval-1") >>

\* Mutant: the timers of an earlier replay stay armed.
replayMockFrames_NoClear(p) ==
    [Dispatch(p, plain("hello")) EXCEPT !.mockFrames = @ \o mockRealtimeFrames]

replayMockFrames(p) == [Dispatch(p, plain("hello")) EXCEPT !.mockFrames = mockRealtimeFrames]

\* The rejection of a request, as the code that made it handles it.
Rejected(p, q) ==
    CASE q.why = "message" -> Dispatch(p, plain("connect.error"))
      [] q.why = "gap"     -> [Dispatch(p, plain("connect.error")) EXCEPT !.closed = @ \cup {q.on}]
      [] q.why = "manual"  -> p
      [] q.why = "send"    -> replayMockFrames(Dispatch(p, plain("recover.start")))
      [] q.why = "stop"    -> [p EXCEPT !.closed = @ \cup {q.on}]

\* rejectPending of client c: its requests are rejected in the order they were
\* made, those of the other clients stay.
rejectPending(p, c) ==
    LET all == p.requests
        after[n \in 0..Len(all)] ==
            IF n = 0 THEN [p EXCEPT !.requests = << >>]
            ELSE IF all[n].on = c THEN Rejected(after[n - 1], all[n])
            ELSE [after[n - 1] EXCEPT !.requests = Append(@, all[n])]
    IN  after[Len(all)]

\* Mutant: a request is queued whatever the state of the socket.
Request_NoReadyCheck(p, c, why, key, text) ==
    [p EXCEPT !.requests = Append(@, [on |-> c, why |-> why, session |-> key, text |-> text,
                                      since |-> Len(transcript[key])])]

\* client.request: refused at once when the socket is not open.
Request(p, c, why, key, text) ==
    LET q == [on |-> c, why |-> why, session |-> key, text |-> text,
              since |-> Len(transcript[key])]
    IN  IF Ready(p, c) THEN [p EXCEPT !.requests = Append(@, q)] ELSE Rejected(p, q)

loadHistory(p, c, why, key) ==
    Request(IF why = "manual" THEN p ELSE Dispatch(p, plain("recover.start")), c, why, key, 0)

requestHistoryFromCurrentClient(p, key) ==
    IF clientRef = 0 THEN p ELSE loadHistory(p, clientRef, "message", key)

\* A session.message during a run only marks the reload as due; the terminal
\* frame of the run, or of any other, makes it.
handleFrame(p, key, f) ==
    LET q == Dispatch(p, eventAction(f))
    IN  CASE f.event = "session.message" /\ f.session = key /\ q.activeRun # None ->
                [q EXCEPT !.deferred = TRUE]
          [] f.event = "session.message" /\ f.session = key /\ q.activeRun = None ->
                requestHistoryFromCurrentClient(q, key)
          [] isTerminalRunFrame(f) /\ q.deferred ->
                requestHistoryFromCurrentClient(
                    [q EXCEPT !.deferred = FALSE, !.activeRun = None], key)
          [] OTHER -> q

\* Mutant: the reconnect timer that fired is not forgotten.
connectGateway_KeepsTimer(p, key) ==
    /\ made < MaxClients
    /\ made' = made + 1
    /\ sock' = [sock EXCEPT ![made + 1] = "connecting"]
    /\ keyOf' = [keyOf EXCEPT ![made + 1] = key]
    /\ clientRef' = made + 1
    /\ timer' = timer
    /\ page' = Dispatch(p, plain("connect.start"))
    /\ UNCHANGED lastSeq

\* connectGateway, from a page p: the earlier client is not closed.
connectGateway(p, key) ==
    /\ made < MaxClients
    /\ made' = made + 1
    /\ sock' = [sock EXCEPT ![made + 1] = "connecting"]
    /\ keyOf' = [keyOf EXCEPT ![made + 1] = key]
    /\ clientRef' = made + 1
    /\ timer' = None
    /\ page' = Dispatch(p, plain("connect.start"))
    /\ UNCHANGED lastSeq

-----------------------------------------------------------------------------
(* The page: renders, routes, buttons and timers.                          *)

\* The effect of chatRunId runs when a render shows another run than the last.
Render ==
    /\ mounted
    /\ page.st.chatRunId # renderedRun
    /\ renderedRun' = page.st.chatRunId
    /\ page' = [page EXCEPT !.activeRun = page.st.chatRunId]
    /\ UNCHANGED <<sessionKey, mounted, closedByUser, timer, clientRef, clientVars, gatewayVars>>

\* The cleanup of the connection effect.
Cleanup(p) ==
    [p EXCEPT !.deferred = FALSE, !.mockFrames = << >>,
              !.closed = IF clientRef = 0 THEN @ ELSE @ \cup {clientRef}]

\* The route changes to another session: cleanup, session.reset, connectGateway
\* and closedByUserRef back to false, in the effects of one render.
Navigate(s) ==
    /\ "route" \in Inputs
    /\ mounted /\ clock < MaxEvents /\ s \in Sessions \ {sessionKey}
    /\ clock' = clock + 1
    /\ sessionKey' = s
    /\ connectGateway([Cleanup(page) EXCEPT !.activeRun = None, !.st = initialRealtimeState], s)
    /\ renderedRun' = page.st.chatRunId
    /\ closedByUser' = FALSE
    /\ UNCHANGED <<mounted, wire, greeted, seq, running, transcript>>

Unmount ==
    /\ mounted
    /\ mounted' = FALSE
    /\ page' = Cleanup(page)
    /\ closedByUser' = TRUE
    /\ timer' = None
    /\ clientRef' = 0
    /\ UNCHANGED <<sessionKey, renderedRun, clientVars, gatewayVars>>

ReconnectTimer ==
    /\ timer # None
    /\ connectGateway(page, timer)
    /\ UNCHANGED <<sessionKey, mounted, renderedRun, closedByUser, gatewayVars>>

MockTimer ==
    /\ page.mockFrames # << >>
    /\ page' = [Dispatch(page, eventAction(Head(page.mockFrames))) EXCEPT !.mockFrames = Tail(@)]
    /\ UNCHANGED <<sessionKey, mounted, renderedRun, closedByUser, timer, clientRef,
                   clientVars, gatewayVars>>

UserActs(input, p) ==
    /\ input \in Inputs
    /\ mounted /\ clock < MaxEvents
    /\ clock' = clock + 1
    /\ page' = p
    /\ UNCHANGED <<sessionKey, mounted, renderedRun, closedByUser, timer, clientRef, clientVars,
                   wire, greeted, seq, running, transcript>>

submitTask ==
    LET message == [session |-> sessionKey, text |-> clock + 1]
    IN  UserActs("submit", Request(Dispatch(page, userQueue(message)), clientRef, "send",
                                   sessionKey, clock + 1))

stopTask ==
    LET p == [page EXCEPT !.mockFrames = << >>]
    IN  UserActs("stop",
                 IF renderedRun = None THEN Dispatch(p, plain("connect.close"))
                 ELSE Request(p, clientRef, "stop", sessionKey, 0))

syncHistory == UserActs("sync", loadHistory(page, clientRef, "manual", sessionKey))

-----------------------------------------------------------------------------
(* The socket of a client.                                                 *)

SocketOpen(c) ==
    /\ sock[c] = "connecting" /\ c \notin page.closed
    /\ sock' = [sock EXCEPT ![c] = "open"]
    /\ UNCHANGED <<pageVars, made, keyOf, lastSeq, gatewayVars>>

Receives(c, type) == Ready(page, c) /\ wire[c] # << >> /\ Head(wire[c]).type = type

ReceiveHello(c) ==
    /\ Receives(c, "hello")
    /\ wire' = [wire EXCEPT ![c] = Tail(@)]
    /\ lastSeq' = [lastSeq EXCEPT ![c] = None]
    /\ page' = Dispatch(page, plain("hello"))
    /\ UNCHANGED <<sessionKey, mounted, renderedRun, closedByUser, timer, clientRef,
                   made, sock, keyOf, greeted, seq, running, transcript, clock>>

\* An event frame: the gap check and its recovery first, then the handler.
ReceiveEvent(c) ==
    LET m   == Head(wire[c])
        gap == lastSeq[c] # None /\ m.seq > lastSeq[c] + 1
        p   == IF gap THEN loadHistory(page, c, "gap", keyOf[c]) ELSE page
    IN  /\ Receives(c, "event")
        /\ wire' = [wire EXCEPT ![c] = Tail(@)]
        /\ lastSeq' = [lastSeq EXCEPT ![c] = m.seq]
        /\ page' = handleFrame(p, keyOf[c], m.frame)
        /\ UNCHANGED <<sessionKey, mounted, renderedRun, closedByUser, timer, clientRef,
                       made, sock, keyOf, greeted, seq, running, transcript, clock>>

\* The answer to request i.  A history is the transcript as it was at some time
\* since the request; an accepted chat.send joins the transcript.
ReceiveAnswer(i, ok, n) ==
    LET q == page.requests[i]
        p == [page EXCEPT !.requests = RemoveAt(@, i)]
    IN  /\ Ready(page, q.on)
        /\ n \in q.since..Len(transcript[q.session])
        /\ page' = IF ~ok THEN Rejected(p, q)
                   ELSE IF q.why \in {"send", "stop"} THEN p
                   ELSE Dispatch(p, historyLoaded(SubSeq(transcript[q.session], 1, n)))
        /\ transcript' = IF ok /\ q.why = "send"
                         THEN [transcript EXCEPT ![q.session] =
                                 Append(@, [session |-> q.session, text |-> q.text])]
                         ELSE transcript
        /\ UNCHANGED <<sessionKey, mounted, renderedRun, closedByUser, timer, clientRef, clientVars,
                       wire, greeted, seq, running, clock>>

\* Mutant: the close handler reconnects whoever closed the socket.
TimerAfterClose_Always(c) == keyOf[c]

\* Mutant: a failed connect is reported and not retried.
TimerAfterClose_NoRetryAfterError(c) ==
    IF closedByUser \/ sock[c] = "connecting" THEN timer ELSE keyOf[c]

\* onStatusChange("closed"): the timer is armed unless the user left.
TimerAfterClose(c) == IF closedByUser THEN timer ELSE keyOf[c]

\* The connection fails, is lost, or its close() is done.  The rejections
\* of the pending requests are handled after the close handler has run.
SocketClosed(c) ==
    LET failed == IF sock[c] = "connecting" THEN Dispatch(page, plain("connect.error")) ELSE page
    IN  /\ sock[c] \in {"connecting", "open"}
        /\ sock' = [sock EXCEPT ![c] = "closed"]
        /\ wire' = [wire EXCEPT ![c] = << >>]
        /\ timer' = TimerAfterClose(c)
        /\ page' = rejectPending(IF closedByUser THEN failed
                                 ELSE Dispatch(failed, plain("recover.start")), c)
        /\ UNCHANGED <<sessionKey, mounted, renderedRun, closedByUser, clientRef, made, keyOf, lastSeq,
                       greeted, seq, running, transcript, clock>>

-----------------------------------------------------------------------------
(* The gateway and the runtime behind it.                                  *)

\* The hello waits for the upstream snapshot, while the socket already gets events.
GatewayHello(c) ==
    /\ sock[c] = "open" /\ c \notin greeted
    /\ greeted' = greeted \cup {c}
    /\ wire' = [wire EXCEPT ![c] = IF c \in page.closed THEN @ ELSE Append(@, [type |-> "hello"])]
    /\ UNCHANGED <<pageVars, clientVars, seq, running, transcript, clock>>

\* Every socket gets the event; skipped: an upstream number was lost or filtered.
Publish(input, frame, skipped) ==
    LET m == [type |-> "event", seq |-> seq + (IF skipped THEN 2 ELSE 1), frame |-> frame]
    IN  /\ input \in Inputs /\ clock < MaxEvents
        /\ skipped => "gap" \in Inputs
        /\ clock' = clock + 1
        /\ seq' = m.seq
        /\ wire' = [c \in Clients |-> IF Ready(page, c) THEN Append(wire[c], m) ELSE wire[c]]
        /\ UNCHANGED <<pageVars, clientVars, greeted>>

\* The next text of a session's run, or a tool of it; the first one starts the run.
RunGoesOn(s, skipped) ==
    LET run == IF running[s] = 0 THEN clock + 1 ELSE running[s]
    IN  /\ \/ Publish("delta", chat(s, run, "delta", clock + 1), skipped)
           \/ Publish("tool", toolStatus(s, run, run), skipped)
        /\ running' = [running EXCEPT ![s] = run]
        /\ UNCHANGED transcript

\* The lifecycle event of a finished run comes before its last chat event.
RunReported(s, skipped) ==
    /\ running[s] # 0
    /\ \E status \in {"completed", "error"} : Publish("report", runStatus(s, running[s], status), skipped)
    /\ UNCHANGED <<running, transcript>>

\* The last chat event; a final one with a text is a message of the session.
RunEnds(s, skipped) ==
    /\ running[s] # 0
    /\ running' = [running EXCEPT ![s] = 0]
    /\ \/ /\ Publish("end", chat(s, running[s], "final", clock + 1), skipped)
          /\ transcript' = [transcript EXCEPT ![s] =
                               Append(@, [session |-> s, text |-> clock + 1])]
       \/ /\ \E state \in TerminalChat : Publish("end", chat(s, running[s], state, 0), skipped)
          /\ UNCHANGED transcript

\* Somebody else wrote to the session.
MessageArrives(s, skipped) ==
    /\ Publish("message", sessionMessage(s), skipped)
    /\ transcript' = [transcript EXCEPT ![s] = Append(@, [session |-> s, text |-> clock + 1])]
    /\ UNCHANGED running

ApprovalChanges(skipped) ==
    /\ \E id \in ApprovalIds, event \in {"approval.requested", "approval.resolved"} :
          Publish("approval", approval(event, id), skipped)
    /\ UNCHANGED <<running, transcript>>

Next ==
    \/ Render
    \/ \E s \in Sessions : Navigate(s)
    \/ Unmount
    \/ ReconnectTimer
    \/ MockTimer
    \/ submitTask
    \/ stopTask
    \/ syncHistory
    \/ \E c \in Clients : \/ SocketOpen(c) \/ ReceiveHello(c) \/ ReceiveEvent(c)
                         \/ SocketClosed(c) \/ GatewayHello(c)
    \/ \E i \in DOMAIN page.requests, ok \in BOOLEAN, n \in 0..MaxEvents : ReceiveAnswer(i, ok, n)
    \/ \E s \in Sessions, skipped \in BOOLEAN :
          RunGoesOn(s, skipped) \/ RunReported(s, skipped) \/ RunEnds(s, skipped)
          \/ MessageArrives(s, skipped)
    \/ \E skipped \in BOOLEAN : ApprovalChanges(skipped)

Spec == Init /\ [][Next]_vars

-----------------------------------------------------------------------------
(* Properties.                                                             *)

Message == [session : Sessions \cup {DemoSession}, text : Nat]

States ==
    [ chatMessages       : Seq(Message),
      chatStream         : Seq(Nat),
      chatStreamSegments : Seq(Seq(Nat)),
      chatRunId          : Nat \cup {None},
      chatQueue          : Seq(Message),
      chatSending        : BOOLEAN,
      chatLoading        : BOOLEAN,
      toolStreamOrder    : Seq(Nat),
      pendingApprovals   : SUBSET (ApprovalIds \cup {"approval-1"}),
      connectionStatus   : {"idle", "connecting", "connected", "recovering", "closed", "error"} ]

Requests ==
    [ on : Clients, why : {"message", "gap", "manual", "send", "stop"},
      session : Sessions, text : Nat, since : Nat ]

\* The armed mock timers are those of one replay.
Pages ==
    [ st         : States,
      activeRun  : Nat \cup {None},
      deferred   : BOOLEAN,
      requests   : Seq(Requests),
      mockFrames : Suffixes(mockRealtimeFrames),
      closed     : SUBSET Clients ]

\* Type invariant of the page, its clients and what the gateway keeps.
TypeOK ==
    /\ sessionKey \in Sessions
    /\ mounted \in BOOLEAN /\ closedByUser \in BOOLEAN
    /\ timer \in Sessions \cup {None}
    /\ clientRef \in {0} \cup Clients
    /\ made \in Clients
    /\ sock \in [Clients -> {"unused", "connecting", "open", "closed"}]
    /\ keyOf \in [Clients -> Sessions \cup {None}]
    /\ page \in Pages
    /\ renderedRun \in Nat \cup {None}
    /\ greeted \subseteq Clients
    /\ seq \in Nat
    /\ running \in [Sessions -> Nat]
    /\ transcript \in [Sessions -> Seq(Message)]
    /\ clock \in 0..MaxEvents

Using(c) == sock[c] \in {"connecting", "open"} /\ c \notin page.closed

\* The route has not changed: every change makes a client with its own key.
Stayed == \A c \in Clients : keyOf[c] \in {None, sessionKey}

\* As long as the page stays on its session at most one client of it is
\* connected or connecting, so every event reaches the reducer once; while a
\* reconnect timer is armed none is (connectGateway never closes the client it
\* replaces, so this rests on when the timer is armed).
OneClient ==
    Stayed => \A c, d \in Clients : Using(c) => (Using(d) => c = d) /\ timer = None

\* The page on screen always has a socket, a close event to come or an armed
\* timer: no order of failures, stops and recoveries ends the retries.
PageNeverStranded ==
    mounted => timer # None \/ \E c \in Clients : sock[c] \in {"connecting", "open"}

\* Once a page that stayed on its session is gone no client stays connected and
\* no timer brings one back (the cleanup of the connection effect closes the
\* one client it knows, closedByUserRef).
UnmountedIsQuiet == ~mounted /\ Stayed => timer = None /\ \A c \in Clients : ~Using(c)

\* A pending request waits on a socket that has opened and whose close event is
\* still to come, and which rejects it if no answer came: request() refuses the
\* others, and rejectPending is never called again after the close event.  A
\* gateway that never answers leaves it pending while the socket is open.
RequestsCannotHang ==
    \A i \in DOMAIN page.requests : sock[page.requests[i].on] = "open"

Text(st) == FlattenSeq(st.chatStreamSegments) \o st.chatStream

\* As long as the page stays on a session and the same run goes on, no text of
\* it leaves the screen: not by tools, lost connections, histories loaded or
\* hello frames (applyToolStatus, history.loaded).
RunTextOnlyGrows ==
    [][ (/\ sessionKey' = sessionKey
         /\ page.st.chatRunId # None
         /\ page'.st.chatRunId = page.st.chatRunId)
        => IsPrefix(Text(page.st), Text(page'.st)) ]_vars

\* The page shows only messages and texts of the session its route names.
PageShowsItsSession ==
    mounted => \A i \in DOMAIN page.st.chatMessages : page.st.chatMessages[i].session = sessionKey

\* Nothing is under way: no frame, no answer, no timer, no effect, no run.
Quiet ==
    /\ mounted
    /\ \A c \in Clients : wire[c] = << >>
    /\ page.requests = << >> /\ page.mockFrames = << >> /\ timer = None
    /\ renderedRun = page.st.chatRunId
    /\ \A s \in Sessions : running[s] = 0
    /\ clientRef \in greeted /\ Using(clientRef)

\* After a lost connection the page catches up: the messages of its session
\* are on screen again once the new client has its hello.
ReconnectCatchesUp ==
    (Quiet /\ clientRef > 1 /\ ~page.deferred) =>
        \A i \in DOMAIN transcript[sessionKey] :
            \E j \in DOMAIN page.st.chatMessages :
                page.st.chatMessages[j] = transcript[sessionKey][i]

=============================================================================
