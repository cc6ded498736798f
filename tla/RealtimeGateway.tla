-------------------------- MODULE RealtimeGateway --------------------------
(***************************************************************************)
(* The realtime gateway between OpenClaw and its WebSocket clients:        *)
(* createRealtimeGatewayServer with its set of clients, hello, broadcast   *)
(* and close(), the normalisation of upstream events, the sequence numbers *)
(* of RealtimeBridgeAdapter, and the gap detection the browser client does *)
(* with them.                                                              *)
(*                                                                         *)
(* An upstream frame is what normalizeOpenClawEvent looks at: its event,   *)
(* its stream, its phase and whether the payload has the fields it needs.  *)
(* A frame sent to a socket is taken to be received: a WebSocket keeps the *)
(* order, and a client that loses its socket starts again with a new one.  *)
(* Requests and their answers are in OpenClawSource and SessionRealtime.   *)
(***************************************************************************)
EXTENDS Naturals

CONSTANTS Sockets,   \* the WebSocket connections of one behaviour
          None,      \* null
          MaxSeq     \* bound on upstream's sequence numbers

ASSUME GatewayAssumption ==
    /\ MaxSeq \in Nat
    /\ None \notin Nat

VARIABLES
    upSeq,         \* upstream: the number of its last broadcast
    nextEventSeq,  \* adapter.nextEventSeq, the largest number used
    phase,         \* of close(): serving, sourceClosing, closing, closed
    sock,          \* every socket as the WebSocketServer sees it
    clients,       \* the set clients
    awaiting,      \* sockets whose sendHello awaits the snapshot
    greeted,       \* sockets that were sent their hello
    lastSeq,       \* lastSeq of the client at the other end
    counted,       \* clients whose lastSeq is the number this upstream gave to
                   \* the last event they received
    behind,        \* those of them that missed a numbered event since
    misled         \* clients that took a later event for the next one

upstreamVars == <<upSeq, nextEventSeq>>
serverVars   == <<phase, sock, clients, awaiting, greeted>>
clientVars   == <<lastSeq, counted, behind, misled>>
vars         == <<upstreamVars, serverVars, clientVars>>

-----------------------------------------------------------------------------
(* What the source makes of an upstream frame.                             *)

\* The frames upstream sends, as far as the source tells them apart.
UpstreamFrames ==
    [event  : {"chat", "session.message", "sessions.changed", "shutdown",
               "exec.approval.requested", "plugin.approval.requested",
               "exec.approval.resolved", "plugin.approval.resolved", "tick"},
     stream : {None}, phase : {None}, whole : BOOLEAN]
    \cup [event : {"agent"}, stream : {"tool", "lifecycle", "assistant"},
          phase : {"start", "end", "error", "fallback"}, whole : BOOLEAN]
    \cup [event : {"session.tool"}, stream : {None}, phase : {"start"}, whole : BOOLEAN]

normalizeEventName(event) ==
    CASE event \in {"session.message", "sessions.changed", "shutdown"} -> {event}
      [] event \in {"exec.approval.requested", "plugin.approval.requested"} -> {"approval.requested"}
      [] event \in {"exec.approval.resolved", "plugin.approval.resolved"} -> {"approval.resolved"}
      [] OTHER -> {}

\* The run's status, and nothing for a phase that is not one of these three.
normalizeRunStatusPayload(f) ==
    IF f.phase \in {"start", "end", "error"} THEN {"run.status"} ELSE {}

\* A tool event needs its call, its run and its session.
normalizeToolStatusPayload(f) == IF f.whole THEN {"tool.status"} ELSE {}

\* The events a frame becomes: none, or one.
normalizeOpenClawEvent(f) ==
    CASE f.event = "chat" -> IF f.whole THEN {"chat"} ELSE {}
      [] f.event = "agent" /\ f.stream = "tool" -> normalizeToolStatusPayload(f)
      [] f.event = "agent" /\ f.stream = "lifecycle" -> normalizeRunStatusPayload(f)
      [] f.event = "agent" /\ f.stream \notin {"tool", "lifecycle"} -> {}
      [] f.event = "session.tool" -> normalizeToolStatusPayload(f)
      [] f.event \notin {"chat", "agent", "session.tool"} -> normalizeEventName(f.event)

Shown(f) == normalizeOpenClawEvent(f) # {}

\* The frames upstream sends to its subscribers alone, and without a number.
Targeted(f) ==
    \/ f.event \in {"session.message", "sessions.changed", "session.tool"}
    \/ f.event = "agent" /\ f.stream = "tool"

-----------------------------------------------------------------------------
(* Events.                                                                 *)

Open(c) == sock[c] = "open"

Init ==
    /\ upSeq = 0 /\ nextEventSeq = 0
    /\ phase = "serving"
    /\ sock = [c \in Sockets |-> "new"]
    /\ clients = {} /\ awaiting = {} /\ greeted = {}
    /\ lastSeq = [c \in Sockets |-> None]
    /\ counted = {} /\ behind = {} /\ misled = {}

\* Mutant: the client accepts a number that skips one.
IsGap_OffByOne(c, seq) == lastSeq[c] # None /\ seq > lastSeq[c] + 2

\* The client's check of an event's number.
IsGap(c, seq) == lastSeq[c] # None /\ seq > lastSeq[c] + 1

\* The clients of the set that are still open, which every event reaches.
Reached == {c \in clients : Open(c)}

\* createEventFrame and publish.
createEventFrame(seq) ==
    /\ nextEventSeq' = IF seq > nextEventSeq THEN seq ELSE nextEventSeq
    /\ lastSeq' = [c \in Sockets |-> IF c \in Reached THEN seq ELSE lastSeq[c]]

\* An upstream event with its number, published if somebody is to see it; a gap
\* makes the client reload its history.  The source's listener is removed when
\* close() begins.
NumberedEvent(f) ==
    /\ ~Targeted(f)
    /\ upSeq < MaxSeq
    /\ upSeq' = upSeq + 1
    /\ IF Shown(f) /\ phase = "serving"
       THEN /\ createEventFrame(upSeq + 1)
            /\ counted' = counted \cup Reached
            /\ behind' = behind \ {c \in Reached : IsGap(c, upSeq + 1)}
            /\ misled' = misled \cup {c \in Reached \cap behind : ~IsGap(c, upSeq + 1)}
       ELSE UNCHANGED <<nextEventSeq, clientVars>>
    /\ UNCHANGED serverVars

\* One without a number gets the one after the largest used.  What was missed
\* before it is not looked for any more.
TargetedEvent(f) ==
    /\ Targeted(f)
    /\ Shown(f) /\ phase = "serving"
    /\ nextEventSeq < MaxSeq
    /\ createEventFrame(nextEventSeq + 1)
    /\ counted' = counted \ Reached
    /\ behind' = behind \ Reached
    /\ UNCHANGED <<upSeq, misled, serverVars>>

\* A numbered event that does not reach the gateway: upstream skips a slow
\* connection, or the connection is being replaced.  One without a number takes
\* none with it, and leaves no trace at all.
LostEvent(f) ==
    /\ ~Targeted(f)
    /\ upSeq < MaxSeq
    /\ Shown(f) /\ phase = "serving"
    /\ upSeq' = upSeq + 1
    /\ behind' = behind \cup {c \in clients \cap greeted \cap counted : Open(c)}
    /\ UNCHANGED <<nextEventSeq, lastSeq, counted, misled, serverVars>>

\* Upstream starts again and counts from one.
UpstreamRestart ==
    /\ upSeq # 0
    /\ upSeq' = 0
    /\ counted' = {} /\ behind' = {}
    /\ UNCHANGED <<nextEventSeq, lastSeq, misled, serverVars>>

-----------------------------------------------------------------------------
(* Connections and shutdown.                                               *)

\* The upgrade handler is removed after the source is closed.
Accepting == phase \in {"serving", "sourceClosing"}

\* A client is in the broadcast set before its hello.
Connection(c) ==
    /\ Accepting
    /\ sock[c] = "new"
    /\ sock' = [sock EXCEPT ![c] = "open"]
    /\ clients' = clients \cup {c}
    /\ awaiting' = awaiting \cup {c}
    /\ UNCHANGED <<upstreamVars, phase, greeted, clientVars>>

\* The snapshot is there; a hello makes the client forget its number.
sendHello(c) ==
    /\ c \in awaiting
    /\ awaiting' = awaiting \ {c}
    /\ greeted' = IF Open(c) THEN greeted \cup {c} ELSE greeted
    /\ lastSeq' = IF Open(c) THEN [lastSeq EXCEPT ![c] = None] ELSE lastSeq
    /\ counted' = IF Open(c) THEN counted \ {c} ELSE counted
    /\ UNCHANGED <<upstreamVars, phase, sock, clients, behind, misled>>

\* Mutant: the close handler leaves the socket in the set.
SocketClosed_NoDelete(c) ==
    /\ sock[c] \in {"open", "closing"}
    /\ sock' = [sock EXCEPT ![c] = "closed"]
    /\ lastSeq' = [lastSeq EXCEPT ![c] = None]
    /\ counted' = counted \ {c} /\ behind' = behind \ {c}
    /\ UNCHANGED <<upstreamVars, phase, clients, awaiting, greeted, misled>>

\* The client leaves, its connection is lost, or the close handshake is done.
SocketClosed(c) ==
    /\ sock[c] \in {"open", "closing"}
    /\ sock' = [sock EXCEPT ![c] = "closed"]
    /\ clients' = clients \ {c}
    /\ lastSeq' = [lastSeq EXCEPT ![c] = None]
    /\ counted' = counted \ {c} /\ behind' = behind \ {c}
    /\ UNCHANGED <<upstreamVars, phase, awaiting, greeted, misled>>

\* close() unsubscribes and closes the source.
Close ==
    /\ phase = "serving"
    /\ phase' = "sourceClosing"
    /\ UNCHANGED <<upstreamVars, sock, clients, awaiting, greeted, clientVars>>

\* Mutant: the clients are not closed.
SourceClosed_ClientsStay ==
    /\ phase = "sourceClosing"
    /\ phase' = "closing"
    /\ UNCHANGED <<upstreamVars, sock, clients, awaiting, greeted, clientVars>>

\* The source is closed: no upgrades from here, and every client is closed.
SourceClosed ==
    /\ phase = "sourceClosing"
    /\ phase' = "closing"
    /\ sock' = [c \in Sockets |-> IF c \in clients THEN "closing" ELSE sock[c]]
    /\ UNCHANGED <<upstreamVars, clients, awaiting, greeted, clientVars>>

\* The WebSocketServer emits close when its last socket is gone; the HTTP
\* server is closed after it.
ServerClosed ==
    /\ phase = "closing"
    /\ \A c \in Sockets : sock[c] \notin {"open", "closing"}
    /\ phase' = "closed"
    /\ UNCHANGED <<upstreamVars, sock, clients, awaiting, greeted, clientVars>>

Next ==
    \/ \E f \in UpstreamFrames : NumberedEvent(f) \/ TargetedEvent(f) \/ LostEvent(f)
    \/ UpstreamRestart
    \/ \E c \in Sockets : Connection(c) \/ sendHello(c) \/ SocketClosed(c)
    \/ Close \/ SourceClosed \/ ServerClosed

Spec == Init /\ [][Next]_vars

\* The source's close() waits for the close event of its socket, and the ws
\* library ends a close handshake that gets no answer after thirty seconds.
FairSpec ==
    /\ Spec
    /\ WF_vars(SourceClosed) /\ WF_vars(ServerClosed)
    /\ \A c \in Sockets : WF_vars(sock[c] = "closing" /\ SocketClosed(c))

-----------------------------------------------------------------------------
(* Properties.                                                             *)

\* Type invariant; the set clients is the set of sockets in use.
TypeOK ==
    /\ upSeq \in 0..MaxSeq /\ nextEventSeq \in 0..MaxSeq
    /\ phase \in {"serving", "sourceClosing", "closing", "closed"}
    /\ sock \in [Sockets -> {"new", "open", "closing", "closed"}]
    /\ clients = {c \in Sockets : sock[c] \in {"open", "closing"}}
    /\ awaiting \subseteq Sockets /\ greeted \subseteq Sockets
    /\ lastSeq \in [Sockets -> 0..MaxSeq \cup {None}]
    /\ counted \subseteq Sockets /\ behind \subseteq Sockets /\ misled \subseteq Sockets

\* A client that has its hello, has last received a numbered event and then
\* misses one or more numbered events the gateway would have shown it sees a gap
\* at the next one and reloads its history, whatever upstream sends that the
\* gateway filters (createEventFrame, the lastSeq check of the client).  Nothing
\* is promised of a loss that an event without a number or a restart of upstream
\* follows or precedes, nor of the loss of an event without a number.
LossIsDetected == misled = {}

\* close() of the gateway returns, whoever connects while it is under way and
\* however many clients never answer (upgrade handler, wss.close).
ShutdownFinishes == phase = "sourceClosing" ~> phase = "closed"

=============================================================================
