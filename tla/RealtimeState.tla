--------------------------- MODULE RealtimeState ---------------------------
(***************************************************************************)
(* The reducer behind the session page: RealtimeState as a record and      *)
(* realtimeReducer as a function of a state and an action.                 *)
(*                                                                         *)
(* A text is the number of the event that carries it, a stream the         *)
(* sequence of the texts appended to it, and the empty sequence stands for *)
(* null.  A message is [session, text].  Timestamps, titles, error texts,  *)
(* tool payloads and the hello snapshot are left out.                      *)
(***************************************************************************)
EXTENDS Naturals, Sequences

CONSTANT None   \* null

initialRealtimeState ==
    [ chatMessages       |-> << >>,
      chatStream         |-> << >>,
      chatStreamSegments |-> << >>,
      chatRunId          |-> None,
      chatQueue          |-> << >>,
      chatSending        |-> FALSE,
      chatLoading        |-> FALSE,
      toolStreamOrder    |-> << >>,
      pendingApprovals   |-> {},
      connectionStatus   |-> "idle" ]

-----------------------------------------------------------------------------
(* Event frames.  text is 0 when the message has none.                     *)

chat(session, run, state, text) ==
    [event |-> "chat", session |-> session, run |-> run, state |-> state, text |-> text]
toolStatus(session, run, toolCallId) ==
    [event |-> "tool.status", session |-> session, run |-> run, toolCallId |-> toolCallId]
runStatus(session, run, status) ==
    [event |-> "run.status", session |-> session, run |-> run, status |-> status]
sessionMessage(session) == [event |-> "session.message", session |-> session]
approval(event, id)     == [event |-> event, id |-> id]

TerminalChat == {"final", "aborted", "error"}
TerminalRun  == {"completed", "aborted", "failed", "error"}

isTerminalRunFrame(f) ==
    \/ f.event = "chat" /\ f.state \in TerminalChat
    \/ f.event = "run.status" /\ f.status \in TerminalRun

-----------------------------------------------------------------------------
(* How an event changes the state.                                         *)

\* Put the stream away as a segment, if there is one.
Archive(st) ==
    IF st.chatStream = << >> THEN st
    ELSE [st EXCEPT !.chatStreamSegments = Append(@, st.chatStream)]

finalizeChatRun(st) ==
    [st EXCEPT !.chatRunId = None, !.chatSending = FALSE, !.chatLoading = FALSE,
               !.chatStream = << >>, !.chatQueue = << >>]

\* Mutant: the first tool card drops the stream instead of archiving it.
applyToolStatus_NoArchive(st, f) ==
    [st EXCEPT !.chatStream = << >>,
               !.chatRunId = f.run,
               !.toolStreamOrder =
                    IF \E i \in DOMAIN @ : @[i] = f.toolCallId THEN @ ELSE Append(@, f.toolCallId)]

applyToolStatus(st, f) ==
    [Archive(st) EXCEPT
        !.chatStream = << >>,
        !.chatRunId = f.run,
        !.toolStreamOrder =
            IF \E i \in DOMAIN @ : @[i] = f.toolCallId THEN @ ELSE Append(@, f.toolCallId)]

\* A delta, and the `agent` frame of the demo: the event's run becomes the run.
applyDelta(st, f) == [st EXCEPT !.chatRunId = f.run, !.chatStream = Append(@, f.text)]

applyChatEvent(st, f) ==
    CASE f.state = "delta" ->
            IF f.text = 0 THEN st ELSE applyDelta(st, f)
      [] f.state = "final" /\ f.text # 0 ->
            finalizeChatRun(
                [Archive(st) EXCEPT
                    !.chatMessages = Append(@, [session |-> f.session, text |-> f.text])])
      [] f.state \in TerminalChat /\ ~(f.state = "final" /\ f.text # 0) ->
            finalizeChatRun(st)

applyRunStatus(st, f) == IF f.status \in TerminalRun THEN finalizeChatRun(st) ELSE st

applyEvent(st, f) ==
    CASE f.event = "chat"               -> applyChatEvent(st, f)
      [] f.event = "agent"              -> applyDelta(st, f)
      [] f.event = "tool.status"        -> applyToolStatus(st, f)
      [] f.event = "run.status"         -> applyRunStatus(st, f)
      [] f.event = "approval.requested" -> [st EXCEPT !.pendingApprovals = @ \cup {f.id}]
      [] f.event = "approval.resolved"  -> [st EXCEPT !.pendingApprovals = @ \ {f.id}]
      [] OTHER                          -> st

-----------------------------------------------------------------------------
(* The actions of the reducer.                                             *)

Status(st, status, loading) ==
    [st EXCEPT !.connectionStatus = status, !.chatLoading = loading]

userQueue(message)     == [type |-> "user.queue", message |-> message]
historyLoaded(history) == [type |-> "history.loaded", messages |-> history]
eventAction(f)         == [type |-> "event", frame |-> f]
plain(type)            == [type |-> type]

realtimeReducer(st, a) ==
    CASE a.type = "session.reset"  -> initialRealtimeState
      [] a.type = "connect.start"  -> Status(st, "connecting", st.chatLoading)
      [] a.type = "recover.start"  -> Status(st, "recovering", TRUE)
      [] a.type = "connect.error"  -> Status(st, "error", FALSE)
      [] a.type = "connect.close"  -> Status(st, "closed", FALSE)
      [] a.type = "hello"          -> Status(st, "connected", FALSE)
      [] a.type = "user.queue"     ->
            [st EXCEPT !.chatMessages = Append(@, a.message),
                       !.chatQueue    = Append(@, a.message),
                       !.chatSending  = TRUE,
                       !.chatLoading  = TRUE]
      [] a.type = "history.loaded" ->
            [Status(st, "connected", FALSE) EXCEPT !.chatMessages = a.messages]
      [] a.type = "event"          -> applyEvent(st, a.frame)

=============================================================================
