----------------------- MODULE SessionRealtimeProofs -----------------------
(***************************************************************************)
(* Proofs about the session page for every set of sessions and any number  *)
(* of clients and events.                                                  *)
(*                                                                         *)
(* The clients of a page that stayed on its session are only ever the      *)
(* newest one: that is what the invariant has to add, together with the    *)
(* client a navigation leaves behind, the sockets of the pending requests  *)
(* and what is in the frames on their way.                                 *)
(***************************************************************************)
EXTENDS SessionRealtime, SequenceTheorems, WellFoundedInduction, TLAPS

-----------------------------------------------------------------------------
(* The inductive invariant.                                                *)

AnySession == Sessions \cup {DemoSession}
Approvals  == ApprovalIds \cup {"approval-1"}

\* The event frames of the gateway and of the demo.
Frames ==
    [event : {"chat", "agent"}, session : AnySession, run : Nat,
     state : {"delta"} \cup TerminalChat, text : Nat]
    \cup [event : {"tool.status"}, session : AnySession, run : Nat, toolCallId : Nat]
    \cup [event : {"run.status"}, session : AnySession, run : Nat, status : {"completed", "error"}]
    \cup [event : {"session.message"}, session : AnySession]
    \cup [event : {"approval.requested", "approval.resolved"}, id : Approvals]

Packets == [type : {"hello"}] \cup [type : {"event"}, seq : Nat, frame : Frames]

\* What travels to the sockets.
WireOK == wire \in [Clients -> Seq(Packets)]

Connected(c) == sock[c] \in {"connecting", "open"}

\* A client has a socket and a session from its connectGateway on.
ClientsOK ==
    /\ \A c \in Clients : c > made => sock[c] = "unused" /\ keyOf[c] = None
    /\ \A c \in Clients : c <= made => sock[c] # "unused" /\ keyOf[c] \in Sessions
    /\ \E c \in Clients : keyOf[c] = sessionKey

\* The hook holds the newest client until the page is left.
HookOK ==
    /\ mounted => clientRef = made /\ ~closedByUser
    /\ ~mounted => closedByUser /\ timer = None /\ clientRef = 0

\* Only the newest client of a page that stayed is connected, and no timer is
\* armed while it is; leaving the page closes it.
NewestOnly ==
    Stayed => \A c \in Clients :
        Connected(c) => c = made /\ timer = None /\ (mounted \/ c \in page.closed)

\* A request is pending on the socket it was sent on.
OnOpenSockets(p, so) == \A i \in DOMAIN p.requests : so[p.requests[i].on] = "open"

Inv ==
    /\ TypeOK
    /\ WireOK
    /\ ClientsOK
    /\ HookOK
    /\ NewestOnly
    /\ PageNeverStranded
    /\ OnOpenSockets(page, sock)

-----------------------------------------------------------------------------
(* The reducer keeps the type of its state.                                *)

\* The actions without a payload (realtimeReducer).
LEMMA PlainReduces ==
    ASSUME NEW st \in States,
           NEW t \in {"connect.start", "recover.start", "connect.error", "connect.close", "hello"}
    PROVE  realtimeReducer(st, plain(t)) \in States
BY DEF realtimeReducer, plain, Status, States

\* user.queue (realtimeReducer).
LEMMA QueueReduces ==
    ASSUME NEW st \in States, NEW m \in Message
    PROVE  realtimeReducer(st, userQueue(m)) \in States
<1> DEFINE cm == Append(st.chatMessages, m)
           cq == Append(st.chatQueue, m)
<1>1. cm \in Seq(Message) /\ cq \in Seq(Message)
  <2>1. st.chatMessages \in Seq(Message) /\ st.chatQueue \in Seq(Message)
    BY DEF States
  <2>2. QED
    BY <2>1
<1>2. realtimeReducer(st, userQueue(m))
        = [st EXCEPT !.chatMessages = cm, !.chatQueue = cq, !.chatSending = TRUE, !.chatLoading = TRUE]
  BY DEF realtimeReducer, userQueue
<1> HIDE DEF cm, cq
<1>3. QED
  BY <1>1, <1>2 DEF States

\* history.loaded (realtimeReducer).
LEMMA HistoryReduces ==
    ASSUME NEW st \in States, NEW h \in Seq(Message)
    PROVE  realtimeReducer(st, historyLoaded(h)) \in States
BY DEF realtimeReducer, historyLoaded, Status, States

\* A stream put away (applyToolStatus, applyChatEvent).
LEMMA ArchiveType ==
    ASSUME NEW st \in States
    PROVE  Archive(st) \in States
<1> DEFINE sg == Append(st.chatStreamSegments, st.chatStream)
<1>1. sg \in Seq(Seq(Nat))
  <2>1. st.chatStreamSegments \in Seq(Seq(Nat)) /\ st.chatStream \in Seq(Nat)
    BY DEF States
  <2>2. QED
    BY <2>1
<1>2. Archive(st) = IF st.chatStream = << >> THEN st ELSE [st EXCEPT !.chatStreamSegments = sg]
  BY DEF Archive
<1> HIDE DEF sg
<1>3. QED
  BY <1>1, <1>2 DEF States

\* The end of a run (finalizeChatRun).
LEMMA FinalizeType ==
    ASSUME NEW st \in States
    PROVE  finalizeChatRun(st) \in States
<1> DEFINE e == << >>
<1>1. e \in Seq(Nat) /\ e \in Seq(Message)
  OBVIOUS
<1>2. finalizeChatRun(st) = [st EXCEPT !.chatRunId = None, !.chatSending = FALSE,
                                       !.chatLoading = FALSE, !.chatStream = e, !.chatQueue = e]
  BY DEF finalizeChatRun
<1> HIDE DEF e
<1>3. QED
  BY <1>1, <1>2 DEF States

\* The fields a tool card and an approval change (applyToolStatus,
\* applyApprovalRequested).
LEMMA ToolType ==
    ASSUME NEW st \in States, NEW e \in Seq(Nat), NEW r \in Nat, NEW ts \in Seq(Nat)
    PROVE  [st EXCEPT !.chatStream = e, !.chatRunId = r, !.toolStreamOrder = ts] \in States
BY DEF States

LEMMA ApprovalType ==
    ASSUME NEW st \in States, NEW pa \in SUBSET (ApprovalIds \cup {"approval-1"})
    PROVE  [st EXCEPT !.pendingApprovals = pa] \in States
BY DEF States

\* Every event frame (applyEvent).
LEMMA EventReduces ==
    ASSUME NEW st \in States, NEW f \in Frames
    PROVE  realtimeReducer(st, eventAction(f)) \in States
<1>1. realtimeReducer(st, eventAction(f)) = applyEvent(st, f)
  BY DEF realtimeReducer, eventAction
<1>2. CASE f \in [event : {"chat", "agent"}, session : AnySession, run : Nat,
                  state : {"delta"} \cup TerminalChat, text : Nat]
  <2>1. applyDelta(st, f) \in States
    <3> DEFINE cs == Append(st.chatStream, f.text)
    <3>1. cs \in Seq(Nat)
      <4>1. st.chatStream \in Seq(Nat) /\ f.text \in Nat
        BY <1>2 DEF States
      <4>2. QED
        BY <4>1
    <3>2. applyDelta(st, f) = [st EXCEPT !.chatRunId = f.run, !.chatStream = cs]
      BY DEF applyDelta
    <3>3. f.run \in Nat
      BY <1>2
    <3> HIDE DEF cs
    <3>4. QED
      BY <3>1, <3>2, <3>3 DEF States
  <2>2. finalizeChatRun(st) \in States
    BY FinalizeType
  <2> DEFINE m  == [session |-> f.session, text |-> f.text]
             ar == Archive(st)
             w  == [ar EXCEPT !.chatMessages = Append(@, m)]
  <2>3. m \in Message
    BY <1>2 DEF Message, AnySession
  <2>4. ar \in States
    BY ArchiveType
  <2>5. w \in States
    <3> DEFINE cm == Append(ar.chatMessages, m)
    <3>1. cm \in Seq(Message)
      <4>1. ar.chatMessages \in Seq(Message)
        BY <2>4 DEF States
      <4> HIDE DEF m, ar
      <4>2. QED
        BY <4>1, <2>3
    <3>2. w = [ar EXCEPT !.chatMessages = cm]
      OBVIOUS
    <3> HIDE DEF m, ar, cm, w
    <3>3. QED
      BY <2>4, <3>1, <3>2 DEF States
  <2>6. finalizeChatRun(w) \in States
    <3> HIDE DEF w
    <3>1. QED
      BY <2>5, FinalizeType
  <2>7. applyChatEvent(st, f) \in States
    BY <1>2, <2>1, <2>2, <2>6 DEF applyChatEvent, TerminalChat
  <2>8. QED
    BY <1>1, <1>2, <2>1, <2>7 DEF applyEvent
<1>3. CASE f \in [event : {"tool.status"}, session : AnySession, run : Nat, toolCallId : Nat]
  <2> DEFINE ar == Archive(st)
             ts == IF \E i \in DOMAIN ar.toolStreamOrder : ar.toolStreamOrder[i] = f.toolCallId
                   THEN ar.toolStreamOrder ELSE Append(ar.toolStreamOrder, f.toolCallId)
  <2>1. ar \in States
    BY ArchiveType
  <2>2. applyEvent(st, f) = [ar EXCEPT !.chatStream = << >>, !.chatRunId = f.run, !.toolStreamOrder = ts]
    BY <1>3 DEF applyEvent, applyToolStatus
  <2>3. ar.toolStreamOrder \in Seq(Nat) /\ f.toolCallId \in Nat /\ f.run \in Nat
    BY <1>3, <2>1 DEF States
  <2>4. ts \in Seq(Nat)
    BY <2>3
  <2>5. QED
    <3> DEFINE e == << >>
    <3>1. e \in Seq(Nat)
      OBVIOUS
    <3>2. applyEvent(st, f) = [ar EXCEPT !.chatStream = e, !.chatRunId = f.run, !.toolStreamOrder = ts]
      BY <2>2
    <3> DEFINE r == f.run
    <3>3. r \in Nat
      BY <2>3
    <3>4. applyEvent(st, f) = [ar EXCEPT !.chatStream = e, !.chatRunId = r, !.toolStreamOrder = ts]
      BY <3>2
    <3> HIDE DEF ar, ts, e, r
    <3>5. [ar EXCEPT !.chatStream = e, !.chatRunId = r, !.toolStreamOrder = ts] \in States
      BY <2>1, <2>4, <3>1, <3>3, ToolType
    <3>6. QED
      BY <1>1, <3>4, <3>5
<1>4. CASE f \in [event : {"run.status"}, session : AnySession, run : Nat,
                  status : {"completed", "error"}]
  BY <1>1, <1>4, FinalizeType DEF applyEvent, applyRunStatus
<1>5. CASE f \in [event : {"session.message"}, session : AnySession]
  BY <1>1, <1>5 DEF applyEvent
<1>6. CASE f \in [event : {"approval.requested", "approval.resolved"}, id : Approvals]
  <2> DEFINE pa == IF f.event = "approval.requested" THEN st.pendingApprovals \cup {f.id}
                   ELSE st.pendingApprovals \ {f.id}
  <2>1. pa \in SUBSET Approvals
    <3>1. st.pendingApprovals \in SUBSET Approvals /\ f.id \in Approvals
      BY <1>6 DEF States, Approvals
    <3>2. QED
      BY <3>1
  <2>2. applyEvent(st, f) = [st EXCEPT !.pendingApprovals = pa]
    BY <1>6 DEF applyEvent
  <2> HIDE DEF pa
  <2>3. QED
    BY <1>1, <2>1, <2>2, ApprovalType DEF Approvals
<1>7. QED
  BY <1>2, <1>3, <1>4, <1>5, <1>6 DEF Frames

-----------------------------------------------------------------------------
(* The mock frames.                                                        *)

\* The frames of the demo are event frames (mockRealtimeFrames).
LEMMA MockType == mockRealtimeFrames \in Seq(Frames)
<1> DEFINE f1 == [chat(DemoSession, 0, "delta", 1) EXCEPT !.event = "agent"]
           f2 == toolStatus(DemoSession, 0, 0)
           f3 == chat(DemoSession, 0, "delta", 2)
           f4 == chat(DemoSession, 0, "final", 3)
           f5 == approval("approval.requested", "approval-1")
<1>0. /\ 0 \in Nat /\ 1 \in Nat /\ 2 \in Nat /\ 3 \in Nat /\ DemoSession \in AnySession
      /\ "approval-1" \in Approvals
      /\ "delta" \in {"delta"} \cup TerminalChat /\ "final" \in {"delta"} \cup TerminalChat
  BY DEF AnySession, Approvals, TerminalChat
<1>1. f1 \in Frames
  <2>1. f1 = [event |-> "agent", session |-> DemoSession, run |-> 0, state |-> "delta", text |-> 1]
    BY DEF chat
  <2>2. QED
    BY <1>0, <2>1 DEF Frames
<1>2. f2 \in Frames
  BY <1>0 DEF Frames, toolStatus
<1>3. f3 \in Frames
  BY <1>0 DEF Frames, chat
<1>4. f4 \in Frames
  BY <1>0 DEF Frames, chat
<1>5. f5 \in Frames
  BY <1>0 DEF Frames, approval
<1>6. mockRealtimeFrames = <<f1, f2, f3, f4, f5>>
  BY DEF mockRealtimeFrames
<1> HIDE DEF f1, f2, f3, f4, f5
<1>7. QED
  BY <1>1, <1>2, <1>3, <1>4, <1>5, <1>6

\* A sequence is one of its suffixes, and so are the empty one and the tails.
LEMMA SuffixFacts ==
    ASSUME NEW S, NEW m \in Seq(S)
    PROVE  /\ m \in Suffixes(m) /\ << >> \in Suffixes(m)
           /\ \A s \in Suffixes(m) : s # << >> => Tail(s) \in Suffixes(m) /\ Head(s) \in S
<1>1. << >> \in Suffixes(m)
  BY DEF Suffixes
<1>2. m \in Suffixes(m)
  <2>1. CASE m = << >>
    BY <1>1, <2>1
  <2>2. CASE m # << >>
    <3>1. 1 \in 1..Len(m)
      BY <2>2
    <3>2. SubSeq(m, 1, Len(m)) = m
      OBVIOUS
    <3>3. SubSeq(m, 1, Len(m)) \in Suffixes(m)
      BY <3>1, Zenon DEF Suffixes
    <3>4. QED
      BY <3>2, <3>3
  <2>3. QED
    BY <2>1, <2>2
<1>3. ASSUME NEW s \in Suffixes(m), s # << >>
      PROVE  Tail(s) \in Suffixes(m) /\ Head(s) \in S
  <2>1. PICK l \in 1..Len(m) : s = SubSeq(m, l, Len(m))
    BY <1>3 DEF Suffixes
  <2>2. s \in Seq(S) /\ Len(s) = Len(m) - l + 1 /\ s[1] = m[l]
    BY <2>1
  <2>3. Head(s) \in S
    BY <2>2, <1>3
  <2>4. CASE l = Len(m)
    <3>1. Tail(s) \in Seq(S) /\ Len(Tail(s)) = 0
      BY <2>2, <2>4, <1>3, HeadTailProperties
    <3>2. Tail(s) = << >>
      BY <3>1, EmptySeq
    <3>3. QED
      BY <1>1, <2>3, <3>2
  <2>5. CASE l # Len(m)
    <3>1. l + 1 \in 1..Len(m) /\ Len(m) \in l..Len(m)
      BY <2>5
    <3>2. Tail(s) = SubSeq(m, l + 1, Len(m))
      BY <2>1, <3>1, HeadTailOfSubSeq
    <3>3. SubSeq(m, l + 1, Len(m)) \in Suffixes(m)
      BY <3>1, Zenon DEF Suffixes
    <3>4. QED
      BY <2>3, <3>2, <3>3
  <2>6. QED
    BY <2>4, <2>5
<1>4. QED
  BY <1>1, <1>2, <1>3

-----------------------------------------------------------------------------
(* What callbacks do to the page.                                          *)

\* A dispatch changes the reducer state and nothing else (Dispatch).
LEMMA DispatchPage ==
    ASSUME NEW p \in Pages, NEW a, realtimeReducer(p.st, a) \in States
    PROVE  /\ Dispatch(p, a) \in Pages
           /\ Dispatch(p, a).requests = p.requests
           /\ Dispatch(p, a).closed = p.closed
           /\ Dispatch(p, a).activeRun = p.activeRun
           /\ Dispatch(p, a).deferred = p.deferred
           /\ Dispatch(p, a).mockFrames = p.mockFrames
<1> DEFINE r == realtimeReducer(p.st, a)
           q == Dispatch(p, a)
<1>1. q = IF mounted THEN [p EXCEPT !.st = r] ELSE p
  BY DEF Dispatch
<1>2. r \in States
  OBVIOUS
<1> HIDE DEF r, q
<1>3. q \in Pages
  BY <1>1, <1>2 DEF Pages
<1>4. q.requests = p.requests /\ q.closed = p.closed /\ q.activeRun = p.activeRun
      /\ q.deferred = p.deferred /\ q.mockFrames = p.mockFrames
  BY <1>1, <1>2 DEF Pages
<1>5. QED
  BY <1>3, <1>4 DEF q

PlainActions == {"connect.start", "recover.start", "connect.error", "connect.close", "hello"}

\* p became q: a page of the same requests, that closed no fewer clients.
Grown(p, q) == q \in Pages /\ q.requests = p.requests /\ p.closed \subseteq q.closed

\* A dispatch without payload (Dispatch).
LEMMA PlainDispatch ==
    ASSUME NEW p \in Pages, NEW t \in PlainActions
    PROVE  Grown(p, Dispatch(p, plain(t)))
<1>1. p.st \in States
  BY DEF Pages
<1>2. realtimeReducer(p.st, plain(t)) \in States
  <2> DEFINE st == p.st
  <2> HIDE DEF st
  <2>1. realtimeReducer(st, plain(t)) \in States
    BY <1>1, PlainReduces DEF PlainActions, st
  <2>2. QED
    BY <2>1 DEF st
<1>3. QED
  BY <1>2, DispatchPage DEF Grown

\* A dispatched event frame (Dispatch).
LEMMA EventDispatch ==
    ASSUME NEW p \in Pages, NEW f \in Frames
    PROVE  Grown(p, Dispatch(p, eventAction(f)))
<1>1. p.st \in States
  BY DEF Pages
<1>2. realtimeReducer(p.st, eventAction(f)) \in States
  BY <1>1, EventReduces
<1>3. QED
  BY <1>2, DispatchPage DEF Grown

\* The mock fallback (replayMockFrames).
LEMMA ReplayPage ==
    ASSUME NEW p \in Pages
    PROVE  Grown(p, replayMockFrames(p))
<1> DEFINE d == Dispatch(p, plain("hello"))
           m == mockRealtimeFrames
<1>1. Grown(p, d)
  BY PlainDispatch DEF PlainActions
<1>2. m \in Suffixes(mockRealtimeFrames)
  BY MockType, SuffixFacts
<1>3. replayMockFrames(p) = [d EXCEPT !.mockFrames = m]
  BY DEF replayMockFrames
<1> HIDE DEF d, m
<1>4. [d EXCEPT !.mockFrames = m] \in Pages
  BY <1>1, <1>2 DEF Grown, Pages
<1>5. [d EXCEPT !.mockFrames = m].requests = d.requests /\ [d EXCEPT !.mockFrames = m].closed = d.closed
  BY <1>1 DEF Grown, Pages
<1>6. QED
  BY <1>1, <1>3, <1>4, <1>5 DEF Grown

\* A page on which one more client is closed.
LEMMA ClosedPage ==
    ASSUME NEW p \in Pages, NEW c \in Clients
    PROVE  Grown(p, [p EXCEPT !.closed = @ \cup {c}])
<1> DEFINE cl == p.closed \cup {c}
           q == [p EXCEPT !.closed = cl]
<1>1. cl \in SUBSET Clients /\ p.closed \subseteq cl
  BY DEF Pages
<1>2. q = [p EXCEPT !.closed = @ \cup {c}]
  OBVIOUS
<1>3. q = [p EXCEPT !.closed = cl]
  OBVIOUS
<1> HIDE DEF cl, q
<1>4. q \in Pages /\ q.requests = p.requests /\ q.closed = cl
  BY <1>1, <1>3 DEF Pages
<1>5. Grown(p, q)
  BY <1>1, <1>4 DEF Grown
<1>6. QED
  BY <1>2, <1>5

LEMMA GrownTransitive ==
    ASSUME NEW p, NEW q, NEW r, Grown(p, q), Grown(q, r)
    PROVE  Grown(p, r)
BY DEF Grown

\* A rejection as its caller handles it (Rejected).
LEMMA RejectedPage ==
    ASSUME NEW p \in Pages, NEW q \in Requests
    PROVE  Grown(p, Rejected(p, q))
<1>0. q.on \in Clients /\ q.why \in {"message", "gap", "manual", "send", "stop"}
  BY DEF Requests
<1> DEFINE e == Dispatch(p, plain("connect.error"))
           r == Dispatch(p, plain("recover.start"))
           c == q.on
<1>1. Grown(p, e) /\ Grown(p, r)
  BY PlainDispatch DEF PlainActions
<1>2. e \in Pages /\ r \in Pages
  BY <1>1 DEF Grown
<1>3. c \in Clients
  BY <1>0
<1>4. CASE q.why = "message"
  BY <1>1, <1>4 DEF Rejected
<1>5. CASE q.why = "gap"
  <2>1. Rejected(p, q) = [e EXCEPT !.closed = @ \cup {c}]
    BY <1>5 DEF Rejected
  <2> HIDE DEF e, c
  <2>2. Grown(e, [e EXCEPT !.closed = @ \cup {c}])
    BY <1>2, <1>3, ClosedPage
  <2> DEFINE x == [e EXCEPT !.closed = @ \cup {c}]
  <2>3. Grown(e, x) /\ Rejected(p, q) = x
    BY <2>1, <2>2
  <2> HIDE DEF x
  <2>4. Grown(p, x)
    BY <1>1, <2>3, GrownTransitive
  <2>5. QED
    BY <2>3, <2>4
<1>6. CASE q.why = "manual"
  BY <1>6 DEF Rejected, Grown
<1>7. CASE q.why = "send"
  <2> HIDE DEF r
  <2>1. Rejected(p, q) = replayMockFrames(r)
    BY <1>7 DEF Rejected, r
  <2>2. Grown(r, replayMockFrames(r))
    BY <1>2, ReplayPage
  <2>3. Grown(p, replayMockFrames(r))
    BY <1>1, <2>2, GrownTransitive
  <2>4. QED
    BY <2>1, <2>3
<1>8. CASE q.why = "stop"
  <2>1. Rejected(p, q) = [p EXCEPT !.closed = @ \cup {c}]
    BY <1>8 DEF Rejected
  <2> HIDE DEF c
  <2>2. Grown(p, [p EXCEPT !.closed = @ \cup {c}])
    BY <1>3, ClosedPage
  <2>3. QED
    BY <2>1, <2>2
<1>9. QED
  BY <1>0, <1>4, <1>5, <1>6, <1>7, <1>8

\* The run and its text are the same on both pages.
SameText(p, q) ==
    /\ q.st.chatRunId = p.st.chatRunId
    /\ q.st.chatStream = p.st.chatStream
    /\ q.st.chatStreamSegments = p.st.chatStreamSegments

LEMMA SameTextTransitive ==
    ASSUME NEW p, NEW q, NEW r, SameText(p, q), SameText(q, r)
    PROVE  SameText(p, r)
BY DEF SameText

\* Actions without payload leave the text alone (realtimeReducer).
LEMMA PlainText ==
    ASSUME NEW p \in Pages, NEW t \in PlainActions
    PROVE  SameText(p, Dispatch(p, plain(t)))
<1> DEFINE st == p.st
           r == realtimeReducer(st, plain(t))
           q == Dispatch(p, plain(t))
<1>1. st \in States
  BY DEF Pages
<1>2. q = IF mounted THEN [p EXCEPT !.st = r] ELSE p
  BY DEF Dispatch
<1>3. r.chatRunId = st.chatRunId /\ r.chatStream = st.chatStream
      /\ r.chatStreamSegments = st.chatStreamSegments
  <2> HIDE DEF st
  <2>1. QED
    BY <1>1 DEF realtimeReducer, plain, Status, States, PlainActions
<1> HIDE DEF r, q
<1>4. q.st = r \/ q.st = st
  BY <1>2 DEF Pages
<1>5. SameText(p, q)
  BY <1>3, <1>4 DEF SameText
<1>6. QED
  BY <1>5 DEF q

\* Closing a client leaves the text alone.
LEMMA ClosedText ==
    ASSUME NEW p \in Pages, NEW c
    PROVE  SameText(p, [p EXCEPT !.closed = @ \cup {c}])
<1> DEFINE q == [p EXCEPT !.closed = @ \cup {c}]
<1>1. q.st = p.st
  BY DEF Pages
<1> HIDE DEF q
<1>2. SameText(p, q)
  BY <1>1 DEF SameText
<1>3. QED
  BY <1>2 DEF q

\* The start of the mock fallback leaves the text alone (replayMockFrames).
LEMMA ReplayText ==
    ASSUME NEW p \in Pages
    PROVE  SameText(p, replayMockFrames(p))
<1> DEFINE d == Dispatch(p, plain("hello"))
           m == mockRealtimeFrames
           x == [d EXCEPT !.mockFrames = m]
<1>1. SameText(p, d) /\ d \in Pages
  BY PlainText, PlainDispatch DEF PlainActions, Grown
<1>2. replayMockFrames(p) = x
  BY DEF replayMockFrames
<1> HIDE DEF d, m
<1>3. x.st = d.st
  BY <1>1 DEF Pages
<1> HIDE DEF x
<1>4. SameText(p, x)
  BY <1>1, <1>3 DEF SameText
<1>5. QED
  BY <1>2, <1>4

\* A rejection leaves the text alone (Rejected).
LEMMA RejectedText ==
    ASSUME NEW p \in Pages, NEW q \in Requests
    PROVE  SameText(p, Rejected(p, q))
<1> DEFINE e == Dispatch(p, plain("connect.error"))
           r == Dispatch(p, plain("recover.start"))
           c == q.on
           ec == [e EXCEPT !.closed = @ \cup {c}]
           pc == [p EXCEPT !.closed = @ \cup {c}]
           rr == replayMockFrames(r)
<1>1. SameText(p, e) /\ SameText(p, r) /\ e \in Pages /\ r \in Pages
  BY PlainText, PlainDispatch DEF PlainActions, Grown
<1>2. Rejected(p, q) \in {e, ec, p, rr, pc}
  <2>1. q.why \in {"message", "gap", "manual", "send", "stop"}
    BY DEF Requests
  <2>2. QED
    BY <2>1 DEF Rejected
<1> HIDE DEF e, r, c
<1>3. SameText(e, ec) /\ SameText(p, pc) /\ SameText(r, rr)
  BY <1>1, ClosedText, ReplayText
<1> HIDE DEF ec, pc, rr
<1>4. SameText(p, ec) /\ SameText(p, rr) /\ SameText(p, p)
  BY <1>1, <1>3 DEF SameText
<1>5. QED
  BY <1>1, <1>2, <1>3, <1>4

\* p became q: a page that closed no fewer clients and whose requests are
\* pending on open sockets if those of p are.
Moved(p, q) ==
    /\ q \in Pages
    /\ p.closed \subseteq q.closed
    /\ OnOpenSockets(p, sock) => OnOpenSockets(q, sock)

LEMMA GrownMoves ==
    ASSUME NEW p, NEW q, Grown(p, q)
    PROVE  Moved(p, q)
BY DEF Grown, Moved, OnOpenSockets

LEMMA MovedTransitive ==
    ASSUME NEW p, NEW q, NEW r, Moved(p, q), Moved(q, r)
    PROVE  Moved(p, r)
BY DEF Moved

\* client.request: a request is pending only on an open socket (Request).
LEMMA RequestPage ==
    ASSUME NEW p \in Pages, NEW c \in Clients, NEW key \in Sessions, NEW text \in Nat,
           NEW why \in {"message", "gap", "manual", "send", "stop"},
           transcript \in [Sessions -> Seq(Message)]
    PROVE  Moved(p, Request(p, c, why, key, text))
<1> DEFINE q == [on |-> c, why |-> why, session |-> key, text |-> text,
                 since |-> Len(transcript[key])]
           rs == Append(p.requests, q)
           x  == [p EXCEPT !.requests = rs]
<1>1. q \in Requests
  <2>1. Len(transcript[key]) \in Nat
    <3>1. transcript[key] \in Seq(Message)
      OBVIOUS
    <3>2. QED
      BY <3>1, LenProperties
  <2>2. QED
    BY <2>1 DEF Requests
<1>2. Request(p, c, why, key, text) = IF Ready(p, c) THEN x ELSE Rejected(p, q)
  BY DEF Request
<1>3. CASE ~Ready(p, c)
  <2> HIDE DEF q
  <2>1. Grown(p, Rejected(p, q))
    BY <1>1, RejectedPage
  <2>2. QED
    BY <1>2, <1>3, <2>1, GrownMoves
<1>4. CASE Ready(p, c)
  <2>1. sock[c] = "open" /\ q.on = c
    BY <1>4 DEF Ready
  <2>2. p.requests \in Seq(Requests)
    BY DEF Pages
  <2> HIDE DEF q
  <2>3. rs \in Seq(Requests) /\ Len(rs) = Len(p.requests) + 1 /\ rs[Len(p.requests) + 1] = q
        /\ \A i \in 1..Len(p.requests) : rs[i] = p.requests[i]
    BY <1>1, <2>2, AppendProperties
  <2>4. x = [p EXCEPT !.requests = rs]
    OBVIOUS
  <2>5. ASSUME OnOpenSockets(p, sock), NEW i \in DOMAIN rs
        PROVE  sock[rs[i].on] = "open"
    <3>1. Len(p.requests) \in Nat /\ DOMAIN p.requests = 1..Len(p.requests) /\ DOMAIN rs = 1..Len(rs)
      BY <2>2, <2>3, LenProperties
    <3>2. i \in 1..Len(p.requests) \/ i = Len(p.requests) + 1
      BY <2>3, <2>5, <3>1
    <3>3. CASE i = Len(p.requests) + 1
      BY <2>1, <2>3, <3>3
    <3>4. CASE i \in 1..Len(p.requests)
      BY <2>3, <2>5, <3>1, <3>4 DEF OnOpenSockets
    <3>5. QED
      BY <3>2, <3>3, <3>4
  <2> HIDE DEF rs, x
  <2>6. x \in Pages /\ x.closed = p.closed /\ x.requests = rs
    BY <2>3, <2>4 DEF Pages
  <2>7. OnOpenSockets(p, sock) => OnOpenSockets(x, sock)
    BY <2>5, <2>6 DEF OnOpenSockets
  <2>8. QED
    BY <1>2, <1>4, <2>6, <2>7 DEF Moved
<1>5. QED
  BY <1>3, <1>4

\* loadHistory.
LEMMA LoadHistoryPage ==
    ASSUME NEW p \in Pages, NEW c \in Clients, NEW key \in Sessions,
           NEW why \in {"message", "gap", "manual", "send", "stop"},
           transcript \in [Sessions -> Seq(Message)]
    PROVE  Moved(p, loadHistory(p, c, why, key))
<1> DEFINE d == IF why = "manual" THEN p ELSE Dispatch(p, plain("recover.start"))
<1>1. Grown(p, Dispatch(p, plain("recover.start"))) /\ Grown(p, p)
  BY PlainDispatch DEF PlainActions, Grown
<1>2. Grown(p, d)
  BY <1>1
<1>3. loadHistory(p, c, why, key) = Request(d, c, why, key, 0)
  BY DEF loadHistory
<1> HIDE DEF d
<1>4. d \in Pages
  BY <1>2 DEF Grown
<1>5. Moved(d, Request(d, c, why, key, 0))
  <2> DEFINE z == 0
  <2>1. z \in Nat
    OBVIOUS
  <2> HIDE DEF z
  <2>2. Moved(d, Request(d, c, why, key, z))
    BY <1>4, <2>1, RequestPage
  <2>3. QED
    BY <2>2 DEF z
<1>6. Moved(p, d)
  BY <1>2, GrownMoves
<1>7. QED
  BY <1>3, <1>5, <1>6, MovedTransitive

\* An event frame on the page (handleFrame, requestHistoryFromCurrentClient).
LEMMA HandleFramePage ==
    ASSUME NEW p \in Pages, NEW key \in Sessions, NEW f \in Frames,
           transcript \in [Sessions -> Seq(Message)], clientRef \in {0} \cup Clients
    PROVE  Moved(p, handleFrame(p, key, f))
<1> DEFINE q == Dispatch(p, eventAction(f))
           x == [q EXCEPT !.deferred = TRUE]
           y == [q EXCEPT !.deferred = FALSE, !.activeRun = None]
<1>1. Grown(p, q)
  BY EventDispatch
<1>2. q \in Pages
  BY <1>1 DEF Grown
<1>3. \A r \in Pages : Moved(r, requestHistoryFromCurrentClient(r, key))
  <2>1. SUFFICES ASSUME NEW r \in Pages
                 PROVE  Moved(r, requestHistoryFromCurrentClient(r, key))
    OBVIOUS
  <2>2. CASE clientRef = 0
    BY <2>2 DEF requestHistoryFromCurrentClient, Moved
  <2>3. CASE clientRef # 0
    <3> DEFINE c == clientRef
    <3>1. c \in Clients
      BY <2>3
    <3>2. requestHistoryFromCurrentClient(r, key) = loadHistory(r, c, "message", key)
      BY <2>3 DEF requestHistoryFromCurrentClient
    <3> HIDE DEF c
    <3>3. Moved(r, loadHistory(r, c, "message", key))
      BY <3>1, LoadHistoryPage
    <3>4. QED
      BY <3>2, <3>3
  <2>4. QED
    BY <2>2, <2>3
<1>4. handleFrame(p, key, f) \in {q, x, requestHistoryFromCurrentClient(q, key),
                                  requestHistoryFromCurrentClient(y, key)}
  BY DEF handleFrame
<1> HIDE DEF q
<1>5. Grown(q, x)
  BY <1>2 DEF Grown, Pages
<1>6. Grown(q, y)
  BY <1>2 DEF Grown, Pages
<1> HIDE DEF x, y
<1>7. Moved(p, q) /\ Moved(q, x) /\ Moved(q, y) /\ y \in Pages
  BY <1>1, <1>5, <1>6, GrownMoves DEF Grown
<1>8. Moved(q, requestHistoryFromCurrentClient(q, key))
  BY <1>2, <1>3
<1>9. Moved(y, requestHistoryFromCurrentClient(y, key))
  BY <1>7, <1>3
<1>10. Moved(p, x) /\ Moved(p, y) /\ Moved(p, requestHistoryFromCurrentClient(q, key))
  BY <1>7, <1>8, MovedTransitive
<1>11. Moved(p, requestHistoryFromCurrentClient(y, key))
  BY <1>9, <1>10, MovedTransitive
<1>12. QED
  BY <1>4, <1>7, <1>10, <1>11

\* A set of natural numbers that is not empty has a least element.
LEMMA LeastNumber ==
    ASSUME NEW T \in SUBSET Nat, T # {}
    PROVE  \E i \in T : \A j \in T : i <= j
<1> DEFINE R == OpToRel(<, Nat)
<1>1. IsWellFoundedOn(R, Nat)
  BY NatLessThanWellFounded
<1> HIDE DEF R
<1>2. PICK x \in T : \A y \in T : ~(<<y, x>> \in R)
  BY <1>1, WFMin
<1>3. ASSUME NEW y \in T PROVE x <= y
  <2>1. ~(y < x)
    BY <1>2 DEF R, OpToRel
  <2>2. QED
    BY <2>1
<1>4. QED
  BY <1>3

\* What closing a client leaves of the pending requests: those of the others
\* (rejectPending).
Rest(p, c, x) ==
    /\ x \in Pages
    /\ p.closed \subseteq x.closed
    /\ SameText(p, x)
    /\ \A i \in DOMAIN x.requests :
          x.requests[i].on # c /\ \E j \in DOMAIN p.requests : x.requests[i] = p.requests[j]

\* One round of the loop of rejectPending keeps that.
LEMMA RejectRound ==
    ASSUME NEW p \in Pages, NEW c \in Clients, NEW x, Rest(p, c, x), NEW n \in DOMAIN p.requests
    PROVE  Rest(p, c, IF p.requests[n].on = c THEN Rejected(x, p.requests[n])
                      ELSE [x EXCEPT !.requests = Append(@, p.requests[n])])
<1> DEFINE q == p.requests[n]
           rs == Append(x.requests, q)
           y == [x EXCEPT !.requests = rs]
<1>1. p.requests \in Seq(Requests) /\ x \in Pages /\ x.requests \in Seq(Requests)
  BY DEF Pages, Rest
<1>2. q \in Requests
  BY <1>1
<1>3. CASE q.on = c
  <2> HIDE DEF q
  <2>1. Grown(x, Rejected(x, q))
    BY <1>1, <1>2, RejectedPage
  <2>2. Rest(p, c, Rejected(x, q))
    <3>1. SameText(p, x) /\ SameText(x, Rejected(x, q))
      BY <1>1, <1>2, RejectedText DEF Rest
    <3>2. SameText(p, Rejected(x, q))
      BY <3>1, SameTextTransitive
    <3>3. QED
      BY <2>1, <3>2 DEF Rest, Grown
  <2>3. QED
    BY <1>3, <2>2 DEF q
<1>4. CASE q.on # c
  <2>1. \E j \in DOMAIN p.requests : q = p.requests[j]
    OBVIOUS
  <2>2. y = [x EXCEPT !.requests = Append(@, q)]
    OBVIOUS
  <2>3. y = [x EXCEPT !.requests = rs]
    OBVIOUS
  <2> HIDE DEF q
  <2>4. rs \in Seq(Requests) /\ Len(rs) = Len(x.requests) + 1 /\ rs[Len(x.requests) + 1] = q
        /\ \A i \in 1..Len(x.requests) : rs[i] = x.requests[i]
    BY <1>1, <1>2, AppendProperties
  <2>5. Len(x.requests) \in Nat /\ DOMAIN x.requests = 1..Len(x.requests) /\ DOMAIN rs = 1..Len(rs)
    BY <1>1, <2>4, LenProperties
  <2>6. ASSUME NEW i \in DOMAIN rs
        PROVE  rs[i].on # c /\ \E j \in DOMAIN p.requests : rs[i] = p.requests[j]
    <3>1. i \in 1..Len(x.requests) \/ i = Len(x.requests) + 1
      BY <2>4, <2>5
    <3>2. CASE i = Len(x.requests) + 1
      BY <1>4, <2>1, <2>4, <3>2
    <3>3. CASE i \in 1..Len(x.requests)
      <4>1. rs[i] = x.requests[i] /\ i \in DOMAIN x.requests
        BY <2>4, <2>5, <3>3
      <4>2. QED
        BY <4>1 DEF Rest
    <3>4. QED
      BY <3>1, <3>2, <3>3
  <2> HIDE DEF rs, y
  <2>7. y \in Pages /\ y.requests = rs /\ y.closed = x.closed /\ y.st = x.st
    BY <1>1, <2>3, <2>4 DEF Pages
  <2>8. Rest(p, c, y)
    BY <2>6, <2>7 DEF Rest, SameText
  <2>9. QED
    BY <1>4, <2>2, <2>8 DEF q
<1>5. QED
  BY <1>3, <1>4

\* Closing a client rejects its requests and keeps the others (rejectPending).
\* The loop is a function defined by recursion: that it exists, and what it
\* computes, is shown by the least round at which it would fail.
LEMMA RejectPendingPage ==
    ASSUME NEW p \in Pages, NEW c \in Clients
    PROVE  Rest(p, c, rejectPending(p, c))
<1> DEFINE all     == p.requests
           N       == Len(all)
           base    == [p EXCEPT !.requests = << >>]
           One(x, n) == IF all[n].on = c THEN Rejected(x, all[n])
                        ELSE [x EXCEPT !.requests = Append(@, all[n])]
           Is(g, k) == g = [n \in 0..k |-> IF n = 0 THEN base ELSE One(g[n - 1], n)]
           after   == CHOOSE g : Is(g, N)
<1>1. N \in Nat /\ DOMAIN all = 1..N
  <2>1. all \in Seq(Requests)
    BY DEF Pages
  <2>2. QED
    BY <2>1, LenProperties
<1>2. rejectPending(p, c) = after[N]
  BY DEF rejectPending
<1>3. Rest(p, c, base)
  <2> DEFINE e == << >>
  <2>1. e \in Seq(Requests) /\ DOMAIN e = {}
    OBVIOUS
  <2>2. base = [p EXCEPT !.requests = e]
    OBVIOUS
  <2> HIDE DEF base, e
  <2>3. base \in Pages /\ base.closed = p.closed /\ base.requests = e /\ base.st = p.st
    BY <2>1, <2>2 DEF Pages
  <2>4. QED
    BY <2>1, <2>3 DEF Rest, SameText
<1>4. \A x : \A n \in 1..N : Rest(p, c, x) => Rest(p, c, One(x, n))
  BY <1>1, RejectRound
<1> HIDE DEF One, base, N
<1>5. \E g : Is(g, N)
  <2> DEFINE T == {k \in Nat : ~\E g : Is(g, k)}
  <2>1. SUFFICES ASSUME T # {} PROVE FALSE
    BY <1>1
  <2>2. T \in SUBSET Nat
    OBVIOUS
  <2> HIDE DEF T
  <2>3. PICK k \in T : \A j \in T : k <= j
    BY <2>1, <2>2, LeastNumber
  <2>4. k \in Nat /\ ~\E g : Is(g, k)
    BY <2>3 DEF T
  <2>5. CASE k = 0
    <3> DEFINE h == [n \in 0..0 |-> base]
    <3>1. h = [n \in 0..0 |-> IF n = 0 THEN base ELSE One(h[n - 1], n)]
      OBVIOUS
    <3>2. Is(h, k)
      BY <2>5, <3>1
    <3>3. QED
      BY <2>4, <3>2
  <2>6. CASE k # 0
    <3>1. k - 1 \in Nat /\ k - 1 \notin T
      BY <2>3, <2>4, <2>6
    <3>2. PICK g : Is(g, k - 1)
      BY <3>1 DEF T
    <3> DEFINE h == [n \in 0..k |-> IF n < k THEN g[n] ELSE One(g[k - 1], k)]
    <3>3. \A n \in 0..(k - 1) : g[n] = IF n = 0 THEN base ELSE One(g[n - 1], n)
      BY <3>2
    <3>4. ASSUME NEW n \in 0..k
          PROVE  h[n] = IF n = 0 THEN base ELSE One(h[n - 1], n)
      <4>1. CASE n = k
        <5>1. h[n] = One(g[k - 1], k) /\ h[n - 1] = g[k - 1]
          BY <2>4, <2>6, <4>1
        <5>2. QED
          BY <2>6, <4>1, <5>1
      <4>2. CASE n < k
        <5>1. h[n] = g[n] /\ n \in 0..(k - 1)
          BY <2>4, <4>2
        <5>2. n # 0 => h[n - 1] = g[n - 1]
          BY <2>4, <4>2
        <5>3. QED
          BY <3>3, <5>1, <5>2
      <4>3. QED
        BY <2>4, <4>1, <4>2
    <3>5. h = [n \in 0..k |-> h[n]]
      OBVIOUS
    <3> HIDE DEF h
    <3>6. Is(h, k)
      BY <3>4, <3>5
    <3>7. QED
      BY <2>4, <3>6
  <2>7. QED
    BY <2>5, <2>6
<1>6. Is(after, N)
  BY <1>5
<1> HIDE DEF after
<1>7. \A n \in 0..N : after[n] = IF n = 0 THEN base ELSE One(after[n - 1], n)
  BY <1>6
<1>8. \A n \in 0..N : Rest(p, c, after[n])
  <2> DEFINE T == {n \in 0..N : ~Rest(p, c, after[n])}
  <2>1. SUFFICES ASSUME T # {} PROVE FALSE
    OBVIOUS
  <2>2. T \in SUBSET Nat
    BY <1>1
  <2> HIDE DEF T
  <2>3. PICK n \in T : \A j \in T : n <= j
    BY <2>1, <2>2, LeastNumber
  <2>4. n \in 0..N /\ ~Rest(p, c, after[n])
    BY <2>3 DEF T
  <2>5. n # 0
    BY <1>3, <1>7, <2>4
  <2>6. n - 1 \in 0..N /\ n \in 1..N /\ n - 1 \notin T
    BY <1>1, <2>3, <2>4, <2>5
  <2>7. Rest(p, c, after[n - 1])
    BY <2>6 DEF T
  <2>8. Rest(p, c, One(after[n - 1], n))
    BY <1>4, <2>6, <2>7
  <2>9. after[n] = One(after[n - 1], n)
    BY <1>7, <2>4, <2>5
  <2>10. QED
    BY <2>4, <2>8, <2>9
<1>9. QED
  <2>1. N \in 0..N
    BY <1>1
  <2>2. QED
    BY <1>2, <1>8, <2>1

-----------------------------------------------------------------------------
(* The initial state and the steps that leave the clients alone.           *)

LEMMA InitImpliesInv ==
    ASSUME Init
    PROVE  Inv
<1> USE PageAssumption DEF Init
<1>0. 1 \in Clients /\ \A c \in Clients : c \in Nat /\ c >= 1
  BY DEF Clients
<1>1. page \in Pages /\ page.requests = << >>
  <2> DEFINE s0 == initialRealtimeState
             st == realtimeReducer(s0, plain("connect.start"))
             e  == << >>
  <2>1. e \in Seq(Message) /\ e \in Seq(Nat) /\ e \in Seq(Seq(Nat)) /\ e \in Seq(Requests)
    OBVIOUS
  <2>2. s0 \in States
    <3>1. s0 = [chatMessages |-> e, chatStream |-> e, chatStreamSegments |-> e,
                chatRunId |-> None, chatQueue |-> e, chatSending |-> FALSE,
                chatLoading |-> FALSE, toolStreamOrder |-> e, pendingApprovals |-> {},
                connectionStatus |-> "idle"]
      BY DEF initialRealtimeState
    <3> HIDE DEF e, s0
    <3>2. QED
      BY <2>1, <3>1 DEF States
  <2>3. st \in States
    <3> HIDE DEF s0
    <3>1. QED
      BY <2>2, PlainReduces
  <2>4. e \in Suffixes(mockRealtimeFrames)
    BY MockType, SuffixFacts
  <2>5. page = [st |-> st, activeRun |-> None, deferred |-> FALSE, requests |-> e,
                mockFrames |-> e, closed |-> {}]
    BY DEF InitPage
  <2> HIDE DEF e, s0, st
  <2>6. page \in Pages
    BY <2>1, <2>3, <2>4, <2>5 DEF Pages
  <2>7. page.requests = e
    BY <2>5
  <2>8. QED
    BY <2>6, <2>7 DEF e
<1>2. TypeOK
  <2>1. transcript \in [Sessions -> Seq(Message)]
    OBVIOUS
  <2>2. running \in [Sessions -> Nat]
    OBVIOUS
  <2>3. sock \in [Clients -> {"unused", "connecting", "open", "closed"}]
    OBVIOUS
  <2>4. keyOf \in [Clients -> Sessions \cup {None}]
    OBVIOUS
  <2>5. clock \in 0..MaxEvents
    OBVIOUS
  <2>6. QED
    BY <1>0, <1>1, <2>1, <2>2, <2>3, <2>4, <2>5 DEF TypeOK
<1>3. WireOK
  BY DEF WireOK
<1>4. ClientsOK
  BY <1>0 DEF ClientsOK
<1>5. HookOK
  BY DEF HookOK
<1>6. NewestOnly
  BY DEF NewestOnly, Connected
<1>7. PageNeverStranded
  BY <1>0 DEF PageNeverStranded
<1>8. OnOpenSockets(page, sock)
  BY <1>1 DEF OnOpenSockets
<1>9. QED
  BY <1>2, <1>3, <1>4, <1>5, <1>6, <1>7, <1>8 DEF Inv

\* What the steps of this section leave alone.
CoreUnchanged ==
    UNCHANGED <<sessionKey, mounted, closedByUser, timer, clientRef, made, sock, keyOf>>

\* The types of what they may change.
RestTypeOK ==
    /\ renderedRun \in Nat \cup {None}
    /\ greeted \subseteq Clients
    /\ seq \in Nat
    /\ running \in [Sessions -> Nat]
    /\ transcript \in [Sessions -> Seq(Message)]
    /\ clock \in 0..MaxEvents

LEMMA PageStep ==
    ASSUME Inv, CoreUnchanged, Moved(page, page'), WireOK', RestTypeOK'
    PROVE  Inv'
<1> USE DEF CoreUnchanged
<1>1. TypeOK'
  BY DEF Inv, TypeOK, RestTypeOK, Moved, Clients
<1>2. ClientsOK' /\ HookOK' /\ PageNeverStranded'
  BY DEF Inv, ClientsOK, HookOK, PageNeverStranded, Clients
<1>3. NewestOnly'
  BY DEF Inv, NewestOnly, Stayed, Connected, Moved, Clients
<1>4. OnOpenSockets(page, sock)'
  BY DEF Inv, Moved, OnOpenSockets
<1>5. QED
  BY <1>1, <1>2, <1>3, <1>4 DEF Inv

LEMMA InvRest ==
    ASSUME Inv
    PROVE  /\ RestTypeOK /\ WireOK /\ page \in Pages /\ sessionKey \in Sessions
           /\ transcript \in [Sessions -> Seq(Message)] /\ clientRef \in {0} \cup Clients
           /\ Moved(page, page)
           /\ \A c \in Clients : sock[c] = "open" => keyOf[c] \in Sessions
BY DEF Inv, TypeOK, RestTypeOK, Moved, ClientsOK, Clients

LEMMA RenderKeepsInv ==
    ASSUME Inv, Render
    PROVE  Inv'
<1> DEFINE r == page.st.chatRunId
           x == [page EXCEPT !.activeRun = r]
<1>1. page \in Pages /\ RestTypeOK /\ WireOK
  BY InvRest
<1>2. r \in Nat \cup {None}
  BY <1>1 DEF Pages, States
<1>3. page' = x /\ renderedRun' = r /\ CoreUnchanged
      /\ UNCHANGED <<wire, greeted, seq, running, transcript, clock>>
  BY DEF Render, CoreUnchanged, clientVars, gatewayVars
<1>4. x = [page EXCEPT !.activeRun = r]
  OBVIOUS
<1> HIDE DEF r, x
<1>5. x \in Pages /\ x.requests = page.requests /\ x.closed = page.closed
  BY <1>1, <1>2, <1>4 DEF Pages
<1>6. Moved(page, page')
  BY <1>3, <1>5, GrownMoves DEF Grown
<1>7. WireOK' /\ RestTypeOK'
  BY <1>1, <1>2, <1>3 DEF WireOK, RestTypeOK, Clients
<1>8. QED
  BY <1>3, <1>6, <1>7, PageStep

LEMMA MockTimerKeepsInv ==
    ASSUME Inv, MockTimer
    PROVE  Inv'
<1> DEFINE f == Head(page.mockFrames)
           d == Dispatch(page, eventAction(f))
           t == Tail(page.mockFrames)
           x == [d EXCEPT !.mockFrames = t]
<1>1. page \in Pages /\ RestTypeOK /\ WireOK
  BY InvRest
<1>2. f \in Frames /\ t \in Suffixes(mockRealtimeFrames)
  <2> DEFINE s == page.mockFrames
  <2>1. s \in Suffixes(mockRealtimeFrames) /\ s # << >>
    BY <1>1 DEF Pages, MockTimer
  <2> HIDE DEF s
  <2>2. Tail(s) \in Suffixes(mockRealtimeFrames) /\ Head(s) \in Frames
    BY <2>1, MockType, SuffixFacts
  <2>3. QED
    BY <2>2 DEF s
<1>3. Grown(page, d) /\ d.mockFrames = page.mockFrames
  <2> HIDE DEF f
  <2>1. page.st \in States
    BY <1>1 DEF Pages
  <2>2. realtimeReducer(page.st, eventAction(f)) \in States
    BY <1>2, <2>1, EventReduces
  <2>3. QED
    BY <1>1, <2>2, DispatchPage DEF Grown
<1>4. page' = [d EXCEPT !.mockFrames = t]
  BY <1>3 DEF MockTimer
<1>5. CoreUnchanged /\ UNCHANGED <<wire, renderedRun, greeted, seq, running, transcript, clock>>
  BY DEF MockTimer, CoreUnchanged, clientVars, gatewayVars
<1> HIDE DEF f, d, t, x
<1>6. page' \in Pages /\ page'.requests = d.requests /\ page'.closed = d.closed
  BY <1>2, <1>3, <1>4 DEF Pages, Grown
<1>7. Moved(page, page')
  <2>1. Grown(page, page')
    BY <1>3, <1>6 DEF Grown
  <2>2. QED
    BY <2>1, GrownMoves
<1>8. WireOK' /\ RestTypeOK'
  BY <1>1, <1>5 DEF WireOK, RestTypeOK, Clients
<1>9. QED
  BY <1>5, <1>7, <1>8, PageStep

\* A button of the page (UserActs).
LEMMA UserStep ==
    ASSUME Inv, NEW input, NEW p, UserActs(input, p), Moved(page, p)
    PROVE  Inv'
<1>1. RestTypeOK /\ WireOK
  BY InvRest
<1>2. page' = p /\ CoreUnchanged /\ UNCHANGED <<wire, renderedRun, greeted, seq, running, transcript>>
      /\ clock' = clock + 1 /\ clock < MaxEvents
  BY DEF UserActs, CoreUnchanged, clientVars
<1>3. clock' \in 0..MaxEvents
  BY <1>1, <1>2, PageAssumption DEF RestTypeOK
<1>4. WireOK' /\ RestTypeOK'
  BY <1>1, <1>2, <1>3 DEF WireOK, RestTypeOK, Clients
<1>5. Moved(page, page')
  BY <1>2
<1>6. QED
  BY <1>2, <1>4, <1>5, PageStep

\* The page on screen has a client.
LEMMA MountedClient ==
    ASSUME Inv, mounted
    PROVE  clientRef \in Clients
BY DEF Inv, HookOK, TypeOK

LEMMA SubmitKeepsInv ==
    ASSUME Inv, submitTask
    PROVE  Inv'
<1> DEFINE m == [session |-> sessionKey, text |-> clock + 1]
           d == Dispatch(page, userQueue(m))
           c == clientRef
           k == sessionKey
           t == clock + 1
           x == Request(d, c, "send", k, t)
<1>1. UserActs("submit", x)
  BY DEF submitTask
<1>2. page \in Pages /\ k \in Sessions /\ transcript \in [Sessions -> Seq(Message)] /\ RestTypeOK
  BY InvRest
<1>3. t \in Nat
  BY <1>2, PageAssumption DEF RestTypeOK
<1>4. c \in Clients
  BY <1>1, MountedClient DEF UserActs
<1>5. Grown(page, d)
  <2>1. m \in Message
    BY <1>2, <1>3 DEF Message
  <2>2. page.st \in States
    BY <1>2 DEF Pages
  <2> HIDE DEF m
  <2>3. realtimeReducer(page.st, userQueue(m)) \in States
    BY <2>1, <2>2, QueueReduces
  <2>4. QED
    BY <1>2, <2>3, DispatchPage DEF Grown
<1> HIDE DEF d, c, k, t
<1>6. Moved(d, x)
  <2>1. d \in Pages
    BY <1>5 DEF Grown
  <2>2. QED
    BY <1>2, <1>3, <1>4, <2>1, RequestPage
<1>7. Moved(page, x)
  <2> HIDE DEF x
  <2>1. Moved(page, d)
    BY <1>5, GrownMoves
  <2>2. QED
    BY <1>6, <2>1, MovedTransitive
<1> HIDE DEF x
<1>8. QED
  BY <1>1, <1>7, UserStep

LEMMA StopKeepsInv ==
    ASSUME Inv, stopTask
    PROVE  Inv'
<1> DEFINE e == << >>
           p == [page EXCEPT !.mockFrames = e]
           c == clientRef
           k == sessionKey
           z == 0
           x == IF renderedRun = None THEN Dispatch(p, plain("connect.close"))
                ELSE Request(p, c, "stop", k, z)
<1>1. UserActs("stop", x)
  BY DEF stopTask
<1>2. page \in Pages /\ k \in Sessions /\ transcript \in [Sessions -> Seq(Message)]
  BY InvRest
<1>3. z \in Nat
  OBVIOUS
<1>4. c \in Clients
  BY <1>1, MountedClient DEF UserActs
<1>5. Grown(page, p)
  <2>1. e \in Suffixes(mockRealtimeFrames)
    BY MockType, SuffixFacts
  <2>2. p = [page EXCEPT !.mockFrames = e]
    OBVIOUS
  <2> HIDE DEF e, p
  <2>3. QED
    BY <1>2, <2>1, <2>2 DEF Grown, Pages
<1> HIDE DEF p, c, k, z
<1>6. p \in Pages
  BY <1>5 DEF Grown
<1>7. Moved(p, Request(p, c, "stop", k, z))
  BY <1>2, <1>3, <1>4, <1>6, RequestPage
<1>8. Moved(p, Dispatch(p, plain("connect.close")))
  <2>1. Grown(p, Dispatch(p, plain("connect.close")))
    BY <1>6, PlainDispatch DEF PlainActions
  <2>2. QED
    BY <2>1, GrownMoves
<1>9. Moved(p, x)
  BY <1>7, <1>8
<1> HIDE DEF x
<1>10. Moved(page, x)
  <2>1. Moved(page, p)
    BY <1>5, GrownMoves
  <2>2. QED
    BY <1>9, <2>1, MovedTransitive
<1>11. QED
  BY <1>1, <1>10, UserStep

LEMMA SyncKeepsInv ==
    ASSUME Inv, syncHistory
    PROVE  Inv'
<1> DEFINE c == clientRef
           k == sessionKey
           x == loadHistory(page, c, "manual", k)
<1>1. UserActs("sync", x)
  BY DEF syncHistory
<1>2. page \in Pages /\ k \in Sessions /\ transcript \in [Sessions -> Seq(Message)]
  BY InvRest
<1>3. c \in Clients
  BY <1>1, MountedClient DEF UserActs
<1> HIDE DEF c, k
<1>4. Moved(page, x)
  BY <1>2, <1>3, LoadHistoryPage
<1> HIDE DEF x
<1>5. QED
  BY <1>1, <1>4, UserStep

-----------------------------------------------------------------------------
(* Frames and answers.                                                     *)

\* The first packet of a socket leaves the rest in place.
LEMMA TakePacket ==
    ASSUME WireOK, NEW c \in Clients, wire[c] # << >>
    PROVE  /\ [wire EXCEPT ![c] = Tail(@)] \in [Clients -> Seq(Packets)]
           /\ Head(wire[c]) \in Packets
<1> DEFINE w == wire[c]
<1>1. w \in Seq(Packets) /\ w # << >>
  BY DEF WireOK
<1> HIDE DEF w
<1>2. Tail(w) \in Seq(Packets) /\ Head(w) \in Packets
  BY <1>1, HeadTailProperties
<1>3. Tail(wire[c]) \in Seq(Packets)
  BY <1>2 DEF w
<1>4. [wire EXCEPT ![c] = Tail(@)] \in [Clients -> Seq(Packets)]
  <2> DEFINE t == Tail(wire[c])
  <2>1. [wire EXCEPT ![c] = Tail(@)] = [wire EXCEPT ![c] = t]
    OBVIOUS
  <2>2. t \in Seq(Packets)
    BY <1>3
  <2> HIDE DEF t
  <2>3. QED
    BY <2>1, <2>2 DEF WireOK
<1>5. QED
  BY <1>2, <1>4 DEF w

LEMMA ReceiveHelloKeepsInv ==
    ASSUME Inv, NEW c \in Clients, ReceiveHello(c)
    PROVE  Inv'
<1>1. page \in Pages /\ RestTypeOK /\ WireOK
  BY InvRest
<1>2. wire' \in [Clients -> Seq(Packets)]
  BY <1>1, TakePacket DEF ReceiveHello, Receives
<1>3. Grown(page, page')
  BY <1>1, PlainDispatch DEF ReceiveHello, PlainActions
<1>4. CoreUnchanged /\ UNCHANGED <<renderedRun, greeted, seq, running, transcript, clock>>
  BY DEF ReceiveHello, CoreUnchanged
<1>5. WireOK' /\ RestTypeOK'
  BY <1>1, <1>2, <1>4 DEF WireOK, RestTypeOK, Clients
<1>6. Moved(page, page')
  BY <1>3, GrownMoves
<1>7. QED
  BY <1>4, <1>5, <1>6, PageStep

LEMMA ReceiveEventKeepsInv ==
    ASSUME Inv, NEW c \in Clients, ReceiveEvent(c)
    PROVE  Inv'
<1> DEFINE m   == Head(wire[c])
           f   == m.frame
           k   == keyOf[c]
           gap == lastSeq[c] # None /\ m.seq > lastSeq[c] + 1
           p   == IF gap THEN loadHistory(page, c, "gap", k) ELSE page
           x   == handleFrame(p, k, f)
<1>1. page \in Pages /\ RestTypeOK /\ WireOK /\ clientRef \in {0} \cup Clients
      /\ transcript \in [Sessions -> Seq(Message)] /\ Moved(page, page)
  BY InvRest
<1>2. k \in Sessions
  BY InvRest DEF ReceiveEvent, Receives, Ready
<1>3. wire' \in [Clients -> Seq(Packets)] /\ m \in Packets
  BY <1>1, TakePacket DEF ReceiveEvent, Receives
<1>4. f \in Frames
  <2>1. m.type = "event"
    BY DEF ReceiveEvent, Receives
  <2> HIDE DEF m
  <2>2. QED
    BY <1>3, <2>1 DEF Packets
<1>5. page' = x /\ CoreUnchanged /\ UNCHANGED <<renderedRun, greeted, seq, running, transcript, clock>>
  BY DEF ReceiveEvent, CoreUnchanged
<1> HIDE DEF f, k, gap
<1>6. Moved(page, p)
  BY <1>1, <1>2, LoadHistoryPage
<1> HIDE DEF p
<1>7. Moved(p, x)
  <2>1. p \in Pages
    BY <1>6 DEF Moved
  <2>2. QED
    BY <1>1, <1>2, <1>4, <2>1, HandleFramePage
<1> HIDE DEF x
<1>8. Moved(page, page')
  BY <1>5, <1>6, <1>7, MovedTransitive
<1>9. WireOK' /\ RestTypeOK'
  BY <1>1, <1>3, <1>5 DEF WireOK, RestTypeOK, Clients
<1>10. QED
  BY <1>5, <1>8, <1>9, PageStep

\* What RemoveAt leaves was there.
LEMMA RemoveAtFacts ==
    ASSUME NEW S, NEW s \in Seq(S), NEW i \in DOMAIN s
    PROVE  /\ RemoveAt(s, i) \in Seq(S)
           /\ \A j \in DOMAIN RemoveAt(s, i) : \E k \in DOMAIN s : RemoveAt(s, i)[j] = s[k]
<1> DEFINE a == SubSeq(s, 1, i - 1)
           b == SubSeq(s, i + 1, Len(s))
<1>1. Len(s) \in Nat /\ DOMAIN s = 1..Len(s) /\ i \in 1..Len(s)
  BY LenProperties
<1>2. \A j \in 1..Len(s) : s[j] \in S
  BY <1>1
<1>3. a \in Seq(S) /\ Len(a) = i - 1 /\ \A j \in 1..(i - 1) : a[j] = s[j]
  <2> DEFINE one == 1
             hi  == i - 1
  <2>1. one \in Int /\ hi \in Int /\ (\A j \in one..hi : s[j] \in S)
        /\ (one <= hi => hi - one + 1 = i - 1) /\ (~(one <= hi) => i - 1 = 0)
        /\ hi - one + 1 = i - 1
    BY <1>1, <1>2
  <2>2. \A j \in 1..(i - 1) : j \in 1..(hi - one + 1) /\ one + j - 1 = j
    BY <1>1
  <2> HIDE DEF one, hi
  <2>3. SubSeq(s, one, hi) \in Seq(S)
        /\ Len(SubSeq(s, one, hi)) = (IF one <= hi THEN hi - one + 1 ELSE 0)
        /\ \A j \in 1..(hi - one + 1) : SubSeq(s, one, hi)[j] = s[one + j - 1]
    BY <2>1, SubSeqProperties
  <2>4. Len(SubSeq(s, one, hi)) = i - 1
    BY <2>1, <2>3
  <2>5. \A j \in 1..(i - 1) : SubSeq(s, one, hi)[j] = s[j]
    BY <2>2, <2>3
  <2>6. QED
    BY <2>3, <2>4, <2>5 DEF one, hi
<1>4. b \in Seq(S) /\ Len(b) = Len(s) - i /\ \A j \in 1..(Len(s) - i) : b[j] = s[i + j]
  <2> DEFINE lo == i + 1
             hi == Len(s)
  <2>1. lo \in Int /\ hi \in Int /\ (\A j \in lo..hi : s[j] \in S)
        /\ (~(lo <= hi) => Len(s) - i = 0)
        /\ hi - lo + 1 = Len(s) - i
    BY <1>1, <1>2
  <2>2. \A j \in 1..(Len(s) - i) : j \in 1..(hi - lo + 1) /\ lo + j - 1 = i + j
    BY <1>1
  <2> HIDE DEF lo, hi
  <2>3. SubSeq(s, lo, hi) \in Seq(S)
        /\ Len(SubSeq(s, lo, hi)) = (IF lo <= hi THEN hi - lo + 1 ELSE 0)
        /\ \A j \in 1..(hi - lo + 1) : SubSeq(s, lo, hi)[j] = s[lo + j - 1]
    BY <2>1, SubSeqProperties
  <2>4. Len(SubSeq(s, lo, hi)) = Len(s) - i
    BY <2>1, <2>3
  <2>5. \A j \in 1..(Len(s) - i) : SubSeq(s, lo, hi)[j] = s[i + j]
    BY <2>2, <2>3
  <2>6. QED
    BY <2>3, <2>4, <2>5 DEF lo, hi
<1>5. RemoveAt(s, i) = a \o b
  BY DEF RemoveAt
<1> HIDE DEF a, b
<1>6. a \o b \in Seq(S) /\ Len(a \o b) = Len(a) + Len(b)
      /\ \A j \in 1..(Len(a) + Len(b)) :
            (a \o b)[j] = IF j <= Len(a) THEN a[j] ELSE b[j - Len(a)]
  BY <1>3, <1>4, ConcatProperties
<1>7. DOMAIN (a \o b) = 1..(Len(a) + Len(b))
  BY <1>6, LenProperties
<1>8. ASSUME NEW j \in 1..(Len(a) + Len(b))
      PROVE  \E k \in DOMAIN s : (a \o b)[j] = s[k]
  <2>1. CASE j <= Len(a)
    <3>1. j \in 1..(i - 1) /\ j \in 1..Len(s)
      BY <1>1, <1>3, <1>4, <2>1
    <3>2. (a \o b)[j] = s[j]
      BY <1>3, <1>6, <2>1, <3>1
    <3>3. QED
      BY <1>1, <3>1, <3>2
  <2>2. CASE ~(j <= Len(a))
    <3>1. j - Len(a) \in 1..(Len(s) - i) /\ i + (j - Len(a)) \in 1..Len(s)
      BY <1>1, <1>3, <1>4, <2>2
    <3>2. (a \o b)[j] = s[i + (j - Len(a))]
      BY <1>4, <1>6, <2>2, <3>1
    <3>3. QED
      BY <1>1, <3>1, <3>2
  <2>3. QED
    BY <2>1, <2>2
<1>9. QED
  BY <1>5, <1>6, <1>7, <1>8

LEMMA ReceiveAnswerKeepsInv ==
    ASSUME Inv, NEW i \in DOMAIN page.requests, NEW ok \in BOOLEAN, NEW n \in 0..MaxEvents,
           ReceiveAnswer(i, ok, n)
    PROVE  Inv'
<1> DEFINE q  == page.requests[i]
           rs == RemoveAt(page.requests, i)
           p  == [page EXCEPT !.requests = rs]
           h  == SubSeq(transcript[q.session], 1, n)
           x  == IF ~ok THEN Rejected(p, q)
                 ELSE IF q.why \in {"send", "stop"} THEN p
                 ELSE Dispatch(p, historyLoaded(h))
           m  == [session |-> q.session, text |-> q.text]
<1>1. page \in Pages /\ RestTypeOK /\ WireOK /\ transcript \in [Sessions -> Seq(Message)]
      /\ page.requests \in Seq(Requests)
  BY InvRest DEF Pages
<1>2. q \in Requests
  BY <1>1
<1>3. /\ page' = x
      /\ n \in q.since..Len(transcript[q.session])
      /\ transcript' = IF ok /\ q.why = "send"
                       THEN [transcript EXCEPT ![q.session] = Append(@, m)]
                       ELSE transcript
      /\ CoreUnchanged /\ UNCHANGED <<renderedRun, wire, greeted, seq, running, clock>>
  BY DEF ReceiveAnswer, CoreUnchanged, clientVars
<1>4. q.session \in Sessions /\ q.text \in Nat
  BY <1>2 DEF Requests
<1>5. rs \in Seq(Requests) /\ \A j \in DOMAIN rs : \E k \in DOMAIN page.requests : rs[j] = page.requests[k]
  <2> DEFINE s == page.requests
  <2>1. s \in Seq(Requests) /\ i \in DOMAIN s
    BY <1>1
  <2> HIDE DEF s
  <2>2. RemoveAt(s, i) \in Seq(Requests)
        /\ \A j \in DOMAIN RemoveAt(s, i) : \E k \in DOMAIN s : RemoveAt(s, i)[j] = s[k]
    BY <2>1, RemoveAtFacts
  <2>3. QED
    BY <2>2 DEF s
<1>6. Moved(page, p)
  <2>1. p = [page EXCEPT !.requests = rs]
    OBVIOUS
  <2> HIDE DEF rs, p
  <2>2. p \in Pages /\ p.requests = rs /\ p.closed = page.closed
    BY <1>1, <1>5, <2>1 DEF Pages
  <2>3. QED
    BY <1>5, <2>2 DEF Moved, OnOpenSockets
<1>7. h \in Seq(Message)
  <2> DEFINE s == transcript[q.session]
  <2>1. s \in Seq(Message)
    BY <1>1, <1>4
  <2>2. n <= Len(s) /\ n \in Nat
    <3>1. q.since \in Nat
      BY <1>2 DEF Requests
    <3>2. Len(s) \in Nat
      BY <2>1, LenProperties
    <3>3. QED
      BY <1>3, <3>1, <3>2
  <2> HIDE DEF s
  <2>3. SubSeq(s, 1, n) \in Seq(Message)
    BY <2>1, <2>2
  <2>4. QED
    BY <2>3 DEF s
<1>8. m \in Message
  BY <1>4 DEF Message
<1>9. transcript' \in [Sessions -> Seq(Message)]
  <2> DEFINE s == transcript[q.session]
             t == Append(s, m)
  <2>1. s \in Seq(Message)
    BY <1>1, <1>4
  <2>2. t \in Seq(Message)
    <3> HIDE DEF s, m
    <3>1. QED
      BY <1>8, <2>1
  <2>3. transcript' = transcript \/ transcript' = [transcript EXCEPT ![q.session] = t]
    BY <1>3
  <2> HIDE DEF t, q
  <2>4. QED
    BY <1>1, <1>4, <2>2, <2>3
<1> HIDE DEF p, q, h
<1>10. p \in Pages
  BY <1>6 DEF Moved
<1>11. Moved(p, x)
  <2>1. Grown(p, Rejected(p, q))
    BY <1>2, <1>10, RejectedPage
  <2>2. Grown(p, Dispatch(p, historyLoaded(h)))
    <3>1. p.st \in States
      BY <1>10 DEF Pages
    <3>2. realtimeReducer(p.st, historyLoaded(h)) \in States
      BY <1>7, <3>1, HistoryReduces
    <3>3. QED
      BY <1>10, <3>2, DispatchPage DEF Grown
  <2>3. Grown(p, p)
    BY <1>10 DEF Grown
  <2>4. Grown(p, x)
    BY <2>1, <2>2, <2>3
  <2> HIDE DEF x
  <2>5. QED
    BY <2>4, GrownMoves
<1> HIDE DEF x
<1>12. Moved(page, page')
  BY <1>3, <1>6, <1>11, MovedTransitive
<1>13. WireOK' /\ RestTypeOK'
  BY <1>1, <1>3, <1>9 DEF WireOK, RestTypeOK, Clients
<1>14. QED
  BY <1>3, <1>12, <1>13, PageStep

-----------------------------------------------------------------------------
(* The gateway.                                                            *)

LEMMA GatewayHelloKeepsInv ==
    ASSUME Inv, NEW c \in Clients, GatewayHello(c)
    PROVE  Inv'
<1> DEFINE m == [type |-> "hello"]
           w == wire[c]
           v == IF c \in page.closed THEN w ELSE Append(w, m)
<1>1. RestTypeOK /\ WireOK /\ Moved(page, page)
  BY InvRest
<1>2. m \in Packets
  BY DEF Packets
<1>3. w \in Seq(Packets)
  BY <1>1 DEF WireOK
<1>4. v \in Seq(Packets)
  <2> HIDE DEF m, w
  <2>1. QED
    BY <1>2, <1>3
<1>5. wire' = [wire EXCEPT ![c] = v]
  BY DEF GatewayHello
<1>6. greeted' = greeted \cup {c} /\ page' = page /\ CoreUnchanged
      /\ UNCHANGED <<renderedRun, seq, running, transcript, clock>>
  BY DEF GatewayHello, CoreUnchanged, pageVars, clientVars
<1> HIDE DEF v
<1>7. wire' \in [Clients -> Seq(Packets)]
  BY <1>1, <1>4, <1>5 DEF WireOK
<1>8. WireOK' /\ RestTypeOK'
  BY <1>1, <1>6, <1>7 DEF WireOK, RestTypeOK, Clients
<1>9. Moved(page, page')
  BY <1>1, <1>6
<1>10. QED
  BY <1>6, <1>8, <1>9, PageStep

\* An event frame for every socket (Publish).
LEMMA PublishStep ==
    ASSUME Inv, NEW input, NEW f \in Frames, NEW skipped \in BOOLEAN, Publish(input, f, skipped),
           running' \in [Sessions -> Nat], transcript' \in [Sessions -> Seq(Message)]
    PROVE  Inv'
<1> DEFINE n == seq + (IF skipped THEN 2 ELSE 1)
           m == [type |-> "event", seq |-> n, frame |-> f]
<1>1. RestTypeOK /\ WireOK /\ Moved(page, page)
  BY InvRest
<1>2. n \in Nat
  BY <1>1 DEF RestTypeOK
<1>3. m \in Packets
  <2> HIDE DEF n
  <2>1. QED
    BY <1>2 DEF Packets
<1>4. wire' = [c \in Clients |-> IF Ready(page, c) THEN Append(wire[c], m) ELSE wire[c]]
  BY DEF Publish
<1>5. seq' = n /\ page' = page /\ CoreUnchanged /\ UNCHANGED <<renderedRun, greeted>>
      /\ clock' = clock + 1 /\ clock < MaxEvents
  BY DEF Publish, CoreUnchanged, pageVars, clientVars
<1> HIDE DEF m, n
<1>6. ASSUME NEW c \in Clients
      PROVE  (IF Ready(page, c) THEN Append(wire[c], m) ELSE wire[c]) \in Seq(Packets)
  <2> DEFINE w == wire[c]
  <2>1. w \in Seq(Packets)
    BY <1>1 DEF WireOK
  <2> HIDE DEF w
  <2>2. Append(w, m) \in Seq(Packets)
    BY <1>3, <2>1
  <2>3. QED
    BY <2>1, <2>2 DEF w
<1>7. wire' \in [Clients -> Seq(Packets)]
  BY <1>4, <1>6
<1>8. clock' \in 0..MaxEvents
  BY <1>1, <1>5, PageAssumption DEF RestTypeOK
<1>9. WireOK' /\ RestTypeOK'
  BY <1>1, <1>2, <1>5, <1>7, <1>8 DEF WireOK, RestTypeOK, Clients
<1>10. Moved(page, page')
  BY <1>1, <1>5
<1>11. QED
  BY <1>5, <1>9, <1>10, PageStep

\* A message joins a transcript.
LEMMA TranscriptGrows ==
    ASSUME transcript \in [Sessions -> Seq(Message)], NEW s \in Sessions, NEW m \in Message
    PROVE  [transcript EXCEPT ![s] = Append(@, m)] \in [Sessions -> Seq(Message)]
<1> DEFINE t == transcript[s]
           v == Append(t, m)
<1>1. t \in Seq(Message)
  OBVIOUS
<1>2. v \in Seq(Message)
  <2> HIDE DEF t
  <2>1. QED
    BY <1>1
<1>3. [transcript EXCEPT ![s] = Append(@, m)] = [transcript EXCEPT ![s] = v]
  OBVIOUS
<1> HIDE DEF v
<1>4. QED
  BY <1>2, <1>3

LEMMA GatewayFacts ==
    ASSUME Inv
    PROVE  /\ running \in [Sessions -> Nat] /\ transcript \in [Sessions -> Seq(Message)]
           /\ clock \in Nat /\ clock + 1 \in Nat /\ 0 \in Nat
           /\ Sessions \subseteq AnySession
BY PageAssumption DEF Inv, TypeOK, AnySession

LEMMA RunGoesOnKeepsInv ==
    ASSUME Inv, NEW s \in Sessions, NEW skipped \in BOOLEAN, RunGoesOn(s, skipped)
    PROVE  Inv'
<1> DEFINE run == IF running[s] = 0 THEN clock + 1 ELSE running[s]
           t == clock + 1
<1>1. running \in [Sessions -> Nat] /\ transcript \in [Sessions -> Seq(Message)] /\ t \in Nat
      /\ s \in AnySession
  BY GatewayFacts
<1>2. run \in Nat
  BY <1>1
<1>3. running' = [running EXCEPT ![s] = run] /\ transcript' = transcript
  BY DEF RunGoesOn
<1>4. Publish("delta", chat(s, run, "delta", t), skipped)
      \/ Publish("tool", toolStatus(s, run, run), skipped)
  BY DEF RunGoesOn
<1> HIDE DEF run, t
<1>5. running' \in [Sessions -> Nat] /\ transcript' \in [Sessions -> Seq(Message)]
  BY <1>1, <1>2, <1>3
<1>6. chat(s, run, "delta", t) \in Frames
  BY <1>1, <1>2 DEF chat, Frames
<1>7. toolStatus(s, run, run) \in Frames
  BY <1>1, <1>2 DEF toolStatus, Frames
<1>8. QED
  BY <1>4, <1>5, <1>6, <1>7, PublishStep

LEMMA RunReportedKeepsInv ==
    ASSUME Inv, NEW s \in Sessions, NEW skipped \in BOOLEAN, RunReported(s, skipped)
    PROVE  Inv'
<1> DEFINE run == running[s]
<1>1. running \in [Sessions -> Nat] /\ transcript \in [Sessions -> Seq(Message)] /\ s \in AnySession
  BY GatewayFacts
<1>2. run \in Nat
  BY <1>1
<1>3. PICK status \in {"completed", "error"} : Publish("report", runStatus(s, run, status), skipped)
  BY DEF RunReported
<1>4. running' = running /\ transcript' = transcript
  BY DEF RunReported
<1> HIDE DEF run
<1>5. runStatus(s, run, status) \in Frames
  BY <1>1, <1>2, <1>3 DEF runStatus, Frames
<1>6. QED
  BY <1>1, <1>3, <1>4, <1>5, PublishStep

LEMMA RunEndsKeepsInv ==
    ASSUME Inv, NEW s \in Sessions, NEW skipped \in BOOLEAN, RunEnds(s, skipped)
    PROVE  Inv'
<1> DEFINE run == running[s]
           t == clock + 1
           z == 0
           m == [session |-> s, text |-> t]
<1>1. running \in [Sessions -> Nat] /\ transcript \in [Sessions -> Seq(Message)] /\ t \in Nat
      /\ s \in AnySession /\ z \in Nat
  BY GatewayFacts
<1>2. run \in Nat
  BY <1>1
<1>3. running' \in [Sessions -> Nat]
  BY <1>1 DEF RunEnds
<1>4. m \in Message
  BY <1>1 DEF Message
<1>5. \/ /\ Publish("end", chat(s, run, "final", t), skipped)
         /\ transcript' = [transcript EXCEPT ![s] = Append(@, m)]
      \/ /\ \E state \in TerminalChat : Publish("end", chat(s, run, state, z), skipped)
         /\ transcript' = transcript
  BY DEF RunEnds
<1> HIDE DEF run, t, z, m
<1>6. chat(s, run, "final", t) \in Frames
  BY <1>1, <1>2 DEF chat, Frames, TerminalChat
<1>7. \A state \in TerminalChat : chat(s, run, state, z) \in Frames
  BY <1>1, <1>2 DEF chat, Frames, TerminalChat
<1>8. transcript' \in [Sessions -> Seq(Message)]
  <2>1. [transcript EXCEPT ![s] = Append(@, m)] \in [Sessions -> Seq(Message)]
    BY <1>1, <1>4, TranscriptGrows
  <2>2. CASE transcript' = transcript
    BY <1>1, <2>2
  <2>3. CASE transcript' = [transcript EXCEPT ![s] = Append(@, m)]
    BY <2>1, <2>3
  <2>4. QED
    BY <1>5, <2>2, <2>3
<1>9. CASE Publish("end", chat(s, run, "final", t), skipped)
  BY <1>3, <1>6, <1>8, <1>9, PublishStep
<1>10. CASE \E state \in TerminalChat : Publish("end", chat(s, run, state, z), skipped)
  <2>1. PICK state \in TerminalChat : Publish("end", chat(s, run, state, z), skipped)
    BY <1>10
  <2> DEFINE f == chat(s, run, state, z)
  <2>2. f \in Frames /\ Publish("end", f, skipped)
    BY <1>7, <2>1
  <2> HIDE DEF f
  <2>3. QED
    BY <1>3, <1>8, <2>2, PublishStep
<1>11. QED
  BY <1>5, <1>9, <1>10

LEMMA MessageArrivesKeepsInv ==
    ASSUME Inv, NEW s \in Sessions, NEW skipped \in BOOLEAN, MessageArrives(s, skipped)
    PROVE  Inv'
<1> DEFINE t == clock + 1
           m == [session |-> s, text |-> t]
<1>1. running \in [Sessions -> Nat] /\ transcript \in [Sessions -> Seq(Message)] /\ t \in Nat
      /\ s \in AnySession
  BY GatewayFacts
<1>2. m \in Message
  BY <1>1 DEF Message
<1>3. Publish("message", sessionMessage(s), skipped) /\ running' = running
      /\ transcript' = [transcript EXCEPT ![s] = Append(@, m)]
  BY DEF MessageArrives
<1> HIDE DEF m
<1>4. transcript' \in [Sessions -> Seq(Message)]
  BY <1>1, <1>2, <1>3, TranscriptGrows
<1>5. sessionMessage(s) \in Frames
  BY <1>1 DEF sessionMessage, Frames
<1>6. QED
  BY <1>1, <1>3, <1>4, <1>5, PublishStep

LEMMA ApprovalChangesKeepsInv ==
    ASSUME Inv, NEW skipped \in BOOLEAN, ApprovalChanges(skipped)
    PROVE  Inv'
<1>1. running \in [Sessions -> Nat] /\ transcript \in [Sessions -> Seq(Message)]
  BY GatewayFacts
<1>2. PICK id \in ApprovalIds, event \in {"approval.requested", "approval.resolved"} :
        Publish("approval", approval(event, id), skipped)
  BY DEF ApprovalChanges
<1>3. running' = running /\ transcript' = transcript
  BY DEF ApprovalChanges
<1>4. approval(event, id) \in Frames
  BY <1>2 DEF approval, Frames, Approvals
<1>5. QED
  BY <1>1, <1>2, <1>3, <1>4, PublishStep

-----------------------------------------------------------------------------
(* Clients come and go.                                                    *)

LEMMA ClientNumbers ==
    /\ MaxClients \in Nat /\ Clients \subseteq Nat \ {0}
    /\ \A n \in Clients : n < MaxClients => n + 1 \in Clients
BY PageAssumption DEF Clients

\* A new client (connectGateway), from a page with the requests of this one.
LEMMA ConnectFacts ==
    ASSUME Inv, NEW p \in Pages, NEW key \in Sessions, connectGateway(p, key)
    PROVE  /\ made' = made + 1 /\ made + 1 \in Clients /\ clientRef' = made + 1 /\ timer' = None
           /\ sock[made + 1] = "unused" /\ keyOf[made + 1] = None
           /\ sock' \in [Clients -> {"unused", "connecting", "open", "closed"}]
           /\ keyOf' \in [Clients -> Sessions \cup {None}]
           /\ sock'[made + 1] = "connecting" /\ keyOf'[made + 1] = key
           /\ \A c \in Clients : c # made + 1 => sock'[c] = sock[c] /\ keyOf'[c] = keyOf[c]
           /\ Grown(p, page')
<1> DEFINE n == made + 1
<1>1. made \in Clients /\ made < MaxClients /\ made \in Nat
  BY ClientNumbers DEF Inv, TypeOK, connectGateway
<1>2. n \in Clients /\ n > made
  BY <1>1, ClientNumbers
<1>3. sock[n] = "unused" /\ keyOf[n] = None
  BY <1>2 DEF Inv, ClientsOK
<1>4. /\ sock' = [sock EXCEPT ![n] = "connecting"] /\ keyOf' = [keyOf EXCEPT ![n] = key]
      /\ made' = n /\ clientRef' = n /\ timer' = None
      /\ page' = Dispatch(p, plain("connect.start"))
  BY DEF connectGateway
<1>5. /\ sock \in [Clients -> {"unused", "connecting", "open", "closed"}]
      /\ keyOf \in [Clients -> Sessions \cup {None}]
  BY DEF Inv, TypeOK
<1> HIDE DEF n
<1>6. /\ sock' \in [Clients -> {"unused", "connecting", "open", "closed"}]
      /\ keyOf' \in [Clients -> Sessions \cup {None}]
      /\ sock'[n] = "connecting" /\ keyOf'[n] = key
      /\ \A c \in Clients : c # n => sock'[c] = sock[c] /\ keyOf'[c] = keyOf[c]
  BY <1>2, <1>4, <1>5
<1>7. Grown(p, page')
  BY <1>4, PlainDispatch DEF PlainActions
<1>8. QED
  BY <1>2, <1>3, <1>4, <1>6, <1>7 DEF n

\* The parts of the invariant that any new client keeps.
LEMMA ConnectKeeps ==
    ASSUME Inv, NEW p \in Pages, NEW key \in Sessions, connectGateway(p, key),
           p.requests = page.requests
    PROVE  /\ \A c \in Clients : c > made' => sock'[c] = "unused" /\ keyOf'[c] = None
           /\ \A c \in Clients : c <= made' => sock'[c] # "unused" /\ keyOf'[c] \in Sessions
           /\ OnOpenSockets(page, sock)'
           /\ \E c \in Clients : sock'[c] = "connecting"
           /\ page' \in Pages
<1>1. /\ made' = made + 1 /\ made + 1 \in Clients
      /\ sock[made + 1] = "unused"
      /\ sock'[made + 1] = "connecting" /\ keyOf'[made + 1] = key
      /\ \A c \in Clients : c # made + 1 => sock'[c] = sock[c] /\ keyOf'[c] = keyOf[c]
      /\ Grown(p, page')
  BY ConnectFacts
<1>2. made \in Nat /\ Clients \subseteq Nat
  BY ClientNumbers DEF Inv, TypeOK
<1>3. \A c \in Clients : c > made' => sock'[c] = "unused" /\ keyOf'[c] = None
  BY <1>1, <1>2 DEF Inv, ClientsOK
<1>4. \A c \in Clients : c <= made' => sock'[c] # "unused" /\ keyOf'[c] \in Sessions
  <2>1. SUFFICES ASSUME NEW c \in Clients, c <= made'
                 PROVE  sock'[c] # "unused" /\ keyOf'[c] \in Sessions
    OBVIOUS
  <2>2. CASE c = made + 1
    BY <1>1, <2>2
  <2>3. CASE c # made + 1
    <3>1. c <= made
      BY <1>1, <1>2, <2>1, <2>3
    <3>2. QED
      BY <1>1, <2>3, <3>1 DEF Inv, ClientsOK
  <2>4. QED
    BY <2>2, <2>3
<1>5. OnOpenSockets(page, sock)'
  <2>1. page'.requests = page.requests /\ page.requests \in Seq(Requests)
    BY <1>1 DEF Grown, Inv, TypeOK, Pages
  <2>2. SUFFICES ASSUME NEW i \in DOMAIN page.requests
                 PROVE  sock'[page.requests[i].on] = "open"
    BY <2>1 DEF OnOpenSockets
  <2>3. page.requests[i] \in Requests
    BY <2>1
  <2>4. page.requests[i].on \in Clients
    BY <2>3 DEF Requests
  <2>5. sock[page.requests[i].on] = "open"
    BY DEF Inv, OnOpenSockets
  <2>6. QED
    BY <1>1, <2>4, <2>5
<1>6. QED
  BY <1>1, <1>3, <1>4, <1>5 DEF Grown

LEMMA ReconnectTimerKeepsInv ==
    ASSUME Inv, ReconnectTimer
    PROVE  Inv'
<1> DEFINE k == timer
<1>1. page \in Pages /\ k \in Sessions /\ connectGateway(page, k) /\ mounted
  BY DEF ReconnectTimer, Inv, TypeOK, HookOK
<1>2. UNCHANGED <<sessionKey, mounted, renderedRun, closedByUser, wire, greeted, seq, running,
                  transcript, clock>>
  BY DEF ReconnectTimer, gatewayVars
<1> HIDE DEF k
<1>3. /\ made' = made + 1 /\ made + 1 \in Clients /\ clientRef' = made + 1 /\ timer' = None
      /\ sock[made + 1] = "unused" /\ keyOf[made + 1] = None
      /\ sock' \in [Clients -> {"unused", "connecting", "open", "closed"}]
      /\ keyOf' \in [Clients -> Sessions \cup {None}]
      /\ sock'[made + 1] = "connecting" /\ keyOf'[made + 1] = k
      /\ \A c \in Clients : c # made + 1 => sock'[c] = sock[c] /\ keyOf'[c] = keyOf[c]
      /\ Grown(page, page')
  BY <1>1, ConnectFacts
<1>4. /\ \A c \in Clients : c > made' => sock'[c] = "unused" /\ keyOf'[c] = None
      /\ \A c \in Clients : c <= made' => sock'[c] # "unused" /\ keyOf'[c] \in Sessions
      /\ OnOpenSockets(page, sock)'
      /\ \E c \in Clients : sock'[c] = "connecting"
      /\ page' \in Pages
  BY <1>1, ConnectKeeps
<1>5. TypeOK' /\ WireOK'
  BY <1>2, <1>3, <1>4 DEF Inv, TypeOK, WireOK, Clients
<1>6. ClientsOK'
  <2>1. \E c \in Clients : keyOf'[c] = sessionKey'
    <3>1. PICK c \in Clients : keyOf[c] = sessionKey
      BY DEF Inv, ClientsOK
    <3>2. c # made + 1
      BY <1>3, <3>1, PageAssumption DEF Inv, TypeOK
    <3>3. QED
      BY <1>2, <1>3, <3>1, <3>2
  <2>2. QED
    BY <1>4, <2>1 DEF ClientsOK, Clients
<1>7. HookOK'
  BY <1>1, <1>2, <1>3 DEF Inv, HookOK
<1>8. PageNeverStranded'
  BY <1>4 DEF PageNeverStranded, Clients
<1>9. NewestOnly'
  <2>1. SUFFICES ASSUME Stayed', NEW c \in Clients, sock'[c] \in {"connecting", "open"}
                 PROVE  c = made'
    BY <1>1, <1>2, <1>3 DEF NewestOnly, Connected, Clients
  <2>2. Stayed
    <3>1. \A d \in Clients : keyOf'[d] \in {None, sessionKey}
      BY <1>2, <2>1 DEF Stayed, Clients
    <3>2. QED
      BY <1>3, <3>1 DEF Stayed
  <2>3. c # made + 1 => FALSE
    BY <1>1, <1>3, <2>1, <2>2 DEF Inv, NewestOnly, Connected, ReconnectTimer
  <2>4. QED
    BY <1>3, <2>3
<1>10. QED
  BY <1>4, <1>5, <1>6, <1>7, <1>8, <1>9 DEF Inv

\* The cleanup of the connection effect (Cleanup).
LEMMA CleanupPage ==
    ASSUME Inv, mounted
    PROVE  Grown(page, Cleanup(page)) /\ clientRef \in Cleanup(page).closed
<1> DEFINE e == << >>
           c == clientRef
           cl == page.closed \cup {c}
           x == [page EXCEPT !.deferred = FALSE, !.mockFrames = e, !.closed = cl]
<1>1. page \in Pages /\ c \in Clients
  BY InvRest, MountedClient
<1>2. e \in Suffixes(mockRealtimeFrames)
  BY MockType, SuffixFacts
<1>3. cl \in SUBSET Clients /\ c \in cl /\ page.closed \subseteq cl
  BY <1>1 DEF Pages
<1>4. Cleanup(page) = x
  <2>1. c # 0
    BY <1>1, ClientNumbers
  <2>2. QED
    BY <1>1, <2>1 DEF Cleanup, Pages
<1>5. x = [page EXCEPT !.deferred = FALSE, !.mockFrames = e, !.closed = cl]
  OBVIOUS
<1> HIDE DEF e, c, cl, x
<1>6. x \in Pages /\ x.requests = page.requests /\ x.closed = cl
  BY <1>1, <1>2, <1>3, <1>5 DEF Pages
<1>7. QED
  BY <1>3, <1>4, <1>6 DEF Grown, c

LEMMA NavigateKeepsInv ==
    ASSUME Inv, NEW s \in Sessions, Navigate(s)
    PROVE  Inv'
<1> DEFINE cp == Cleanup(page)
           s0 == initialRealtimeState
           p  == [cp EXCEPT !.activeRun = None, !.st = s0]
<1>1. /\ mounted /\ clock < MaxEvents /\ s # sessionKey /\ clock' = clock + 1
      /\ sessionKey' = s /\ connectGateway(p, s) /\ renderedRun' = page.st.chatRunId
      /\ closedByUser' = FALSE
      /\ UNCHANGED <<mounted, wire, greeted, seq, running, transcript>>
  BY DEF Navigate
<1>2. Grown(page, cp)
  BY <1>1, CleanupPage
<1>3. s0 \in States
  <2> DEFINE e == << >>
  <2>1. e \in Seq(Message) /\ e \in Seq(Nat) /\ e \in Seq(Seq(Nat))
    OBVIOUS
  <2>2. s0 = [chatMessages |-> e, chatStream |-> e, chatStreamSegments |-> e,
              chatRunId |-> None, chatQueue |-> e, chatSending |-> FALSE,
              chatLoading |-> FALSE, toolStreamOrder |-> e, pendingApprovals |-> {},
              connectionStatus |-> "idle"]
    BY DEF initialRealtimeState
  <2> HIDE DEF e, s0
  <2>3. QED
    BY <2>1, <2>2 DEF States
<1>4. p = [cp EXCEPT !.activeRun = None, !.st = s0]
  OBVIOUS
<1> HIDE DEF cp, s0, p
<1>5. p \in Pages /\ p.requests = page.requests
  BY <1>2, <1>3, <1>4 DEF Grown, Pages
<1>6. /\ made' = made + 1 /\ made + 1 \in Clients /\ clientRef' = made + 1 /\ timer' = None
      /\ sock[made + 1] = "unused" /\ keyOf[made + 1] = None
      /\ sock' \in [Clients -> {"unused", "connecting", "open", "closed"}]
      /\ keyOf' \in [Clients -> Sessions \cup {None}]
      /\ sock'[made + 1] = "connecting" /\ keyOf'[made + 1] = s
      /\ \A c \in Clients : c # made + 1 => sock'[c] = sock[c] /\ keyOf'[c] = keyOf[c]
      /\ Grown(p, page')
  BY <1>1, <1>5, ConnectFacts
<1>7. /\ \A c \in Clients : c > made' => sock'[c] = "unused" /\ keyOf'[c] = None
      /\ \A c \in Clients : c <= made' => sock'[c] # "unused" /\ keyOf'[c] \in Sessions
      /\ OnOpenSockets(page, sock)'
      /\ \E c \in Clients : sock'[c] = "connecting"
      /\ page' \in Pages
  BY <1>1, <1>5, ConnectKeeps
<1>8. TypeOK' /\ WireOK'
  <2>1. clock' \in 0..MaxEvents
    BY <1>1, PageAssumption DEF Inv, TypeOK
  <2>2. renderedRun' \in Nat \cup {None}
    BY <1>1 DEF Inv, TypeOK, Pages, States
  <2>3. QED
    BY <1>1, <1>6, <1>7, <2>1, <2>2 DEF Inv, TypeOK, WireOK, Clients
<1>9. ClientsOK'
  BY <1>1, <1>6, <1>7 DEF ClientsOK, Clients
<1>10. HookOK'
  BY <1>1, <1>6 DEF HookOK
<1>11. PageNeverStranded'
  BY <1>7 DEF PageNeverStranded, Clients
<1>12. ~Stayed'
  <2>1. PICK c \in Clients : keyOf[c] = sessionKey
    BY DEF Inv, ClientsOK
  <2>2. sessionKey # None /\ c # made + 1
    BY <1>6, <2>1, PageAssumption DEF Inv, TypeOK
  <2>3. keyOf'[c] = sessionKey
    BY <1>6, <2>1, <2>2
  <2>4. keyOf'[c] \notin {None, sessionKey'}
    BY <1>1, <2>2, <2>3
  <2>5. QED
    BY <2>4 DEF Stayed, Clients
<1>13. NewestOnly'
  BY <1>12 DEF NewestOnly
<1>14. QED
  BY <1>7, <1>8, <1>9, <1>10, <1>11, <1>13 DEF Inv

LEMMA UnmountKeepsInv ==
    ASSUME Inv, Unmount
    PROVE  Inv'
<1>1. /\ mounted /\ ~mounted' /\ mounted' \in BOOLEAN /\ page' = Cleanup(page) /\ closedByUser' = TRUE
      /\ timer' = None /\ clientRef' = 0
      /\ UNCHANGED <<sessionKey, renderedRun, made, sock, keyOf, lastSeq, wire, greeted, seq,
                     running, transcript, clock>>
  BY DEF Unmount, clientVars, gatewayVars
<1>2. Grown(page, page') /\ clientRef \in page'.closed
  BY <1>1, CleanupPage
<1>3. TypeOK' /\ WireOK' /\ ClientsOK'
  BY <1>1, <1>2 DEF Inv, TypeOK, WireOK, ClientsOK, Grown, Clients
<1>4. HookOK' /\ PageNeverStranded'
  BY <1>1 DEF HookOK, PageNeverStranded
<1>5. NewestOnly'
  <2>1. clientRef = made
    BY <1>1 DEF Inv, HookOK
  <2>2. QED
    BY <1>1, <1>2, <2>1 DEF Inv, NewestOnly, Stayed, Connected, Clients
<1>6. OnOpenSockets(page, sock)'
  BY <1>1, <1>2 DEF Inv, OnOpenSockets, Grown
<1>7. QED
  BY <1>3, <1>4, <1>5, <1>6 DEF Inv

LEMMA SocketOpenKeepsInv ==
    ASSUME Inv, NEW c \in Clients, SocketOpen(c)
    PROVE  Inv'
<1>1. /\ sock[c] = "connecting" /\ c \notin page.closed /\ sock' = [sock EXCEPT ![c] = "open"]
      /\ UNCHANGED <<sessionKey, mounted, page, renderedRun, closedByUser, timer, clientRef,
                     made, keyOf, lastSeq, wire, greeted, seq, running, transcript, clock>>
  BY DEF SocketOpen, pageVars, gatewayVars
<1>2. sock \in [Clients -> {"unused", "connecting", "open", "closed"}]
  BY DEF Inv, TypeOK
<1>3. /\ sock' \in [Clients -> {"unused", "connecting", "open", "closed"}]
      /\ sock'[c] = "open" /\ \A d \in Clients : d # c => sock'[d] = sock[d]
  BY <1>1, <1>2
<1>4. TypeOK' /\ WireOK'
  BY <1>1, <1>3 DEF Inv, TypeOK, WireOK, Clients
<1>5. ClientsOK' /\ HookOK' /\ PageNeverStranded'
  BY <1>1, <1>3 DEF Inv, ClientsOK, HookOK, PageNeverStranded, Clients
<1>6. NewestOnly'
  BY <1>1, <1>3 DEF Inv, NewestOnly, Stayed, Connected, Clients
<1>7. OnOpenSockets(page, sock)'
  <2>1. page.requests \in Seq(Requests)
    BY DEF Inv, TypeOK, Pages
  <2>2. \A i \in DOMAIN page.requests : page.requests[i].on \in Clients
    <3>1. \A i \in DOMAIN page.requests : page.requests[i] \in Requests
      BY <2>1
    <3>2. QED
      BY <3>1 DEF Requests
  <2>3. QED
    BY <1>1, <1>3, <2>2 DEF Inv, OnOpenSockets
<1>8. QED
  BY <1>4, <1>5, <1>6, <1>7 DEF Inv

LEMMA SocketClosedKeepsInv ==
    ASSUME Inv, NEW c \in Clients, SocketClosed(c)
    PROVE  Inv'
<1> DEFINE failed == IF sock[c] = "connecting" THEN Dispatch(page, plain("connect.error")) ELSE page
           p == IF closedByUser THEN failed ELSE Dispatch(failed, plain("recover.start"))
           e == << >>
<1>1. /\ sock[c] \in {"connecting", "open"} /\ sock' = [sock EXCEPT ![c] = "closed"]
      /\ wire' = [wire EXCEPT ![c] = e] /\ timer' = TimerAfterClose(c)
      /\ page' = rejectPending(p, c)
      /\ UNCHANGED <<sessionKey, mounted, renderedRun, closedByUser, clientRef, made, keyOf,
                     greeted, seq, running, transcript, clock>>
  BY DEF SocketClosed
<1>2. page \in Pages
  BY InvRest
<1>3. Grown(page, failed)
  <2>1. Grown(page, Dispatch(page, plain("connect.error"))) /\ Grown(page, page)
    BY <1>2, PlainDispatch DEF PlainActions, Grown
  <2>2. QED
    BY <2>1
<1> HIDE DEF failed
<1>4. Grown(page, p)
  <2>1. Grown(failed, Dispatch(failed, plain("recover.start")))
    BY <1>3, PlainDispatch DEF PlainActions, Grown
  <2>2. Grown(page, Dispatch(failed, plain("recover.start")))
    BY <1>3, <2>1, GrownTransitive
  <2>3. QED
    BY <1>3, <2>2
<1> HIDE DEF p
<1>5. Rest(p, c, page')
  BY <1>1, <1>4, RejectPendingPage DEF Grown
<1>6. sock \in [Clients -> {"unused", "connecting", "open", "closed"}] /\ keyOf[c] \in Sessions
  BY <1>1 DEF Inv, TypeOK, ClientsOK, Clients
<1>7. /\ sock' \in [Clients -> {"unused", "connecting", "open", "closed"}]
      /\ sock'[c] = "closed" /\ \A d \in Clients : d # c => sock'[d] = sock[d]
  BY <1>1, <1>6
<1>8. timer' = IF mounted THEN keyOf[c] ELSE None
  BY <1>1 DEF TimerAfterClose, Inv, HookOK
<1>9. WireOK'
  <2>1. e \in Seq(Packets)
    OBVIOUS
  <2> HIDE DEF e
  <2>2. QED
    BY <1>1, <2>1 DEF Inv, WireOK, Clients
<1>10. page' \in Pages /\ page.closed \subseteq page'.closed
  BY <1>4, <1>5 DEF Rest, Grown
<1>11. TypeOK'
  BY <1>1, <1>6, <1>7, <1>8, <1>10 DEF Inv, TypeOK, Clients
<1>12. ClientsOK'
  BY <1>1, <1>7 DEF Inv, ClientsOK, Clients
<1>13. HookOK'
  BY <1>1, <1>8 DEF Inv, HookOK
<1>14. PageNeverStranded'
  BY <1>1, <1>6, <1>8, PageAssumption DEF PageNeverStranded
<1>15. NewestOnly'
  BY <1>1, <1>7, <1>10 DEF Inv, NewestOnly, Stayed, Connected, Clients
<1>16. OnOpenSockets(page, sock)'
  <2>1. SUFFICES ASSUME NEW i \in DOMAIN page'.requests
                 PROVE  sock'[page'.requests[i].on] = "open"
    BY DEF OnOpenSockets
  <2>2. PICK j \in DOMAIN page.requests :
          page'.requests[i] = page.requests[j] /\ page'.requests[i].on # c
    BY <1>4, <1>5 DEF Rest, Grown
  <2>3. page.requests[j] \in Requests
    BY <1>2 DEF Pages
  <2>4. page.requests[j].on \in Clients
    BY <2>3 DEF Requests
  <2>5. sock[page.requests[j].on] = "open"
    BY DEF Inv, OnOpenSockets
  <2>6. QED
    BY <1>7, <2>2, <2>4, <2>5
<1>17. QED
  BY <1>9, <1>11, <1>12, <1>13, <1>14, <1>15, <1>16 DEF Inv

-----------------------------------------------------------------------------
(* The theorems.                                                           *)

LEMMA StutterKeepsInv ==
    ASSUME Inv, UNCHANGED vars
    PROVE  Inv'
<1>1. RestTypeOK /\ WireOK /\ Moved(page, page)
  BY InvRest
<1>2. CoreUnchanged /\ page' = page /\ UNCHANGED <<wire, renderedRun, greeted, seq, running, transcript, clock>>
  BY DEF vars, pageVars, clientVars, gatewayVars, CoreUnchanged
<1>3. WireOK' /\ RestTypeOK' /\ Moved(page, page')
  BY <1>1, <1>2 DEF WireOK, RestTypeOK, Clients
<1>4. QED
  BY <1>2, <1>3, PageStep

\* The inductive invariant holds in every state of the page (every handler of
\* the hook, its clients, the reducer and the gateway).
THEOREM InvariantHolds == Spec => []Inv
<1>1. Init => Inv
  BY InitImpliesInv
<1>2. Inv /\ [Next]_vars => Inv'
  <2> SUFFICES ASSUME Inv, [Next]_vars PROVE Inv'
    OBVIOUS
  <2>1. CASE Render
    BY <2>1, RenderKeepsInv
  <2>2. CASE \E s \in Sessions : Navigate(s)
    BY <2>2, NavigateKeepsInv
  <2>3. CASE Unmount
    BY <2>3, UnmountKeepsInv
  <2>4. CASE ReconnectTimer
    BY <2>4, ReconnectTimerKeepsInv
  <2>5. CASE MockTimer
    BY <2>5, MockTimerKeepsInv
  <2>6. CASE submitTask
    BY <2>6, SubmitKeepsInv
  <2>7. CASE stopTask
    BY <2>7, StopKeepsInv
  <2>8. CASE syncHistory
    BY <2>8, SyncKeepsInv
  <2>9. ASSUME NEW c \in Clients,
               SocketOpen(c) \/ ReceiveHello(c) \/ ReceiveEvent(c) \/ SocketClosed(c) \/ GatewayHello(c)
        PROVE  Inv'
    BY <2>9, SocketOpenKeepsInv, ReceiveHelloKeepsInv, ReceiveEventKeepsInv, SocketClosedKeepsInv,
       GatewayHelloKeepsInv
  <2>10. CASE \E i \in DOMAIN page.requests, ok \in BOOLEAN, n \in 0..MaxEvents : ReceiveAnswer(i, ok, n)
    BY <2>10, ReceiveAnswerKeepsInv
  <2>11. ASSUME NEW s \in Sessions, NEW skipped \in BOOLEAN,
                RunGoesOn(s, skipped) \/ RunReported(s, skipped) \/ RunEnds(s, skipped)
                \/ MessageArrives(s, skipped)
         PROVE  Inv'
    BY <2>11, RunGoesOnKeepsInv, RunReportedKeepsInv, RunEndsKeepsInv, MessageArrivesKeepsInv
  <2>12. CASE \E skipped \in BOOLEAN : ApprovalChanges(skipped)
    BY <2>12, ApprovalChangesKeepsInv
  <2>13. CASE UNCHANGED vars
    BY <2>13, StutterKeepsInv
  <2>14. QED
    BY <2>1, <2>2, <2>3, <2>4, <2>5, <2>6, <2>7, <2>8, <2>9, <2>10, <2>11, <2>12, <2>13 DEF Next
<1>3. QED
  BY <1>1, <1>2, PTL DEF Spec

\* Every state of the page is well typed: in particular the armed mock timers
\* are those of one replay (replayMockFrames clears the earlier ones).
THEOREM TypeCorrect == Spec => []TypeOK
<1>1. Inv => TypeOK
  BY DEF Inv
<1>2. QED
  BY <1>1, InvariantHolds, PTL

\* While the page stays on its session at most one of its clients is in use,
\* and none while a reconnect timer is armed (connectGateway, onStatusChange).
THEOREM ClientsExclude == Spec => []OneClient
<1>1. Inv => OneClient
  BY DEF Inv, OneClient, NewestOnly, Using, Connected
<1>2. QED
  BY <1>1, InvariantHolds, PTL

\* The page on screen always has a socket or an armed reconnect timer.
THEOREM NeverStranded == Spec => []PageNeverStranded
<1>1. Inv => PageNeverStranded
  BY DEF Inv
<1>2. QED
  BY <1>1, InvariantHolds, PTL

\* A page that stayed on its session leaves no client and no timer behind (the
\* cleanup of the connection effect, closedByUserRef).
THEOREM LeavingIsQuiet == Spec => []UnmountedIsQuiet
<1>1. Inv => UnmountedIsQuiet
  BY DEF Inv, UnmountedIsQuiet, NewestOnly, HookOK, Using, Connected
<1>2. QED
  BY <1>1, InvariantHolds, PTL

\* A pending request waits on an open socket (request, rejectPending).
THEOREM RequestsWaitOnOpenSockets == Spec => []RequestsCannotHang
<1>1. Inv => RequestsCannotHang
  BY DEF Inv, RequestsCannotHang, OnOpenSockets
<1>2. QED
  BY <1>1, InvariantHolds, PTL

-----------------------------------------------------------------------------
(* The text of a run.                                                      *)

\* FlattenSeq is computed by a function g on the indices of the segments.
FlatBy(s, g) ==
    /\ \A i \in 1..Len(s) : g[i] = IF i = 1 THEN s[1] ELSE g[i - 1] \o s[i]
    /\ FlattenSeq(s) = g[Len(s)]

LEMMA FlattenFunction ==
    ASSUME NEW s \in Seq(Seq(Nat)), Len(s) # 0
    PROVE  \E g : FlatBy(s, g)
<1> DEFINE N == Len(s)
           Is(g, k) == g = [i \in 1..k |-> IF i = 1 THEN s[i] ELSE g[i - 1] \o s[i]]
           flat == CHOOSE g : Is(g, N)
<1>1. N \in Nat /\ N # 0
  BY LenProperties
<1>2. FlattenSeq(s) = flat[N]
  BY DEF FlattenSeq
<1> HIDE DEF N
<1>3. \E g : Is(g, N)
  <2> DEFINE T == {k \in Nat : ~\E g : Is(g, k)}
  <2>1. SUFFICES ASSUME T # {} PROVE FALSE
    BY <1>1
  <2>2. T \in SUBSET Nat
    OBVIOUS
  <2> HIDE DEF T
  <2>3. PICK k \in T : \A j \in T : k <= j
    BY <2>1, <2>2, LeastNumber
  <2>4. k \in Nat /\ ~\E g : Is(g, k)
    BY <2>3 DEF T
  <2>5. CASE k = 0
    <3> DEFINE h == [i \in 1..0 |-> s[i]]
    <3>1. h = [i \in 1..0 |-> IF i = 1 THEN s[i] ELSE h[i - 1] \o s[i]]
      OBVIOUS
    <3>2. Is(h, k)
      BY <2>5, <3>1
    <3>3. QED
      BY <2>4, <3>2
  <2>6. CASE k # 0
    <3>1. k - 1 \in Nat /\ k - 1 \notin T
      BY <2>3, <2>4, <2>6
    <3>2. PICK g : Is(g, k - 1)
      BY <3>1 DEF T
    <3> DEFINE h == [i \in 1..k |-> IF i < k THEN g[i] ELSE IF i = 1 THEN s[i] ELSE g[i - 1] \o s[i]]
    <3>3. \A i \in 1..(k - 1) : g[i] = IF i = 1 THEN s[i] ELSE g[i - 1] \o s[i]
      BY <3>2
    <3>4. ASSUME NEW i \in 1..k
          PROVE  h[i] = IF i = 1 THEN s[i] ELSE h[i - 1] \o s[i]
      <4>1. i # 1 => h[i - 1] = g[i - 1]
        BY <2>4
      <4>2. CASE i = k
        BY <4>1, <4>2
      <4>3. CASE i < k
        <5>1. h[i] = g[i] /\ i \in 1..(k - 1)
          BY <2>4, <4>3
        <5>2. QED
          BY <3>3, <4>1, <5>1
      <4>4. QED
        BY <2>4, <4>2, <4>3
    <3>5. h = [i \in 1..k |-> h[i]]
      OBVIOUS
    <3> HIDE DEF h
    <3>6. Is(h, k)
      BY <3>4, <3>5
    <3>7. QED
      BY <2>4, <3>6
  <2>7. QED
    BY <2>5, <2>6
<1>4. Is(flat, N)
  BY <1>3
<1> HIDE DEF flat
<1>5. \A i \in 1..N : flat[i] = IF i = 1 THEN s[i] ELSE flat[i - 1] \o s[i]
  BY <1>4
<1>6. FlatBy(s, flat)
  BY <1>2, <1>5 DEF FlatBy, N
<1>7. QED
  BY <1>6

\* A segment more is its text at the end (FlattenSeq).
LEMMA FlattenAppend ==
    ASSUME NEW s \in Seq(Seq(Nat)), NEW x \in Seq(Nat)
    PROVE  FlattenSeq(Append(s, x)) = FlattenSeq(s) \o x
<1> DEFINE t == Append(s, x)
           N == Len(s)
<1>1. t \in Seq(Seq(Nat)) /\ Len(t) = N + 1 /\ t[N + 1] = x /\ \A i \in 1..N : t[i] = s[i]
  BY AppendProperties
<1>2. N \in Nat
  BY LenProperties
<1> HIDE DEF t
<1>3. PICK h : FlatBy(t, h)
  BY <1>1, <1>2, FlattenFunction
<1>4. /\ \A i \in 1..(N + 1) : h[i] = IF i = 1 THEN t[1] ELSE h[i - 1] \o t[i]
      /\ FlattenSeq(t) = h[N + 1]
  BY <1>1, <1>3 DEF FlatBy
<1>5. CASE N = 0
  <2>1. s = << >> /\ FlattenSeq(s) = s
    BY <1>5, EmptySeq DEF FlattenSeq
  <2>2. FlattenSeq(t) = x
    BY <1>1, <1>4, <1>5
  <2>3. s \o x = x
    BY <2>1
  <2>4. QED
    BY <2>1, <2>2, <2>3 DEF t
<1>6. CASE N # 0
  <2>1. PICK g : FlatBy(s, g)
    BY <1>6, FlattenFunction
  <2>2. /\ \A i \in 1..N : g[i] = IF i = 1 THEN s[1] ELSE g[i - 1] \o s[i]
        /\ FlattenSeq(s) = g[N]
    BY <2>1 DEF FlatBy
  <2>3. \A i \in 1..N : h[i] = g[i]
    <3> DEFINE T == {i \in 1..N : h[i] # g[i]}
    <3>1. SUFFICES ASSUME T # {} PROVE FALSE
      OBVIOUS
    <3>2. T \in SUBSET Nat
      BY <1>2
    <3> HIDE DEF T
    <3>3. PICK k \in T : \A j \in T : k <= j
      BY <3>1, <3>2, LeastNumber
    <3>4. k \in 1..N /\ h[k] # g[k] /\ k \in 1..(N + 1) /\ 1 \in 1..N
      BY <1>2, <3>3 DEF T
    <3>5. k # 1
      BY <1>1, <1>4, <2>2, <3>4
    <3>6. k - 1 \in 1..N /\ k - 1 \notin T
      BY <1>2, <3>3, <3>4, <3>5
    <3>7. h[k - 1] = g[k - 1] /\ t[k] = s[k]
      BY <1>1, <3>4, <3>6 DEF T
    <3>8. h[k] = h[k - 1] \o t[k] /\ g[k] = g[k - 1] \o s[k]
      BY <1>4, <2>2, <3>4, <3>5
    <3>9. QED
      BY <3>4, <3>7, <3>8
  <2>4. N \in 1..N /\ N + 1 \in 1..(N + 1) /\ N + 1 # 1 /\ (N + 1) - 1 = N
    BY <1>2, <1>6
  <2>5. h[N + 1] = h[N] \o x
    BY <1>1, <1>4, <2>4
  <2>6. QED
    BY <1>4, <2>2, <2>3, <2>4, <2>5 DEF t
<1>7. QED
  BY <1>5, <1>6

\* The text of segments is a sequence (FlattenSeq).
LEMMA FlattenType ==
    ASSUME NEW s \in Seq(Seq(Nat))
    PROVE  FlattenSeq(s) \in Seq(Nat)
<1> DEFINE N == Len(s)
<1>1. N \in Nat /\ \A i \in 1..N : s[i] \in Seq(Nat)
  BY LenProperties
<1>2. CASE N = 0
  <2>1. FlattenSeq(s) = << >>
    BY <1>2, EmptySeq DEF FlattenSeq
  <2>2. QED
    BY <2>1
<1>3. CASE N # 0
  <2>1. PICK g : FlatBy(s, g)
    BY <1>3, FlattenFunction
  <2>2. /\ \A i \in 1..N : g[i] = IF i = 1 THEN s[1] ELSE g[i - 1] \o s[i]
        /\ FlattenSeq(s) = g[N]
    BY <2>1 DEF FlatBy
  <2>3. \A i \in 1..N : g[i] \in Seq(Nat)
    <3> DEFINE T == {i \in 1..N : g[i] \notin Seq(Nat)}
    <3>1. SUFFICES ASSUME T # {} PROVE FALSE
      OBVIOUS
    <3>2. T \in SUBSET Nat
      BY <1>1
    <3> HIDE DEF T
    <3>3. PICK k \in T : \A j \in T : k <= j
      BY <3>1, <3>2, LeastNumber
    <3>4. k \in 1..N /\ g[k] \notin Seq(Nat) /\ s[k] \in Seq(Nat)
      BY <1>1, <3>3 DEF T
    <3>5. k # 1
      BY <2>2, <3>4
    <3>6. k - 1 \in 1..N /\ k - 1 \notin T
      BY <1>1, <3>3, <3>4, <3>5
    <3>7. g[k - 1] \in Seq(Nat)
      BY <3>6 DEF T
    <3>8. g[k - 1] \o s[k] \in Seq(Nat)
      BY <3>4, <3>7, ConcatProperties
    <3>9. QED
      BY <2>2, <3>4, <3>5, <3>8
  <2>4. N \in 1..N
    BY <1>1, <1>3
  <2>5. QED
    BY <2>2, <2>3, <2>4
<1>4. QED
  BY <1>2, <1>3

LEMMA ConcatPrefix ==
    ASSUME NEW s \in Seq(Nat), NEW u \in Seq(Nat)
    PROVE  IsPrefix(s, s \o u)
<1> DEFINE t == s \o u
           n == Len(s)
<1>1. t \in Seq(Nat) /\ Len(t) = n + Len(u) /\ n \in Nat /\ Len(u) \in Nat
  BY ConcatProperties, LenProperties
<1>2. \A i \in 1..n : t[i] = s[i]
  BY ConcatProperties
<1>3. SubSeq(s, 1, n) = SubSeq(t, 1, n)
  <2>1. SubSeq(s, 1, n) = s
    OBVIOUS
  <2> HIDE DEF t, n
  <2>2. SubSeq(t, 1, n) \in Seq(Nat) /\ Len(SubSeq(t, 1, n)) = n
        /\ \A i \in 1..n : SubSeq(t, 1, n)[i] = t[i]
    BY <1>1
  <2> DEFINE v == SubSeq(t, 1, n)
  <2>3. v \in Seq(Nat) /\ Len(v) = Len(s) /\ \A i \in 1..Len(s) : v[i] = s[i]
    BY <1>2, <2>2 DEF n
  <2> HIDE DEF v
  <2>4. v = s
    BY <2>3, SeqEqual
  <2>5. QED
    BY <2>1, <2>4 DEF v
<1>4. QED
  BY <1>1, <1>3 DEF IsPrefix

LEMMA TextsAssociate ==
    ASSUME NEW s \in Seq(Nat), NEW t \in Seq(Nat), NEW u \in Seq(Nat)
    PROVE  (s \o t) \o u = s \o (t \o u)
BY ConcatAssociative

\* From st to r no text of a run that goes on is lost.
KeepsText(st, r) ==
    st.chatRunId # None /\ r.chatRunId = st.chatRunId => IsPrefix(Text(st), Text(r))

LEMMA TextType ==
    ASSUME NEW st \in States
    PROVE  Text(st) \in Seq(Nat)
<1> DEFINE g == st.chatStreamSegments
           c == st.chatStream
<1>1. g \in Seq(Seq(Nat)) /\ c \in Seq(Nat)
  BY DEF States
<1> HIDE DEF g, c
<1>2. FlattenSeq(g) \o c \in Seq(Nat)
  BY <1>1, FlattenType, ConcatProperties
<1>3. QED
  BY <1>2 DEF Text, g, c

\* The same text, or a text with more at its end.
LEMMA SameKeeps ==
    ASSUME NEW st \in States, NEW r,
           r.chatStream = st.chatStream, r.chatStreamSegments = st.chatStreamSegments
    PROVE  KeepsText(st, r)
<1> DEFINE t == Text(st)
           e == << >>
<1>1. t \in Seq(Nat) /\ e \in Seq(Nat) /\ t \o e = t
  BY TextType
<1>2. Text(r) = t
  BY DEF Text
<1> HIDE DEF t, e
<1>3. IsPrefix(t, t)
  BY <1>1, ConcatPrefix
<1>4. QED
  BY <1>2, <1>3 DEF KeepsText, t

\* A delta is text at the end (applyDelta).
LEMMA DeltaKeeps ==
    ASSUME NEW st \in States, NEW f, f.text \in Nat
    PROVE  KeepsText(st, applyDelta(st, f))
<1> DEFINE x == f.text
           g == st.chatStreamSegments
           c == st.chatStream
           r == applyDelta(st, f)
           F == FlattenSeq(g)
<1>1. g \in Seq(Seq(Nat)) /\ c \in Seq(Nat) /\ x \in Nat
  BY DEF States
<1>2. r.chatStreamSegments = g /\ r.chatStream = Append(c, x)
  BY DEF applyDelta, States
<1>3. Text(st) = F \o c /\ Text(r) = F \o Append(c, x)
  BY <1>2 DEF Text
<1> HIDE DEF r, g, c, x
<1>4. F \in Seq(Nat)
  BY <1>1, FlattenType
<1> HIDE DEF F
<1>5. Append(c, x) = c \o <<x>> /\ <<x>> \in Seq(Nat) /\ F \o c \in Seq(Nat)
  BY <1>1, <1>4, AppendIsConcat, ConcatProperties
<1> DEFINE u == <<x>>
<1>6. F \o (c \o u) = (F \o c) \o u
  <2>1. u \in Seq(Nat)
    BY <1>5
  <2> HIDE DEF u
  <2>2. (F \o c) \o u = F \o (c \o u)
    BY <1>1, <1>4, <2>1, TextsAssociate, Zenon
  <2>3. QED
    BY <2>2
<1>7. IsPrefix(F \o c, (F \o c) \o u)
  <2> DEFINE t == F \o c
  <2>1. u \in Seq(Nat) /\ t \in Seq(Nat)
    BY <1>5
  <2> HIDE DEF u, t
  <2>2. IsPrefix(t, t \o u)
    BY <2>1, ConcatPrefix
  <2>3. QED
    BY <2>2 DEF t
<1>8. QED
  BY <1>3, <1>5, <1>6, <1>7 DEF KeepsText, r

\* A tool card archives the stream and does not drop it (applyToolStatus).
LEMMA ToolKeeps ==
    ASSUME NEW st \in States, NEW f
    PROVE  KeepsText(st, applyToolStatus(st, f))
<1> DEFINE g == st.chatStreamSegments
           c == st.chatStream
           ar == Archive(st)
           r == applyToolStatus(st, f)
           e == << >>
           F == FlattenSeq(g)
<1>1. g \in Seq(Seq(Nat)) /\ c \in Seq(Nat)
  BY DEF States
<1>2. ar \in States /\ ar.chatStreamSegments = IF c = e THEN g ELSE Append(g, c)
  BY ArchiveType DEF Archive, States
<1>3. r.chatStream = e /\ r.chatStreamSegments = ar.chatStreamSegments
  BY <1>2 DEF applyToolStatus, States
<1>4. Text(st) = F \o c /\ Text(r) = FlattenSeq(ar.chatStreamSegments) \o e
  BY <1>3 DEF Text
<1> HIDE DEF g, c, ar, r
<1>5. F \in Seq(Nat) /\ F \o c \in Seq(Nat) /\ FlattenSeq(Append(g, c)) = F \o c
  BY <1>1, FlattenType, FlattenAppend, ConcatProperties
<1> HIDE DEF F
<1>6. FlattenSeq(ar.chatStreamSegments) = F \o c
  <2>1. CASE c = e
    <3>1. F \o e = F
      BY <1>5
    <3>2. QED
      BY <1>2, <2>1, <3>1 DEF F
  <2>2. CASE c # e
    BY <1>2, <1>5, <2>2
  <2>3. QED
    BY <2>1, <2>2
<1> DEFINE t == F \o c
<1>7. t \in Seq(Nat) /\ e \in Seq(Nat)
  BY <1>5
<1>8. Text(st) = t /\ Text(r) = t \o e
  BY <1>4, <1>6
<1> HIDE DEF t, e
<1>9. IsPrefix(t, t \o e)
  BY <1>7, ConcatPrefix
<1>10. QED
  BY <1>8, <1>9 DEF KeepsText, r

\* The end of a run ends its text (finalizeChatRun).
LEMMA FinalKeeps ==
    ASSUME NEW st, NEW w \in States
    PROVE  KeepsText(st, finalizeChatRun(w))
<1>1. finalizeChatRun(w).chatRunId = None
  BY DEF finalizeChatRun, States
<1>2. QED
  BY <1>1 DEF KeepsText

\* No event frame loses a text of the run that goes on (applyEvent).
LEMMA EventKeeps ==
    ASSUME NEW st \in States, NEW f \in Frames
    PROVE  KeepsText(st, realtimeReducer(st, eventAction(f)))
<1>1. realtimeReducer(st, eventAction(f)) = applyEvent(st, f)
  BY DEF realtimeReducer, eventAction
<1>2. KeepsText(st, st)
  BY SameKeeps
<1>3. CASE f \in [event : {"chat", "agent"}, session : AnySession, run : Nat,
                  state : {"delta"} \cup TerminalChat, text : Nat]
  <2>1. KeepsText(st, applyDelta(st, f))
    BY <1>3, DeltaKeeps
  <2>2. KeepsText(st, finalizeChatRun(st))
    BY FinalKeeps
  <2> DEFINE m  == [session |-> f.session, text |-> f.text]
             ar == Archive(st)
             cm == Append(ar.chatMessages, m)
             w  == [ar EXCEPT !.chatMessages = Append(@, m)]
  <2>3. m \in Message
    BY <1>3 DEF Message, AnySession
  <2>4. ar \in States
    BY ArchiveType
  <2>5. w \in States
    <3>1. ar.chatMessages \in Seq(Message)
      BY <2>4 DEF States
    <3> HIDE DEF m, ar
    <3>2. cm \in Seq(Message)
      BY <2>3, <3>1
    <3>3. w = [ar EXCEPT !.chatMessages = cm]
      OBVIOUS
    <3> HIDE DEF cm, w
    <3>4. QED
      BY <2>4, <3>2, <3>3 DEF States
  <2>6. KeepsText(st, finalizeChatRun(w))
    <3> HIDE DEF w
    <3>1. QED
      BY <2>5, FinalKeeps
  <2>7. applyChatEvent(st, f) \in {st, applyDelta(st, f), finalizeChatRun(st), finalizeChatRun(w)}
    BY <1>3 DEF applyChatEvent, TerminalChat
  <2>8. applyEvent(st, f) \in {applyChatEvent(st, f), applyDelta(st, f)}
    BY <1>3 DEF applyEvent
  <2> HIDE DEF w
  <2>9. QED
    BY <1>1, <1>2, <2>1, <2>2, <2>6, <2>7, <2>8
<1>4. CASE f \in [event : {"tool.status"}, session : AnySession, run : Nat, toolCallId : Nat]
  BY <1>1, <1>4, ToolKeeps DEF applyEvent
<1>5. CASE f \in [event : {"run.status"}, session : AnySession, run : Nat,
                  status : {"completed", "error"}]
  BY <1>1, <1>2, <1>5, FinalKeeps DEF applyEvent, applyRunStatus
<1>6. CASE f \in [event : {"session.message"}, session : AnySession]
  BY <1>1, <1>2, <1>6 DEF applyEvent
<1>7. CASE f \in [event : {"approval.requested", "approval.resolved"}, id : Approvals]
  <2> DEFINE r == applyEvent(st, f)
  <2>1. r.chatStream = st.chatStream /\ r.chatStreamSegments = st.chatStreamSegments
    BY <1>7 DEF applyEvent, States
  <2> HIDE DEF r
  <2>2. KeepsText(st, r)
    BY <2>1, SameKeeps
  <2>3. QED
    BY <1>1, <2>2 DEF r
<1>8. QED
  BY <1>3, <1>4, <1>5, <1>6, <1>7 DEF Frames

-----------------------------------------------------------------------------
(* No step loses a text of the run that goes on.                           *)

LEMMA SameTextKeeps ==
    ASSUME NEW p \in Pages, NEW q, SameText(p, q)
    PROVE  KeepsText(p.st, q.st)
<1> DEFINE s == p.st
           r == q.st
<1>1. s \in States /\ r.chatStream = s.chatStream /\ r.chatStreamSegments = s.chatStreamSegments
  BY DEF Pages, SameText
<1> HIDE DEF s, r
<1>2. KeepsText(s, r)
  BY <1>1, SameKeeps
<1>3. QED
  BY <1>2 DEF s, r

\* A step that keeps the text, before and after steps that leave it alone.
LEMMA KeepsBetween ==
    ASSUME NEW p, NEW q, NEW r, NEW x,
           SameText(p, q), KeepsText(q.st, r.st), SameText(r, x)
    PROVE  KeepsText(p.st, x.st)
<1>1. Text(p.st) = Text(q.st) /\ Text(x.st) = Text(r.st)
  BY DEF SameText, Text
<1>2. p.st.chatRunId = q.st.chatRunId /\ x.st.chatRunId = r.st.chatRunId
  BY DEF SameText
<1>3. QED
  BY <1>1, <1>2 DEF KeepsText

LEMMA RequestText ==
    ASSUME NEW p \in Pages, NEW c \in Clients, NEW key \in Sessions, NEW text \in Nat,
           NEW why \in {"message", "gap", "manual", "send", "stop"},
           transcript \in [Sessions -> Seq(Message)]
    PROVE  SameText(p, Request(p, c, why, key, text))
<1> DEFINE n == Len(transcript[key])
           q == [on |-> c, why |-> why, session |-> key, text |-> text, since |-> n]
           x == [p EXCEPT !.requests = Append(@, q)]
<1>1. n \in Nat
  <2>1. transcript[key] \in Seq(Message)
    OBVIOUS
  <2>2. QED
    BY <2>1, LenProperties
<1>2. Request(p, c, why, key, text) \in {x, Rejected(p, q)}
  BY DEF Request
<1> HIDE DEF n
<1>3. q \in Requests
  BY <1>1 DEF Requests
<1> HIDE DEF q
<1>4. x.st = p.st
  BY DEF Pages
<1> HIDE DEF x
<1>5. SameText(p, x)
  BY <1>4 DEF SameText
<1>6. SameText(p, Rejected(p, q))
  BY <1>3, RejectedText
<1>7. QED
  BY <1>2, <1>5, <1>6

LEMMA LoadHistoryText ==
    ASSUME NEW p \in Pages, NEW c \in Clients, NEW key \in Sessions,
           NEW why \in {"message", "gap", "manual", "send", "stop"},
           transcript \in [Sessions -> Seq(Message)]
    PROVE  SameText(p, loadHistory(p, c, why, key))
<1> DEFINE d == IF why = "manual" THEN p ELSE Dispatch(p, plain("recover.start"))
           z == 0
           x == Request(d, c, why, key, z)
<1>1. d \in Pages /\ SameText(p, d)
  <2>1. Grown(p, Dispatch(p, plain("recover.start"))) /\ SameText(p, Dispatch(p, plain("recover.start")))
    BY PlainDispatch, PlainText DEF PlainActions
  <2>2. QED
    BY <2>1 DEF Grown, SameText
<1>2. loadHistory(p, c, why, key) = x
  BY DEF loadHistory
<1>3. z \in Nat
  OBVIOUS
<1> HIDE DEF d, z
<1>4. SameText(d, x)
  BY <1>1, <1>3, RequestText
<1> HIDE DEF x
<1>5. QED
  BY <1>1, <1>2, <1>4, SameTextTransitive

LEMMA EventDispatchText ==
    ASSUME NEW p \in Pages, NEW f \in Frames
    PROVE  KeepsText(p.st, Dispatch(p, eventAction(f)).st)
<1> DEFINE s == p.st
           r == realtimeReducer(s, eventAction(f))
           q == Dispatch(p, eventAction(f))
<1>1. s \in States
  BY DEF Pages
<1>2. q = IF mounted THEN [p EXCEPT !.st = r] ELSE p
  BY DEF Dispatch
<1> HIDE DEF s
<1>3. KeepsText(s, r) /\ KeepsText(s, s)
  BY <1>1, EventKeeps, SameKeeps
<1> HIDE DEF r, q
<1>4. q.st = r \/ q.st = s
  BY <1>2 DEF Pages, s
<1>5. KeepsText(s, q.st)
  BY <1>3, <1>4
<1>6. QED
  BY <1>5 DEF s, q

LEMMA HandleFrameText ==
    ASSUME NEW p \in Pages, NEW key \in Sessions, NEW f \in Frames,
           transcript \in [Sessions -> Seq(Message)], clientRef \in {0} \cup Clients
    PROVE  KeepsText(p.st, handleFrame(p, key, f).st)
<1> DEFINE q == Dispatch(p, eventAction(f))
           x == [q EXCEPT !.deferred = TRUE]
           y == [q EXCEPT !.deferred = FALSE, !.activeRun = None]
           h == handleFrame(p, key, f)
<1>1. q \in Pages /\ KeepsText(p.st, q.st)
  BY EventDispatch, EventDispatchText DEF Grown
<1>2. \A r \in Pages : SameText(r, requestHistoryFromCurrentClient(r, key))
  <2>1. SUFFICES ASSUME NEW r \in Pages
                 PROVE  SameText(r, requestHistoryFromCurrentClient(r, key))
    OBVIOUS
  <2>2. CASE clientRef = 0
    BY <2>2 DEF requestHistoryFromCurrentClient, SameText
  <2>3. CASE clientRef # 0
    <3> DEFINE c == clientRef
    <3>1. c \in Clients
      BY <2>3
    <3>2. requestHistoryFromCurrentClient(r, key) = loadHistory(r, c, "message", key)
      BY <2>3 DEF requestHistoryFromCurrentClient
    <3> HIDE DEF c
    <3>3. SameText(r, loadHistory(r, c, "message", key))
      BY <3>1, LoadHistoryText
    <3>4. QED
      BY <3>2, <3>3
  <2>4. QED
    BY <2>2, <2>3
<1>3. h \in {q, x, requestHistoryFromCurrentClient(q, key), requestHistoryFromCurrentClient(y, key)}
  BY DEF handleFrame
<1> HIDE DEF q
<1>4. x.st = q.st /\ y.st = q.st /\ y \in Pages
  BY <1>1 DEF Pages
<1> HIDE DEF x, y, h
<1>5. SameText(q, x) /\ SameText(q, y) /\ SameText(q, q) /\ SameText(p, p)
  BY <1>4 DEF SameText
<1>6. SameText(q, requestHistoryFromCurrentClient(q, key))
  BY <1>1, <1>2
<1>7. SameText(q, requestHistoryFromCurrentClient(y, key))
  <2>1. SameText(y, requestHistoryFromCurrentClient(y, key))
    BY <1>2, <1>4
  <2>2. QED
    BY <1>5, <2>1, SameTextTransitive
<1>8. SameText(q, h)
  BY <1>3, <1>5, <1>6, <1>7
<1>9. KeepsText(p.st, h.st)
  BY <1>1, <1>5, <1>8, KeepsBetween
<1>10. QED
  BY <1>9 DEF h

\* A payload that is not an event leaves the text alone (user.queue,
\* history.loaded).
LEMMA QueueText ==
    ASSUME NEW p \in Pages, NEW m
    PROVE  SameText(p, Dispatch(p, userQueue(m)))
<1> DEFINE s == p.st
           r == realtimeReducer(s, userQueue(m))
           q == Dispatch(p, userQueue(m))
<1>1. s \in States
  BY DEF Pages
<1>2. q = IF mounted THEN [p EXCEPT !.st = r] ELSE p
  BY DEF Dispatch
<1>3. r.chatRunId = s.chatRunId /\ r.chatStream = s.chatStream
      /\ r.chatStreamSegments = s.chatStreamSegments
  <2> HIDE DEF s
  <2>1. QED
    BY <1>1 DEF realtimeReducer, userQueue, States
<1> HIDE DEF r, q
<1>4. q.st = r \/ q.st = s
  BY <1>2 DEF Pages
<1>5. SameText(p, q)
  BY <1>3, <1>4 DEF SameText
<1>6. QED
  BY <1>5 DEF q

LEMMA HistoryText ==
    ASSUME NEW p \in Pages, NEW h
    PROVE  SameText(p, Dispatch(p, historyLoaded(h)))
<1> DEFINE s == p.st
           r == realtimeReducer(s, historyLoaded(h))
           q == Dispatch(p, historyLoaded(h))
<1>1. s \in States
  BY DEF Pages
<1>2. q = IF mounted THEN [p EXCEPT !.st = r] ELSE p
  BY DEF Dispatch
<1>3. r.chatRunId = s.chatRunId /\ r.chatStream = s.chatStream
      /\ r.chatStreamSegments = s.chatStreamSegments
  <2> HIDE DEF s
  <2>1. QED
    BY <1>1 DEF realtimeReducer, historyLoaded, Status, States
<1> HIDE DEF r, q
<1>4. q.st = r \/ q.st = s
  BY <1>2 DEF Pages
<1>5. SameText(p, q)
  BY <1>3, <1>4 DEF SameText
<1>6. QED
  BY <1>5 DEF q

\* Every step of the page: the text of a run that goes on stays, unless the
\* route changes.
LEMMA StepKeepsText ==
    ASSUME Inv, [Next]_vars, sessionKey' = sessionKey
    PROVE  KeepsText(page.st, page'.st)
<1>0. page \in Pages /\ transcript \in [Sessions -> Seq(Message)] /\ clientRef \in {0} \cup Clients
      /\ sessionKey \in Sessions /\ RestTypeOK /\ WireOK
  BY InvRest
<1>1. SUFFICES (SameText(page, page') \/ KeepsText(page.st, page'.st))
  BY <1>0, SameTextKeeps
<1>2. CASE Render
  <2>1. page'.st = page.st
    BY <1>0, <1>2 DEF Render, Pages
  <2>2. QED
    BY <2>1 DEF SameText
<1>3. CASE \E s \in Sessions : Navigate(s)
  BY <1>3 DEF Navigate
<1>4. CASE Unmount
  <2>1. page'.st = page.st
    BY <1>0, <1>4 DEF Unmount, Cleanup, Pages
  <2>2. QED
    BY <2>1 DEF SameText
<1>5. CASE ReconnectTimer
  <2>1. page' = Dispatch(page, plain("connect.start"))
    BY <1>5 DEF ReconnectTimer, connectGateway
  <2>2. QED
    BY <1>0, <2>1, PlainText DEF PlainActions
<1>6. CASE MockTimer
  <2> DEFINE s == page.mockFrames
             f == Head(s)
             d == Dispatch(page, eventAction(f))
  <2>1. s \in Suffixes(mockRealtimeFrames) /\ s # << >>
    BY <1>0, <1>6 DEF Pages, MockTimer
  <2>2. f \in Frames
    <3> HIDE DEF s
    <3>1. QED
      BY <2>1, MockType, SuffixFacts
  <2>3. page' = [d EXCEPT !.mockFrames = Tail(@)]
    BY <1>6 DEF MockTimer
  <2> HIDE DEF f
  <2>4. d \in Pages /\ KeepsText(page.st, d.st)
    BY <1>0, <2>2, EventDispatch, EventDispatchText DEF Grown
  <2> HIDE DEF d
  <2>5. page'.st = d.st
    BY <2>3, <2>4 DEF Pages
  <2>6. QED
    BY <2>4, <2>5
<1>7. CASE submitTask
  <2> DEFINE m == [session |-> sessionKey, text |-> clock + 1]
             d == Dispatch(page, userQueue(m))
             c == clientRef
             k == sessionKey
             t == clock + 1
             x == Request(d, c, "send", k, t)
  <2>1. page' = x /\ mounted
    BY <1>7 DEF submitTask, UserActs
  <2>2. c \in Clients /\ k \in Sessions /\ t \in Nat
    BY <1>0, <2>1, MountedClient, PageAssumption DEF RestTypeOK
  <2>3. m \in Message
    BY <2>2 DEF Message
  <2> HIDE DEF m, c, k, t
  <2>4. SameText(page, d)
    BY <1>0, QueueText
  <2>5. d \in Pages
    <3>1. page.st \in States
      BY <1>0 DEF Pages
    <3>2. realtimeReducer(page.st, userQueue(m)) \in States
      BY <2>3, <3>1, QueueReduces
    <3>3. QED
      BY <1>0, <3>2, DispatchPage
  <2> HIDE DEF d
  <2>6. SameText(d, x)
    BY <1>0, <2>2, <2>5, RequestText
  <2> HIDE DEF x
  <2>7. QED
    BY <2>1, <2>4, <2>6, SameTextTransitive
<1>8. CASE stopTask
  <2> DEFINE p == [page EXCEPT !.mockFrames = << >>]
             c == clientRef
             k == sessionKey
             z == 0
             a == Dispatch(p, plain("connect.close"))
             b == Request(p, c, "stop", k, z)
  <2>1. page' \in {a, b} /\ mounted
    BY <1>8 DEF stopTask, UserActs
  <2>2. c \in Clients /\ k \in Sessions /\ z \in Nat
    BY <1>0, <2>1, MountedClient
  <2>3. p \in Pages /\ p.st = page.st
    <3> DEFINE e == << >>
    <3>1. e \in Suffixes(mockRealtimeFrames)
      BY MockType, SuffixFacts
    <3>2. p = [page EXCEPT !.mockFrames = e]
      OBVIOUS
    <3> HIDE DEF e, p
    <3>3. QED
      BY <1>0, <3>1, <3>2 DEF Pages
  <2> HIDE DEF p, c, k, z
  <2>4. SameText(page, p)
    BY <2>3 DEF SameText
  <2>5. SameText(p, a)
    BY <2>3, PlainText DEF PlainActions
  <2>6. SameText(p, b)
    BY <1>0, <2>2, <2>3, RequestText
  <2> HIDE DEF a, b
  <2>7. SameText(page, a) /\ SameText(page, b)
    BY <2>4, <2>5, <2>6, SameTextTransitive
  <2>8. QED
    BY <2>1, <2>7
<1>9. CASE syncHistory
  <2> DEFINE c == clientRef
             k == sessionKey
  <2>1. page' = loadHistory(page, c, "manual", k) /\ mounted
    BY <1>9 DEF syncHistory, UserActs
  <2>2. c \in Clients /\ k \in Sessions
    BY <1>0, <2>1, MountedClient
  <2> HIDE DEF c, k
  <2>3. QED
    BY <1>0, <2>1, <2>2, LoadHistoryText
<1>10. ASSUME NEW c \in Clients, SocketOpen(c) \/ GatewayHello(c)
       PROVE  SameText(page, page')
  BY <1>10 DEF SocketOpen, GatewayHello, pageVars, SameText
<1>11. ASSUME NEW c \in Clients, ReceiveHello(c)
       PROVE  SameText(page, page')
  BY <1>0, <1>11, PlainText DEF ReceiveHello, PlainActions
<1>12. ASSUME NEW c \in Clients, ReceiveEvent(c)
       PROVE  KeepsText(page.st, page'.st)
  <2> DEFINE m   == Head(wire[c])
             f   == m.frame
             k   == keyOf[c]
             gap == lastSeq[c] # None /\ m.seq > lastSeq[c] + 1
             p   == IF gap THEN loadHistory(page, c, "gap", k) ELSE page
             x   == handleFrame(p, k, f)
  <2>1. page' = x /\ m.type = "event" /\ wire[c] # << >> /\ sock[c] = "open"
    BY <1>12 DEF ReceiveEvent, Receives, Ready
  <2>2. k \in Sessions
    BY <2>1, InvRest
  <2>3. m \in Packets
    BY <1>0, <2>1, TakePacket
  <2>4. f \in Frames
    <3> HIDE DEF m
    <3>1. QED
      BY <2>1, <2>3 DEF Packets
  <2> HIDE DEF f, k, gap
  <2>5. p \in Pages /\ SameText(page, p)
    BY <1>0, <2>2, LoadHistoryPage, LoadHistoryText DEF Moved, SameText
  <2> HIDE DEF p
  <2>6. KeepsText(p.st, x.st)
    BY <1>0, <2>2, <2>4, <2>5, HandleFrameText
  <2> HIDE DEF x
  <2>7. KeepsText(page.st, x.st)
    <3>1. SameText(x, x)
      BY DEF SameText
    <3>2. QED
      BY <2>5, <2>6, <3>1, KeepsBetween
  <2>8. QED
    BY <2>1, <2>7
<1>13. ASSUME NEW c \in Clients, SocketClosed(c)
       PROVE  SameText(page, page')
  <2> DEFINE e == Dispatch(page, plain("connect.error"))
             failed == IF sock[c] = "connecting" THEN e ELSE page
             r == Dispatch(failed, plain("recover.start"))
             p == IF closedByUser THEN failed ELSE r
  <2>1. page' = rejectPending(p, c)
    BY <1>13 DEF SocketClosed
  <2>2. failed \in Pages /\ SameText(page, failed)
    <3>1. e \in Pages /\ SameText(page, e)
      BY <1>0, PlainDispatch, PlainText DEF PlainActions, Grown
    <3>2. QED
      BY <1>0, <3>1 DEF SameText
  <2> HIDE DEF failed
  <2>3. p \in Pages /\ SameText(page, p)
    <3>1. r \in Pages /\ SameText(failed, r)
      BY <2>2, PlainDispatch, PlainText DEF PlainActions, Grown
    <3> HIDE DEF r
    <3>2. SameText(page, r)
      BY <2>2, <3>1, SameTextTransitive
    <3>3. QED
      BY <2>2, <3>1, <3>2
  <2> HIDE DEF p
  <2>4. SameText(p, page')
    BY <2>1, <2>3, RejectPendingPage DEF Rest
  <2>5. QED
    BY <2>3, <2>4, SameTextTransitive
<1>14. ASSUME NEW i \in DOMAIN page.requests, NEW ok \in BOOLEAN, NEW n \in 0..MaxEvents,
              ReceiveAnswer(i, ok, n)
       PROVE  SameText(page, page')
  <2> DEFINE q == page.requests[i]
             rs == RemoveAt(page.requests, i)
             p == [page EXCEPT !.requests = rs]
             h == SubSeq(transcript[q.session], 1, n)
             a == Rejected(p, q)
             b == Dispatch(p, historyLoaded(h))
  <2>1. page' \in {a, p, b}
    BY <1>14 DEF ReceiveAnswer
  <2>2. page.requests \in Seq(Requests) /\ q \in Requests
    BY <1>0 DEF Pages
  <2>3. rs \in Seq(Requests)
    <3> DEFINE s == page.requests
    <3>1. s \in Seq(Requests) /\ i \in DOMAIN s
      BY <2>2
    <3> HIDE DEF s
    <3>2. RemoveAt(s, i) \in Seq(Requests)
      BY <3>1, RemoveAtFacts
    <3>3. QED
      BY <3>2 DEF s
  <2> HIDE DEF q, rs, h
  <2>4. p \in Pages /\ p.st = page.st
    BY <1>0, <2>3 DEF Pages
  <2> HIDE DEF p
  <2>5. SameText(page, p)
    BY <2>4 DEF SameText
  <2>6. SameText(p, a) /\ SameText(p, b)
    BY <2>2, <2>4, RejectedText, HistoryText
  <2> HIDE DEF a, b
  <2>7. SameText(page, a) /\ SameText(page, b)
    BY <2>5, <2>6, SameTextTransitive
  <2>8. QED
    BY <2>1, <2>5, <2>7
<1>15. ASSUME NEW s \in Sessions, NEW skipped \in BOOLEAN,
              RunGoesOn(s, skipped) \/ RunReported(s, skipped) \/ RunEnds(s, skipped)
              \/ MessageArrives(s, skipped)
       PROVE  SameText(page, page')
  <2>1. page' = page
    BY <1>15 DEF RunGoesOn, RunReported, RunEnds, MessageArrives, Publish, pageVars
  <2>2. QED
    BY <2>1 DEF SameText
<1>16. CASE \E skipped \in BOOLEAN : ApprovalChanges(skipped)
  <2>1. page' = page
    BY <1>16 DEF ApprovalChanges, Publish, pageVars
  <2>2. QED
    BY <2>1 DEF SameText
<1>17. CASE UNCHANGED vars
  BY <1>17 DEF vars, pageVars, SameText
<1>18. QED
  BY <1>2, <1>3, <1>4, <1>5, <1>6, <1>7, <1>8, <1>9, <1>10, <1>11, <1>12, <1>13, <1>14, <1>15,
     <1>16, <1>17 DEF Next

\* While the page stays on its session, the text of the run that goes on is
\* only ever extended (applyToolStatus archives the stream, history.loaded and
\* the hello leave it alone).
THEOREM TextOnlyGrows == Spec => RunTextOnlyGrows
<1> DEFINE P == (/\ sessionKey' = sessionKey
                 /\ page.st.chatRunId # None
                 /\ page'.st.chatRunId = page.st.chatRunId)
                => IsPrefix(Text(page.st), Text(page'.st))
<1>1. Inv /\ [Next]_vars => [P]_vars
  BY StepKeepsText DEF KeepsText
<1>2. QED
  BY <1>1, InvariantHolds, PTL DEF Spec, RunTextOnlyGrows

=============================================================================
