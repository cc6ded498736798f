------------------------- MODULE ProductRepository -------------------------
(***************************************************************************)
(* The repository of the Product API: the whole product state as one       *)
(* record, the mutating calls of createInMemoryProductApiRepository as     *)
(* functions from state to state, and the interpretation that turns one    *)
(* realtime event into the calls that mirror it.                           *)
(*                                                                         *)
(* Numbered ids ("wf-3", "run-4", "audit-5") are their number.  Runs and   *)
(* sessions that OpenClaw names are members of RuntimeRuns and             *)
(* RuntimeSessions.  A timestamp is the number of the operation that took  *)
(* it (isoNow), and 0 for the timestamps of the mock data.  Names, titles, *)
(* descriptions, result summaries and a session's updatedAt are left out.  *)
(***************************************************************************)
EXTENDS Naturals, Sequences

CONSTANTS RuntimeRuns,       \* run ids issued by the OpenClaw runtime
          RuntimeSessions,   \* session keys issued by the OpenClaw runtime
          OpenClawRuntime,   \* the workflow id "openclaw-runtime"
          SettingFields,     \* the fields of SettingsDetail
          None               \* undefined

ASSUME RuntimeIdsAreNotNumbers ==
    /\ RuntimeRuns \cap Nat = {}
    /\ None \notin RuntimeRuns \cup RuntimeSessions

-----------------------------------------------------------------------------
(* The mock state a new repository starts from.                            *)

mockState ==
    LET flows    == << [id |-> 1, lastRunAt |-> 0], [id |-> 2, lastRunAt |-> 0] >>
        runs     == << [id |-> 1, workflowId |-> 1, status |-> "running", startedAt |-> 0],
                       [id |-> 2, workflowId |-> 2, status |-> "failed",  startedAt |-> 0] >>
    IN  [ workflows        |-> flows,
          workflowDetails  |-> flows,
          runs             |-> runs,
          runDetails       |-> runs,
          sessions         |-> << [id |-> 1, status |-> "active"], [id |-> 2, status |-> "ended"] >>,
          sessionDetails   |-> << [id |-> 1, status |-> "active", messageCount |-> 14],
                                  [id |-> 2, status |-> "ended",  messageCount |-> 9] >>,
          connections      |-> << [id |-> "conn-feishu", channelType |-> "feishu",
                                   status |-> "connected", lastActiveAt |-> 0],
                                  [id |-> "conn-wecom",  channelType |-> "wecom",
                                   status |-> "offline", lastActiveAt |-> 0] >>,
          settings         |-> [f \in SettingFields |-> 0],
          knowledgeSources |-> << [id |-> 1, status |-> "ready"], [id |-> 2, status |-> "syncing"] >>,
          automations      |-> << [id |-> 1, triggerType |-> "schedule", status |-> "active",
                                   lastRunAt |-> 0, nextRunAt |-> 0],
                                  [id |-> 2, triggerType |-> "event", status |-> "paused",
                                   lastRunAt |-> 0, nextRunAt |-> None] >>,
          auditEvents      |-> << [id |-> 1, action |-> "workflow.run.started"],
                                  [id |-> 2, action |-> "approval.requested"] >>,
          pendingApprovals |-> 2 ]

-----------------------------------------------------------------------------
(* Lists with ids.                                                         *)

Unshift(list, item) == <<item>> \o list

HasId(list, id) == \E i \in DOMAIN list : list[i].id = id

\* findIndex takes the first position with the id; ids are unique in the lists
\* it is used on, so there is only one.
IndexOf(list, id) == CHOOSE i \in DOMAIN list : list[i].id = id

Find(list, id) == list[IndexOf(list, id)]

\* Replace the first item with the same id, or put the item in front.
Upsert(list, item) ==
    IF HasId(list, item.id)
    THEN [list EXCEPT ![IndexOf(list, item.id)] = item]
    ELSE Unshift(list, item)

\* Mutant: the summary of a session is always active.
SessionSummary_Active(s) == [id |-> s.id, status |-> "active"]

\* The summary of a session leaves the message count out.
SessionSummary(s) == [id |-> s.id, status |-> s.status]

SetLastRunAt(list, id, at) ==
    IF HasId(list, id)
    THEN [list EXCEPT ![IndexOf(list, id)].lastRunAt = at]
    ELSE list

-----------------------------------------------------------------------------
(* The mutating calls.  Each is a record [call, ...]; Apply gives the      *)
(* state after it.                                                         *)

setWorkbenchState(n)          == [call |-> "setWorkbenchState", pendingApprovals |-> n]
prependWorkflow(w)            == [call |-> "prependWorkflow", item |-> w]
updateWorkflowLastRunAt(w, t) == [call |-> "updateWorkflowLastRunAt", id |-> w, at |-> t]
prependRun(r)                 == [call |-> "prependRun", item |-> r]
upsertRun(r)                  == [call |-> "upsertRun", item |-> r]
upsertSession(s)              == [call |-> "upsertSession", item |-> s]
upsertConnection(c)           == [call |-> "upsertConnection", item |-> c]
setSettings(s)                == [call |-> "setSettings", settings |-> s]
prependKnowledgeSource(k)     == [call |-> "prependKnowledgeSource", item |-> k]
prependAutomation(a)          == [call |-> "prependAutomation", item |-> a]
upsertAutomation(a)           == [call |-> "upsertAutomation", item |-> a]
prependAuditEvent(e)          == [call |-> "prependAuditEvent", item |-> e]

Apply(st, c) ==
    CASE c.call = "setWorkbenchState" ->
            [st EXCEPT !.pendingApprovals = c.pendingApprovals]
      [] c.call = "prependWorkflow" ->
            [st EXCEPT !.workflowDetails = Unshift(@, c.item), !.workflows = Unshift(@, c.item)]
      [] c.call = "updateWorkflowLastRunAt" ->
            [st EXCEPT !.workflows       = SetLastRunAt(@, c.id, c.at),
                       !.workflowDetails = SetLastRunAt(@, c.id, c.at)]
      [] c.call = "prependRun" ->
            [st EXCEPT !.runDetails = Unshift(@, c.item), !.runs = Unshift(@, c.item)]
      [] c.call = "upsertRun" ->
            [st EXCEPT !.runDetails = Upsert(@, c.item), !.runs = Upsert(@, c.item)]
      [] c.call = "upsertSession" ->
            [st EXCEPT !.sessionDetails = Upsert(@, c.item),
                       !.sessions       = Upsert(@, SessionSummary(c.item))]
      [] c.call = "upsertConnection" ->
            [st EXCEPT !.connections = Upsert(@, c.item)]
      [] c.call = "setSettings" ->
            [st EXCEPT !.settings = c.settings]
      [] c.call = "prependKnowledgeSource" ->
            [st EXCEPT !.knowledgeSources = Unshift(@, c.item)]
      [] c.call = "prependAutomation" ->
            [st EXCEPT !.automations = Unshift(@, c.item)]
      [] c.call = "upsertAutomation" ->
            [st EXCEPT !.automations = Upsert(@, c.item)]
      [] c.call = "prependAuditEvent" ->
            [st EXCEPT !.auditEvents = Unshift(@, c.item)]

-----------------------------------------------------------------------------
(* The interpretation of realtime events: the calls each event makes.      *)

toRunStatus(value) ==
    CASE value = "queued"                        -> "queued"
      [] value \in {"completed", "final"}        -> "completed"
      [] value \in {"failed", "error", "aborted"} -> "failed"
      [] OTHER                                   -> "running"

\* The audit id of a mirrored event comes from the length of the list.
mirrorAudit(st, action) ==
    prependAuditEvent([id |-> Len(st.auditEvents) + 1, action |-> action])

\* An existing run keeps its workflow and start; the status is overwritten.
mirrorRun(st, runId, sessionKey, status, ts) ==
    LET existing == HasId(st.runDetails, runId)
        old      == Find(st.runDetails, runId)
    IN  upsertRun([ id         |-> runId,
                    workflowId |-> IF existing THEN old.workflowId
                                   ELSE IF sessionKey # None THEN sessionKey
                                   ELSE OpenClawRuntime,
                    status     |-> toRunStatus(status),
                    startedAt  |-> IF existing THEN old.startedAt ELSE ts ])

\* status None: the event says nothing, the session keeps its own or starts active.
mirrorSession(st, sessionId, status, increment) ==
    LET existing == HasId(st.sessionDetails, sessionId)
        old      == Find(st.sessionDetails, sessionId)
    IN  upsertSession([ id           |-> sessionId,
                        status       |-> IF status # None THEN status
                                         ELSE IF existing THEN old.status
                                         ELSE "active",
                        messageCount |-> (IF existing THEN old.messageCount ELSE 0)
                                         + (IF increment THEN 1 ELSE 0) ])

mirrorRunStatus(st, runId, sessionKey, status, ts) ==
    << mirrorRun(st, runId, sessionKey, status, ts),
       mirrorAudit(st, "runtime.run") >>

mirrorChat(st, runId, sessionId, state, ts) ==
    (IF runId = None THEN << >>
     ELSE << mirrorRun(st, runId, sessionId, state, ts) >>)
    \o
    (IF sessionId = None THEN << >>
     ELSE << mirrorSession(st, sessionId,
                           IF state \in {"final", "aborted", "error"} THEN "ended" ELSE "active",
                           state \in {"final", "error"}) >>)

mirrorSessionMessage(st, sessionId) ==
    << mirrorSession(st, sessionId, None, TRUE) >>

mirrorSessionsChanged(st, sessionId, status) ==
    << mirrorSession(st, sessionId, IF status = "ended" THEN "ended" ELSE "active", FALSE) >>

mirrorToolStatus(st, runId, sessionKey, phase, ts) ==
    << mirrorRun(st, runId, sessionKey, IF phase = "failed" THEN "failed" ELSE "running", ts),
       mirrorAudit(st, "runtime.tool") >>

mirrorApprovalRequest(st) ==
    << setWorkbenchState(st.pendingApprovals + 1),
       mirrorAudit(st, "runtime.approval.requested") >>

\* Mutant: the count of pending approvals is not floored at zero.
mirrorApprovalResolved_NoFloor(st) ==
    << setWorkbenchState(st.pendingApprovals - 1),
       mirrorAudit(st, "runtime.approval.resolved") >>

mirrorApprovalResolved(st) ==
    << setWorkbenchState(IF st.pendingApprovals = 0 THEN 0 ELSE st.pendingApprovals - 1),
       mirrorAudit(st, "runtime.approval.resolved") >>

=============================================================================
