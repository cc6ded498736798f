--------------------------- MODULE ProductStore ---------------------------
(***************************************************************************)
(* The Product API process: the domain store (createProductApiStore) and   *)
(* the realtime mirror, both working on the JSON-file repository.          *)
(*                                                                         *)
(* An operation runs to its end in one turn of the event loop, so no two   *)
(* operations interleave; but it is a sequence of repository calls, and    *)
(* every call changes memory and then rewrites the whole file.  A crash or *)
(* a failed write can fall between any two of them, or inside the write.   *)
(***************************************************************************)
EXTENDS ProductRepository, Integers, FiniteSets

CONSTANT MaxOps   \* bound on the operations of one behaviour

ASSUME StoreAssumption == MaxOps \in Nat

VARIABLES
    mem,       \* the state the repository closure holds
    disk,      \* the last state completely written to the file
    torn,      \* the file was truncated by a write that did not finish
    up,        \* the process is running
    counters,  \* workflowCounter, runCounter, ... of createProductApiStore
    todo,      \* repository calls the current operation has still to make
    caller,    \* who asked for the current operation
    reply,     \* the resource the HTTP answer will name, as a set
    acked,     \* history: the resources named by 2xx answers so far
    now        \* operations so far, the clock isoNow reads

vars == <<mem, disk, torn, up, counters, todo, caller, reply, acked, now>>

Kinds == {"workflow", "run", "knowledge", "automation"}

\* Mutant: the run counter starts at the length, not after it.
CountersOf_OffByOne(st) ==
    [ workflow   |-> Len(st.workflows) + 1,
      run        |-> Len(st.runs),
      knowledge  |-> Len(st.knowledgeSources) + 1,
      automation |-> Len(st.automations) + 1,
      audit      |-> Len(st.auditEvents) + 1 ]

\* createProductApiStore derives every counter from the length of its list.
CountersOf(st) ==
    [ workflow   |-> Len(st.workflows) + 1,
      run        |-> Len(st.runs) + 1,
      knowledge  |-> Len(st.knowledgeSources) + 1,
      automation |-> Len(st.automations) + 1,
      audit      |-> Len(st.auditEvents) + 1 ]

ListOf(st, kind) ==
    CASE kind = "workflow"   -> st.workflows
      [] kind = "run"        -> st.runs
      [] kind = "knowledge"  -> st.knowledgeSources
      [] kind = "automation" -> st.automations

Init ==
    /\ mem = mockState
    /\ disk = mockState
    /\ torn = FALSE
    /\ up = TRUE
    /\ counters = CountersOf(mockState)
    /\ todo = << >>
    /\ caller = "nobody"
    /\ reply = {}
    /\ acked = {}
    /\ now = 0

-----------------------------------------------------------------------------
(* Operations of the store, started by an HTTP request.                    *)

\* The audit entry of a store action: its id is auditCounter++ when it is made.
appendAuditEvent(action) == [call |-> "appendAuditEvent", action |-> action]

Begin(who, calls, created) ==
    /\ up
    /\ todo = << >>
    /\ now < MaxOps
    /\ todo' = calls
    /\ caller' = who
    /\ reply' = created
    /\ now' = now + 1
    /\ UNCHANGED <<mem, disk, torn, up, acked>>

NextId(kind) == counters' = [counters EXCEPT ![kind] = @ + 1]

createWorkflow ==
    LET id == counters.workflow
    IN  /\ Begin("http",
                 << prependWorkflow([id |-> id, lastRunAt |-> now + 1]),
                    appendAuditEvent("workflow.created") >>,
                 { [kind |-> "workflow", id |-> id] })
        /\ NextId("workflow")

\* Mutant: the workflow is stamped before the run exists.
createRunFromWorkflow_StampFirst(w, action) ==
    LET id == counters.run
    IN  /\ Begin("http",
                 << updateWorkflowLastRunAt(w, now + 1),
                    prependRun([id |-> id, workflowId |-> w, status |-> "queued",
                                startedAt |-> now + 1]),
                    appendAuditEvent(action) >>,
                 { [kind |-> "run", id |-> id] })
        /\ NextId("run")

\* createRunFromWorkflow: the run first, then the workflow, then the audit.
createRunFromWorkflow(w, action) ==
    LET id == counters.run
    IN  /\ Begin("http",
                 << prependRun([id |-> id, workflowId |-> w, status |-> "queued",
                                startedAt |-> now + 1]),
                    updateWorkflowLastRunAt(w, now + 1),
                    appendAuditEvent(action) >>,
                 { [kind |-> "run", id |-> id] })
        /\ NextId("run")

\* Mutant: an unknown workflow is not refused.
startWorkflowRun_Unchecked(w) == createRunFromWorkflow(w, "workflow.run.started")

startWorkflowRun(w) ==
    /\ HasId(mem.workflowDetails, w)
    /\ createRunFromWorkflow(w, "workflow.run.started")

retryRun(r) ==
    /\ HasId(mem.runDetails, r)
    /\ HasId(mem.workflowDetails, Find(mem.runDetails, r).workflowId)
    /\ createRunFromWorkflow(Find(mem.runDetails, r).workflowId, "workflow.run.retried")

connectFeishu ==
    LET feishu == { i \in DOMAIN mem.connections : mem.connections[i].channelType = "feishu" }
        conn   == IF feishu # {}
                  THEN [ mem.connections[CHOOSE i \in feishu : \A j \in feishu : i <= j]
                         EXCEPT !.status = "connected", !.lastActiveAt = now + 1 ]
                  ELSE [id |-> "conn-feishu", channelType |-> "feishu",
                        status |-> "connected", lastActiveAt |-> now + 1]
    IN  /\ Begin("http",
                 << upsertConnection(conn),
                    appendAuditEvent("channel_connection.feishu.connected") >>, {})
        /\ UNCHANGED counters

\* input: the fields the request names; they get the value of this request.
updateSettings(input) ==
    /\ Begin("http",
             << setSettings([f \in SettingFields |->
                               IF f \in input THEN now + 1 ELSE mem.settings[f]]),
                appendAuditEvent("settings.updated") >>, {})
    /\ UNCHANGED counters

\* Mutant: the new source is not audited.
createKnowledgeSource_Unaudited ==
    LET id == counters.knowledge
    IN  /\ Begin("http", << prependKnowledgeSource([id |-> id, status |-> "syncing"]) >>,
                 { [kind |-> "knowledge", id |-> id] })
        /\ NextId("knowledge")

createKnowledgeSource ==
    LET id == counters.knowledge
    IN  /\ Begin("http",
                 << prependKnowledgeSource([id |-> id, status |-> "syncing"]),
                    appendAuditEvent("knowledge_source.created") >>,
                 { [kind |-> "knowledge", id |-> id] })
        /\ NextId("knowledge")

createAutomation(triggerType) ==
    LET id == counters.automation
    IN  /\ Begin("http",
                 << prependAutomation([id |-> id, triggerType |-> triggerType, status |-> "active",
                                       lastRunAt |-> None,
                                       nextRunAt |-> IF triggerType = "manual" THEN None ELSE now + 1]),
                    appendAuditEvent("automation.created") >>,
                 { [kind |-> "automation", id |-> id] })
        /\ NextId("automation")

toggleAutomation(a) ==
    LET automation == Find(mem.automations, a)
        nextStatus == IF automation.status = "active" THEN "paused" ELSE "active"
    IN  /\ HasId(mem.automations, a)
        /\ Begin("http",
                 << upsertAutomation(
                      [automation EXCEPT
                         !.status = nextStatus,
                         !.nextRunAt = IF nextStatus = "active" /\ automation.triggerType # "manual"
                                       THEN now + 1 ELSE None]),
                    appendAuditEvent(IF nextStatus = "active" THEN "automation.active"
                                                              ELSE "automation.paused") >>, {})
        /\ UNCHANGED counters

runAutomation(a) ==
    LET automation == Find(mem.automations, a)
    IN  /\ HasId(mem.automations, a)
        /\ Begin("http",
                 << upsertAutomation(
                      [automation EXCEPT
                         !.lastRunAt = now + 1,
                         !.nextRunAt = IF automation.status = "active" /\ automation.triggerType # "manual"
                                       THEN now + 1 ELSE @]),
                    appendAuditEvent("automation.run.triggered") >>, {})
        /\ UNCHANGED counters

-----------------------------------------------------------------------------
(* Realtime events, applied by the mirror client's message handler.        *)

Mirror(calls) == Begin("mirror", calls, {}) /\ UNCHANGED counters

MirrorEvent ==
    \/ \E r \in RuntimeRuns, s \in RuntimeSessions \cup {None},
          status \in {"started", "completed", "error"} :
            Mirror(mirrorRunStatus(mem, r, s, status, now + 1))
    \/ \E r \in RuntimeRuns \cup {None}, s \in RuntimeSessions \cup {None},
          state \in {"delta", "final", "aborted", "error"} :
            /\ <<r, s>> # <<None, None>>
            /\ Mirror(mirrorChat(mem, r, s, state, now + 1))
    \/ \E s \in RuntimeSessions : Mirror(mirrorSessionMessage(mem, s))
    \/ \E s \in RuntimeSessions, status \in {"ended", "running"} :
            Mirror(mirrorSessionsChanged(mem, s, status))
    \/ \E r \in RuntimeRuns, s \in RuntimeSessions,
          phase \in {"started", "streaming", "completed", "failed"} :
            Mirror(mirrorToolStatus(mem, r, s, phase, now + 1))
    \/ Mirror(mirrorApprovalRequest(mem))
    \/ Mirror(mirrorApprovalResolved(mem))

-----------------------------------------------------------------------------
(* One repository call: memory changes, then persist() rewrites the file.  *)

CallInMemory ==
    LET c == Head(todo)
    IN  /\ todo # << >>
        /\ IF c.call = "appendAuditEvent"
           THEN /\ mem' = Apply(mem, prependAuditEvent([id |-> counters.audit, action |-> c.action]))
                /\ counters' = [counters EXCEPT !.audit = @ + 1]
           ELSE /\ mem' = Apply(mem, c)
                /\ UNCHANGED counters

\* The write succeeds; the last call of an operation is followed by the answer.
RepositoryCall ==
    /\ CallInMemory
    /\ disk' = mem'
    /\ torn' = FALSE
    /\ todo' = Tail(todo)
    /\ acked' = IF Tail(todo) = << >> THEN acked \cup reply ELSE acked
    /\ reply' = IF Tail(todo) = << >> THEN {} ELSE reply
    /\ caller' = IF Tail(todo) = << >> THEN "nobody" ELSE caller
    /\ UNCHANGED <<up, now>>

\* The process ends, possibly inside the write of the next call.  Its
\* memory is gone: until Restart, mem and counters mean nothing, and they are
\* set to the file's so that no two down states differ in them.
Crash ==
    /\ up
    /\ up' = FALSE
    /\ torn' \in (IF todo = << >> THEN {torn} ELSE {torn, TRUE})
    /\ mem' = disk
    /\ counters' = CountersOf(disk)
    /\ todo' = << >>
    /\ reply' = {}
    /\ caller' = "nobody"
    /\ UNCHANGED <<disk, acked, now>>

\* Mutant: the failed write is swallowed and the request answered 201.
WriteFails_Answered201 ==
    /\ caller = "http"
    /\ CallInMemory
    /\ torn' \in {torn, TRUE}
    /\ todo' = << >>
    /\ acked' = acked \cup reply
    /\ reply' = {}
    /\ caller' = "nobody"
    /\ UNCHANGED <<up, disk, now>>

\* writeFileSync throws in a request, before or after it truncated the file.
\* The rest of the operation is skipped and the request answered 500.
WriteFails ==
    /\ caller = "http"
    /\ CallInMemory
    /\ torn' \in {torn, TRUE}
    /\ todo' = << >>
    /\ reply' = {}
    /\ caller' = "nobody"
    /\ UNCHANGED <<up, disk, acked, now>>

\* writeFileSync throws in the mirror's message handler: nothing catches the
\* error, and the process dies.
MirrorWriteFails == caller = "mirror" /\ Crash

\* Mutant: the new process starts from the mock state and ignores the file.
Restart_FromMock ==
    /\ ~up
    /\ ~torn
    /\ mem' = mockState
    /\ counters' = CountersOf(mockState)
    /\ up' = TRUE
    /\ UNCHANGED <<torn, disk, todo, caller, reply, acked, now>>

\* readState parses the file, so a torn one cannot be loaded; the first
\* persist() of the new process writes back what was read.
Restart ==
    /\ ~up
    /\ ~torn
    /\ mem' = disk
    /\ counters' = CountersOf(disk)
    /\ \/ up' = TRUE /\ UNCHANGED torn
       \/ torn' = TRUE /\ UNCHANGED up
    /\ UNCHANGED <<disk, todo, caller, reply, acked, now>>

Next ==
    \/ createWorkflow
    \/ \E w \in 1..(Len(mem.workflowDetails) + 1) : startWorkflowRun(w)
    \/ \E r \in 1..(Len(mem.runDetails) + 1) \cup RuntimeRuns : retryRun(r)
    \/ connectFeishu
    \/ \E input \in SUBSET SettingFields : updateSettings(input)
    \/ createKnowledgeSource
    \/ \E t \in {"schedule", "event", "manual"} : createAutomation(t)
    \/ \E a \in 1..(Len(mem.automations) + 1) : toggleAutomation(a)
    \/ \E a \in 1..(Len(mem.automations) + 1) : runAutomation(a)
    \/ MirrorEvent
    \/ RepositoryCall
    \/ WriteFails
    \/ MirrorWriteFails
    \/ Crash
    \/ Restart

Spec == Init /\ [][Next]_vars

-----------------------------------------------------------------------------
(* Properties.                                                             *)

\* The actions under which mirrored events are audited.
MirroredActions ==
    {"runtime.run", "runtime.tool", "runtime.approval.requested", "runtime.approval.resolved"}

\* The actions in the audit log: the mock data's, the store's and the mirror's.
AuditActions ==
    {"approval.requested", "workflow.created", "workflow.run.started", "workflow.run.retried",
     "channel_connection.feishu.connected", "settings.updated", "knowledge_source.created",
     "automation.created", "automation.active", "automation.paused", "automation.run.triggered"}
    \cup MirroredActions

RunStatuses == {"queued", "running", "completed", "failed"}
RunIds      == Nat \cup RuntimeRuns
SessionIds  == Nat \cup RuntimeSessions
Workflow    == [id : Nat, lastRunAt : Nat]
Run         == [id : RunIds, workflowId : Nat \cup RuntimeSessions \cup {OpenClawRuntime},
                status : RunStatuses, startedAt : Nat]
Session     == [id : SessionIds, status : {"active", "ended"}]
SessionDet  == [id : SessionIds, status : {"active", "ended"}, messageCount : Nat]
Connection  == [id : {"conn-feishu", "conn-wecom"}, channelType : {"feishu", "wecom"},
                status : {"connected", "offline"}, lastActiveAt : Nat]
Knowledge   == [id : Nat, status : {"ready", "syncing"}]
Automation  == [id : Nat, triggerType : {"schedule", "event", "manual"}, status : {"active", "paused"},
                lastRunAt : Nat \cup {None}, nextRunAt : Nat \cup {None}]
AuditEvent  == [id : Nat, action : AuditActions]
Settings    == [SettingFields -> Nat]

\* ProductApiState.
State == [ workflows : Seq(Workflow), workflowDetails : Seq(Workflow),
           runs : Seq(Run), runDetails : Seq(Run),
           sessions : Seq(Session), sessionDetails : Seq(SessionDet),
           connections : Seq(Connection), settings : Settings,
           knowledgeSources : Seq(Knowledge), automations : Seq(Automation),
           auditEvents : Seq(AuditEvent), pendingApprovals : Nat ]

\* The repository calls an operation can have still to make.
Call == [call : {"setWorkbenchState"}, pendingApprovals : Nat]
        \cup [call : {"prependWorkflow"}, item : Workflow]
        \cup [call : {"updateWorkflowLastRunAt"},
              id : Nat \cup RuntimeSessions \cup {OpenClawRuntime}, at : Nat]
        \cup [call : {"prependRun", "upsertRun"}, item : Run]
        \cup [call : {"upsertSession"}, item : SessionDet]
        \cup [call : {"upsertConnection"}, item : Connection]
        \cup [call : {"setSettings"}, settings : Settings]
        \cup [call : {"prependKnowledgeSource"}, item : Knowledge]
        \cup [call : {"prependAutomation", "upsertAutomation"}, item : Automation]
        \cup [call : {"prependAuditEvent"}, item : AuditEvent]
        \cup [call : {"appendAuditEvent"}, action : AuditActions]

Counters == [workflow : Nat, run : Nat, knowledge : Nat, automation : Nat, audit : Nat]
Resource == [kind : Kinds, id : Nat]

\* Type invariant of the store process.
TypeOK ==
    /\ mem \in State
    /\ disk \in State
    /\ torn \in BOOLEAN
    /\ up \in BOOLEAN
    /\ counters \in Counters
    /\ todo \in Seq(Call)
    /\ caller \in {"nobody", "http", "mirror"}
    /\ reply \in SUBSET Resource
    /\ acked \in SUBSET Resource
    /\ now \in Nat

UniqueIds(list) == \A i, j \in DOMAIN list : list[i].id = list[j].id => i = j

\* No two workflows, runs, knowledge sources or automations ever share an id,
\* in memory or in the file, although every restart derives the counters anew
\* from list lengths that mirrored runs also count in; nor do two audit events,
\* as long as no mirrored event was audited, which takes its id from the list's
\* length (createProductApiStore, counters, mirrorRealtimeEvent...).
IdsUnique ==
    \A st \in {mem, disk} :
        /\ \A k \in Kinds : UniqueIds(ListOf(st, k))
        /\ \/ UniqueIds(st.auditEvents)
           \/ \E i \in DOMAIN st.auditEvents : st.auditEvents[i].action \in MirroredActions

\* The summary lists the pages show and the detail lists behind them hold the
\* same resources in the same order with the same fields, through every
\* upsert, crash and restart (upsertRun, upsertSession, prepend*).
SummariesMatchDetails ==
    \A st \in {mem, disk} :
        /\ st.workflows = st.workflowDetails
        /\ st.runs = st.runDetails
        /\ st.sessions = [i \in DOMAIN st.sessionDetails |-> SessionSummary(st.sessionDetails[i])]

\* A resource whose creation was answered with 201 is in the file as long as
\* the file can be read, so it survives every crash (persist before answer).
AckedSurvive ==
    ~torn => \A a \in acked : HasId(ListOf(disk, a.kind), a.id)

\* The actions under which the creation of a resource is audited.
CreationActions(kind) ==
    CASE kind = "workflow"   -> {"workflow.created"}
      [] kind = "run"        -> {"workflow.run.started", "workflow.run.retried"}
      [] kind = "knowledge"  -> {"knowledge_source.created"}
      [] kind = "automation" -> {"automation.created"}

Audited(st, kind) == {i \in DOMAIN st.auditEvents : st.auditEvents[i].action \in CreationActions(kind)}

\* Every creation that was answered with 201 has its audit event in the file,
\* through failed writes, crashes and restarts: the log may know of more
\* creations than were answered, never of fewer (appendAuditEvent before the
\* answer, persist on every call).
AckedAreAudited ==
    ~torn => \A k \in Kinds :
        Cardinality({a \in acked : a.kind = k})
            <= Cardinality(Audited(disk, k)) - Cardinality(Audited(mockState, k))

\* A run that a workflow started belongs to a workflow that exists, in memory
\* and in the file (startWorkflowRun and retryRun look the workflow up).
RunsHaveTheirWorkflow ==
    \A st \in {mem, disk} : \A i \in DOMAIN st.runs :
        st.runs[i].id \in Nat => HasId(st.workflows, st.runs[i].workflowId)

\* The file never gets ahead of memory: what it holds of the audit log is the
\* older part of the log in memory (every persist() writes the whole state,
\* restart reads it back).
FileIsPrefixOfMemory ==
    up => LET behind == Len(mem.auditEvents) - Len(disk.auditEvents)
          IN  /\ behind >= 0
              /\ disk.auditEvents = SubSeq(mem.auditEvents, behind + 1, Len(mem.auditEvents))

\* When the file's lastRunAt of a workflow changes, the file holds the run
\* that was started at that time: no crash leaves a last-run time without its
\* run (createRunFromWorkflow writes the run first).
LastRunBacked ==
    [][ \A i \in DOMAIN disk.workflows : \A j \in DOMAIN disk'.workflows :
          (/\ disk.workflows[i].id = disk'.workflows[j].id
           /\ disk.workflows[i].lastRunAt # disk'.workflows[j].lastRunAt)
          => \E k \in DOMAIN disk'.runs :
               /\ disk'.runs[k].workflowId = disk'.workflows[j].id
               /\ disk'.runs[k].startedAt = disk'.workflows[j].lastRunAt ]_vars

=============================================================================
