------------------------- MODULE ProductStoreProofs -------------------------
(***************************************************************************)
(* The store process, for any number of operations and any runtime ids:    *)
(* what the file and memory hold after any sequence of requests, mirrored  *)
(* events, failed writes, crashes and restarts.                            *)
(***************************************************************************)
EXTENDS ProductStore, SequenceTheorems, FiniteSetTheorems, WellFoundedInduction, TLAPS

USE RuntimeIdsAreNotNumbers, StoreAssumption

-----------------------------------------------------------------------------
(* Lists with ids.                                                         *)

LEMMA UnshiftList ==
    ASSUME NEW S, NEW list \in Seq(S), NEW item \in S
    PROVE  /\ Unshift(list, item) \in Seq(S)
           /\ Len(Unshift(list, item)) = Len(list) + 1 /\ Len(list) \in Nat
           /\ DOMAIN Unshift(list, item) = 1..(Len(list) + 1) /\ DOMAIN list = 1..Len(list)
           /\ Unshift(list, item)[1] = item
           /\ \A i \in DOMAIN list : i + 1 \in DOMAIN Unshift(list, item)
                                     /\ Unshift(list, item)[i + 1] = list[i]
           /\ \A i \in DOMAIN Unshift(list, item) :
                 i = 1 \/ (i - 1 \in DOMAIN list /\ Unshift(list, item)[i] = list[i - 1])
<1> DEFINE u == <<item>> \o list
<1>1. /\ u \in Seq(S) /\ Len(u) = Len(list) + 1 /\ Len(list) \in Nat
      /\ \A i \in 1..Len(u) : u[i] = IF i <= 1 THEN <<item>>[i] ELSE list[i - 1]
  BY ConcatProperties
<1>2. DOMAIN u = 1..Len(u) /\ DOMAIN list = 1..Len(list)
  BY <1>1
<1>3. u[1] = item
  BY <1>1
<1>4. \A i \in DOMAIN list : i + 1 \in DOMAIN u /\ u[i + 1] = list[i]
  BY <1>1, <1>2
<1>5. \A i \in DOMAIN u : i = 1 \/ (i - 1 \in DOMAIN list /\ u[i] = list[i - 1])
  BY <1>1, <1>2
<1>6. QED
  BY <1>1, <1>2, <1>3, <1>4, <1>5 DEF Unshift

LEMMA IndexOfFound ==
    ASSUME NEW list, NEW id, HasId(list, id)
    PROVE  IndexOf(list, id) \in DOMAIN list /\ list[IndexOf(list, id)].id = id
  BY DEF HasId, IndexOf

LEMMA UpsertList ==
    ASSUME NEW S, NEW list \in Seq(S), NEW item \in S
    PROVE  /\ Upsert(list, item) \in Seq(S)
           /\ ~HasId(list, item.id) => Upsert(list, item) = Unshift(list, item)
           /\ HasId(list, item.id) =>
                 /\ DOMAIN Upsert(list, item) = DOMAIN list
                 /\ Len(Upsert(list, item)) = Len(list)
                 /\ IndexOf(list, item.id) \in DOMAIN list
                 /\ list[IndexOf(list, item.id)].id = item.id
                 /\ \A i \in DOMAIN list : Upsert(list, item)[i] =
                       IF i = IndexOf(list, item.id) THEN item ELSE list[i]
<1>1. CASE ~HasId(list, item.id)
  BY <1>1, UnshiftList DEF Upsert
<1>2. CASE HasId(list, item.id)
  <2> DEFINE k == IndexOf(list, item.id)
             u == [list EXCEPT ![k] = item]
  <2>1. Upsert(list, item) = u
    BY <1>2 DEF Upsert
  <2>2. k \in DOMAIN list /\ list[k].id = item.id
    BY <1>2, IndexOfFound
  <2> HIDE DEF k
  <2>3. u \in Seq(S) /\ Len(u) = Len(list) /\ DOMAIN u = DOMAIN list
    BY <2>2, ExceptSeq
  <2>4. \A i \in DOMAIN list : u[i] = IF i = k THEN item ELSE list[i]
    BY <2>2
  <2>5. QED
    BY <1>2, <2>1, <2>2, <2>3, <2>4 DEF k
<1>3. QED
  BY <1>1, <1>2

LEMMA StampList ==
    ASSUME NEW list \in Seq(Workflow), NEW id, NEW at \in Nat
    PROVE  /\ SetLastRunAt(list, id, at) \in Seq(Workflow)
           /\ DOMAIN SetLastRunAt(list, id, at) = DOMAIN list
           /\ Len(SetLastRunAt(list, id, at)) = Len(list)
           /\ \A i \in DOMAIN list : /\ SetLastRunAt(list, id, at)[i].id = list[i].id
                                     /\ \/ SetLastRunAt(list, id, at)[i] = list[i]
                                        \/ list[i].id = id /\ SetLastRunAt(list, id, at)[i].lastRunAt = at
<1>1. CASE ~HasId(list, id)
  BY <1>1 DEF SetLastRunAt
<1>2. CASE HasId(list, id)
  <2> DEFINE k == IndexOf(list, id)
             w == [list[k] EXCEPT !.lastRunAt = at]
             u == [list EXCEPT ![k] = w]
  <2>1. SetLastRunAt(list, id, at) = u
    BY <1>2 DEF SetLastRunAt
  <2>2. k \in DOMAIN list /\ list[k].id = id /\ list[k] \in Workflow
    BY <1>2, IndexOfFound
  <2> HIDE DEF k
  <2>3. w \in Workflow /\ w.id = id /\ w.lastRunAt = at
    BY <2>2 DEF Workflow
  <2> HIDE DEF w
  <2>4. u \in Seq(Workflow) /\ Len(u) = Len(list) /\ DOMAIN u = DOMAIN list
    BY <2>2, <2>3, ExceptSeq
  <2>5. \A i \in DOMAIN list : u[i] = IF i = k THEN w ELSE list[i]
    BY <2>2
  <2>6. QED
    BY <2>1, <2>2, <2>3, <2>4, <2>5
<1>3. QED
  BY <1>1, <1>2

-----------------------------------------------------------------------------
(* What a repository call does to each list.                               *)

\* The calls the repository knows: appendAuditEvent is the store's own.
RepoCall ==
    [call : {"setWorkbenchState"}, pendingApprovals : Nat]
    \cup [call : {"prependWorkflow"}, item : Workflow]
    \cup [call : {"updateWorkflowLastRunAt"},
          id : Nat \cup RuntimeSessions \cup {OpenClawRuntime}, at : Nat]
    \cup [call : {"prependRun", "upsertRun"}, item : Run]
    \cup [call : {"upsertSession"}, item : SessionDet]
    \cup [call : {"upsertConnection"}, item : Connection]
    \cup [call : {"setSettings"}, settings : Settings]
    \cup [call : {"prependKnowledgeSource"}, item : Knowledge]
    \cup [call : {"prependAutomation", "upsertAutomation"}, item : Automation]
    \cup [call : {"prependAuditEvent"}, item : AuditEvent]

WorkflowsAfter(list, c) ==
    IF c.call = "prependWorkflow" THEN Unshift(list, c.item)
    ELSE IF c.call = "updateWorkflowLastRunAt" THEN SetLastRunAt(list, c.id, c.at) ELSE list

RunsAfter(list, c) ==
    IF c.call = "prependRun" THEN Unshift(list, c.item)
    ELSE IF c.call = "upsertRun" THEN Upsert(list, c.item) ELSE list

SessionDetailsAfter(list, c) == IF c.call = "upsertSession" THEN Upsert(list, c.item) ELSE list

SessionsAfter(list, c) ==
    IF c.call = "upsertSession" THEN Upsert(list, SessionSummary(c.item)) ELSE list

ConnectionsAfter(list, c) == IF c.call = "upsertConnection" THEN Upsert(list, c.item) ELSE list

KnowledgeAfter(list, c) == IF c.call = "prependKnowledgeSource" THEN Unshift(list, c.item) ELSE list

AutomationsAfter(list, c) ==
    IF c.call = "prependAutomation" THEN Unshift(list, c.item)
    ELSE IF c.call = "upsertAutomation" THEN Upsert(list, c.item) ELSE list

AuditAfter(list, c) == IF c.call = "prependAuditEvent" THEN Unshift(list, c.item) ELSE list

After(st, c) ==
    [ workflows        |-> WorkflowsAfter(st.workflows, c),
      workflowDetails  |-> WorkflowsAfter(st.workflowDetails, c),
      runs             |-> RunsAfter(st.runs, c),
      runDetails       |-> RunsAfter(st.runDetails, c),
      sessions         |-> SessionsAfter(st.sessions, c),
      sessionDetails   |-> SessionDetailsAfter(st.sessionDetails, c),
      connections      |-> ConnectionsAfter(st.connections, c),
      settings         |-> IF c.call = "setSettings" THEN c.settings ELSE st.settings,
      knowledgeSources |-> KnowledgeAfter(st.knowledgeSources, c),
      automations      |-> AutomationsAfter(st.automations, c),
      auditEvents      |-> AuditAfter(st.auditEvents, c),
      pendingApprovals |-> IF c.call = "setWorkbenchState" THEN c.pendingApprovals
                           ELSE st.pendingApprovals ]

\* What kind of call carries what.
LEMMA CallItems ==
    ASSUME NEW c \in RepoCall
    PROVE  /\ c.call \in {"setWorkbenchState", "prependWorkflow", "updateWorkflowLastRunAt", "prependRun",
                          "upsertRun", "upsertSession", "upsertConnection", "setSettings",
                          "prependKnowledgeSource", "prependAutomation", "upsertAutomation",
                          "prependAuditEvent"}
           /\ c.call = "setWorkbenchState" => c.pendingApprovals \in Nat
           /\ c.call = "prependWorkflow" => c.item \in Workflow
           /\ c.call = "updateWorkflowLastRunAt" => c.at \in Nat
           /\ c.call \in {"prependRun", "upsertRun"} => c.item \in Run
           /\ c.call = "upsertSession" => c.item \in SessionDet
           /\ c.call = "upsertConnection" => c.item \in Connection
           /\ c.call = "setSettings" => c.settings \in Settings
           /\ c.call = "prependKnowledgeSource" => c.item \in Knowledge
           /\ c.call \in {"prependAutomation", "upsertAutomation"} => c.item \in Automation
           /\ c.call = "prependAuditEvent" => c.item \in AuditEvent
<1>1. CASE c \in [call : {"setWorkbenchState"}, pendingApprovals : Nat]
  BY <1>1
<1>2. CASE c \in [call : {"prependWorkflow"}, item : Workflow]
  BY <1>2
<1>3. CASE c \in [call : {"updateWorkflowLastRunAt"},
                  id : Nat \cup RuntimeSessions \cup {OpenClawRuntime}, at : Nat]
  BY <1>3
<1>4. CASE c \in [call : {"prependRun", "upsertRun"}, item : Run]
  BY <1>4
<1>5. CASE c \in [call : {"upsertSession"}, item : SessionDet]
  BY <1>5
<1>6. CASE c \in [call : {"upsertConnection"}, item : Connection]
  BY <1>6
<1>7. CASE c \in [call : {"setSettings"}, settings : Settings]
  BY <1>7
<1>8. CASE c \in [call : {"prependKnowledgeSource"}, item : Knowledge]
  BY <1>8
<1>9. CASE c \in [call : {"prependAutomation", "upsertAutomation"}, item : Automation]
  BY <1>9
<1>10. CASE c \in [call : {"prependAuditEvent"}, item : AuditEvent]
  BY <1>10
<1>11. QED
  BY <1>1, <1>2, <1>3, <1>4, <1>5, <1>6, <1>7, <1>8, <1>9, <1>10 DEF RepoCall

LEMMA ApplyIsAfter ==
    ASSUME NEW st \in State, NEW c \in RepoCall
    PROVE  Apply(st, c) = After(st, c)
<1> USE DEF After, WorkflowsAfter, RunsAfter, SessionsAfter, SessionDetailsAfter, ConnectionsAfter,
            KnowledgeAfter, AutomationsAfter, AuditAfter
<1>1. CASE c.call = "setWorkbenchState"
  BY <1>1 DEF Apply, State
<1>2. CASE c.call = "prependWorkflow"
  BY <1>2 DEF Apply, State
<1>3. CASE c.call = "updateWorkflowLastRunAt"
  BY <1>3 DEF Apply, State
<1>4. CASE c.call = "prependRun"
  BY <1>4 DEF Apply, State
<1>5. CASE c.call = "upsertRun"
  BY <1>5 DEF Apply, State
<1>6. CASE c.call = "upsertSession"
  BY <1>6 DEF Apply, State
<1>7. CASE c.call = "upsertConnection"
  BY <1>7 DEF Apply, State
<1>8. CASE c.call = "setSettings"
  BY <1>8 DEF Apply, State
<1>9. CASE c.call = "prependKnowledgeSource"
  BY <1>9 DEF Apply, State
<1>10. CASE c.call = "prependAutomation"
  BY <1>10 DEF Apply, State
<1>11. CASE c.call = "upsertAutomation"
  BY <1>11 DEF Apply, State
<1>12. CASE c.call = "prependAuditEvent"
  BY <1>12 DEF Apply, State
<1>13. QED
  BY <1>1, <1>2, <1>3, <1>4, <1>5, <1>6, <1>7, <1>8, <1>9, <1>10, <1>11, <1>12, CallItems

LEMMA AfterType ==
    ASSUME NEW st \in State, NEW c \in RepoCall
    PROVE  After(st, c) \in State
<1>1. WorkflowsAfter(st.workflows, c) \in Seq(Workflow)
  BY CallItems, UnshiftList, StampList DEF State, WorkflowsAfter
<1>2. WorkflowsAfter(st.workflowDetails, c) \in Seq(Workflow)
  BY CallItems, UnshiftList, StampList DEF State, WorkflowsAfter
<1>3. RunsAfter(st.runs, c) \in Seq(Run)
  BY CallItems, UnshiftList, UpsertList DEF State, RunsAfter
<1>4. RunsAfter(st.runDetails, c) \in Seq(Run)
  BY CallItems, UnshiftList, UpsertList DEF State, RunsAfter
<1>5. SessionDetailsAfter(st.sessionDetails, c) \in Seq(SessionDet)
  BY CallItems, UpsertList DEF State, SessionDetailsAfter
<1>6. SessionsAfter(st.sessions, c) \in Seq(Session)
  <2>1. c.call = "upsertSession" => SessionSummary(c.item) \in Session
    BY CallItems DEF SessionSummary, Session, SessionDet
  <2>2. QED
    BY <2>1, UpsertList DEF State, SessionsAfter
<1>7. ConnectionsAfter(st.connections, c) \in Seq(Connection)
  BY CallItems, UpsertList DEF State, ConnectionsAfter
<1>8. KnowledgeAfter(st.knowledgeSources, c) \in Seq(Knowledge)
  BY CallItems, UnshiftList DEF State, KnowledgeAfter
<1>9. AutomationsAfter(st.automations, c) \in Seq(Automation)
  BY CallItems, UnshiftList, UpsertList DEF State, AutomationsAfter
<1>10. AuditAfter(st.auditEvents, c) \in Seq(AuditEvent)
  BY CallItems, UnshiftList DEF State, AuditAfter
<1>11. /\ (IF c.call = "setSettings" THEN c.settings ELSE st.settings) \in Settings
       /\ (IF c.call = "setWorkbenchState" THEN c.pendingApprovals ELSE st.pendingApprovals) \in Nat
  BY CallItems DEF State
<1>12. QED
  BY <1>1, <1>2, <1>3, <1>4, <1>5, <1>6, <1>7, <1>8, <1>9, <1>10, <1>11 DEF After, State

-----------------------------------------------------------------------------
(* Ids.  A numbered id is at most the length of its list: this is what     *)
(* makes the counters that a restart derives from the lengths safe.        *)

Numbered(list) == \A i \in DOMAIN list : list[i].id \in Nat => list[i].id <= Len(list)
Fresh(list, n) == \A i \in DOMAIN list : list[i].id \in Nat => list[i].id < n

LEMMA UnshiftHasId ==
    ASSUME NEW S, NEW list \in Seq(S), NEW item \in S
    PROVE  /\ HasId(Unshift(list, item), item.id)
           /\ \A id : HasId(list, id) => HasId(Unshift(list, item), id)
<1> DEFINE u == Unshift(list, item)
<1>0. /\ DOMAIN u = 1..(Len(list) + 1) /\ Len(list) \in Nat /\ u[1] = item
      /\ \A i \in DOMAIN list : i + 1 \in DOMAIN u /\ u[i + 1] = list[i]
  BY UnshiftList
<1> HIDE DEF u
<1>1. /\ 1 \in DOMAIN u /\ u[1] = item
      /\ \A i \in DOMAIN list : i + 1 \in DOMAIN u /\ u[i + 1] = list[i]
  BY <1>0
<1>2. HasId(u, item.id)
  BY <1>1 DEF HasId
<1>3. ASSUME NEW id, HasId(list, id)
      PROVE  HasId(u, id)
  <2>1. PICK i \in DOMAIN list : list[i].id = id
    BY <1>3 DEF HasId
  <2>2. i + 1 \in DOMAIN u /\ u[i + 1].id = id
    BY <1>1, <2>1
  <2>3. QED
    BY <2>2 DEF HasId
<1>4. QED
  BY <1>2, <1>3 DEF u

LEMMA UpsertHasId ==
    ASSUME NEW S, NEW list \in Seq(S), NEW item \in S
    PROVE  \A id : HasId(list, id) => HasId(Upsert(list, item), id)
<1>1. CASE ~HasId(list, item.id)
  BY <1>1, UpsertList, UnshiftHasId
<1>2. CASE HasId(list, item.id)
  <2> DEFINE k == IndexOf(list, item.id)
             u == Upsert(list, item)
  <2>1. /\ DOMAIN u = DOMAIN list /\ list[k].id = item.id
        /\ \A i \in DOMAIN list : u[i] = IF i = k THEN item ELSE list[i]
    BY <1>2, UpsertList
  <2> HIDE DEF k, u
  <2>2. \A i \in DOMAIN list : u[i].id = list[i].id
    BY <2>1
  <2>3. QED
    BY <2>1, <2>2 DEF HasId, u
<1>3. QED
  BY <1>1, <1>2

LEMMA UnshiftIds ==
    ASSUME NEW S, NEW list \in Seq(S), NEW item \in S, UniqueIds(list), Numbered(list),
           item.id \in Nat, item.id <= Len(list) + 1, Fresh(list, item.id)
    PROVE  /\ UniqueIds(Unshift(list, item)) /\ Numbered(Unshift(list, item))
           /\ Fresh(Unshift(list, item), item.id + 1)
<1> DEFINE u == Unshift(list, item)
<1>1. /\ Len(u) = Len(list) + 1 /\ Len(list) \in Nat /\ DOMAIN list = 1..Len(list)
      /\ DOMAIN u = 1..(Len(list) + 1)
      /\ u[1] = item
      /\ \A i \in DOMAIN u : i = 1 \/ (i - 1 \in DOMAIN list /\ u[i] = list[i - 1])
  BY UnshiftList
<1> HIDE DEF u
<1>2. \A i \in DOMAIN list : list[i].id # item.id
  BY DEF Fresh
<1>3. UniqueIds(u)
  <2>1. SUFFICES ASSUME NEW i \in DOMAIN u, NEW j \in DOMAIN u, u[i].id = u[j].id
                 PROVE  i = j
    BY DEF UniqueIds
  <2>2. CASE i = 1 \/ j = 1
    BY <2>1, <2>2, <1>1, <1>2
  <2>3. CASE i # 1 /\ j # 1
    <3>1. i - 1 \in DOMAIN list /\ j - 1 \in DOMAIN list /\ list[i - 1].id = list[j - 1].id
      BY <2>1, <2>3, <1>1
    <3>2. i - 1 = j - 1
      BY <3>1 DEF UniqueIds
    <3>3. QED
      BY <3>2, <1>1
  <2>4. QED
    BY <2>2, <2>3
<1>4. Numbered(u)
  BY <1>1 DEF Numbered
<1>5. Fresh(u, item.id + 1)
  BY <1>1 DEF Fresh
<1>6. QED
  BY <1>3, <1>4, <1>5 DEF u

\* An item with an id of the runtime in front: the numbered ids are the same.
LEMMA UnshiftForeignIds ==
    ASSUME NEW S, NEW list \in Seq(S), NEW item \in S, UniqueIds(list), Numbered(list),
           item.id \notin Nat, ~HasId(list, item.id)
    PROVE  /\ UniqueIds(Unshift(list, item)) /\ Numbered(Unshift(list, item))
           /\ \A n : Fresh(list, n) => Fresh(Unshift(list, item), n)
<1> DEFINE u == Unshift(list, item)
<1>1. /\ Len(u) = Len(list) + 1 /\ Len(list) \in Nat /\ DOMAIN list = 1..Len(list)
      /\ DOMAIN u = 1..(Len(list) + 1)
      /\ u[1] = item
      /\ \A i \in DOMAIN u : i = 1 \/ (i - 1 \in DOMAIN list /\ u[i] = list[i - 1])
  BY UnshiftList
<1> HIDE DEF u
<1>2. \A i \in DOMAIN list : list[i].id # item.id
  BY DEF HasId
<1>3. UniqueIds(u)
  <2>1. SUFFICES ASSUME NEW i \in DOMAIN u, NEW j \in DOMAIN u, u[i].id = u[j].id
                 PROVE  i = j
    BY DEF UniqueIds
  <2>2. CASE i = 1 \/ j = 1
    BY <2>1, <2>2, <1>1, <1>2
  <2>3. CASE i # 1 /\ j # 1
    <3>1. i - 1 \in DOMAIN list /\ j - 1 \in DOMAIN list /\ list[i - 1].id = list[j - 1].id
      BY <2>1, <2>3, <1>1
    <3>2. i - 1 = j - 1
      BY <3>1 DEF UniqueIds
    <3>3. QED
      BY <3>2, <1>1
  <2>4. QED
    BY <2>2, <2>3
<1>4. Numbered(u)
  BY <1>1 DEF Numbered
<1>5. \A n : Fresh(list, n) => Fresh(u, n)
  BY <1>1 DEF Fresh
<1>6. QED
  BY <1>3, <1>4, <1>5 DEF u

\* Lists of one length with the same ids.
LEMMA SameIds ==
    ASSUME NEW list, NEW u, DOMAIN u = DOMAIN list, Len(u) = Len(list),
           \A i \in DOMAIN list : u[i].id = list[i].id
    PROVE  /\ UniqueIds(list) => UniqueIds(u)
           /\ Numbered(list) => Numbered(u)
           /\ \A n : Fresh(list, n) => Fresh(u, n)
           /\ \A id : HasId(list, id) <=> HasId(u, id)
<1>1. UniqueIds(list) => UniqueIds(u)
  BY DEF UniqueIds
<1>2. Numbered(list) => Numbered(u)
  BY DEF Numbered
<1>3. \A n : Fresh(list, n) => Fresh(u, n)
  BY DEF Fresh
<1>4. \A id : HasId(list, id) <=> HasId(u, id)
  BY DEF HasId
<1>5. QED
  BY <1>1, <1>2, <1>3, <1>4

LEMMA UpsertIds ==
    ASSUME NEW S, NEW list \in Seq(S), NEW item \in S, UniqueIds(list), Numbered(list),
           item.id \notin Nat \/ HasId(list, item.id)
    PROVE  /\ UniqueIds(Upsert(list, item)) /\ Numbered(Upsert(list, item))
           /\ \A n : Fresh(list, n) => Fresh(Upsert(list, item), n)
           /\ Len(Upsert(list, item)) \in {Len(list), Len(list) + 1} /\ Len(list) \in Nat
<1>1. CASE ~HasId(list, item.id)
  <2>1. Upsert(list, item) = Unshift(list, item)
    BY <1>1, UpsertList
  <2>2. Len(Unshift(list, item)) = Len(list) + 1 /\ Len(list) \in Nat
    BY UnshiftList
  <2>3. /\ UniqueIds(Unshift(list, item)) /\ Numbered(Unshift(list, item))
        /\ \A n : Fresh(list, n) => Fresh(Unshift(list, item), n)
    BY <1>1, UnshiftForeignIds
  <2>4. QED
    BY <2>1, <2>2, <2>3
<1>2. CASE HasId(list, item.id)
  <2> DEFINE k == IndexOf(list, item.id)
             u == Upsert(list, item)
  <2>1. /\ DOMAIN u = DOMAIN list /\ Len(u) = Len(list) /\ list[k].id = item.id
        /\ \A i \in DOMAIN list : u[i] = IF i = k THEN item ELSE list[i]
    BY <1>2, UpsertList
  <2> HIDE DEF k, u
  <2>2. \A i \in DOMAIN list : u[i].id = list[i].id
    BY <2>1
  <2>3. /\ UniqueIds(u) /\ Numbered(u)
        /\ \A n : Fresh(list, n) => Fresh(u, n)
    BY <2>1, <2>2, SameIds
  <2>4. Len(u) \in {Len(list), Len(list) + 1} /\ Len(list) \in Nat
    BY <2>1
  <2>5. QED
    BY <2>3, <2>4 DEF u
<1>3. QED
  BY <1>1, <1>2

-----------------------------------------------------------------------------
(* The inductive invariant.                                                *)

\* The call that creates a resource of a kind.
Creating == [workflow   |-> "prependWorkflow", run |-> "prependRun",
             knowledge  |-> "prependKnowledgeSource", automation |-> "prependAutomation"]

\* Ids in a state: unique, and at most the length of their list.
ListsOK(st) == \A k \in Kinds : UniqueIds(ListOf(st, k)) /\ Numbered(ListOf(st, k))

\* The counter of a kind is past every id of its list, and at most one past the
\* length; the id of a creation under way was taken from it.
CounterOK(list, counter, calls, create) ==
    IF calls # << >> /\ Head(calls).call = create
    THEN /\ Head(calls).item.id \in Nat /\ Head(calls).item.id + 1 = counter
         /\ Head(calls).item.id <= Len(list) + 1 /\ Fresh(list, Head(calls).item.id)
    ELSE counter <= Len(list) + 1 /\ Fresh(list, counter)

CountersOK(st, cs, calls) ==
    \A k \in Kinds : CounterOK(ListOf(st, k), cs[k], calls, Creating[k])

\* The audit log, as long as no mirrored event is in it.
NoneMirrored(log) == \A i \in DOMAIN log : log[i].action \notin MirroredActions

LogOK(log) == NoneMirrored(log) => UniqueIds(log) /\ Numbered(log)

LogCounterOK(log, counter) ==
    counter <= Len(log) + 1 /\ (NoneMirrored(log) => Fresh(log, counter))

\* d is the older part of the log m.
Behind(d, m) == Len(d) <= Len(m) /\ \A i \in 1..Len(d) : d[i] = m[i + (Len(m) - Len(d))]

Match(st) ==
    /\ st.workflows = st.workflowDetails
    /\ st.runs = st.runDetails
    /\ st.sessions = [i \in DOMAIN st.sessionDetails |-> SessionSummary(st.sessionDetails[i])]

RunsOwned(st) ==
    \A i \in DOMAIN st.runs : st.runs[i].id \in Nat => HasId(st.workflows, st.runs[i].workflowId)

\* st has a run of workflow w that was started at time t.
RunOf(st, w, t) == \E i \in DOMAIN st.runs : st.runs[i].workflowId = w /\ st.runs[i].startedAt = t

\* Where m has another last-run time than d, it has the run of that time.
StampsBacked(d, m) ==
    /\ \A id : HasId(d.workflows, id) => HasId(m.workflows, id)
    /\ \A i \in DOMAIN d.workflows : \A j \in DOMAIN m.workflows :
          d.workflows[i].id = m.workflows[j].id /\ d.workflows[i].lastRunAt # m.workflows[j].lastRunAt
              => RunOf(m, m.workflows[j].id, m.workflows[j].lastRunAt)

\* What the next call of the operation rests on.
FirstCallOK(st, c) ==
    /\ c.call = "prependRun" => HasId(st.workflows, c.item.workflowId)
    /\ c.call = "upsertRun" =>
          /\ c.item.id \notin Nat
          /\ HasId(st.runs, c.item.id) =>
                /\ Find(st.runs, c.item.id).workflowId = c.item.workflowId
                /\ Find(st.runs, c.item.id).startedAt = c.item.startedAt
    /\ c.call = "upsertAutomation" => HasId(st.automations, c.item.id)
    /\ c.call = "updateWorkflowLastRunAt" => RunOf(st, c.id, c.at)

\* Later calls: a workflow is stamped right after its run was put in the list.
LaterCallOK(calls, i) ==
    \/ calls[i].call \in {"upsertSession", "prependAuditEvent", "appendAuditEvent"}
    \/ /\ i = 2 /\ calls[2].call = "updateWorkflowLastRunAt" /\ calls[1].call = "prependRun"
       /\ calls[1].item.workflowId = calls[2].id /\ calls[1].item.startedAt = calls[2].at

CallsOK(st, calls) ==
    /\ calls # << >> => FirstCallOK(st, calls[1])
    /\ \A i \in 2..Len(calls) : LaterCallOK(calls, i)
    /\ \A i \in 1..Len(calls) : calls[i].call = "prependAuditEvent" => calls[i].item.action \in MirroredActions

\* The resource the answer will name is in memory or is put there by the next
\* call, and the last call audits it.
ReplyOK(st, calls, created) ==
    /\ \A a, b \in created : a = b
    /\ \A a \in created :
          /\ calls # << >> /\ calls[Len(calls)].call = "appendAuditEvent"
          /\ calls[Len(calls)].action \in CreationActions(a.kind)
          /\ \/ HasId(ListOf(st, a.kind), a.id)
             \/ calls[1].call = Creating[a.kind] /\ calls[1].item.id = a.id

AckedIn(as, st) == \A a \in as : HasId(ListOf(st, a.kind), a.id)

OfKind(as, k) == {a \in as : a.kind = k}

AuditedIn(as, st) ==
    \A k \in Kinds : Cardinality(OfKind(as, k)) + Cardinality(Audited(mockState, k))
                         <= Cardinality(Audited(st, k))

\* What holds of memory and of the file alike.
StateOK(st) == ListsOK(st) /\ LogOK(st.auditEvents) /\ Match(st) /\ RunsOwned(st)

Inv ==
    /\ TypeOK
    /\ StateOK(mem) /\ StateOK(disk)
    /\ CountersOK(mem, counters, todo) /\ LogCounterOK(mem.auditEvents, counters.audit)
    /\ Behind(disk.auditEvents, mem.auditEvents)
    /\ StampsBacked(disk, mem)
    /\ CallsOK(mem, todo) /\ ReplyOK(mem, todo, reply)
    /\ AckedIn(acked, mem) /\ AckedIn(acked, disk)
    /\ IsFiniteSet(acked) /\ AuditedIn(acked, mem) /\ AuditedIn(acked, disk)
    /\ ~up => todo = << >> /\ reply = {}

-----------------------------------------------------------------------------
(* What one repository call keeps.                                         *)

\* The counters, for the call that is made next.
Ready(st, cs, c) ==
    \A k \in Kinds :
        IF c.call = Creating[k]
        THEN /\ c.item.id \in Nat /\ c.item.id + 1 = cs[k]
             /\ c.item.id <= Len(ListOf(st, k)) + 1 /\ Fresh(ListOf(st, k), c.item.id)
        ELSE cs[k] <= Len(ListOf(st, k)) + 1 /\ Fresh(ListOf(st, k), cs[k])

\* The counters between two creations.
Settled(st, cs) == \A k \in Kinds : cs[k] <= Len(ListOf(st, k)) + 1 /\ Fresh(ListOf(st, k), cs[k])

LEMMA ListsOfState ==
    ASSUME NEW st
    PROVE  /\ ListOf(st, "workflow") = st.workflows
           /\ ListOf(st, "run") = st.runs
           /\ ListOf(st, "knowledge") = st.knowledgeSources
           /\ ListOf(st, "automation") = st.automations
  BY DEF ListOf

LEMMA CreatingCalls ==
    /\ Creating["workflow"] = "prependWorkflow"
    /\ Creating["run"] = "prependRun"
    /\ Creating["knowledge"] = "prependKnowledgeSource"
    /\ Creating["automation"] = "prependAutomation"
  BY DEF Creating

\* One list of resources and its counter, through an insertion in front.
LEMMA CreatedList ==
    ASSUME NEW S, NEW list \in Seq(S), NEW item \in S, NEW n \in Nat, UniqueIds(list), Numbered(list),
           item.id \in Nat, item.id + 1 = n, item.id <= Len(list) + 1, Fresh(list, item.id)
    PROVE  /\ UniqueIds(Unshift(list, item)) /\ Numbered(Unshift(list, item))
           /\ n <= Len(Unshift(list, item)) + 1 /\ Fresh(Unshift(list, item), n)
<1>1. UniqueIds(Unshift(list, item)) /\ Numbered(Unshift(list, item)) /\ Fresh(Unshift(list, item), item.id + 1)
  BY UnshiftIds
<1>2. Len(Unshift(list, item)) = Len(list) + 1 /\ Len(list) \in Nat
  BY UnshiftList
<1>3. QED
  BY <1>1, <1>2

LEMMA UpsertedList ==
    ASSUME NEW S, NEW list \in Seq(S), NEW item \in S, NEW n \in Nat, UniqueIds(list), Numbered(list),
           item.id \notin Nat \/ HasId(list, item.id), n <= Len(list) + 1, Fresh(list, n)
    PROVE  /\ UniqueIds(Upsert(list, item)) /\ Numbered(Upsert(list, item))
           /\ n <= Len(Upsert(list, item)) + 1 /\ Fresh(Upsert(list, item), n)
<1>1. /\ UniqueIds(Upsert(list, item)) /\ Numbered(Upsert(list, item))
      /\ Fresh(Upsert(list, item), n)
      /\ Len(Upsert(list, item)) \in {Len(list), Len(list) + 1} /\ Len(list) \in Nat
  BY UpsertIds
<1>2. QED
  BY <1>1

LEMMA AfterLists ==
    ASSUME NEW st \in State, NEW c \in RepoCall, NEW cs \in Counters,
           ListsOK(st), Ready(st, cs, c), FirstCallOK(st, c)
    PROVE  ListsOK(After(st, c)) /\ Settled(After(st, c), cs)
<1> DEFINE OK(list, n) == UniqueIds(list) /\ Numbered(list) /\ n <= Len(list) + 1 /\ Fresh(list, n)
<1>0. cs["workflow"] \in Nat /\ cs["run"] \in Nat /\ cs["knowledge"] \in Nat /\ cs["automation"] \in Nat
  BY DEF Counters
<1>1. OK(WorkflowsAfter(st.workflows, c), cs["workflow"])
  <2> DEFINE list == st.workflows
  <2>0. list \in Seq(Workflow) /\ UniqueIds(list) /\ Numbered(list)
    BY ListsOfState DEF State, ListsOK, Kinds
  <2>1. /\ c.call = "prependWorkflow" =>
             c.item.id \in Nat /\ c.item.id + 1 = cs["workflow"] /\ c.item.id <= Len(list) + 1 /\ Fresh(list, c.item.id)
        /\ c.call # "prependWorkflow" => cs["workflow"] <= Len(list) + 1 /\ Fresh(list, cs["workflow"])
    BY ListsOfState, CreatingCalls DEF Ready, Kinds
  <2> HIDE DEF list
  <2>2. CASE c.call = "prependWorkflow"
    <3>1. c.item \in Workflow
      BY <2>2, CallItems
    <3>2. OK(Unshift(list, c.item), cs["workflow"])
      BY <2>0, <2>1, <2>2, <3>1, <1>0, CreatedList
    <3>3. QED
      BY <3>2, <2>2 DEF WorkflowsAfter, list
  <2>3. CASE c.call = "updateWorkflowLastRunAt"
    <3> DEFINE u == SetLastRunAt(list, c.id, c.at)
    <3>1. DOMAIN u = DOMAIN list /\ Len(u) = Len(list) /\ \A i \in DOMAIN list : u[i].id = list[i].id
      BY <2>0, <2>3, CallItems, StampList
    <3>2. OK(u, cs["workflow"])
      BY <2>0, <2>1, <2>3, <3>1, SameIds
    <3>3. QED
      BY <3>2, <2>3 DEF WorkflowsAfter, list
  <2>4. CASE c.call \notin {"prependWorkflow", "updateWorkflowLastRunAt"}
    BY <2>0, <2>1, <2>4 DEF WorkflowsAfter, list
  <2>5. QED
    BY <2>2, <2>3, <2>4
<1>2. OK(RunsAfter(st.runs, c), cs["run"])
  <2> DEFINE list == st.runs
  <2>0. list \in Seq(Run) /\ UniqueIds(list) /\ Numbered(list)
    BY ListsOfState DEF State, ListsOK, Kinds
  <2>1. /\ c.call = "prependRun" =>
             c.item.id \in Nat /\ c.item.id + 1 = cs["run"] /\ c.item.id <= Len(list) + 1 /\ Fresh(list, c.item.id)
        /\ c.call # "prependRun" => cs["run"] <= Len(list) + 1 /\ Fresh(list, cs["run"])
    BY ListsOfState, CreatingCalls DEF Ready, Kinds
  <2> HIDE DEF list
  <2>2. CASE c.call = "prependRun"
    <3>1. c.item \in Run
      BY <2>2, CallItems
    <3>2. OK(Unshift(list, c.item), cs["run"])
      BY <2>0, <2>1, <2>2, <3>1, <1>0, CreatedList
    <3>3. QED
      BY <3>2, <2>2 DEF RunsAfter, list
  <2>3. CASE c.call = "upsertRun"
    <3>1. c.item \in Run /\ c.item.id \notin Nat
      BY <2>3, CallItems DEF FirstCallOK
    <3>2. OK(Upsert(list, c.item), cs["run"])
      BY <2>0, <2>1, <2>3, <3>1, <1>0, UpsertedList
    <3>3. QED
      BY <3>2, <2>3 DEF RunsAfter, list
  <2>4. CASE c.call \notin {"prependRun", "upsertRun"}
    BY <2>0, <2>1, <2>4 DEF RunsAfter, list
  <2>5. QED
    BY <2>2, <2>3, <2>4
<1>3. OK(KnowledgeAfter(st.knowledgeSources, c), cs["knowledge"])
  <2> DEFINE list == st.knowledgeSources
  <2>0. list \in Seq(Knowledge) /\ UniqueIds(list) /\ Numbered(list)
    BY ListsOfState DEF State, ListsOK, Kinds
  <2>1. /\ c.call = "prependKnowledgeSource" =>
             c.item.id \in Nat /\ c.item.id + 1 = cs["knowledge"] /\ c.item.id <= Len(list) + 1 /\ Fresh(list, c.item.id)
        /\ c.call # "prependKnowledgeSource" => cs["knowledge"] <= Len(list) + 1 /\ Fresh(list, cs["knowledge"])
    BY ListsOfState, CreatingCalls DEF Ready, Kinds
  <2> HIDE DEF list
  <2>2. CASE c.call = "prependKnowledgeSource"
    <3>1. c.item \in Knowledge
      BY <2>2, CallItems
    <3>2. OK(Unshift(list, c.item), cs["knowledge"])
      BY <2>0, <2>1, <2>2, <3>1, <1>0, CreatedList
    <3>3. QED
      BY <3>2, <2>2 DEF KnowledgeAfter, list
  <2>3. CASE c.call # "prependKnowledgeSource"
    BY <2>0, <2>1, <2>3 DEF KnowledgeAfter, list
  <2>4. QED
    BY <2>2, <2>3
<1>4. OK(AutomationsAfter(st.automations, c), cs["automation"])
  <2> DEFINE list == st.automations
  <2>0. list \in Seq(Automation) /\ UniqueIds(list) /\ Numbered(list)
    BY ListsOfState DEF State, ListsOK, Kinds
  <2>1. /\ c.call = "prependAutomation" =>
             c.item.id \in Nat /\ c.item.id + 1 = cs["automation"] /\ c.item.id <= Len(list) + 1 /\ Fresh(list, c.item.id)
        /\ c.call # "prependAutomation" => cs["automation"] <= Len(list) + 1 /\ Fresh(list, cs["automation"])
    BY ListsOfState, CreatingCalls DEF Ready, Kinds
  <2>3. CASE c.call = "upsertAutomation"
    <3>1. c.item \in Automation /\ HasId(list, c.item.id)
      BY <2>3, CallItems DEF FirstCallOK
    <3> HIDE DEF list
    <3>2. OK(Upsert(list, c.item), cs["automation"])
      BY <2>0, <2>1, <2>3, <3>1, <1>0, UpsertedList
    <3>3. QED
      BY <3>2, <2>3 DEF AutomationsAfter, list
  <2> HIDE DEF list
  <2>2. CASE c.call = "prependAutomation"
    <3>1. c.item \in Automation
      BY <2>2, CallItems
    <3>2. OK(Unshift(list, c.item), cs["automation"])
      BY <2>0, <2>1, <2>2, <3>1, <1>0, CreatedList
    <3>3. QED
      BY <3>2, <2>2 DEF AutomationsAfter, list
  <2>4. CASE c.call \notin {"prependAutomation", "upsertAutomation"}
    BY <2>0, <2>1, <2>4 DEF AutomationsAfter, list
  <2>5. QED
    BY <2>2, <2>3, <2>4
<1>5. /\ ListOf(After(st, c), "workflow") = WorkflowsAfter(st.workflows, c)
      /\ ListOf(After(st, c), "run") = RunsAfter(st.runs, c)
      /\ ListOf(After(st, c), "knowledge") = KnowledgeAfter(st.knowledgeSources, c)
      /\ ListOf(After(st, c), "automation") = AutomationsAfter(st.automations, c)
  BY ListsOfState DEF After
<1> HIDE DEF OK
<1>6. \A k \in Kinds : OK(ListOf(After(st, c), k), cs[k])
  BY <1>1, <1>2, <1>3, <1>4, <1>5 DEF Kinds
<1>7. QED
  BY <1>6 DEF OK, ListsOK, Settled

\* No call removes a resource.
LEMMA AfterHasId ==
    ASSUME NEW st \in State, NEW c \in RepoCall
    PROVE  /\ \A k \in Kinds : \A id : HasId(ListOf(st, k), id) => HasId(ListOf(After(st, c), k), id)
           /\ \A k \in Kinds : c.call = Creating[k] => HasId(ListOf(After(st, c), k), c.item.id)
<1>1. /\ ListOf(After(st, c), "workflow") = WorkflowsAfter(st.workflows, c)
      /\ ListOf(After(st, c), "run") = RunsAfter(st.runs, c)
      /\ ListOf(After(st, c), "knowledge") = KnowledgeAfter(st.knowledgeSources, c)
      /\ ListOf(After(st, c), "automation") = AutomationsAfter(st.automations, c)
  BY ListsOfState DEF After
<1>2. /\ \A id : HasId(st.workflows, id) => HasId(WorkflowsAfter(st.workflows, c), id)
      /\ c.call = "prependWorkflow" => HasId(WorkflowsAfter(st.workflows, c), c.item.id)
  <2> DEFINE list == st.workflows
  <2>0. list \in Seq(Workflow)
    BY DEF State
  <2> HIDE DEF list
  <2>1. CASE c.call = "prependWorkflow"
    BY <2>0, <2>1, CallItems, UnshiftHasId DEF WorkflowsAfter, list
  <2>2. CASE c.call = "updateWorkflowLastRunAt"
    <3> DEFINE u == SetLastRunAt(list, c.id, c.at)
    <3>1. DOMAIN u = DOMAIN list /\ Len(u) = Len(list) /\ \A i \in DOMAIN list : u[i].id = list[i].id
      BY <2>0, <2>2, CallItems, StampList
    <3> HIDE DEF u
    <3>2. \A id : HasId(list, id) => HasId(u, id)
      BY <3>1, SameIds
    <3>3. QED
      BY <3>2, <2>2 DEF WorkflowsAfter, list, u
  <2>3. CASE c.call \notin {"prependWorkflow", "updateWorkflowLastRunAt"}
    BY <2>3 DEF WorkflowsAfter
  <2>4. QED
    BY <2>1, <2>2, <2>3
<1>3. /\ \A id : HasId(st.runs, id) => HasId(RunsAfter(st.runs, c), id)
      /\ c.call = "prependRun" => HasId(RunsAfter(st.runs, c), c.item.id)
  <2>0. st.runs \in Seq(Run)
    BY DEF State
  <2>1. CASE c.call = "prependRun"
    BY <2>0, <2>1, CallItems, UnshiftHasId DEF RunsAfter
  <2>2. CASE c.call = "upsertRun"
    BY <2>0, <2>2, CallItems, UpsertHasId DEF RunsAfter
  <2>3. CASE c.call \notin {"prependRun", "upsertRun"}
    BY <2>3 DEF RunsAfter
  <2>4. QED
    BY <2>1, <2>2, <2>3
<1>4. /\ \A id : HasId(st.knowledgeSources, id) => HasId(KnowledgeAfter(st.knowledgeSources, c), id)
      /\ c.call = "prependKnowledgeSource" => HasId(KnowledgeAfter(st.knowledgeSources, c), c.item.id)
  <2>0. st.knowledgeSources \in Seq(Knowledge)
    BY DEF State
  <2>1. CASE c.call = "prependKnowledgeSource"
    BY <2>0, <2>1, CallItems, UnshiftHasId DEF KnowledgeAfter
  <2>2. CASE c.call # "prependKnowledgeSource"
    BY <2>2 DEF KnowledgeAfter
  <2>3. QED
    BY <2>1, <2>2
<1>5. /\ \A id : HasId(st.automations, id) => HasId(AutomationsAfter(st.automations, c), id)
      /\ c.call = "prependAutomation" => HasId(AutomationsAfter(st.automations, c), c.item.id)
  <2>0. st.automations \in Seq(Automation)
    BY DEF State
  <2>1. CASE c.call = "prependAutomation"
    BY <2>0, <2>1, CallItems, UnshiftHasId DEF AutomationsAfter
  <2>2. CASE c.call = "upsertAutomation"
    BY <2>0, <2>2, CallItems, UpsertHasId DEF AutomationsAfter
  <2>3. CASE c.call \notin {"prependAutomation", "upsertAutomation"}
    BY <2>3 DEF AutomationsAfter
  <2>4. QED
    BY <2>1, <2>2, <2>3
<1>6. QED
  BY <1>1, <1>2, <1>3, <1>4, <1>5, ListsOfState, CreatingCalls DEF Kinds

\* The same position is found in a list and in the list of its summaries.
LEMMA SummaryIndex ==
    ASSUME NEW list, NEW sum, DOMAIN sum = DOMAIN list,
           \A i \in DOMAIN list : sum[i].id = list[i].id, NEW id
    PROVE  IndexOf(sum, id) = IndexOf(list, id) /\ (HasId(sum, id) <=> HasId(list, id))
<1>1. \A i : (i \in DOMAIN sum /\ sum[i].id = id) <=> (i \in DOMAIN list /\ list[i].id = id)
  OBVIOUS
<1>2. IndexOf(sum, id) = IndexOf(list, id)
  BY <1>1 DEF IndexOf
<1>3. QED
  BY <1>1, <1>2 DEF HasId

LEMMA AfterMatch ==
    ASSUME NEW st \in State, NEW c \in RepoCall, Match(st)
    PROVE  Match(After(st, c))
<1> DEFINE d   == st.sessionDetails
           s   == st.sessions
           d2  == SessionDetailsAfter(d, c)
           s2  == SessionsAfter(s, c)
<1>1. /\ After(st, c).workflows = After(st, c).workflowDetails
      /\ After(st, c).runs = After(st, c).runDetails
  BY DEF Match, After
<1>2. /\ d \in Seq(SessionDet) /\ s \in Seq(Session)
      /\ s = [i \in DOMAIN d |-> SessionSummary(d[i])]
  BY DEF State, Match
<1>3. DOMAIN s = DOMAIN d /\ (\A i \in DOMAIN d : s[i] = SessionSummary(d[i])) /\ Len(s) = Len(d)
  BY <1>2
<1>4. DOMAIN s2 = DOMAIN d2 /\ \A i \in DOMAIN d2 : s2[i] = SessionSummary(d2[i])
  <2> HIDE DEF d, s
  <2>1. CASE c.call # "upsertSession"
    BY <2>1, <1>3 DEF SessionDetailsAfter, SessionsAfter
  <2>2. CASE c.call = "upsertSession"
    <3> DEFINE x == c.item
               y == SessionSummary(c.item)
    <3>1. x \in SessionDet /\ y \in Session /\ y.id = x.id
      BY <2>2, CallItems DEF SessionSummary, Session, SessionDet
    <3>2. d2 = Upsert(d, x) /\ s2 = Upsert(s, y)
      BY <2>2 DEF SessionDetailsAfter, SessionsAfter
    <3>3. \A i \in DOMAIN d : s[i].id = d[i].id
      BY <1>3 DEF SessionSummary
    <3>4. IndexOf(s, x.id) = IndexOf(d, x.id) /\ (HasId(s, x.id) <=> HasId(d, x.id))
      BY <3>3, <1>3, SummaryIndex
    <3>9. y = SessionSummary(x)
      OBVIOUS
    <3> HIDE DEF x, y, d2, s2
    <3>5. CASE HasId(d, x.id)
      <4>1. /\ DOMAIN d2 = DOMAIN d
            /\ \A i \in DOMAIN d : d2[i] = IF i = IndexOf(d, x.id) THEN x ELSE d[i]
        BY <3>1, <3>2, <3>5, <1>2, UpsertList
      <4>2. /\ DOMAIN s2 = DOMAIN s
            /\ \A i \in DOMAIN s : s2[i] = IF i = IndexOf(s, x.id) THEN y ELSE s[i]
        <5>1. s \in Seq(Session) /\ y \in Session /\ HasId(s, y.id) /\ s2 = Upsert(s, y)
          BY <3>1, <3>2, <3>4, <3>5, <1>2
        <5>2. DOMAIN Upsert(s, y) = DOMAIN s
          BY <5>1, UpsertList
        <5>3. \A i \in DOMAIN s : Upsert(s, y)[i] = IF i = IndexOf(s, y.id) THEN y ELSE s[i]
          BY <5>1, UpsertList
        <5>4. QED
          BY <5>1, <5>2, <5>3, <3>1
      <4>3. QED
        BY <4>1, <4>2, <3>4, <3>9, <1>3
    <3>6. CASE ~HasId(d, x.id)
      <4>1. d2 = Unshift(d, x)
        BY <3>1, <3>2, <3>6, <1>2, UpsertList
      <4>2. s2 = Unshift(s, y)
        BY <3>1, <3>2, <3>4, <3>6, <1>2, UpsertList
      <4>3. /\ DOMAIN d2 = 1..(Len(d) + 1) /\ d2[1] = x
            /\ \A i \in DOMAIN d2 : i = 1 \/ (i - 1 \in DOMAIN d /\ d2[i] = d[i - 1])
        <5>1. d \in Seq(SessionDet) /\ x \in SessionDet
          BY <3>1, <1>2
        <5>2. DOMAIN Unshift(d, x) = 1..(Len(d) + 1)
          BY <5>1, UnshiftList
        <5>3. Unshift(d, x)[1] = x
          BY <5>1, UnshiftList
        <5>4. \A i \in DOMAIN Unshift(d, x) : i = 1 \/ (i - 1 \in DOMAIN d /\ Unshift(d, x)[i] = d[i - 1])
          BY <5>1, UnshiftList
        <5>5. QED
          BY <4>1, <5>2, <5>3, <5>4
      <4>4. /\ DOMAIN s2 = 1..(Len(s) + 1) /\ s2[1] = y
            /\ \A i \in DOMAIN s2 : i = 1 \/ (i - 1 \in DOMAIN s /\ s2[i] = s[i - 1])
        <5>1. s \in Seq(Session) /\ y \in Session
          BY <3>1, <1>2
        <5>2. DOMAIN Unshift(s, y) = 1..(Len(s) + 1)
          BY <5>1, UnshiftList
        <5>3. Unshift(s, y)[1] = y
          BY <5>1, UnshiftList
        <5>4. \A i \in DOMAIN Unshift(s, y) : i = 1 \/ (i - 1 \in DOMAIN s /\ Unshift(s, y)[i] = s[i - 1])
          BY <5>1, UnshiftList
        <5>5. QED
          BY <4>2, <5>2, <5>3, <5>4
      <4>5. DOMAIN s2 = DOMAIN d2
        BY <4>3, <4>4, <1>3
      <4>6. ASSUME NEW i \in DOMAIN d2 PROVE s2[i] = SessionSummary(d2[i])
        BY <4>3, <4>4, <4>5, <3>9, <1>3
      <4>7. QED
        BY <4>5, <4>6
    <3>7. QED
      BY <3>5, <3>6
  <2>3. QED
    BY <2>1, <2>2
<1>5. s2 \in Seq(Session)
  <2>1. After(st, c) \in State /\ After(st, c).sessions = s2
    BY AfterType DEF After
  <2>2. QED
    BY <2>1 DEF State
<1>6. s2 = [i \in DOMAIN d2 |-> SessionSummary(d2[i])]
  <2> HIDE DEF s2, d2
  <2>1. s2 = [i \in DOMAIN s2 |-> s2[i]]
    BY <1>5
  <2>2. QED
    BY <2>1, <1>4
<1>7. After(st, c).sessions = s2 /\ After(st, c).sessionDetails = d2
  BY DEF After
<1>8. QED
  BY <1>1, <1>6, <1>7 DEF Match

-----------------------------------------------------------------------------
(* The audit log.                                                          *)

LEMMA UnshiftLog ==
    ASSUME NEW log \in Seq(AuditEvent), NEW e \in AuditEvent, NEW n \in Nat,
           LogOK(log), LogCounterOK(log, n)
    PROVE  /\ e.id = n => LogOK(Unshift(log, e)) /\ LogCounterOK(Unshift(log, e), n + 1)
           /\ e.action \in MirroredActions => LogOK(Unshift(log, e)) /\ LogCounterOK(Unshift(log, e), n)
<1> DEFINE u == Unshift(log, e)
<1>1. /\ DOMAIN u = 1..(Len(log) + 1) /\ Len(u) = Len(log) + 1 /\ Len(log) \in Nat /\ u[1] = e
      /\ \A i \in DOMAIN log : i + 1 \in DOMAIN u /\ u[i + 1] = log[i]
  BY UnshiftList
<1>2. e.id = n /\ UniqueIds(log) /\ Numbered(log) /\ Fresh(log, n) /\ n <= Len(log) + 1
        => UniqueIds(u) /\ Numbered(u) /\ Fresh(u, n + 1)
  BY UnshiftIds
<1> HIDE DEF u
<1>3. NoneMirrored(u) => NoneMirrored(log) /\ e.action \notin MirroredActions
  <2>1. 1 \in DOMAIN u
    BY <1>1
  <2>2. QED
    BY <1>1, <2>1 DEF NoneMirrored
<1>4. e.id = n => LogOK(u) /\ LogCounterOK(u, n + 1)
  BY <1>1, <1>2, <1>3 DEF LogOK, LogCounterOK
<1>5. e.action \in MirroredActions => LogOK(u) /\ LogCounterOK(u, n)
  BY <1>1, <1>3 DEF LogOK, LogCounterOK
<1>6. QED
  BY <1>4, <1>5 DEF u

LEMMA UnshiftBehind ==
    ASSUME NEW d \in Seq(AuditEvent), NEW m \in Seq(AuditEvent), NEW e \in AuditEvent, Behind(d, m)
    PROVE  Behind(d, Unshift(m, e))
<1> DEFINE u == Unshift(m, e)
<1>1. /\ DOMAIN m = 1..Len(m) /\ Len(u) = Len(m) + 1 /\ Len(m) \in Nat
      /\ \A i \in DOMAIN m : u[i + 1] = m[i]
  BY UnshiftList
<1>2. Len(d) \in Nat /\ Len(d) <= Len(m)
  BY DEF Behind
<1> HIDE DEF u
<1>3. ASSUME NEW i \in 1..Len(d)
      PROVE  d[i] = u[i + (Len(u) - Len(d))]
  <2> DEFINE j == i + (Len(m) - Len(d))
  <2>1. j \in DOMAIN m /\ j + 1 = i + (Len(u) - Len(d))
    BY <1>1, <1>2, <1>3
  <2>2. d[i] = m[j]
    BY <1>3 DEF Behind
  <2> HIDE DEF j
  <2>3. QED
    BY <2>1, <2>2, <1>1
<1>4. QED
  BY <1>1, <1>2, <1>3 DEF Behind, u

LEMMA BehindItself ==
    ASSUME NEW d \in Seq(AuditEvent)
    PROVE  Behind(d, d)
<1>1. Len(d) \in Nat
  OBVIOUS
<1>2. QED
  BY <1>1 DEF Behind

\* The entries of a log whose action is in A.
Entries(log, A) == {i \in DOMAIN log : log[i].action \in A}

\* They are finitely many, and a new event in front of the log adds one when
\* its action is in A.
LEMMA UnshiftAudited ==
    ASSUME NEW log \in Seq(AuditEvent), NEW e \in AuditEvent, NEW A
    PROVE  /\ Cardinality(Entries(log, A)) \in Nat /\ Cardinality(Entries(Unshift(log, e), A)) \in Nat
           /\ Cardinality(Entries(Unshift(log, e), A)) >= Cardinality(Entries(log, A))
           /\ e.action \in A => Cardinality(Entries(Unshift(log, e), A)) = Cardinality(Entries(log, A)) + 1
<1> DEFINE u == Unshift(log, e)
<1>1. /\ DOMAIN log = 1..Len(log) /\ DOMAIN u = 1..(Len(log) + 1) /\ Len(log) \in Nat /\ u[1] = e
      /\ \A i \in DOMAIN log : i + 1 \in DOMAIN u /\ u[i + 1] = log[i]
      /\ \A i \in DOMAIN u : i = 1 \/ (i - 1 \in DOMAIN log /\ u[i] = log[i - 1])
  <2>1. /\ DOMAIN log = 1..Len(log) /\ DOMAIN u = 1..(Len(log) + 1) /\ Len(log) \in Nat /\ u[1] = e
        /\ \A i \in DOMAIN log : i + 1 \in DOMAIN u /\ u[i + 1] = log[i]
    BY UnshiftList
  <2>2. \A i \in DOMAIN u : i = 1 \/ (i - 1 \in DOMAIN log /\ u[i] = log[i - 1])
    BY UnshiftList
  <2>3. QED
    BY <2>1, <2>2
<1> HIDE DEF u
<1>2. IsFiniteSet(1..Len(log)) /\ IsFiniteSet(1..(Len(log) + 1))
  <2>1. 1 \in Int /\ Len(log) \in Int /\ Len(log) + 1 \in Int
    BY <1>1
  <2>2. QED
    BY <2>1, FS_Interval
<1> DEFINE old  == {i \in DOMAIN log : log[i].action \in A}
           new  == {i \in DOMAIN u : u[i].action \in A}
           rest == {i \in DOMAIN u : i # 1 /\ u[i].action \in A}
           f    == [i \in old |-> i + 1]
<1>3. IsFiniteSet(old) /\ IsFiniteSet(new) /\ IsFiniteSet(rest)
  <2>1. old \subseteq 1..Len(log) /\ new \subseteq 1..(Len(log) + 1) /\ rest \subseteq 1..(Len(log) + 1)
    BY <1>1
  <2> HIDE DEF old, new, rest
  <2>2. QED
    BY <1>2, <2>1, FS_Subset
<1>4. f \in Bijection(old, rest)
  <2>1. f \in [old -> rest]
    BY <1>1
  <2>2. \A i, j \in old : f[i] = f[j] => i = j
    BY <1>1
  <2>3. ASSUME NEW j \in rest PROVE \E i \in old : f[i] = j
    <3>1. j - 1 \in old /\ f[j - 1] = j
      BY <1>1
    <3>2. QED
      BY <3>1
  <2> HIDE DEF f, old, rest
  <2>4. QED
    BY <2>1, <2>2, <2>3 DEF Bijection, Injection, Surjection, IsInjective
<1>5. Cardinality(rest) = Cardinality(old)
  BY <1>3, <1>4, FS_Bijection DEF ExistsBijection
<1>6. Cardinality(old) \in Nat /\ Cardinality(new) \in Nat /\ Cardinality(rest) \in Nat
  BY <1>3, FS_CardinalityType
<1>7. Cardinality(new) >= Cardinality(rest)
  <2>1. rest \subseteq new
    OBVIOUS
  <2> HIDE DEF rest, new
  <2>2. QED
    BY <1>3, <1>6, <2>1, FS_Subset
<1>8. e.action \in A => Cardinality(new) = Cardinality(rest) + 1
  <2>1. 1 \notin rest
    OBVIOUS
  <2>2. e.action \in A => new = rest \cup {1}
    BY <1>1
  <2> HIDE DEF rest, new
  <2>3. QED
    BY <1>3, <2>1, <2>2, FS_AddElement
<1>9. QED
  <2>1. Entries(log, A) = old /\ Entries(Unshift(log, e), A) = new
    BY DEF Entries, u
  <2> HIDE DEF old, new
  <2>2. QED
    BY <2>1, <1>5, <1>6, <1>7, <1>8

LEMMA AfterAudited ==
    ASSUME NEW st \in State, NEW c \in RepoCall, NEW k \in Kinds
    PROVE  /\ Cardinality(Audited(st, k)) \in Nat /\ Cardinality(Audited(After(st, c), k)) \in Nat
           /\ Cardinality(Audited(After(st, c), k)) >= Cardinality(Audited(st, k))
           /\ c.call = "prependAuditEvent" /\ c.item.action \in CreationActions(k)
                => Cardinality(Audited(After(st, c), k)) = Cardinality(Audited(st, k)) + 1
<1> DEFINE log == st.auditEvents
           A   == CreationActions(k)
<1>1. log \in Seq(AuditEvent)
  BY DEF State
<1>2. Audited(st, k) = Entries(log, A) /\ Audited(After(st, c), k) = Entries(AuditAfter(log, c), A)
  BY DEF Audited, After, Entries
<1> HIDE DEF log, A
<1>3. CASE c.call = "prependAuditEvent"
  <2> DEFINE e == c.item
  <2>1. e \in AuditEvent /\ AuditAfter(log, c) = Unshift(log, e)
    BY <1>3, CallItems DEF AuditAfter
  <2> HIDE DEF e
  <2>2. /\ Cardinality(Entries(log, A)) \in Nat /\ Cardinality(Entries(Unshift(log, e), A)) \in Nat
        /\ Cardinality(Entries(Unshift(log, e), A)) >= Cardinality(Entries(log, A))
        /\ e.action \in A => Cardinality(Entries(Unshift(log, e), A)) = Cardinality(Entries(log, A)) + 1
    BY <1>1, <2>1, UnshiftAudited
  <2>3. QED
    BY <1>2, <2>1, <2>2 DEF A, e
<1>4. CASE c.call # "prependAuditEvent"
  <2>1. AuditAfter(log, c) = log
    BY <1>4 DEF AuditAfter
  <2>2. Audited(After(st, c), k) = Audited(st, k)
    BY <1>2, <2>1
  <2>3. IsFiniteSet(Audited(st, k))
    <3>1. DOMAIN log = 1..Len(log) /\ 1 \in Int /\ Len(log) \in Int
      BY <1>1
    <3>2. IsFiniteSet(1..Len(log))
      BY <3>1, FS_Interval
    <3>3. Audited(st, k) \subseteq 1..Len(log)
      BY <1>2, <3>1 DEF Entries
    <3>4. QED
      BY <3>2, <3>3, FS_Subset
  <2>4. Cardinality(Audited(st, k)) \in Nat
    BY <2>3, FS_CardinalityType
  <2>5. QED
    BY <2>2, <2>4, <1>4
<1>5. QED
  BY <1>3, <1>4

-----------------------------------------------------------------------------
(* Runs and the workflows they belong to.                                  *)

\* A run that is put in the list, or that was there, is there with its
\* workflow and its start.
LEMMA AfterRunOf ==
    ASSUME NEW st \in State, NEW c \in RepoCall, FirstCallOK(st, c)
    PROVE  /\ \A w, t : RunOf(st, w, t) => RunOf(After(st, c), w, t)
           /\ c.call = "prependRun" => RunOf(After(st, c), c.item.workflowId, c.item.startedAt)
<1> DEFINE list == st.runs
           new  == RunsAfter(list, c)
<1>1. list \in Seq(Run) /\ After(st, c).runs = new
  BY DEF State, After
<1>2. CASE c.call = "prependRun" \/ (c.call = "upsertRun" /\ ~HasId(list, c.item.id))
  <2>1. c.item \in Run
    BY <1>2, CallItems
  <2>2. new = Unshift(list, c.item)
    BY <1>2 DEF RunsAfter, Upsert
  <2> DEFINE x == c.item
  <2> HIDE DEF list, new, x
  <2>0. list \in Seq(Run) /\ x \in Run
    BY <1>1, <2>1 DEF x
  <2>3. /\ DOMAIN Unshift(list, x) = 1..(Len(list) + 1) /\ Len(list) \in Nat
        /\ Unshift(list, x)[1] = x
        /\ \A i \in DOMAIN list : i + 1 \in DOMAIN Unshift(list, x)
                                  /\ Unshift(list, x)[i + 1] = list[i]
    BY <2>0, UnshiftList
  <2>4. 1 \in DOMAIN new /\ new[1] = c.item
    BY <2>2, <2>3 DEF x
  <2>5. \A i \in DOMAIN list : i + 1 \in DOMAIN new /\ new[i + 1] = list[i]
    BY <2>2, <2>3 DEF x
  <2>6. ASSUME NEW w, NEW t, RunOf(st, w, t)
        PROVE  RunOf(After(st, c), w, t)
    <3>1. PICK i \in DOMAIN list : list[i].workflowId = w /\ list[i].startedAt = t
      BY <2>6 DEF RunOf, list
    <3>2. i + 1 \in DOMAIN new /\ new[i + 1].workflowId = w /\ new[i + 1].startedAt = t
      BY <2>5, <3>1
    <3>3. QED
      BY <3>2, <1>1 DEF RunOf
  <2>7. RunOf(After(st, c), c.item.workflowId, c.item.startedAt)
    BY <2>4, <1>1 DEF RunOf
  <2>8. QED
    BY <2>6, <2>7
<1>3. CASE c.call = "upsertRun" /\ HasId(list, c.item.id)
  <2>1. c.item \in Run /\ new = Upsert(list, c.item)
    BY <1>3, CallItems DEF RunsAfter
  <2> DEFINE x == c.item
             k == IndexOf(list, x.id)
  <2>2. list[k].workflowId = c.item.workflowId /\ list[k].startedAt = c.item.startedAt
    BY <1>3 DEF FirstCallOK, Find
  <2> HIDE DEF list, new
  <2>3. /\ DOMAIN new = DOMAIN list
        /\ \A i \in DOMAIN list : new[i] = IF i = k THEN c.item ELSE list[i]
    <3> HIDE DEF x
    <3>1. list \in Seq(Run) /\ x \in Run /\ HasId(list, x.id) /\ new = Upsert(list, x)
      BY <1>1, <1>3, <2>1 DEF x
    <3>2. DOMAIN Upsert(list, x) = DOMAIN list
      BY <3>1, UpsertList
    <3>3. \A i \in DOMAIN list : Upsert(list, x)[i] = IF i = k THEN x ELSE list[i]
      BY <3>1, UpsertList
    <3>4. QED
      BY <3>1, <3>2, <3>3 DEF x
  <2> HIDE DEF k
  <2>4. \A i \in DOMAIN list : new[i].workflowId = list[i].workflowId /\ new[i].startedAt = list[i].startedAt
    BY <2>2, <2>3
  <2>5. \A w, t : RunOf(st, w, t) => RunOf(After(st, c), w, t)
    BY <2>3, <2>4, <1>1 DEF RunOf, list
  <2>6. QED
    BY <2>5, <1>3
<1>4. CASE c.call \notin {"prependRun", "upsertRun"}
  BY <1>4, <1>1 DEF RunsAfter, RunOf
<1>5. QED
  BY <1>2, <1>3, <1>4

LEMMA AfterOwned ==
    ASSUME NEW st \in State, NEW c \in RepoCall, FirstCallOK(st, c), RunsOwned(st)
    PROVE  RunsOwned(After(st, c))
<1> DEFINE list == st.runs
           new  == RunsAfter(list, c)
           flows == After(st, c).workflows
<1>1. list \in Seq(Run) /\ After(st, c).runs = new
  BY DEF State, After
<1>2. \A id : HasId(st.workflows, id) => HasId(flows, id)
  BY AfterHasId, ListsOfState DEF Kinds
<1>3. \A i \in DOMAIN list : list[i].id \in Nat => HasId(flows, list[i].workflowId)
  BY <1>2 DEF RunsOwned
<1>4. /\ c.call = "prependRun" => HasId(flows, c.item.workflowId)
      /\ c.call = "upsertRun" => c.item.id \notin Nat
  BY <1>2 DEF FirstCallOK
<1> HIDE DEF flows
<1>5. CASE c.call = "prependRun" \/ (c.call = "upsertRun" /\ ~HasId(list, c.item.id))
  <2>1. c.item \in Run
    BY <1>5, CallItems
  <2>2. new = Unshift(list, c.item)
    BY <1>5 DEF RunsAfter, Upsert
  <2> DEFINE x == c.item
  <2> HIDE DEF list, new, x
  <2>0. list \in Seq(Run) /\ x \in Run
    BY <1>1, <2>1 DEF x
  <2>3. new[1] = c.item
    <3>1. Unshift(list, x)[1] = x
      BY <2>0, UnshiftList
    <3>2. QED
      BY <3>1, <2>2 DEF x
  <2>4. \A i \in DOMAIN new : i = 1 \/ (i - 1 \in DOMAIN list /\ new[i] = list[i - 1])
    <3>1. \A i \in DOMAIN Unshift(list, x) :
             i = 1 \/ (i - 1 \in DOMAIN list /\ Unshift(list, x)[i] = list[i - 1])
      BY <2>0, UnshiftList
    <3>2. QED
      BY <3>1, <2>2 DEF x
  <2>5. ASSUME NEW i \in DOMAIN new, new[i].id \in Nat
        PROVE  HasId(flows, new[i].workflowId)
    <3>1. CASE i = 1
      BY <3>1, <2>2, <2>3, <2>5, <1>4, <1>5
    <3>2. CASE i # 1
      <4>1. i - 1 \in DOMAIN list /\ new[i] = list[i - 1]
        BY <3>2, <2>2, <2>4
      <4>2. QED
        BY <4>1, <2>5, <1>3
    <3>3. QED
      BY <3>1, <3>2
  <2>6. QED
    BY <2>5, <1>1 DEF RunsOwned, flows
<1>6. CASE c.call = "upsertRun" /\ HasId(list, c.item.id)
  <2>1. c.item \in Run /\ new = Upsert(list, c.item)
    BY <1>6, CallItems DEF RunsAfter
  <2> DEFINE x == c.item
             k == IndexOf(list, x.id)
  <2> HIDE DEF list, new
  <2>2. /\ DOMAIN new = DOMAIN list
        /\ \A i \in DOMAIN list : new[i] = IF i = k THEN c.item ELSE list[i]
    <3> HIDE DEF x
    <3>1. list \in Seq(Run) /\ x \in Run /\ HasId(list, x.id) /\ new = Upsert(list, x)
      BY <1>1, <1>6, <2>1 DEF x
    <3>2. DOMAIN Upsert(list, x) = DOMAIN list
      BY <3>1, UpsertList
    <3>3. \A i \in DOMAIN list : Upsert(list, x)[i] = IF i = k THEN x ELSE list[i]
      BY <3>1, UpsertList
    <3>4. QED
      BY <3>1, <3>2, <3>3 DEF x
  <2> HIDE DEF k
  <2>3. \A i \in DOMAIN new : new[i].id \in Nat => HasId(flows, new[i].workflowId)
    BY <2>2, <1>3, <1>4, <1>6
  <2>4. QED
    BY <2>3, <1>1 DEF RunsOwned, flows
<1>7. CASE c.call \notin {"prependRun", "upsertRun"}
  BY <1>7, <1>1, <1>3 DEF RunsAfter, RunsOwned, flows
<1>8. QED
  BY <1>5, <1>6, <1>7

\* A new last-run time in memory is the start of a run in memory.
LEMMA AfterStamps ==
    ASSUME NEW st \in State, NEW d \in State, NEW c \in RepoCall, NEW cs, FirstCallOK(st, c),
           Ready(st, cs, c), StampsBacked(d, st)
    PROVE  StampsBacked(d, After(st, c))
<1> DEFINE list == st.workflows
           new  == WorkflowsAfter(list, c)
           after == After(st, c)
<1>1. list \in Seq(Workflow) /\ after.workflows = new
  BY DEF State, After
<1>2. \A id : HasId(list, id) => HasId(new, id)
  BY <1>1, AfterHasId, ListsOfState DEF Kinds
<1>3. \A w, t : RunOf(st, w, t) => RunOf(after, w, t)
  BY AfterRunOf
<1>4. \A id : HasId(d.workflows, id) => HasId(list, id)
  BY DEF StampsBacked
<1>5. \A i \in DOMAIN d.workflows : \A j \in DOMAIN list :
         d.workflows[i].id = list[j].id /\ d.workflows[i].lastRunAt # list[j].lastRunAt
             => RunOf(after, list[j].id, list[j].lastRunAt)
  BY <1>3 DEF StampsBacked
<1>6. c.call = "updateWorkflowLastRunAt" => RunOf(after, c.id, c.at)
  BY <1>3 DEF FirstCallOK
<1>7. c.call = "prependWorkflow" => c.item.id \in Nat /\ Fresh(list, c.item.id)
  BY ListsOfState, CreatingCalls DEF Ready, Kinds
<1> HIDE DEF after
<1>8. ASSUME NEW i \in DOMAIN d.workflows, NEW j \in DOMAIN new,
             d.workflows[i].id = new[j].id, d.workflows[i].lastRunAt # new[j].lastRunAt
      PROVE  RunOf(after, new[j].id, new[j].lastRunAt)
  <2>1. CASE c.call = "prependWorkflow"
    <3>1. c.item \in Workflow /\ new = Unshift(list, c.item)
      BY <2>1, CallItems DEF WorkflowsAfter
    <3>0. HasId(d.workflows, d.workflows[i].id)
      BY DEF HasId
    <3> HIDE DEF list, new
    <3> DEFINE x == c.item
    <3> HIDE DEF x
    <3>9. list \in Seq(Workflow) /\ x \in Workflow
      BY <1>1, <3>1 DEF x
    <3>2. new[1] = c.item
      <4>1. Unshift(list, x)[1] = x
        BY <3>9, UnshiftList
      <4>2. QED
        BY <4>1, <3>1 DEF x
    <3>3. \A n \in DOMAIN new : n = 1 \/ (n - 1 \in DOMAIN list /\ new[n] = list[n - 1])
      <4>1. \A n \in DOMAIN Unshift(list, x) :
               n = 1 \/ (n - 1 \in DOMAIN list /\ Unshift(list, x)[n] = list[n - 1])
        BY <3>9, UnshiftList
      <4>2. QED
        BY <4>1, <3>1 DEF x
    <3>4. j # 1
      <4>1. SUFFICES ASSUME j = 1 PROVE FALSE
        OBVIOUS
      <4>2. HasId(list, c.item.id)
        BY <4>1, <3>0, <3>2, <1>4, <1>8
      <4>3. QED
        BY <4>2, <2>1, <1>7 DEF HasId, Fresh
    <3>5. j - 1 \in DOMAIN list /\ new[j] = list[j - 1]
      BY <3>3, <3>4
    <3>6. QED
      BY <3>5, <1>5, <1>8
  <2>2. CASE c.call = "updateWorkflowLastRunAt"
    <3>1. new = SetLastRunAt(list, c.id, c.at) /\ c.at \in Nat
      BY <2>2, CallItems DEF WorkflowsAfter
    <3> HIDE DEF list, new
    <3>2. /\ DOMAIN new = DOMAIN list
          /\ \A n \in DOMAIN list : /\ new[n].id = list[n].id
                                    /\ new[n] = list[n] \/ (list[n].id = c.id /\ new[n].lastRunAt = c.at)
      BY <1>1, <3>1, StampList
    <3>3. QED
      BY <3>2, <2>2, <1>5, <1>6, <1>8
  <2>3. CASE c.call \notin {"prependWorkflow", "updateWorkflowLastRunAt"}
    <3>1. new = list
      BY <2>3 DEF WorkflowsAfter
    <3>2. QED
      BY <3>1, <1>5, <1>8
  <2>4. QED
    BY <2>1, <2>2, <2>3
<1>9. QED
  BY <1>1, <1>2, <1>4, <1>8 DEF StampsBacked, after

-----------------------------------------------------------------------------
(* One step of an operation.                                               *)

LEMMA CallKinds ==
    ASSUME NEW c \in Call
    PROVE  \/ c \in RepoCall /\ c.call # "appendAuditEvent"
           \/ c.call = "appendAuditEvent" /\ c.action \in AuditActions
<1>1. CASE c \in RepoCall
  BY <1>1, CallItems
<1>2. CASE c \in [call : {"appendAuditEvent"}, action : AuditActions]
  BY <1>2
<1>3. c \in RepoCall \/ c \in [call : {"appendAuditEvent"}, action : AuditActions]
  BY DEF Call, RepoCall
<1>4. QED
  BY <1>1, <1>2, <1>3

\* The call of the repository that a step of an operation makes: the next one,
\* or, for an audit event of the store, the one with the counter's id.
Made(c) ==
    \/ c = todo[1] /\ todo[1].call # "appendAuditEvent"
    \/ /\ todo[1].call = "appendAuditEvent" /\ c.call = "prependAuditEvent"
       /\ c.item.action = todo[1].action

LEMMA CallEffect ==
    ASSUME Inv, CallInMemory
    PROVE  \E c \in RepoCall :
              /\ todo # << >> /\ Made(c) /\ mem' = After(mem, c)
              /\ Ready(mem, counters, c) /\ FirstCallOK(mem, c)
              /\ counters' \in Counters /\ \A k \in Kinds : counters'[k] = counters[k]
              /\ LogOK(mem'.auditEvents) /\ LogCounterOK(mem'.auditEvents, counters'.audit)
              /\ Behind(disk.auditEvents, mem'.auditEvents)
<1> DEFINE log == mem.auditEvents
           n   == counters.audit
<1>1. /\ todo # << >> /\ Head(todo) = todo[1] /\ todo[1] \in Call
      /\ mem \in State /\ counters \in Counters
  BY DEF Inv, TypeOK, CallInMemory
<1>2. /\ log \in Seq(AuditEvent) /\ disk.auditEvents \in Seq(AuditEvent) /\ n \in Nat
      /\ LogOK(log) /\ LogCounterOK(log, n) /\ Behind(disk.auditEvents, log)
  BY <1>1 DEF Inv, TypeOK, StateOK, State, Counters
<1>3. CallsOK(mem, todo) /\ CountersOK(mem, counters, todo)
  BY DEF Inv
<1>4. CASE todo[1].call = "appendAuditEvent"
  <2> DEFINE e == [id |-> n, action |-> todo[1].action]
             c == prependAuditEvent(e)
  <2>1. todo[1].action \in AuditActions
    BY <1>1, <1>4, CallKinds, CallItems
  <2>2. e \in AuditEvent /\ e.id = n /\ e.action = todo[1].action
    BY <1>2, <2>1 DEF AuditEvent
  <2>3. mem' = Apply(mem, c) /\ counters' = [counters EXCEPT !.audit = @ + 1]
    BY <1>1, <1>4 DEF CallInMemory
  <2> HIDE DEF e
  <2>4. c \in RepoCall /\ c.call = "prependAuditEvent" /\ c.item = e
    BY <2>2 DEF RepoCall, prependAuditEvent
  <2> HIDE DEF c
  <2>5. mem' = After(mem, c)
    BY <2>3, <2>4, <1>1, ApplyIsAfter
  <2>6. mem'.auditEvents = Unshift(log, e)
    BY <2>4, <2>5 DEF After, AuditAfter
  <2>7. counters' \in Counters /\ counters'.audit = n + 1 /\ \A k \in Kinds : counters'[k] = counters[k]
    BY <2>3, <1>1, <1>2 DEF Counters, Kinds
  <2>8. LogOK(Unshift(log, e)) /\ LogCounterOK(Unshift(log, e), n + 1)
    <3> HIDE DEF log, n
    <3>1. QED
      BY <1>2, <2>2, UnshiftLog
  <2>9. Behind(disk.auditEvents, Unshift(log, e))
    <3> HIDE DEF log, n
    <3>1. QED
      BY <1>2, <2>2, UnshiftBehind
  <2>10. Ready(mem, counters, c)
    BY <1>1, <1>3, <1>4, <2>4, CreatingCalls DEF Ready, CountersOK, CounterOK, Kinds
  <2>11. FirstCallOK(mem, c)
    BY <2>4 DEF FirstCallOK
  <2>12. Made(c)
    BY <1>4, <2>2, <2>4 DEF Made
  <2>13. QED
    BY <1>1, <2>4, <2>5, <2>6, <2>7, <2>8, <2>9, <2>10, <2>11, <2>12
<1>5. CASE todo[1].call # "appendAuditEvent"
  <2> DEFINE c == todo[1]
  <2>1. c \in RepoCall
    BY <1>1, <1>5, CallKinds
  <2>2. mem' = Apply(mem, c) /\ counters' = counters
    BY <1>1, <1>5 DEF CallInMemory
  <2>3. mem' = After(mem, c)
    BY <2>1, <2>2, <1>1, ApplyIsAfter
  <2>4. Ready(mem, counters, c)
    BY <1>1, <1>3 DEF Ready, CountersOK, CounterOK
  <2>5. /\ FirstCallOK(mem, c)
        /\ c.call = "prependAuditEvent" => c.item.action \in MirroredActions
    <3>1. 1 \in 1..Len(todo)
      BY <1>1 DEF Inv, TypeOK
    <3>2. QED
      BY <1>1, <1>3, <3>1 DEF CallsOK
  <2>6. /\ LogOK(mem'.auditEvents) /\ LogCounterOK(mem'.auditEvents, n)
        /\ Behind(disk.auditEvents, mem'.auditEvents)
    <3> DEFINE e == c.item
    <3>1. CASE c.call = "prependAuditEvent"
      <4>1. e \in AuditEvent /\ e.action \in MirroredActions /\ mem'.auditEvents = Unshift(log, e)
        BY <3>1, <2>1, <2>3, <2>5, CallItems DEF After, AuditAfter
      <4> HIDE DEF e, log, n, c
      <4>2. LogOK(Unshift(log, e)) /\ LogCounterOK(Unshift(log, e), n)
        BY <1>2, <4>1, UnshiftLog
      <4>3. Behind(disk.auditEvents, Unshift(log, e))
        BY <1>2, <4>1, UnshiftBehind
      <4>4. QED
        BY <4>1, <4>2, <4>3
    <3>2. CASE c.call # "prependAuditEvent"
      <4>1. mem'.auditEvents = log
        BY <3>2, <2>3 DEF After, AuditAfter
      <4>2. QED
        BY <4>1, <1>2
    <3>3. QED
      BY <3>1, <3>2
  <2>7. Made(c)
    BY <1>5 DEF Made
  <2> HIDE DEF c
  <2>8. QED
    BY <1>1, <2>1, <2>2, <2>3, <2>4, <2>5, <2>6, <2>7
<1>6. QED
  BY <1>4, <1>5

\* The rest of the operation, once its next call was made.
LEMMA RestOfCalls ==
    ASSUME NEW st, NEW calls \in Seq(Call), calls # << >>, NEW c, CallsOK(st, calls),
           \/ c = calls[1] /\ calls[1].call # "appendAuditEvent"
           \/ calls[1].call = "appendAuditEvent" /\ c.call = "prependAuditEvent",
           NEW after, c.call = "prependRun" => RunOf(after, c.item.workflowId, c.item.startedAt)
    PROVE  /\ Tail(calls) \in Seq(Call)
           /\ CallsOK(after, Tail(calls))
           /\ Tail(calls) # << >> => Tail(calls)[1].call \in {"upsertSession", "prependAuditEvent", "appendAuditEvent",
                                                             "updateWorkflowLastRunAt"}
<1> DEFINE rest == Tail(calls)
<1>1. /\ rest \in Seq(Call) /\ Len(calls) \in Nat \ {0} /\ Len(rest) = Len(calls) - 1
      /\ \A i \in 1..Len(rest) : rest[i] = calls[i + 1]
  BY HeadTailProperties
<1> HIDE DEF rest
<1>2. \A i \in 2..Len(calls) : LaterCallOK(calls, i)
  BY DEF CallsOK
<1>3. ASSUME NEW i \in 1..Len(rest), rest[i].call = "prependAuditEvent"
      PROVE  rest[i].item.action \in MirroredActions
  <2>1. i + 1 \in 1..Len(calls) /\ rest[i] = calls[i + 1]
    BY <1>1
  <2>2. QED
    BY <2>1, <1>3 DEF CallsOK
<1>4. ASSUME NEW i \in 2..Len(rest)
      PROVE  LaterCallOK(rest, i)
  <2>1. i \in 1..Len(rest) /\ i + 1 \in 2..Len(calls) /\ i + 1 # 2 /\ rest[i] = calls[i + 1]
    BY <1>1
  <2>2. QED
    BY <2>1, <1>2 DEF LaterCallOK
<1>5. ASSUME rest # << >>
      PROVE  /\ FirstCallOK(after, rest[1])
             /\ rest[1].call \in {"upsertSession", "prependAuditEvent", "appendAuditEvent", "updateWorkflowLastRunAt"}
  <2>1. 1 \in 1..Len(rest) /\ 2 \in 2..Len(calls) /\ rest[1] = calls[2]
    <3>1. Len(rest) # 0 /\ Len(rest) \in Nat
      BY <1>1, <1>5, EmptySeq
    <3>2. 1 \in 1..Len(rest) /\ 2 \in 2..Len(calls)
      BY <1>1, <3>1
    <3>3. QED
      BY <1>1, <3>2
  <2>2. LaterCallOK(calls, 2)
    BY <2>1, <1>2
  <2>3. QED
    BY <2>1, <2>2 DEF LaterCallOK, FirstCallOK
<1>6. CallsOK(after, rest)
  BY <1>3, <1>4, <1>5 DEF CallsOK
<1>7. QED
  BY <1>1, <1>5, <1>6 DEF rest

\* The answers so far, and one more that names at most one resource.
LEMMA AckedOneMore ==
    ASSUME NEW as \in SUBSET Resource, IsFiniteSet(as), NEW a \in Resource, NEW k \in Kinds
    PROVE  /\ Cardinality(OfKind(as, k)) \in Nat
           /\ Cardinality(OfKind(as \cup {a}, k)) \in Nat
           /\ Cardinality(OfKind(as \cup {a}, k))
                 <= Cardinality(OfKind(as, k)) + (IF a.kind = k THEN 1 ELSE 0)
<1> DEFINE old == OfKind(as, k)
           new == OfKind(as \cup {a}, k)
<1>1. IsFiniteSet(old)
  <2>1. old \subseteq as
    BY DEF OfKind
  <2> HIDE DEF old
  <2>2. QED
    BY <2>1, FS_Subset
<1>2. Cardinality(old) \in Nat
  BY <1>1, FS_CardinalityType
<1>3. CASE a.kind = k
  <2>1. new = old \cup {a}
    BY <1>3 DEF OfKind
  <2> HIDE DEF old, new
  <2>2. Cardinality(new) = IF a \in old THEN Cardinality(old) ELSE Cardinality(old) + 1
    BY <1>1, <2>1, FS_AddElement
  <2>3. Cardinality(new) \in Nat /\ Cardinality(new) <= Cardinality(old) + 1
    BY <2>2, <1>2
  <2>4. QED
    BY <2>3, <1>2, <1>3 DEF old, new
<1>4. CASE a.kind # k
  <2>1. new = old
    BY <1>4 DEF OfKind
  <2> HIDE DEF old, new
  <2>2. Cardinality(new) \in Nat /\ Cardinality(new) <= Cardinality(old) + 0
    BY <2>1, <1>2
  <2>3. QED
    BY <2>2, <1>2, <1>4 DEF old, new
<1>5. QED
  BY <1>3, <1>4

LEMMA CallKeeps ==
    ASSUME Inv, CallInMemory
    PROVE  /\ mem' \in State /\ counters' \in Counters /\ todo # << >> /\ Tail(todo) \in Seq(Call)
           /\ StateOK(mem')
           /\ CountersOK(mem', counters', Tail(todo)) /\ CountersOK(mem', counters', << >>)
           /\ LogCounterOK(mem'.auditEvents, counters'.audit)
           /\ Behind(disk.auditEvents, mem'.auditEvents)
           /\ StampsBacked(disk, mem')
           /\ CallsOK(mem', Tail(todo))
           /\ AckedIn(acked, mem') /\ AckedIn(reply, mem') /\ AuditedIn(acked, mem')
           /\ Tail(todo) # << >> => ReplyOK(mem', Tail(todo), reply)
           /\ Tail(todo) = << >> => AuditedIn(acked \cup reply, mem')
<1>1. PICK c \in RepoCall :
              /\ todo # << >> /\ Made(c) /\ mem' = After(mem, c)
              /\ Ready(mem, counters, c) /\ FirstCallOK(mem, c)
              /\ counters' \in Counters /\ (\A k \in Kinds : counters'[k] = counters[k])
              /\ LogOK(mem'.auditEvents) /\ LogCounterOK(mem'.auditEvents, counters'.audit)
              /\ Behind(disk.auditEvents, mem'.auditEvents)
  BY CallEffect
<1>2. /\ mem \in State /\ disk \in State /\ counters \in Counters /\ todo \in Seq(Call)
      /\ acked \in SUBSET Resource /\ reply \in SUBSET Resource /\ IsFiniteSet(acked)
  BY DEF Inv, TypeOK
<1>3. /\ ListsOK(mem) /\ Match(mem) /\ RunsOwned(mem) /\ StampsBacked(disk, mem)
      /\ CallsOK(mem, todo) /\ ReplyOK(mem, todo, reply) /\ AckedIn(acked, mem) /\ AuditedIn(acked, mem)
  BY DEF Inv, StateOK
<1>4. mem' \in State
  BY <1>1, <1>2, AfterType
<1>5. ListsOK(mem') /\ Settled(mem', counters)
  BY <1>1, <1>2, <1>3, AfterLists
<1>6. Match(mem')
  BY <1>1, <1>2, <1>3, AfterMatch
<1>7. RunsOwned(mem')
  BY <1>1, <1>2, <1>3, AfterOwned
<1>8. StampsBacked(disk, mem')
  BY <1>1, <1>2, <1>3, AfterStamps
<1>9. /\ CallsOK(mem', Tail(todo)) /\ Tail(todo) \in Seq(Call)
      /\ Tail(todo) # << >> => Tail(todo)[1].call \in {"upsertSession", "prependAuditEvent", "appendAuditEvent",
                                                      "updateWorkflowLastRunAt"}
  <2>1. c.call = "prependRun" => RunOf(mem', c.item.workflowId, c.item.startedAt)
    BY <1>1, <1>2, AfterRunOf
  <2>2. \/ c = todo[1] /\ todo[1].call # "appendAuditEvent"
        \/ todo[1].call = "appendAuditEvent" /\ c.call = "prependAuditEvent"
    BY <1>1 DEF Made
  <2>3. QED
    BY <1>1, <1>2, <1>3, <2>1, <2>2, RestOfCalls
<1>10. CountersOK(mem', counters', Tail(todo)) /\ CountersOK(mem', counters', << >>)
  <2>1. \A k \in Kinds : counters'[k] <= Len(ListOf(mem', k)) + 1 /\ Fresh(ListOf(mem', k), counters'[k])
    BY <1>1, <1>5 DEF Settled
  <2>2. Tail(todo) # << >> => \A k \in Kinds : Head(Tail(todo)).call # Creating[k]
    <3>1. Tail(todo) # << >> => Head(Tail(todo)) = Tail(todo)[1]
      BY <1>9
    <3>2. QED
      BY <3>1, <1>9, CreatingCalls DEF Kinds
  <2>3. QED
    BY <2>1, <2>2 DEF CountersOK, CounterOK
<1>11. \A k \in Kinds : \A id : HasId(ListOf(mem, k), id) => HasId(ListOf(mem', k), id)
  BY <1>1, <1>2, AfterHasId
<1>12. AckedIn(acked, mem')
  BY <1>2, <1>3, <1>11 DEF AckedIn, Resource
<1>13. AckedIn(reply, mem')
  <2>1. SUFFICES ASSUME NEW a \in reply PROVE HasId(ListOf(mem', a.kind), a.id)
    BY DEF AckedIn
  <2>2. a.kind \in Kinds
    BY <1>2 DEF Resource
  <2>3. CASE HasId(ListOf(mem, a.kind), a.id)
    BY <2>2, <2>3, <1>11
  <2>4. CASE todo[1].call = Creating[a.kind] /\ todo[1].item.id = a.id
    <3>1. Creating[a.kind] # "appendAuditEvent"
      BY <2>2, CreatingCalls DEF Kinds
    <3>2. c = todo[1]
      BY <1>1, <2>4, <3>1 DEF Made
    <3>3. HasId(ListOf(After(mem, c), a.kind), c.item.id)
      BY <1>2, <2>2, <2>4, <3>2, AfterHasId
    <3>4. QED
      BY <3>2, <3>3, <2>4, <1>1
  <2>5. QED
    BY <2>3, <2>4, <1>3 DEF ReplyOK
<1>14. Tail(todo) # << >> => ReplyOK(mem', Tail(todo), reply)
  <2>1. SUFFICES ASSUME Tail(todo) # << >> PROVE ReplyOK(mem', Tail(todo), reply)
    OBVIOUS
  <2>2. Tail(todo)[Len(Tail(todo))] = todo[Len(todo)]
    <3> DEFINE rest == Tail(todo)
    <3>1. /\ Len(todo) \in Nat \ {0} /\ Len(rest) = Len(todo) - 1
          /\ \A i \in 1..Len(rest) : rest[i] = todo[i + 1]
      BY <1>1, <1>2, HeadTailProperties
    <3>2. Len(rest) # 0
      BY <1>9, <2>1, EmptySeq
    <3> HIDE DEF rest
    <3>3. Len(rest) \in 1..Len(rest) /\ Len(rest) + 1 = Len(todo)
      BY <3>1, <3>2
    <3>4. QED
      BY <3>1, <3>3 DEF rest
  <2>3. QED
    BY <2>1, <2>2, <1>3, <1>13 DEF ReplyOK, AckedIn
<1>15. \A k \in Kinds : /\ Cardinality(Audited(mem, k)) \in Nat /\ Cardinality(Audited(mem', k)) \in Nat
                        /\ Cardinality(Audited(mem', k)) >= Cardinality(Audited(mem, k))
                        /\ c.call = "prependAuditEvent" /\ c.item.action \in CreationActions(k)
                             => Cardinality(Audited(mem', k)) = Cardinality(Audited(mem, k)) + 1
  BY <1>1, <1>2, AfterAudited
<1>16. \A k \in Kinds : Cardinality(Audited(mockState, k)) \in Nat /\ Cardinality(OfKind(acked, k)) \in Nat
  <2>1. ASSUME NEW k \in Kinds PROVE Cardinality(OfKind(acked, k)) \in Nat
    <3>1. OfKind(acked, k) \subseteq acked
      BY DEF OfKind
    <3>2. IsFiniteSet(OfKind(acked, k))
      BY <3>1, <1>2, FS_Subset
    <3>3. QED
      BY <3>2, FS_CardinalityType
  <2>2. ASSUME NEW k \in Kinds PROVE Cardinality(Audited(mockState, k)) \in Nat
    <3> DEFINE n == 2
    <3>1. Audited(mockState, k) \subseteq 1..n /\ 1 \in Int /\ n \in Int
      BY DEF Audited, mockState
    <3> HIDE DEF n
    <3>2. IsFiniteSet(1..n)
      BY <3>1, FS_Interval
    <3>3. IsFiniteSet(Audited(mockState, k))
      BY <3>1, <3>2, FS_Subset
    <3>4. QED
      BY <3>3, FS_CardinalityType
  <2>3. QED
    BY <2>1, <2>2
<1>17. AuditedIn(acked, mem')
  <2>1. ASSUME NEW k \in Kinds
        PROVE  Cardinality(OfKind(acked, k)) + Cardinality(Audited(mockState, k))
                   <= Cardinality(Audited(mem', k))
    <3>1. Cardinality(OfKind(acked, k)) + Cardinality(Audited(mockState, k))
                   <= Cardinality(Audited(mem, k))
      BY <1>3 DEF AuditedIn
    <3>2. QED
      BY <3>1, <1>15, <1>16
  <2>2. QED
    BY <2>1 DEF AuditedIn
<1>18. Tail(todo) = << >> => AuditedIn(acked \cup reply, mem')
  <2>1. SUFFICES ASSUME Tail(todo) = << >> PROVE AuditedIn(acked \cup reply, mem')
    OBVIOUS
  <2>2. CASE reply = {}
    <3>1. acked \cup reply = acked
      BY <2>2
    <3>2. QED
      BY <3>1, <1>17
  <2>3. CASE reply # {}
    <3>1. PICK a \in reply : TRUE
      BY <2>3
    <3>2. reply = {a} /\ a \in Resource
      BY <3>1, <1>2, <1>3 DEF ReplyOK
    <3>3. Len(todo) = 1
      <4>1. Len(todo) \in Nat /\ Len(Tail(todo)) = Len(todo) - 1
        BY <1>1, <1>2, HeadTailProperties
      <4>2. Len(Tail(todo)) = 0
        BY <2>1, <1>9, EmptySeq
      <4>3. QED
        BY <4>1, <4>2
    <3>4. todo[1].call = "appendAuditEvent" /\ todo[1].action \in CreationActions(a.kind)
      BY <3>1, <3>3, <1>3 DEF ReplyOK
    <3>5. c.call = "prependAuditEvent" /\ c.item.action \in CreationActions(a.kind)
      BY <3>4, <1>1 DEF Made
    <3>6. ASSUME NEW k \in Kinds
          PROVE  Cardinality(OfKind(acked \cup {a}, k)) + Cardinality(Audited(mockState, k))
                     <= Cardinality(Audited(mem', k))
      <4> DEFINE old == Cardinality(OfKind(acked, k))
                 new == Cardinality(OfKind(acked \cup {a}, k))
                 mock == Cardinality(Audited(mockState, k))
                 was  == Cardinality(Audited(mem, k))
                 is   == Cardinality(Audited(mem', k))
      <4>1. old \in Nat /\ new \in Nat /\ new <= old + (IF a.kind = k THEN 1 ELSE 0)
        BY <1>2, <3>2, AckedOneMore
      <4>2. old + mock <= was
        BY <1>3 DEF AuditedIn
      <4>3. mock \in Nat /\ was \in Nat /\ is \in Nat /\ is >= was
        BY <1>15, <1>16
      <4>4. a.kind = k => is = was + 1
        BY <3>5, <1>15
      <4> HIDE DEF old, new, mock, was, is
      <4>5. new + mock <= is
        <5>1. CASE a.kind = k
          BY <5>1, <4>1, <4>2, <4>3, <4>4
        <5>2. CASE a.kind # k
          BY <5>2, <4>1, <4>2, <4>3
        <5>3. QED
          BY <5>1, <5>2
      <4>6. QED
        BY <4>5 DEF new, mock, is
    <3>7. QED
      BY <3>2, <3>6 DEF AuditedIn
  <2>4. QED
    BY <2>2, <2>3
<1>19. StateOK(mem')
  BY <1>1, <1>5, <1>6, <1>7 DEF StateOK
<1>20. QED
  BY <1>1, <1>4, <1>8, <1>9, <1>10, <1>12, <1>13, <1>14, <1>17, <1>18, <1>19

-----------------------------------------------------------------------------
(* Every step keeps the invariant.                                         *)

LEMMA NothingLeft ==
    ASSUME NEW st
    PROVE  CallsOK(st, << >>) /\ ReplyOK(st, << >>, {})
  BY DEF CallsOK, ReplyOK

\* Counters derived from the lists of a good state are good: this is Restart.
LEMMA DerivedCounters ==
    ASSUME NEW st \in State, StateOK(st)
    PROVE  /\ CountersOf(st) \in Counters
           /\ CountersOK(st, CountersOf(st), << >>)
           /\ LogCounterOK(st.auditEvents, CountersOf(st).audit)
           /\ StampsBacked(st, st) /\ Behind(st.auditEvents, st.auditEvents)
<1>1. /\ Len(st.workflows) \in Nat /\ Len(st.runs) \in Nat /\ Len(st.knowledgeSources) \in Nat
      /\ Len(st.automations) \in Nat /\ Len(st.auditEvents) \in Nat
  BY DEF State
<1>2. CountersOf(st) \in Counters
  BY <1>1 DEF CountersOf, Counters
<1>3. \A k \in Kinds : CountersOf(st)[k] = Len(ListOf(st, k)) + 1 /\ Len(ListOf(st, k)) \in Nat
  BY <1>1, ListsOfState DEF CountersOf, Kinds
<1>4. \A list : Len(list) \in Nat /\ Numbered(list) => Fresh(list, Len(list) + 1)
  BY DEF Numbered, Fresh
<1>5. CountersOK(st, CountersOf(st), << >>)
  <2>1. ASSUME NEW k \in Kinds
        PROVE  CounterOK(ListOf(st, k), CountersOf(st)[k], << >>, Creating[k])
    <3>1. Numbered(ListOf(st, k))
      BY DEF StateOK, ListsOK
    <3>2. Fresh(ListOf(st, k), CountersOf(st)[k]) /\ CountersOf(st)[k] <= Len(ListOf(st, k)) + 1
      BY <3>1, <1>3, <1>4
    <3>3. QED
      BY <3>2 DEF CounterOK
  <2>2. QED
    BY <2>1 DEF CountersOK
<1>6. LogCounterOK(st.auditEvents, CountersOf(st).audit)
  <2>1. CountersOf(st).audit = Len(st.auditEvents) + 1
    BY DEF CountersOf
  <2>2. NoneMirrored(st.auditEvents) => Numbered(st.auditEvents)
    BY DEF StateOK, LogOK
  <2>3. QED
    BY <2>1, <2>2, <1>1, <1>4 DEF LogCounterOK
<1>7. StampsBacked(st, st)
  <2>1. UniqueIds(st.workflows)
    BY ListsOfState DEF StateOK, ListsOK, Kinds
  <2>2. QED
    BY <2>1 DEF StampsBacked, UniqueIds
<1>8. Behind(st.auditEvents, st.auditEvents)
  <2>1. st.auditEvents \in Seq(AuditEvent)
    BY DEF State
  <2>2. QED
    BY <2>1, BehindItself
<1>9. QED
  BY <1>2, <1>5, <1>6, <1>7, <1>8

\* A process that starts from the file.
Reload ==
    /\ mem' = disk /\ disk' = disk /\ counters' = CountersOf(disk) /\ todo' = << >> /\ reply' = {}
    /\ acked' = acked /\ now' = now /\ caller' \in {"nobody", "http", "mirror"}
    /\ torn' \in BOOLEAN /\ up' \in BOOLEAN

LEMMA ReloadKeeps ==
    ASSUME Inv, Reload
    PROVE  Inv'
<1>1. disk \in State /\ StateOK(disk)
  BY DEF Inv, TypeOK
<1>2. /\ CountersOf(disk) \in Counters /\ CountersOK(disk, CountersOf(disk), << >>)
      /\ LogCounterOK(disk.auditEvents, CountersOf(disk).audit)
      /\ StampsBacked(disk, disk) /\ Behind(disk.auditEvents, disk.auditEvents)
  BY <1>1, DerivedCounters
<1>3. CallsOK(disk, << >>) /\ ReplyOK(disk, << >>, {})
  BY NothingLeft
<1>4. TypeOK'
  BY <1>1, <1>2 DEF Inv, TypeOK, Reload
<1>5. AckedIn(acked, disk) /\ IsFiniteSet(acked) /\ AuditedIn(acked, disk)
  BY DEF Inv
<1>6. QED
  BY <1>1, <1>2, <1>3, <1>4, <1>5 DEF Inv, Reload

LEMMA CallKeepsInv ==
    ASSUME Inv, RepositoryCall
    PROVE  Inv'
<1>1. CallInMemory
  BY DEF RepositoryCall
<1>2. /\ mem' \in State /\ counters' \in Counters /\ todo # << >> /\ Tail(todo) \in Seq(Call)
      /\ StateOK(mem') /\ CountersOK(mem', counters', Tail(todo))
      /\ LogCounterOK(mem'.auditEvents, counters'.audit)
      /\ CallsOK(mem', Tail(todo))
      /\ AckedIn(acked, mem') /\ AckedIn(reply, mem') /\ AuditedIn(acked, mem')
      /\ Tail(todo) # << >> => ReplyOK(mem', Tail(todo), reply)
      /\ Tail(todo) = << >> => AuditedIn(acked \cup reply, mem')
  BY <1>1, CallKeeps
<1>3. StampsBacked(mem', mem') /\ Behind(mem'.auditEvents, mem'.auditEvents)
  BY <1>2, DerivedCounters
<1>4. /\ disk' = mem' /\ torn' = FALSE /\ todo' = Tail(todo) /\ up' = up /\ now' = now
      /\ acked' = IF Tail(todo) = << >> THEN acked \cup reply ELSE acked
      /\ reply' = IF Tail(todo) = << >> THEN {} ELSE reply
      /\ caller' = IF Tail(todo) = << >> THEN "nobody" ELSE caller
  BY DEF RepositoryCall
<1>5. up
  BY <1>2 DEF Inv
<1>6. TypeOK'
  BY <1>2, <1>4 DEF Inv, TypeOK
<1>7. ReplyOK(mem', todo', reply')
  BY <1>2, <1>4, NothingLeft
<1>8. AckedIn(acked', mem') /\ AuditedIn(acked', mem')
  BY <1>2, <1>4 DEF AckedIn
<1>9. IsFiniteSet(acked')
  <2>1. IsFiniteSet(acked) /\ ReplyOK(mem, todo, reply)
    BY DEF Inv
  <2>2. CASE acked' = acked \/ reply = {}
    <3>1. acked' = acked
      BY <2>2, <1>4
    <3>2. QED
      BY <3>1, <2>1
  <2>3. CASE acked' = acked \cup reply /\ reply # {}
    <3>1. PICK a \in reply : TRUE
      BY <2>3
    <3>2. reply = {a}
      BY <2>1, <3>1 DEF ReplyOK
    <3>3. QED
      BY <2>1, <2>3, <3>2, FS_AddElement
  <2>4. QED
    BY <2>2, <2>3, <1>4
<1>10. QED
  BY <1>2, <1>3, <1>4, <1>5, <1>6, <1>7, <1>8, <1>9 DEF Inv

LEMMA WriteFailsKeepsInv ==
    ASSUME Inv, WriteFails
    PROVE  Inv'
<1>1. CallInMemory
  BY DEF WriteFails
<1>2. /\ mem' \in State /\ counters' \in Counters /\ todo # << >>
      /\ StateOK(mem') /\ CountersOK(mem', counters', << >>)
      /\ LogCounterOK(mem'.auditEvents, counters'.audit)
      /\ Behind(disk.auditEvents, mem'.auditEvents) /\ StampsBacked(disk, mem')
      /\ AckedIn(acked, mem') /\ AuditedIn(acked, mem')
  BY <1>1, CallKeeps
<1>3. CallsOK(mem', << >>) /\ ReplyOK(mem', << >>, {})
  BY NothingLeft
<1>4. /\ disk' = disk /\ torn' \in {torn, TRUE} /\ todo' = << >> /\ up' = up /\ now' = now
      /\ acked' = acked /\ reply' = {} /\ caller' = "nobody"
  BY DEF WriteFails
<1>5. TypeOK'
  <2>1. torn' \in BOOLEAN
    BY <1>4 DEF Inv, TypeOK
  <2>2. todo' \in Seq(Call)
    BY <1>4
  <2>3. reply' \in SUBSET Resource
    BY <1>4
  <2>4. QED
    BY <1>2, <1>4, <2>1, <2>2, <2>3 DEF Inv, TypeOK
<1>6. StateOK(disk) /\ AckedIn(acked, disk) /\ IsFiniteSet(acked) /\ AuditedIn(acked, disk)
  BY DEF Inv
<1>7. QED
  BY <1>2, <1>3, <1>4, <1>5, <1>6 DEF Inv

LEMMA CrashKeepsInv ==
    ASSUME Inv, Crash
    PROVE  Inv'
<1>1. Reload
  BY DEF Inv, TypeOK, Crash, Reload
<1>2. QED
  BY <1>1, ReloadKeeps

LEMMA RestartKeepsInv ==
    ASSUME Inv, Restart
    PROVE  Inv'
<1>1. Reload
  BY DEF Inv, TypeOK, Restart, Reload
<1>2. QED
  BY <1>1, ReloadKeeps

\* A new operation: what its calls have to satisfy.
LEMMA BeginKeepsInv ==
    ASSUME Inv, NEW calls \in Seq(Call), NEW created \in SUBSET Resource, NEW who \in {"http", "mirror"},
           Begin(who, calls, created), counters' \in Counters, counters'.audit = counters.audit,
           CallsOK(mem, calls), ReplyOK(mem, calls, created), CountersOK(mem, counters', calls)
    PROVE  Inv'
<1>1. /\ up /\ todo' = calls /\ caller' = who /\ reply' = created /\ now' = now + 1
      /\ mem' = mem /\ disk' = disk /\ torn' = torn /\ up' = up /\ acked' = acked
  BY DEF Begin
<1>2. TypeOK'
  BY <1>1 DEF Inv, TypeOK
<1>3. QED
  BY <1>1, <1>2 DEF Inv

-----------------------------------------------------------------------------
(* The operations of the store.                                            *)

\* Facts every operation starts from.
LEMMA Between ==
    ASSUME Inv, todo = << >>
    PROVE  /\ mem \in State /\ counters \in Counters /\ now \in Nat /\ now + 1 \in Nat
           /\ Match(mem) /\ Settled(mem, counters)
  BY DEF Inv, TypeOK, StateOK, CountersOK, CounterOK, Settled

\* An operation of two calls: the second is an audit event.
LEMMA TwoCalls ==
    ASSUME NEW c \in Call, NEW a \in AuditActions, FirstCallOK(mem, c), c.call # "prependAuditEvent"
    PROVE  /\ <<c, appendAuditEvent(a)>> \in Seq(Call)
           /\ CallsOK(mem, <<c, appendAuditEvent(a)>>)
<1> DEFINE e == appendAuditEvent(a)
           calls == <<c, e>>
<1>1. e \in Call /\ e.call = "appendAuditEvent"
  BY DEF appendAuditEvent, Call
<1> HIDE DEF e
<1>2. calls \in Seq(Call) /\ Len(calls) = 2 /\ calls[1] = c /\ calls[2] = e
  BY <1>1
<1>3. \A i \in 2..Len(calls) : i = 2
  BY <1>2
<1>4. \A i \in 1..Len(calls) : i = 1 \/ i = 2
  BY <1>2
<1> HIDE DEF calls
<1>5. \A i \in 2..Len(calls) : LaterCallOK(calls, i)
  BY <1>1, <1>2, <1>3 DEF LaterCallOK
<1>6. CallsOK(mem, calls)
  BY <1>1, <1>2, <1>4, <1>5 DEF CallsOK
<1>7. QED
  BY <1>2, <1>6 DEF calls, e

\* An operation that creates nothing keeps the counters.
LEMMA PlainOperation ==
    ASSUME Inv, NEW calls \in Seq(Call), NEW who \in {"http", "mirror"}, Begin(who, calls, {}),
           counters' = counters, CallsOK(mem, calls),
           calls # << >> => \A k \in Kinds : calls[1].call # Creating[k]
    PROVE  Inv'
<1>1. todo = << >>
  BY DEF Begin
<1>2. Settled(mem, counters) /\ counters \in Counters
  BY <1>1, Between
<1>3. CountersOK(mem, counters, calls)
  <2>1. calls # << >> => Head(calls) = calls[1]
    OBVIOUS
  <2>2. QED
    BY <1>2, <2>1 DEF CountersOK, CounterOK, Settled
<1>4. ReplyOK(mem, calls, {})
  BY DEF ReplyOK
<1>5. {} \in SUBSET Resource /\ counters' \in Counters /\ counters'.audit = counters.audit
  BY <1>2
<1>6. QED
  BY <1>2, <1>3, <1>4, <1>5, BeginKeepsInv

\* An operation that creates a resource of kind k: its first call puts the item
\* in the list under the counter's id, its last one audits it.
LEMMA CreatingOperation ==
    ASSUME Inv, NEW calls \in Seq(Call), NEW k \in Kinds, calls # << >>,
           Begin("http", calls, { [kind |-> k, id |-> counters[k]] }),
           NextId(k), CallsOK(mem, calls),
           calls[1].call = Creating[k], calls[1].item.id = counters[k],
           calls[Len(calls)].call = "appendAuditEvent", calls[Len(calls)].action \in CreationActions(k)
    PROVE  Inv'
<1>1. todo = << >>
  BY DEF Begin
<1>2. Settled(mem, counters) /\ counters \in Counters
  BY <1>1, Between
<1> DEFINE id == counters[k]
           r  == [kind |-> k, id |-> id]
<1>3. id \in Nat /\ Len(ListOf(mem, k)) \in Nat
  <2>1. id \in Nat
    BY <1>2 DEF Counters, Kinds
  <2>2. Len(ListOf(mem, k)) \in Nat
    BY <1>1, Between, ListsOfState DEF State, Kinds
  <2>3. QED
    BY <2>1, <2>2
<1>4. /\ counters' \in Counters /\ counters'.audit = counters.audit /\ counters'[k] = id + 1
      /\ \A j \in Kinds \ {k} : counters'[j] = counters[j]
  BY <1>2, <1>3 DEF NextId, Counters, Kinds
<1>5. CountersOK(mem, counters', calls)
  <2>1. Head(calls) = calls[1]
    OBVIOUS
  <2>2. CounterOK(ListOf(mem, k), counters'[k], calls, Creating[k])
    <3>1. id <= Len(ListOf(mem, k)) + 1 /\ Fresh(ListOf(mem, k), id)
      BY <1>2 DEF Settled
    <3>2. QED
      BY <2>1, <3>1, <1>3, <1>4 DEF CounterOK
  <2>3. ASSUME NEW j \in Kinds \ {k}
        PROVE  CounterOK(ListOf(mem, j), counters'[j], calls, Creating[j])
    <3>1. Creating[j] # Creating[k]
      BY <2>3, CreatingCalls DEF Kinds
    <3>2. counters[j] <= Len(ListOf(mem, j)) + 1 /\ Fresh(ListOf(mem, j), counters[j])
      BY <1>2 DEF Settled
    <3>3. QED
      BY <2>1, <3>1, <3>2, <1>4 DEF CounterOK
  <2>4. QED
    BY <2>2, <2>3 DEF CountersOK
<1>6. ReplyOK(mem, calls, {r}) /\ {r} \in SUBSET Resource
  <2>1. r.kind = k /\ r.id = id /\ r \in Resource
    BY <1>3 DEF Resource
  <2> HIDE DEF r
  <2>2. QED
    BY <2>1 DEF ReplyOK
<1>7. QED
  BY <1>4, <1>5, <1>6, BeginKeepsInv

LEMMA CreateWorkflowKeepsInv ==
    ASSUME Inv, createWorkflow
    PROVE  Inv'
<1> DEFINE w == [id |-> counters["workflow"], lastRunAt |-> now + 1]
           c == prependWorkflow(w)
           calls == <<c, appendAuditEvent("workflow.created")>>
<1>1. /\ Begin("http", calls, { [kind |-> "workflow", id |-> counters["workflow"]] })
      /\ NextId("workflow")
  BY DEF createWorkflow
<1>2. todo = << >>
  BY <1>1 DEF Begin
<1>3. counters \in Counters /\ now + 1 \in Nat
  BY <1>2, Between
<1>4. w \in Workflow /\ w.id = counters["workflow"]
  BY <1>3 DEF Workflow, Counters
<1>5. c \in Call /\ c.call = "prependWorkflow" /\ c.item = w
  BY <1>4 DEF prependWorkflow, Call
<1> HIDE DEF w, c
<1>6. calls \in Seq(Call) /\ CallsOK(mem, calls)
  <2>1. FirstCallOK(mem, c) /\ c.call # "prependAuditEvent"
    BY <1>5 DEF FirstCallOK
  <2>2. "workflow.created" \in AuditActions
    BY DEF AuditActions
  <2>3. QED
    BY <1>5, <2>1, <2>2, TwoCalls, Zenon
<1>7. /\ calls # << >> /\ calls[1] = c
      /\ calls[Len(calls)].call = "appendAuditEvent" /\ calls[Len(calls)].action = "workflow.created"
  BY DEF appendAuditEvent
<1> HIDE DEF calls
<1>8. "workflow" \in Kinds /\ "workflow.created" \in CreationActions("workflow")
  BY DEF Kinds, CreationActions
<1>9. QED
  BY <1>1, <1>4, <1>5, <1>6, <1>7, <1>8, CreatingCalls, CreatingOperation

LEMMA CreateKnowledgeKeepsInv ==
    ASSUME Inv, createKnowledgeSource
    PROVE  Inv'
<1> DEFINE w == [id |-> counters["knowledge"], status |-> "syncing"]
           c == prependKnowledgeSource(w)
           calls == <<c, appendAuditEvent("knowledge_source.created")>>
<1>1. /\ Begin("http", calls, { [kind |-> "knowledge", id |-> counters["knowledge"]] })
      /\ NextId("knowledge")
  BY DEF createKnowledgeSource
<1>2. todo = << >>
  BY <1>1 DEF Begin
<1>3. counters \in Counters
  BY <1>2, Between
<1>4. w \in Knowledge /\ w.id = counters["knowledge"]
  BY <1>3 DEF Knowledge, Counters
<1>5. c \in Call /\ c.call = "prependKnowledgeSource" /\ c.item = w
  BY <1>4 DEF prependKnowledgeSource, Call
<1> HIDE DEF w, c
<1>6. calls \in Seq(Call) /\ CallsOK(mem, calls)
  <2>1. FirstCallOK(mem, c) /\ c.call # "prependAuditEvent"
    BY <1>5 DEF FirstCallOK
  <2>2. "knowledge_source.created" \in AuditActions
    BY DEF AuditActions
  <2>3. QED
    BY <1>5, <2>1, <2>2, TwoCalls, Zenon
<1>7. /\ calls # << >> /\ calls[1] = c
      /\ calls[Len(calls)].call = "appendAuditEvent" /\ calls[Len(calls)].action = "knowledge_source.created"
  BY DEF appendAuditEvent
<1> HIDE DEF calls
<1>8. "knowledge" \in Kinds /\ "knowledge_source.created" \in CreationActions("knowledge")
  BY DEF Kinds, CreationActions
<1>9. QED
  BY <1>1, <1>4, <1>5, <1>6, <1>7, <1>8, CreatingCalls, CreatingOperation

LEMMA CreateAutomationKeepsInv ==
    ASSUME Inv, NEW t \in {"schedule", "event", "manual"}, createAutomation(t)
    PROVE  Inv'
<1> DEFINE w == [id |-> counters["automation"], triggerType |-> t, status |-> "active",
                 lastRunAt |-> None, nextRunAt |-> IF t = "manual" THEN None ELSE now + 1]
           c == prependAutomation(w)
           calls == <<c, appendAuditEvent("automation.created")>>
<1>1. /\ Begin("http", calls, { [kind |-> "automation", id |-> counters["automation"]] })
      /\ NextId("automation")
  BY DEF createAutomation
<1>2. todo = << >>
  BY <1>1 DEF Begin
<1>3. counters \in Counters /\ now + 1 \in Nat
  BY <1>2, Between
<1>4. w \in Automation /\ w.id = counters["automation"]
  BY <1>3 DEF Automation, Counters
<1>5. c \in Call /\ c.call = "prependAutomation" /\ c.item = w
  BY <1>4 DEF prependAutomation, Call
<1> HIDE DEF w, c
<1>6. calls \in Seq(Call) /\ CallsOK(mem, calls)
  <2>1. FirstCallOK(mem, c) /\ c.call # "prependAuditEvent"
    BY <1>5 DEF FirstCallOK
  <2>2. "automation.created" \in AuditActions
    BY DEF AuditActions
  <2>3. QED
    BY <1>5, <2>1, <2>2, TwoCalls, Zenon
<1>7. /\ calls # << >> /\ calls[1] = c
      /\ calls[Len(calls)].call = "appendAuditEvent" /\ calls[Len(calls)].action = "automation.created"
  BY DEF appendAuditEvent
<1> HIDE DEF calls
<1>8. "automation" \in Kinds /\ "automation.created" \in CreationActions("automation")
  BY DEF Kinds, CreationActions
<1>9. QED
  BY <1>1, <1>4, <1>5, <1>6, <1>7, <1>8, CreatingCalls, CreatingOperation

LEMMA CreateRunKeepsInv ==
    ASSUME Inv, NEW w \in Nat, NEW a \in CreationActions("run"), HasId(mem.workflows, w),
           createRunFromWorkflow(w, a)
    PROVE  Inv'
<1> DEFINE r == [id |-> counters["run"], workflowId |-> w, status |-> "queued", startedAt |-> now + 1]
           c == prependRun(r)
           d == updateWorkflowLastRunAt(w, now + 1)
           e == appendAuditEvent(a)
           calls == <<c, d, e>>
<1>1. /\ Begin("http", calls, { [kind |-> "run", id |-> counters["run"]] })
      /\ NextId("run")
  BY DEF createRunFromWorkflow
<1>2. todo = << >>
  BY <1>1 DEF Begin
<1>3. counters \in Counters /\ now + 1 \in Nat
  BY <1>2, Between
<1>4. r \in Run /\ r.id = counters["run"] /\ r.workflowId = w /\ r.startedAt = now + 1
  BY <1>3 DEF Run, RunIds, RunStatuses, Counters
<1>5. c \in Call /\ c.call = "prependRun" /\ c.item = r
  BY <1>4 DEF prependRun, Call
<1>6. d \in Call /\ d.call = "updateWorkflowLastRunAt" /\ d.id = w /\ d.at = now + 1
  BY <1>3 DEF updateWorkflowLastRunAt, Call
<1>7. e \in Call /\ e.call = "appendAuditEvent" /\ e.action = a
  <2>1. a \in AuditActions
    BY DEF CreationActions, AuditActions
  <2>2. QED
    BY <2>1 DEF appendAuditEvent, Call
<1> HIDE DEF r, c, d, e
<1>8. /\ calls \in Seq(Call) /\ calls # << >> /\ Len(calls) = 3
      /\ calls[1] = c /\ calls[2] = d /\ calls[3] = e
  BY <1>5, <1>6, <1>7
<1>9. (\A i \in 2..Len(calls) : i = 2 \/ i = 3) /\ (\A i \in 1..Len(calls) : i = 1 \/ i = 2 \/ i = 3)
  BY <1>8
<1> HIDE DEF calls
<1>10. CallsOK(mem, calls)
  <2>1. FirstCallOK(mem, c)
    BY <1>4, <1>5 DEF FirstCallOK
  <2>2. LaterCallOK(calls, 2)
    BY <1>4, <1>5, <1>6, <1>8 DEF LaterCallOK
  <2>3. LaterCallOK(calls, 3)
    BY <1>7, <1>8 DEF LaterCallOK
  <2>4. QED
    BY <2>1, <2>2, <2>3, <1>5, <1>6, <1>7, <1>8, <1>9 DEF CallsOK
<1>11. "run" \in Kinds
  BY DEF Kinds
<1>12. calls[Len(calls)].call = "appendAuditEvent" /\ calls[Len(calls)].action \in CreationActions("run")
  BY <1>7, <1>8
<1>13. QED
  BY <1>1, <1>4, <1>5, <1>8, <1>10, <1>11, <1>12, CreatingCalls, CreatingOperation

\* An id that the list of workflows has is a number.
LEMMA WorkflowIds ==
    ASSUME Inv, NEW w, HasId(mem.workflowDetails, w)
    PROVE  w \in Nat /\ HasId(mem.workflows, w)
<1>1. mem.workflowDetails \in Seq(Workflow) /\ mem.workflows = mem.workflowDetails
  BY DEF Inv, TypeOK, State, StateOK, Match
<1>2. PICK i \in DOMAIN mem.workflowDetails : mem.workflowDetails[i].id = w
  BY DEF HasId
<1>3. mem.workflowDetails[i] \in Workflow
  BY <1>1
<1>4. QED
  BY <1>1, <1>2, <1>3 DEF Workflow

LEMMA StartRunKeepsInv ==
    ASSUME Inv, NEW w, startWorkflowRun(w)
    PROVE  Inv'
<1>1. HasId(mem.workflowDetails, w) /\ createRunFromWorkflow(w, "workflow.run.started")
  BY DEF startWorkflowRun
<1>2. "workflow.run.started" \in CreationActions("run")
  BY DEF CreationActions
<1>3. QED
  BY <1>1, <1>2, WorkflowIds, CreateRunKeepsInv

LEMMA RetryRunKeepsInv ==
    ASSUME Inv, NEW r, retryRun(r)
    PROVE  Inv'
<1> DEFINE w == Find(mem.runDetails, r).workflowId
<1>1. HasId(mem.workflowDetails, w) /\ createRunFromWorkflow(w, "workflow.run.retried")
  BY DEF retryRun
<1>2. "workflow.run.retried" \in CreationActions("run")
  BY DEF CreationActions
<1> HIDE DEF w
<1>3. QED
  BY <1>1, <1>2, WorkflowIds, CreateRunKeepsInv

\* An operation of two calls that creates nothing: a change, and its audit event.
LEMMA AuditedChange ==
    ASSUME Inv, NEW c \in Call, NEW a \in AuditActions, FirstCallOK(mem, c),
           c.call \in {"upsertConnection", "setSettings", "upsertAutomation"},
           Begin("http", <<c, appendAuditEvent(a)>>, {}), counters' = counters
    PROVE  Inv'
<1> DEFINE calls == <<c, appendAuditEvent(a)>>
<1>1. calls \in Seq(Call) /\ CallsOK(mem, calls)
  BY TwoCalls
<1>2. calls[1] = c
  OBVIOUS
<1> HIDE DEF calls
<1>3. \A k \in Kinds : calls[1].call # Creating[k]
  BY <1>2, CreatingCalls DEF Kinds
<1>4. Begin("http", calls, {})
  BY DEF calls
<1>5. QED
  BY <1>1, <1>3, <1>4, PlainOperation

\* A set of natural numbers that is not empty has a least element.
LEMMA LeastIndex ==
    ASSUME NEW T \in SUBSET Nat, T # {}
    PROVE  (CHOOSE i \in T : \A j \in T : i <= j) \in T
<1>1. PICK x \in T : \A y \in T : ~(<<y, x>> \in OpToRel(<, Nat))
  <2> DEFINE R == OpToRel(<, Nat)
  <2>1. IsWellFoundedOn(R, Nat)
    BY NatLessThanWellFounded
  <2> HIDE DEF R
  <2>2. \E x \in T : \A y \in T : ~(<<y, x>> \in R)
    BY <2>1, WFMin
  <2>3. QED
    BY <2>2 DEF R
<1>2. \A y \in T : x <= y
  <2>1. SUFFICES ASSUME NEW y \in T PROVE x <= y
    OBVIOUS
  <2>2. x \in Nat /\ y \in Nat
    BY <1>1
  <2>3. ~(y < x)
    BY <1>1, <2>2 DEF OpToRel
  <2>4. QED
    BY <2>2, <2>3
<1>3. QED
  BY <1>1, <1>2

LEMMA ConnectFeishuKeepsInv ==
    ASSUME Inv, connectFeishu
    PROVE  Inv'
<1> DEFINE list   == mem.connections
           feishu == { i \in DOMAIN list : list[i].channelType = "feishu" }
           k      == CHOOSE i \in feishu : \A j \in feishu : i <= j
           old    == [ list[k] EXCEPT !.status = "connected", !.lastActiveAt = now + 1 ]
           conn   == IF feishu # {} THEN old
                     ELSE [id |-> "conn-feishu", channelType |-> "feishu",
                           status |-> "connected", lastActiveAt |-> now + 1]
           c      == upsertConnection(conn)
<1>1. /\ Begin("http", <<c, appendAuditEvent("channel_connection.feishu.connected")>>, {})
      /\ counters' = counters
  BY DEF connectFeishu
<1>2. now + 1 \in Nat /\ list \in Seq(Connection)
  BY <1>1, Between DEF Begin, State
<1>3. conn \in Connection
  <2>1. CASE feishu = {}
    BY <2>1, <1>2 DEF Connection
  <2>2. CASE feishu # {}
    <3>1. feishu \in SUBSET Nat
      BY <1>2
    <3>2. k \in feishu
      <4> HIDE DEF feishu
      <4>1. QED
        BY <2>2, <3>1, LeastIndex
    <3>3. k \in DOMAIN list
      <4> HIDE DEF k
      <4>1. QED
        BY <3>2
    <3> HIDE DEF k, feishu
    <3>4. list[k] \in Connection
      BY <3>3, <1>2
    <3>5. old \in Connection
      BY <3>4, <1>2 DEF Connection
    <3> HIDE DEF old
    <3>6. QED
      BY <2>2, <3>5
  <2>3. QED
    BY <2>1, <2>2
<1> HIDE DEF conn
<1>4. c \in Call /\ c.call = "upsertConnection"
  BY <1>3 DEF upsertConnection, Call
<1> HIDE DEF c
<1>5. FirstCallOK(mem, c) /\ "channel_connection.feishu.connected" \in AuditActions
  BY <1>4 DEF FirstCallOK, AuditActions
<1>6. QED
  BY <1>1, <1>4, <1>5, AuditedChange

LEMMA UpdateSettingsKeepsInv ==
    ASSUME Inv, NEW input \in SUBSET SettingFields, updateSettings(input)
    PROVE  Inv'
<1> DEFINE s == [f \in SettingFields |-> IF f \in input THEN now + 1 ELSE mem.settings[f]]
           c == setSettings(s)
<1>1. Begin("http", <<c, appendAuditEvent("settings.updated")>>, {}) /\ counters' = counters
  BY DEF updateSettings
<1>2. now + 1 \in Nat /\ mem.settings \in Settings
  BY <1>1, Between DEF Begin, State
<1>3. s \in Settings
  BY <1>2 DEF Settings
<1> HIDE DEF s
<1>4. c \in Call /\ c.call = "setSettings"
  BY <1>3 DEF setSettings, Call
<1> HIDE DEF c
<1>5. FirstCallOK(mem, c) /\ "settings.updated" \in AuditActions
  BY <1>4 DEF FirstCallOK, AuditActions
<1>6. QED
  BY <1>1, <1>4, <1>5, AuditedChange

LEMMA AutomationFound ==
    ASSUME Inv, NEW a, HasId(mem.automations, a)
    PROVE  Find(mem.automations, a) \in Automation /\ Find(mem.automations, a).id = a
<1>1. mem.automations \in Seq(Automation)
  BY DEF Inv, TypeOK, State
<1>2. QED
  BY <1>1, IndexOfFound DEF Find

LEMMA AutomationCall ==
    ASSUME NEW x \in Automation, HasId(mem.automations, x.id)
    PROVE  /\ upsertAutomation(x) \in Call /\ upsertAutomation(x).call = "upsertAutomation"
           /\ FirstCallOK(mem, upsertAutomation(x))
<1>1. /\ upsertAutomation(x) \in Call /\ upsertAutomation(x).call = "upsertAutomation"
      /\ upsertAutomation(x).item = x
  BY DEF upsertAutomation, Call
<1>2. QED
  BY <1>1 DEF FirstCallOK

LEMMA ToggleAutomationKeepsInv ==
    ASSUME Inv, NEW a, toggleAutomation(a)
    PROVE  Inv'
<1> DEFINE old  == Find(mem.automations, a)
           next == IF old.status = "active" THEN "paused" ELSE "active"
           x    == [old EXCEPT !.status = next,
                               !.nextRunAt = IF next = "active" /\ old.triggerType # "manual"
                                             THEN now + 1 ELSE None]
           e    == IF next = "active" THEN "automation.active" ELSE "automation.paused"
<1>1. /\ HasId(mem.automations, a)
      /\ Begin("http", <<upsertAutomation(x), appendAuditEvent(e)>>, {}) /\ counters' = counters
  BY DEF toggleAutomation
<1>2. now + 1 \in Nat
  BY <1>1, Between DEF Begin
<1>3. old \in Automation /\ old.id = a
  BY <1>1, AutomationFound
<1>4. e \in AuditActions
  BY DEF AuditActions
<1> HIDE DEF old, e
<1>5. x \in Automation /\ x.id = a
  BY <1>2, <1>3 DEF Automation
<1> HIDE DEF x
<1> DEFINE c == upsertAutomation(x)
<1>6. c \in Call /\ c.call = "upsertAutomation" /\ FirstCallOK(mem, c)
  BY <1>1, <1>5, AutomationCall
<1>7. Begin("http", <<c, appendAuditEvent(e)>>, {})
  BY <1>1
<1> HIDE DEF c
<1>8. QED
  BY <1>1, <1>4, <1>6, <1>7, AuditedChange

LEMMA RunAutomationKeepsInv ==
    ASSUME Inv, NEW a, runAutomation(a)
    PROVE  Inv'
<1> DEFINE old  == Find(mem.automations, a)
           x    == [old EXCEPT !.lastRunAt = now + 1,
                               !.nextRunAt = IF old.status = "active" /\ old.triggerType # "manual"
                                             THEN now + 1 ELSE @]
<1>1. /\ HasId(mem.automations, a)
      /\ Begin("http", <<upsertAutomation(x), appendAuditEvent("automation.run.triggered")>>, {})
      /\ counters' = counters
  BY DEF runAutomation
<1>2. now + 1 \in Nat
  BY <1>1, Between DEF Begin
<1>3. old \in Automation /\ old.id = a
  BY <1>1, AutomationFound
<1>4. "automation.run.triggered" \in AuditActions
  BY DEF AuditActions
<1> HIDE DEF old
<1>5. x \in Automation /\ x.id = a
  BY <1>2, <1>3 DEF Automation
<1> HIDE DEF x
<1> DEFINE c == upsertAutomation(x)
<1>6. c \in Call /\ c.call = "upsertAutomation" /\ FirstCallOK(mem, c)
  BY <1>1, <1>5, AutomationCall
<1>7. Begin("http", <<c, appendAuditEvent("automation.run.triggered")>>, {})
  BY <1>1
<1> HIDE DEF c
<1>8. QED
  BY <1>1, <1>4, <1>6, <1>7, AuditedChange

-----------------------------------------------------------------------------
(* The mirrored events.                                                    *)

\* The calls that can follow the first call of a mirrored event.
Follows(d) ==
    /\ d \in Call /\ d.call \in {"upsertSession", "prependAuditEvent"}
    /\ d.call = "prependAuditEvent" => d.item.action \in MirroredActions

LEMMA MirrorCalls ==
    ASSUME NEW c \in Call, c.call \in {"upsertRun", "upsertSession", "setWorkbenchState"}, FirstCallOK(mem, c)
    PROVE  /\ <<c>> \in Seq(Call) /\ CallsOK(mem, <<c>>) /\ <<c>>[1].call = c.call
           /\ \A d : Follows(d) => /\ <<c, d>> \in Seq(Call) /\ CallsOK(mem, <<c, d>>)
                                   /\ <<c, d>>[1].call = c.call
<1>1. <<c>> \in Seq(Call) /\ CallsOK(mem, <<c>>)
  <2> DEFINE calls == <<c>>
  <2>1. calls \in Seq(Call) /\ Len(calls) = 1 /\ calls[1] = c
    OBVIOUS
  <2>2. (\A i \in 1..Len(calls) : i = 1) /\ (\A i \in 2..Len(calls) : FALSE)
    BY <2>1
  <2> HIDE DEF calls
  <2>3. CallsOK(mem, calls)
    BY <2>1, <2>2 DEF CallsOK
  <2>4. QED
    BY <2>1, <2>3 DEF calls
<1>2. ASSUME NEW d, Follows(d)
      PROVE  <<c, d>> \in Seq(Call) /\ CallsOK(mem, <<c, d>>)
  <2> DEFINE calls == <<c, d>>
  <2>0. /\ d \in Call /\ d.call \in {"upsertSession", "prependAuditEvent"}
        /\ d.call = "prependAuditEvent" => d.item.action \in MirroredActions
    BY <1>2 DEF Follows
  <2>1. calls \in Seq(Call) /\ Len(calls) = 2 /\ calls[1] = c /\ calls[2] = d
    BY <2>0
  <2>2. (\A i \in 1..Len(calls) : i = 1 \/ i = 2) /\ (\A i \in 2..Len(calls) : i = 2)
    BY <2>1
  <2> HIDE DEF calls
  <2>3. LaterCallOK(calls, 2)
    BY <2>0, <2>1 DEF LaterCallOK
  <2>4. CallsOK(mem, calls)
    BY <2>0, <2>1, <2>2, <2>3 DEF CallsOK
  <2>5. QED
    BY <2>1, <2>4 DEF calls
<1>3. <<c>>[1].call = c.call /\ \A d : <<c, d>>[1].call = c.call
  OBVIOUS
<1>4. QED
  BY <1>1, <1>2, <1>3

LEMMA MirrorAudit ==
    ASSUME Inv, NEW a \in MirroredActions
    PROVE  Follows(mirrorAudit(mem, a))
<1> DEFINE e == [id |-> Len(mem.auditEvents) + 1, action |-> a]
           c == prependAuditEvent(e)
<1>1. mem.auditEvents \in Seq(AuditEvent)
  BY DEF Inv, TypeOK, State
<1>2. e \in AuditEvent /\ e.action = a
  BY <1>1 DEF AuditEvent, AuditActions
<1> HIDE DEF e
<1>3. c \in Call /\ c.call = "prependAuditEvent" /\ c.item = e
  BY <1>2 DEF prependAuditEvent, Call
<1>4. Follows(c)
  BY <1>2, <1>3 DEF Follows
<1>5. QED
  BY <1>4 DEF mirrorAudit, e

LEMMA MirrorRun ==
    ASSUME Inv, NEW r \in RuntimeRuns, NEW s \in RuntimeSessions \cup {None}, NEW status, NEW ts \in Nat
    PROVE  /\ mirrorRun(mem, r, s, status, ts) \in Call
           /\ mirrorRun(mem, r, s, status, ts).call = "upsertRun"
           /\ FirstCallOK(mem, mirrorRun(mem, r, s, status, ts))
<1> DEFINE list == mem.runDetails
           old  == Find(list, r)
           x    == [ id         |-> r,
                     workflowId |-> IF HasId(list, r) THEN old.workflowId
                                    ELSE IF s # None THEN s ELSE OpenClawRuntime,
                     status     |-> toRunStatus(status),
                     startedAt  |-> IF HasId(list, r) THEN old.startedAt ELSE ts ]
           c    == upsertRun(x)
<1>1. list \in Seq(Run) /\ mem.runs = list
  BY DEF Inv, TypeOK, State, StateOK, Match
<1>2. HasId(list, r) => old \in Run
  BY <1>1, IndexOfFound DEF Find
<1>3. toRunStatus(status) \in RunStatuses
  BY DEF toRunStatus, RunStatuses
<1>4. r \notin Nat
  OBVIOUS
<1> HIDE DEF list
<1>5. /\ x.id = r
      /\ HasId(list, r) => x.workflowId = old.workflowId /\ x.startedAt = old.startedAt
  OBVIOUS
<1> HIDE DEF old
<1>6. x \in Run
  <2>1. x.workflowId \in Nat \cup RuntimeSessions \cup {OpenClawRuntime}
    BY <1>2 DEF Run
  <2>2. x.startedAt \in Nat
    BY <1>2 DEF Run
  <2>3. QED
    BY <2>1, <2>2, <1>3 DEF Run, RunIds
<1> HIDE DEF x
<1>7. c \in Call /\ c.call = "upsertRun" /\ c.item = x
  BY <1>6 DEF upsertRun, Call
<1> HIDE DEF c
<1>8. FirstCallOK(mem, c)
  BY <1>1, <1>4, <1>5, <1>7 DEF FirstCallOK, old
<1>9. c = mirrorRun(mem, r, s, status, ts)
  BY DEF mirrorRun, c, x, old, list
<1>10. QED
  BY <1>7, <1>8, <1>9

LEMMA MirrorSession ==
    ASSUME Inv, NEW s \in RuntimeSessions, NEW status \in {"active", "ended", None}, NEW increment \in BOOLEAN
    PROVE  /\ mirrorSession(mem, s, status, increment) \in Call
           /\ mirrorSession(mem, s, status, increment).call = "upsertSession"
<1> DEFINE list == mem.sessionDetails
           old  == Find(list, s)
           x    == [ id           |-> s,
                     status       |-> IF status # None THEN status
                                      ELSE IF HasId(list, s) THEN old.status ELSE "active",
                     messageCount |-> (IF HasId(list, s) THEN old.messageCount ELSE 0)
                                      + (IF increment THEN 1 ELSE 0) ]
           c    == upsertSession(x)
<1>1. list \in Seq(SessionDet)
  BY DEF Inv, TypeOK, State
<1>2. HasId(list, s) => old \in SessionDet
  BY <1>1, IndexOfFound DEF Find
<1> HIDE DEF list, old
<1>3. x \in SessionDet
  <2>1. (IF HasId(list, s) THEN old.messageCount ELSE 0) \in Nat
    BY <1>2 DEF SessionDet
  <2>2. x.messageCount \in Nat
    BY <2>1
  <2>3. x.status \in {"active", "ended"}
    BY <1>2 DEF SessionDet
  <2>4. QED
    BY <2>2, <2>3 DEF SessionDet, SessionIds
<1> HIDE DEF x
<1>4. c \in Call /\ c.call = "upsertSession"
  BY <1>3 DEF upsertSession, Call
<1>5. c = mirrorSession(mem, s, status, increment)
  BY DEF mirrorSession, x, old, list
<1>6. QED
  BY <1>4, <1>5

\* An event whose calls are one or two of the mirror's, or none at all.
LEMMA MirrorKeeps ==
    ASSUME Inv, NEW calls, Mirror(calls),
           \/ calls = << >>
           \/ \E c \in Call : /\ c.call \in {"upsertRun", "upsertSession", "setWorkbenchState"}
                              /\ FirstCallOK(mem, c)
                              /\ calls = <<c>> \/ \E d : Follows(d) /\ calls = <<c, d>>
    PROVE  Inv'
<1>1. Begin("mirror", calls, {}) /\ counters' = counters
  BY DEF Mirror
<1>2. CASE calls = << >>
  <2>1. calls \in Seq(Call) /\ CallsOK(mem, calls)
    BY <1>2, NothingLeft
  <2>2. QED
    BY <1>1, <1>2, <2>1, PlainOperation
<1>3. CASE \E c \in Call : /\ c.call \in {"upsertRun", "upsertSession", "setWorkbenchState"}
                           /\ FirstCallOK(mem, c)
                           /\ calls = <<c>> \/ \E d : Follows(d) /\ calls = <<c, d>>
  <2>1. PICK c \in Call : /\ c.call \in {"upsertRun", "upsertSession", "setWorkbenchState"}
                          /\ FirstCallOK(mem, c)
                          /\ calls = <<c>> \/ \E d : Follows(d) /\ calls = <<c, d>>
    BY <1>3
  <2>2. calls \in Seq(Call) /\ CallsOK(mem, calls) /\ calls[1].call = c.call
    <3>1. CASE calls = <<c>>
      <4>1. <<c>> \in Seq(Call) /\ CallsOK(mem, <<c>>) /\ <<c>>[1].call = c.call
        BY <2>1, MirrorCalls
      <4>2. QED
        BY <3>1, <4>1
    <3>2. CASE \E d : Follows(d) /\ calls = <<c, d>>
      <4>1. PICK d : Follows(d) /\ calls = <<c, d>>
        BY <3>2
      <4>2. <<c, d>> \in Seq(Call) /\ CallsOK(mem, <<c, d>>) /\ <<c, d>>[1].call = c.call
        BY <2>1, <4>1, MirrorCalls, Zenon
      <4>3. QED
        BY <4>1, <4>2
    <3>3. QED
      BY <2>1, <3>1, <3>2
  <2>3. \A k \in Kinds : calls[1].call # Creating[k]
    BY <2>1, <2>2, CreatingCalls DEF Kinds
  <2>4. QED
    BY <1>1, <2>2, <2>3, PlainOperation
<1>4. QED
  BY <1>2, <1>3

LEMMA MirrorEventKeepsInv ==
    ASSUME Inv, MirrorEvent
    PROVE  Inv'
<1>0. todo = << >> /\ mem \in State /\ now + 1 \in Nat
  <2>1. todo = << >>
    BY DEF MirrorEvent, Mirror, Begin
  <2>2. QED
    BY <2>1, Between
<1>1. ASSUME NEW r \in RuntimeRuns, NEW s \in RuntimeSessions \cup {None}, NEW status,
             Mirror(mirrorRunStatus(mem, r, s, status, now + 1))
      PROVE  Inv'
  <2> DEFINE c == mirrorRun(mem, r, s, status, now + 1)
             d == mirrorAudit(mem, "runtime.run")
  <2>1. c \in Call /\ c.call = "upsertRun" /\ FirstCallOK(mem, c)
    BY <1>0, MirrorRun
  <2>2. Follows(d)
    BY MirrorAudit DEF MirroredActions
  <2>3. mirrorRunStatus(mem, r, s, status, now + 1) = <<c, d>>
    BY DEF mirrorRunStatus
  <2> HIDE DEF c, d
  <2>4. Mirror(<<c, d>>)
    BY <1>1, <2>3
  <2>5. QED
    BY <2>1, <2>2, <2>4, MirrorKeeps
<1>2. ASSUME NEW r \in RuntimeRuns \cup {None}, NEW s \in RuntimeSessions \cup {None}, NEW state,
             Mirror(mirrorChat(mem, r, s, state, now + 1))
      PROVE  Inv'
  <2> DEFINE c == mirrorRun(mem, r, s, state, now + 1)
             status == IF state \in {"final", "aborted", "error"} THEN "ended" ELSE "active"
             d == mirrorSession(mem, s, status, state \in {"final", "error"})
             one == IF r = None THEN << >> ELSE <<c>>
             two == IF s = None THEN << >> ELSE <<d>>
  <2>1. r # None => c \in Call /\ c.call = "upsertRun" /\ FirstCallOK(mem, c)
    BY <1>0, MirrorRun
  <2>2. s # None => d \in Call /\ d.call = "upsertSession"
    <3>1. status \in {"active", "ended", None} /\ (state \in {"final", "error"}) \in BOOLEAN
      OBVIOUS
    <3> HIDE DEF status
    <3>2. QED
      BY <3>1, MirrorSession
  <2>3. s # None => FirstCallOK(mem, d) /\ Follows(d)
    BY <2>2 DEF FirstCallOK, Follows
  <2>4. mirrorChat(mem, r, s, state, now + 1) = one \o two
    BY DEF mirrorChat
  <2> HIDE DEF c, d
  <2>5. /\ r = None /\ s = None => one \o two = << >>
        /\ r = None /\ s # None => one \o two = <<d>>
        /\ r # None /\ s = None => one \o two = <<c>>
        /\ r # None /\ s # None => one \o two = <<c, d>>
    <3>1. /\ r = None => one = << >>
          /\ r # None => one = <<c>>
          /\ s = None => two = << >>
          /\ s # None => two = <<d>>
      OBVIOUS
    <3>2. << >> \o << >> = << >> /\ << >> \o <<d>> = <<d>> /\ <<c>> \o << >> = <<c>>
      <4>1. <<c>> \in Seq({c, d}) /\ <<d>> \in Seq({c, d}) /\ << >> \in Seq({c, d})
        OBVIOUS
      <4>2. QED
        BY <4>1, ConcatEmptySeq
    <3>3. <<c>> \o <<d>> = <<c, d>>
      <4> DEFINE S == {c, d}
                 m == <<c>>
                 n == <<d>>
                 u == m \o n
                 v == <<c, d>>
      <4>1. m \in Seq(S) /\ n \in Seq(S) /\ Len(m) = 1 /\ Len(n) = 1 /\ m[1] = c /\ n[1] = d
        OBVIOUS
      <4>2. v \in Seq(S) /\ Len(v) = 2 /\ v[1] = c /\ v[2] = d
        OBVIOUS
      <4> HIDE DEF S, m, n, v
      <4>3. /\ u \in Seq(S) /\ Len(u) = Len(m) + Len(n)
            /\ \A i \in 1..Len(u) : u[i] = IF i <= Len(m) THEN m[i] ELSE n[i - Len(m)]
        BY <4>1, ConcatProperties
      <4> HIDE DEF u
      <4>4. Len(u) = 2 /\ u[1] = c /\ u[2] = d
        BY <4>1, <4>3
      <4>5. \A i \in 1..Len(u) : u[i] = v[i]
        BY <4>2, <4>4
      <4>6. u = v
        BY <4>2, <4>3, <4>4, <4>5, SeqEqual
      <4>7. QED
        BY <4>6 DEF u, v, m, n
    <3> HIDE DEF one, two
    <3>4. QED
      BY <3>1, <3>2, <3>3
  <2> HIDE DEF one, two
  <2>6. Mirror(one \o two)
    BY <1>2, <2>4
  <2>7. CASE r = None /\ s = None
    BY <2>5, <2>6, <2>7, MirrorKeeps
  <2>8. CASE r = None /\ s # None
    <3>1. Mirror(<<d>>)
      BY <2>5, <2>6, <2>8
    <3>2. QED
      BY <2>2, <2>3, <2>8, <3>1, MirrorKeeps
  <2>9. CASE r # None /\ s = None
    <3>1. Mirror(<<c>>)
      BY <2>5, <2>6, <2>9
    <3>2. QED
      BY <2>1, <2>9, <3>1, MirrorKeeps
  <2>10. CASE r # None /\ s # None
    <3>1. Mirror(<<c, d>>)
      BY <2>5, <2>6, <2>10
    <3>2. QED
      BY <2>1, <2>3, <2>10, <3>1, MirrorKeeps
  <2>11. QED
    BY <2>7, <2>8, <2>9, <2>10
<1>3. ASSUME NEW s \in RuntimeSessions, Mirror(mirrorSessionMessage(mem, s))
      PROVE  Inv'
  <2> DEFINE c == mirrorSession(mem, s, None, TRUE)
  <2>1. c \in Call /\ c.call = "upsertSession"
    BY MirrorSession
  <2>2. Mirror(<<c>>)
    BY <1>3 DEF mirrorSessionMessage
  <2> HIDE DEF c
  <2>3. FirstCallOK(mem, c)
    BY <2>1 DEF FirstCallOK
  <2>4. QED
    BY <2>1, <2>2, <2>3, MirrorKeeps
<1>4. ASSUME NEW s \in RuntimeSessions, NEW status, Mirror(mirrorSessionsChanged(mem, s, status))
      PROVE  Inv'
  <2> DEFINE new == IF status = "ended" THEN "ended" ELSE "active"
             c == mirrorSession(mem, s, new, FALSE)
  <2>0. new \in {"active", "ended", None}
    OBVIOUS
  <2>2. Mirror(<<c>>)
    BY <1>4 DEF mirrorSessionsChanged
  <2> HIDE DEF new
  <2>1. c \in Call /\ c.call = "upsertSession"
    BY <2>0, MirrorSession
  <2> HIDE DEF c
  <2>3. FirstCallOK(mem, c)
    BY <2>1 DEF FirstCallOK
  <2>4. QED
    BY <2>1, <2>2, <2>3, MirrorKeeps
<1>5. ASSUME NEW r \in RuntimeRuns, NEW s \in RuntimeSessions, NEW phase,
             Mirror(mirrorToolStatus(mem, r, s, phase, now + 1))
      PROVE  Inv'
  <2> DEFINE status == IF phase = "failed" THEN "failed" ELSE "running"
             c == mirrorRun(mem, r, s, status, now + 1)
             d == mirrorAudit(mem, "runtime.tool")
  <2>3. mirrorToolStatus(mem, r, s, phase, now + 1) = <<c, d>>
    BY DEF mirrorToolStatus
  <2> HIDE DEF status
  <2>1. c \in Call /\ c.call = "upsertRun" /\ FirstCallOK(mem, c)
    BY <1>0, MirrorRun
  <2>2. Follows(d)
    BY MirrorAudit DEF MirroredActions
  <2> HIDE DEF c, d
  <2>4. Mirror(<<c, d>>)
    BY <1>5, <2>3
  <2>5. QED
    BY <2>1, <2>2, <2>4, MirrorKeeps
<1>6. ASSUME NEW n \in Nat, NEW a \in MirroredActions, NEW calls, Mirror(calls),
             calls = <<setWorkbenchState(n), mirrorAudit(mem, a)>>
      PROVE  Inv'
  <2> DEFINE c == setWorkbenchState(n)
             d == mirrorAudit(mem, a)
  <2>1. c \in Call /\ c.call = "setWorkbenchState"
    BY DEF setWorkbenchState, Call
  <2>2. FirstCallOK(mem, c)
    BY <2>1 DEF FirstCallOK
  <2>3. Follows(d)
    BY MirrorAudit
  <2> HIDE DEF c, d
  <2>4. calls = <<c, d>>
    BY <1>6 DEF c, d
  <2>5. QED
    BY <1>6, <2>1, <2>2, <2>3, <2>4, MirrorKeeps
<1>7. ASSUME Mirror(mirrorApprovalRequest(mem))
      PROVE  Inv'
  <2>1. mem.pendingApprovals + 1 \in Nat /\ "runtime.approval.requested" \in MirroredActions
    BY <1>0 DEF State, MirroredActions
  <2>2. mirrorApprovalRequest(mem) =
           <<setWorkbenchState(mem.pendingApprovals + 1), mirrorAudit(mem, "runtime.approval.requested")>>
    BY DEF mirrorApprovalRequest
  <2>3. QED
    BY <1>6, <1>7, <2>1, <2>2, Zenon
<1>8. ASSUME Mirror(mirrorApprovalResolved(mem))
      PROVE  Inv'
  <2> DEFINE n == IF mem.pendingApprovals = 0 THEN 0 ELSE mem.pendingApprovals - 1
  <2>1. n \in Nat /\ "runtime.approval.resolved" \in MirroredActions
    BY <1>0 DEF State, MirroredActions
  <2>2. mirrorApprovalResolved(mem) = <<setWorkbenchState(n), mirrorAudit(mem, "runtime.approval.resolved")>>
    BY DEF mirrorApprovalResolved
  <2> HIDE DEF n
  <2>3. QED
    BY <1>6, <1>8, <2>1, <2>2, Zenon
<1>9. QED
  BY <1>1, <1>2, <1>3, <1>4, <1>5, <1>7, <1>8 DEF MirrorEvent

-----------------------------------------------------------------------------
(* The invariant.                                                          *)

LEMMA MockIsState == mockState \in State
<1>1. /\ mockState.workflows \in Seq(Workflow) /\ mockState.workflowDetails \in Seq(Workflow)
      /\ mockState.runs \in Seq(Run) /\ mockState.runDetails \in Seq(Run)
  BY DEF mockState, Workflow, Run, RunIds, RunStatuses
<1>2. mockState.sessions \in Seq(Session) /\ mockState.sessionDetails \in Seq(SessionDet)
  BY DEF mockState, Session, SessionDet, SessionIds
<1>3. mockState.connections \in Seq(Connection) /\ mockState.settings \in Settings
  BY DEF mockState, Connection, Settings
<1>4. mockState.knowledgeSources \in Seq(Knowledge) /\ mockState.automations \in Seq(Automation)
  BY DEF mockState, Knowledge, Automation
<1>5. mockState.auditEvents \in Seq(AuditEvent) /\ mockState.pendingApprovals \in Nat
  BY DEF mockState, AuditEvent, AuditActions
<1>6. mockState = [ workflows |-> mockState.workflows, workflowDetails |-> mockState.workflowDetails,
                    runs |-> mockState.runs, runDetails |-> mockState.runDetails,
                    sessions |-> mockState.sessions, sessionDetails |-> mockState.sessionDetails,
                    connections |-> mockState.connections, settings |-> mockState.settings,
                    knowledgeSources |-> mockState.knowledgeSources, automations |-> mockState.automations,
                    auditEvents |-> mockState.auditEvents, pendingApprovals |-> mockState.pendingApprovals ]
  BY DEF mockState
<1>7. QED
  BY <1>1, <1>2, <1>3, <1>4, <1>5, <1>6 DEF State

LEMMA MockIsOK == StateOK(mockState)
<1>1. ListsOK(mockState)
  <2>1. UniqueIds(mockState.workflows) /\ Numbered(mockState.workflows)
    BY DEF mockState, UniqueIds, Numbered
  <2>2. UniqueIds(mockState.runs) /\ Numbered(mockState.runs)
    BY DEF mockState, UniqueIds, Numbered
  <2>3. UniqueIds(mockState.knowledgeSources) /\ Numbered(mockState.knowledgeSources)
    BY DEF mockState, UniqueIds, Numbered
  <2>4. UniqueIds(mockState.automations) /\ Numbered(mockState.automations)
    BY DEF mockState, UniqueIds, Numbered
  <2>5. QED
    BY <2>1, <2>2, <2>3, <2>4, ListsOfState DEF ListsOK, Kinds
<1>2. UniqueIds(mockState.auditEvents) /\ Numbered(mockState.auditEvents)
  BY DEF mockState, UniqueIds, Numbered
<1>3. Match(mockState)
  BY DEF Match, mockState, SessionSummary
<1>4. RunsOwned(mockState)
  <2>1. HasId(mockState.workflows, 1) /\ HasId(mockState.workflows, 2)
    BY DEF mockState, HasId
  <2>2. \A i \in DOMAIN mockState.runs : mockState.runs[i].workflowId \in {1, 2}
    BY DEF mockState
  <2>3. QED
    BY <2>1, <2>2 DEF RunsOwned
<1>5. QED
  BY <1>1, <1>2, <1>3, <1>4 DEF StateOK, LogOK

LEMMA InvInit == Init => Inv
<1> SUFFICES ASSUME Init PROVE Inv
  OBVIOUS
<1>1. /\ mem = mockState /\ disk = mockState /\ torn = FALSE /\ up = TRUE
      /\ counters = CountersOf(mockState) /\ todo = << >> /\ caller = "nobody"
      /\ reply = {} /\ acked = {} /\ now = 0
  BY DEF Init
<1>2. mockState \in State /\ StateOK(mockState)
  BY MockIsState, MockIsOK
<1>3. /\ CountersOf(mockState) \in Counters
      /\ CountersOK(mockState, CountersOf(mockState), << >>)
      /\ LogCounterOK(mockState.auditEvents, CountersOf(mockState).audit)
      /\ StampsBacked(mockState, mockState) /\ Behind(mockState.auditEvents, mockState.auditEvents)
  BY <1>2, DerivedCounters
<1>4. CallsOK(mockState, << >>) /\ ReplyOK(mockState, << >>, {})
  BY NothingLeft
<1>5. AckedIn({}, mockState)
  BY DEF AckedIn
<1>6. IsFiniteSet({}) /\ Cardinality({}) = 0
  BY FS_EmptySet
<1>7. AuditedIn({}, mockState)
  <2>1. ASSUME NEW k \in Kinds
        PROVE  Cardinality(OfKind({}, k)) + Cardinality(Audited(mockState, k)) <= Cardinality(Audited(mockState, k))
    <3>1. OfKind({}, k) = {}
      BY DEF OfKind
    <3>2. Cardinality(Audited(mockState, k)) \in Nat
      <4> DEFINE c == setWorkbenchState(0)
      <4>1. c \in RepoCall
        BY DEF setWorkbenchState, RepoCall
      <4> HIDE DEF c
      <4>2. QED
        BY <4>1, <1>2, AfterAudited
    <3>3. QED
      BY <3>1, <3>2, <1>6
  <2>2. QED
    BY <2>1 DEF AuditedIn
<1>8. TypeOK
  <2>1. todo \in Seq(Call)
    BY <1>1
  <2>2. reply \in SUBSET Resource /\ acked \in SUBSET Resource
    BY <1>1
  <2>3. torn \in BOOLEAN /\ up \in BOOLEAN
    BY <1>1
  <2>4. mem \in State /\ disk \in State /\ counters \in Counters
    BY <1>1, <1>2, <1>3
  <2>5. caller \in {"nobody", "http", "mirror"} /\ now \in Nat
    BY <1>1
  <2>6. QED
    BY <2>1, <2>2, <2>3, <2>4, <2>5 DEF TypeOK
<1>9. QED
  BY <1>1, <1>2, <1>3, <1>4, <1>5, <1>6, <1>7, <1>8 DEF Inv

LEMMA InvStep == Inv /\ [Next]_vars => Inv'
<1>1. ASSUME Inv, Next PROVE Inv'
  <2>1. CASE \/ createWorkflow \/ createKnowledgeSource \/ connectFeishu
             \/ \E input \in SUBSET SettingFields : updateSettings(input)
             \/ \E t \in {"schedule", "event", "manual"} : createAutomation(t)
    BY <1>1, <2>1, CreateWorkflowKeepsInv, CreateKnowledgeKeepsInv, ConnectFeishuKeepsInv,
       UpdateSettingsKeepsInv, CreateAutomationKeepsInv
  <2>2. CASE \/ \E w \in 1..(Len(mem.workflowDetails) + 1) : startWorkflowRun(w)
             \/ \E r \in 1..(Len(mem.runDetails) + 1) \cup RuntimeRuns : retryRun(r)
             \/ \E a \in 1..(Len(mem.automations) + 1) : toggleAutomation(a)
             \/ \E a \in 1..(Len(mem.automations) + 1) : runAutomation(a)
    BY <1>1, <2>2, StartRunKeepsInv, RetryRunKeepsInv, ToggleAutomationKeepsInv, RunAutomationKeepsInv
  <2>3. CASE MirrorEvent
    BY <1>1, <2>3, MirrorEventKeepsInv
  <2>4. CASE RepositoryCall \/ WriteFails
    BY <1>1, <2>4, CallKeepsInv, WriteFailsKeepsInv
  <2>5. CASE MirrorWriteFails \/ Crash \/ Restart
    BY <1>1, <2>5, CrashKeepsInv, RestartKeepsInv DEF MirrorWriteFails
  <2>6. QED
    BY <1>1, <2>1, <2>2, <2>3, <2>4, <2>5 DEF Next
<1>2. ASSUME Inv, UNCHANGED vars PROVE Inv'
  <2>1. /\ mem' = mem /\ disk' = disk /\ torn' = torn /\ up' = up /\ counters' = counters /\ todo' = todo
        /\ caller' = caller /\ reply' = reply /\ acked' = acked /\ now' = now
    BY <1>2 DEF vars
  <2>2. TypeOK'
    BY <1>2, <2>1 DEF Inv, TypeOK
  <2>3. QED
    BY <1>2, <2>1, <2>2 DEF Inv
<1>3. QED
  BY <1>1, <1>2

\* The inductive invariant holds in every state of the store process: ids and
\* counters fit, lists match, the calls still to make are ones memory is ready
\* for, and the file is an older state of memory.
THEOREM InvariantHolds == Spec => []Inv
  BY InvInit, InvStep, PTL DEF Spec

-----------------------------------------------------------------------------
(* What the store promises.                                                *)

\* Types: the process never leaves its state space, for any number of
\* operations, crashes and failed writes (createProductApiStore, the JSON
\* file repository and the realtime mirror).
THEOREM TypeCorrect == Spec => []TypeOK
<1>1. Inv => TypeOK
  BY DEF Inv
<1>2. QED
  BY <1>1, InvariantHolds, PTL

\* No two resources of a kind ever share an id, in memory or in the file,
\* although a restart derives the counters anew from list lengths
\* (createProductApiStore).
THEOREM IdsStayUnique == Spec => []IdsUnique
<1>1. Inv => IdsUnique
  <2>1. SUFFICES ASSUME Inv, NEW st \in {mem, disk}
                 PROVE  /\ \A k \in Kinds : UniqueIds(ListOf(st, k))
                        /\ \/ UniqueIds(st.auditEvents)
                           \/ \E i \in DOMAIN st.auditEvents : st.auditEvents[i].action \in MirroredActions
    BY DEF IdsUnique
  <2>2. StateOK(st)
    BY <2>1 DEF Inv
  <2>3. QED
    BY <2>2 DEF StateOK, ListsOK, LogOK, NoneMirrored
<1>2. QED
  BY <1>1, InvariantHolds, PTL

\* Summary and detail lists hold the same resources in the same order, through
\* every upsert, crash and restart (upsertRun, upsertSession, prepend*).
THEOREM SummariesMatch == Spec => []SummariesMatchDetails
<1>1. Inv => SummariesMatchDetails
  BY DEF Inv, StateOK, Match, SummariesMatchDetails
<1>2. QED
  BY <1>1, InvariantHolds, PTL

\* A resource whose creation was answered is in the file as long as the file
\* can be read (persist before the answer).
THEOREM AnswersSurvive == Spec => []AckedSurvive
<1>1. Inv => AckedSurvive
  BY DEF Inv, AckedIn, AckedSurvive
<1>2. QED
  BY <1>1, InvariantHolds, PTL

\* The audit log in the file knows of every creation that was answered
\* (appendAuditEvent is the last call before the answer).
THEOREM AnswersAreAudited == Spec => []AckedAreAudited
<1>1. Inv => AckedAreAudited
  <2>1. SUFFICES ASSUME Inv, NEW k \in Kinds
                 PROVE  Cardinality({a \in acked : a.kind = k})
                            <= Cardinality(Audited(disk, k)) - Cardinality(Audited(mockState, k))
    BY DEF AckedAreAudited
  <2>2. Cardinality(OfKind(acked, k)) + Cardinality(Audited(mockState, k)) <= Cardinality(Audited(disk, k))
    BY <2>1 DEF Inv, AuditedIn
  <2>3. Cardinality(OfKind(acked, k)) \in Nat
    <3>1. OfKind(acked, k) \subseteq acked /\ IsFiniteSet(acked)
      BY <2>1 DEF OfKind, Inv
    <3>2. IsFiniteSet(OfKind(acked, k))
      BY <3>1, FS_Subset
    <3>3. QED
      BY <3>2, FS_CardinalityType
  <2>4. Cardinality(Audited(disk, k)) \in Nat /\ Cardinality(Audited(mockState, k)) \in Nat
    <3> DEFINE c == setWorkbenchState(0)
    <3>1. c \in RepoCall
      BY DEF setWorkbenchState, RepoCall
    <3> HIDE DEF c
    <3>2. disk \in State /\ mockState \in State
      BY <2>1, MockIsState DEF Inv, TypeOK
    <3>3. QED
      BY <3>1, <3>2, AfterAudited
  <2>5. OfKind(acked, k) = {a \in acked : a.kind = k}
    BY DEF OfKind
  <2>6. Cardinality(OfKind(acked, k)) <= Cardinality(Audited(disk, k)) - Cardinality(Audited(mockState, k))
    BY <2>2, <2>3, <2>4
  <2>7. QED
    BY <2>5, <2>6
<1>2. QED
  BY <1>1, InvariantHolds, PTL

\* A run that a workflow started belongs to a workflow that exists, in memory
\* and in the file (startWorkflowRun and retryRun look the workflow up).
THEOREM RunsAreOwned == Spec => []RunsHaveTheirWorkflow
<1>1. Inv => RunsHaveTheirWorkflow
  BY DEF Inv, StateOK, RunsOwned, RunsHaveTheirWorkflow
<1>2. QED
  BY <1>1, InvariantHolds, PTL

\* The audit log in the file is the older part of the log in memory (persist
\* writes the whole state, a restart reads it back).
THEOREM FileFollowsMemory == Spec => []FileIsPrefixOfMemory
<1>1. Inv => FileIsPrefixOfMemory
  <2>1. SUFFICES ASSUME Inv
                 PROVE  LET behind == Len(mem.auditEvents) - Len(disk.auditEvents)
                        IN  /\ behind >= 0
                            /\ disk.auditEvents = SubSeq(mem.auditEvents, behind + 1, Len(mem.auditEvents))
    BY DEF FileIsPrefixOfMemory
  <2> DEFINE d == disk.auditEvents
             m == mem.auditEvents
             n == Len(m) - Len(d)
             u == SubSeq(m, n + 1, Len(m))
  <2>2. d \in Seq(AuditEvent) /\ m \in Seq(AuditEvent) /\ Behind(d, m)
    BY <2>1 DEF Inv, TypeOK, State
  <2> HIDE DEF d, m
  <2>3. Len(d) \in Nat /\ Len(m) \in Nat /\ Len(d) <= Len(m) /\ n \in Nat /\ n >= 0
    BY <2>2 DEF Behind
  <2>4. /\ u \in Seq(AuditEvent) /\ Len(u) = Len(d)
        /\ \A i \in 1..Len(u) : u[i] = m[i + n]
    <3>1. u = [i \in 1..Len(d) |-> m[i + n]]
      BY <2>2, <2>3
    <3> HIDE DEF u
    <3>2. \A i \in 1..Len(d) : i + n \in 1..Len(m)
      BY <2>3
    <3>3. \A i \in 1..Len(d) : m[i + n] \in AuditEvent
      BY <2>2, <3>2
    <3>4. u \in Seq(AuditEvent) /\ Len(u) = Len(d)
      BY <2>3, <3>1, <3>3, IsASeq
    <3>5. QED
      BY <3>1, <3>4
  <2>5. \A i \in 1..Len(d) : d[i] = m[i + n]
    BY <2>2 DEF Behind
  <2> HIDE DEF u, n
  <2>6. \A i \in 1..Len(d) : d[i] = u[i]
    BY <2>4, <2>5
  <2>7. d = u
    BY <2>2, <2>4, <2>6, SeqEqual
  <2>8. QED
    BY <2>3, <2>7 DEF d, m, n, u
<1>2. QED
  BY <1>1, InvariantHolds, PTL

\* No step writes a last-run time to the file before the run it is the time
\* of, whatever crash follows (createRunFromWorkflow writes the run first).
THEOREM LastRunsAreBacked == Spec => LastRunBacked
<1> DEFINE Backed ==
       \A i \in DOMAIN disk.workflows : \A j \in DOMAIN disk'.workflows :
          (/\ disk.workflows[i].id = disk'.workflows[j].id
           /\ disk.workflows[i].lastRunAt # disk'.workflows[j].lastRunAt)
          => \E k \in DOMAIN disk'.runs :
               /\ disk'.runs[k].workflowId = disk'.workflows[j].id
               /\ disk'.runs[k].startedAt = disk'.workflows[j].lastRunAt
<1>1. Inv /\ [Next]_vars => [Backed]_vars
  <2>1. SUFFICES ASSUME Inv, Next PROVE Backed
    OBVIOUS
  <2>2. CASE RepositoryCall
    <3>1. StampsBacked(disk, mem') /\ disk' = mem'
      BY <2>1, <2>2, CallKeeps DEF RepositoryCall
    <3>2. StampsBacked(disk, disk')
      BY <3>1
    <3>3. QED
      BY <3>2 DEF StampsBacked, RunOf
  <2>3. CASE ~RepositoryCall
    <3>1. disk' = disk
      BY <2>1, <2>3 DEF Next, createWorkflow, startWorkflowRun, retryRun, createRunFromWorkflow, connectFeishu,
         updateSettings, createKnowledgeSource, createAutomation, toggleAutomation, runAutomation, MirrorEvent,
         Mirror, Begin, WriteFails, MirrorWriteFails, Crash, Restart
    <3>2. disk \in State /\ StateOK(disk)
      BY <2>1 DEF Inv, TypeOK
    <3>3. StampsBacked(disk, disk')
      BY <3>1, <3>2, DerivedCounters
    <3>4. QED
      BY <3>3 DEF StampsBacked, RunOf
  <2>4. QED
    BY <2>2, <2>3
<1>2. QED
  BY <1>1, InvariantHolds, PTL DEF Spec, LastRunBacked
=============================================================================
