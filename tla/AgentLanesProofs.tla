-------------------------- MODULE AgentLanesProofs --------------------------
(***************************************************************************)
(* The lanes of agent runs and the run loop, for any number of runs,       *)
(* sessions and signals and any concurrency of main: type correctness, one *)
(* run at a time in a session, a drain that leaves nobody at work, and a   *)
(* gateway that refuses runs only for a restart.                           *)
(***************************************************************************)
EXTENDS AgentLanes, FiniteSetTheorems, SequenceTheorems, TLAPS

Bodies   == {"none", "preparing", "attempt", "finishing", "done"}
Promises == {"none", "pending"} \cup Settled

Distinct(q) == \A i, j \in 1..Len(q) : q[i] = q[j] => i = j

(***************************************************************************)
(* Where a run can be, as a predicate of the lanes and promises, so that   *)
(* it can also be said of the lanes in the middle of a handler, before     *)
(* they are pumped.                                                        *)
(***************************************************************************)

\* A run that waits in a session lane has not been handed to main.
Waiting(se, sq, inn, out) ==
    \A s \in Sessions :
        /\ Distinct(sq[s])
        /\ \A i \in 1..Len(sq[s]) :
              se[sq[s][i]] = s /\ out[sq[s][i]] = "pending" /\ inn[sq[s][i]] = "none"

\* The active task of a session lane has been handed to main.
Active(se, sa, inn, out) ==
    \A s \in Sessions : \A r \in sa[s] : se[r] = s /\ out[r] = "pending" /\ inn[r] # "none"

\* A run that waits in main has not begun.
WaitingInMain(mq, inn, bo) ==
    /\ Distinct(mq)
    /\ \A i \in 1..Len(mq) : inn[mq[i]] = "pending" /\ bo[mq[i]] = "none"

\* A run is at work only while both of its promises are open.
Promised(se, inn, out, bo) ==
    \A r \in Runs :
        /\ bo[r] \in {"preparing", "attempt", "finishing"} => inn[r] = "pending"
        /\ inn[r] = "pending" => out[r] = "pending"
        /\ inn[r] = "none" => bo[r] = "none"
        /\ se[r] = None => inn[r] = "none" /\ out[r] = "none"

Placed(se, sq, sa, mq, inn, out, bo) ==
    /\ Waiting(se, sq, inn, out)
    /\ Active(se, sa, inn, out)
    /\ WaitingInMain(mq, inn, bo)
    /\ Promised(se, inn, out, bo)

Placement == Placed(session, sessQueue, sessActive, mainQueue, inner, outer, body)

\* A run that was handed to main and has not settled occupies its session lane.
Holds(se, sa, inn, out) ==
    \A r \in Runs : inn[r] # "none" /\ out[r] = "pending" => r \in sa[se[r]]

Owned == ~overran => Holds(session, sessActive, inner, outer)

\* The run loop: a restart under way refuses runs, and nothing else does once
\* the last restart was not missed.
LoopInv ==
    /\ request # "none" => action # "none"
    /\ request \in {"draining", "respawning"} => action = "restart"
    /\ request # "none" /\ action = "restart" => gatewayDraining
    /\ gatewayDraining /\ ~missed => request # "none"

\* While a restart drains, a session lane is held by a task the drain waits
\* for, or by one that main refused and that is about to settle.
DrainWaits ==
    request = "draining" =>
        \A s \in Sessions : \A r \in sessActive[s] : <<"session", r>> \in awaited \/ inner[r] \in Settled

\* A drain that was not cut short leaves every session lane idle.
DrainDone ==
    request \in {"closing", "respawning"} /\ action = "restart" /\ ~overran
        => \A s \in Sessions : sessActive[s] = {}

\* The inductive invariant.
Inv == TypeOK /\ Placement /\ Owned /\ LoopInv /\ DrainWaits /\ DrainDone

USE LanesAssumption

-----------------------------------------------------------------------------
(* The pumps.                                                              *)

LEMMA RoomType ==
    ASSUME NEW active \in SUBSET Runs, NEW cap \in Nat
    PROVE  Room(active, cap) \in Nat
<1>1. IsFiniteSet(Runs)
  BY FS_Interval DEF Runs
<1>2. Cardinality(active) \in Nat
  BY <1>1, FS_Subset, FS_CardinalityType
<1>3. QED
  BY <1>2 DEF Room

\* What drainLane of main does to its queue and to the runs: it starts some of
\* those that wait, in order, and leaves the others where they are.
LEMMA PumpMainEffect ==
    ASSUME NEW queue \in Seq(Runs), NEW active \in SUBSET Runs,
           NEW bodies \in [Runs -> Bodies], NEW cap \in Nat,
           PumpMain(queue, active, bodies, cap)
    PROVE  /\ mainQueue' \in Seq(Runs) /\ mainActive' \in SUBSET Runs /\ body' \in [Runs -> Bodies]
           /\ \A i \in 1..Len(mainQueue') : \E j \in 1..Len(queue) : mainQueue'[i] = queue[j]
           /\ \A r \in Runs : \/ body'[r] = bodies[r]
                              \/ body'[r] = "preparing" /\ \E j \in 1..Len(queue) : queue[j] = r
           /\ Distinct(queue) =>
                 /\ Distinct(mainQueue')
                 /\ \A i \in 1..Len(mainQueue') : body'[mainQueue'[i]] = bodies[mainQueue'[i]]
<1> DEFINE k == Room(active, cap)
           go == Started(queue, active, cap)
<1>1. k \in Nat
  BY RoomType
<1> HIDE DEF k
<1>2. mainQueue' = SubSeq(queue, k + 1, Len(queue)) /\ mainActive' = active \cup go
  BY DEF PumpMain, k
<1>3. \A r \in Runs : body'[r] = IF r \in go THEN "preparing" ELSE bodies[r]
  BY DEF PumpMain
<1>4. go = {queue[i] : i \in {j \in 1..Len(queue) : j <= k}}
  BY DEF Started, k
<1> HIDE DEF go
<1>5. \A r : r \in go <=> \E j \in 1..Len(queue) : j <= k /\ queue[j] = r
  BY <1>4
<1>6. Len(queue) \in Nat /\ \A j \in 1..Len(queue) : queue[j] \in Runs
  OBVIOUS
<1>7. go \subseteq Runs
  BY <1>5, <1>6
<1>8. body' \in [Runs -> Bodies]
  <2>1. body' = [r \in Runs |-> IF r \in go THEN "preparing" ELSE bodies[r]]
    BY DEF PumpMain, go
  <2>2. QED
    BY <2>1 DEF Bodies
<1>9. /\ mainQueue' \in Seq(Runs)
      /\ \A i \in 1..Len(mainQueue') : i + k \in 1..Len(queue) /\ mainQueue'[i] = queue[i + k]
  <2>1. CASE k + 1 <= Len(queue)
    <3>1. /\ \A i \in (k + 1)..Len(queue) : queue[i] \in Runs
          /\ k + 1 \in Int /\ Len(queue) \in Int
      BY <1>1, <1>6
    <3>2. /\ mainQueue' \in Seq(Runs) /\ Len(mainQueue') = Len(queue) - k
          /\ \A i \in 1..(Len(queue) - k) : mainQueue'[i] = queue[i + k]
      BY <1>1, <1>2, <1>6, <2>1
    <3>3. QED
      BY <3>2, <1>1, <1>6
  <2>2. CASE ~(k + 1 <= Len(queue))
    <3>1. mainQueue' = <<>>
      BY <1>1, <1>2, <1>6, <2>2
    <3>2. QED
      BY <3>1
  <2>3. QED
    BY <2>1, <2>2
<1>10. \A i \in 1..Len(mainQueue') : \E j \in 1..Len(queue) : mainQueue'[i] = queue[j]
  BY <1>9
<1>11. \A r \in Runs : \/ body'[r] = bodies[r]
                       \/ body'[r] = "preparing" /\ \E j \in 1..Len(queue) : queue[j] = r
  BY <1>3, <1>5
<1>12. ASSUME Distinct(queue)
       PROVE  /\ Distinct(mainQueue')
              /\ \A i \in 1..Len(mainQueue') : body'[mainQueue'[i]] = bodies[mainQueue'[i]]
  <2>1. Distinct(mainQueue')
    <3>1. SUFFICES ASSUME NEW i \in 1..Len(mainQueue'), NEW j \in 1..Len(mainQueue'),
                          mainQueue'[i] = mainQueue'[j]
                   PROVE  i = j
      BY DEF Distinct
    <3>2. i + k = j + k
      BY <3>1, <1>9, <1>12 DEF Distinct
    <3>3. i \in Int /\ j \in Int
      BY <1>9
    <3>4. QED
      BY <3>2, <3>3, <1>1
  <2>2. ASSUME NEW i \in 1..Len(mainQueue')
        PROVE  body'[mainQueue'[i]] = bodies[mainQueue'[i]]
    <3>1. i + k \in 1..Len(queue) /\ mainQueue'[i] = queue[i + k] /\ i \in Nat \ {0}
      BY <1>9
    <3>2. queue[i + k] \notin go
      <4>1. SUFFICES ASSUME NEW j \in 1..Len(queue), j <= k, queue[j] = queue[i + k]
                     PROVE  FALSE
        BY <1>5
      <4>2. j = i + k
        BY <4>1, <3>1, <1>12 DEF Distinct
      <4>3. QED
        BY <4>1, <4>2, <3>1, <1>1
    <3>3. QED
      BY <3>1, <3>2, <1>3, <1>6
  <2>3. QED
    BY <2>1, <2>2
<1>13. QED
  BY <1>2, <1>7, <1>8, <1>9, <1>10, <1>11, <1>12

\* A start of the next run of a session lane, or none.
LEMMA PumpSessionCases ==
    ASSUME NEW s \in Sessions, NEW queue \in Seq(Runs), NEW active \in SUBSET Runs,
           PumpSession(s, queue, active)
    PROVE  \/ /\ active # {} \/ queue = <<>>
              /\ sessQueue' = [sessQueue EXCEPT ![s] = queue]
              /\ sessActive' = [sessActive EXCEPT ![s] = active]
              /\ UNCHANGED <<inner, mainVars>>
           \/ /\ active = {} /\ queue # <<>>
              /\ sessQueue' = [sessQueue EXCEPT ![s] = Tail(queue)]
              /\ sessActive' = [sessActive EXCEPT ![s] = {Head(queue)}]
              /\ gatewayDraining
              /\ inner' = [inner EXCEPT ![Head(queue)] = "drained"]
              /\ UNCHANGED mainVars
           \/ /\ active = {} /\ queue # <<>>
              /\ sessQueue' = [sessQueue EXCEPT ![s] = Tail(queue)]
              /\ sessActive' = [sessActive EXCEPT ![s] = {Head(queue)}]
              /\ ~gatewayDraining
              /\ inner' = [inner EXCEPT ![Head(queue)] = "pending"]
              /\ PumpMain(Append(mainQueue, Head(queue)), mainActive, body, maxConcurrent)
<1>1. CASE active # {} \/ queue = <<>>
  BY <1>1 DEF PumpSession
<1>2. CASE active = {} /\ queue # <<>> /\ gatewayDraining
  BY <1>2 DEF PumpSession
<1>3. CASE active = {} /\ queue # <<>> /\ ~gatewayDraining
  BY <1>3 DEF PumpSession
<1>4. QED
  BY <1>1, <1>2, <1>3

\* The part of TypeOK the pumps can disturb.
LaneTypes ==
    /\ sessQueue \in [Sessions -> Seq(Runs)] /\ sessActive \in [Sessions -> SUBSET Runs]
    /\ \A s \in Sessions : \A r, q \in sessActive[s] : r = q
    /\ mainQueue \in Seq(Runs) /\ mainActive \in SUBSET Runs
    /\ inner \in [Runs -> Promises] /\ body \in [Runs -> Bodies]

LEMMA PumpSessionType ==
    ASSUME TypeOK, NEW s \in Sessions, NEW queue \in Seq(Runs), NEW active \in SUBSET sessActive[s],
           PumpSession(s, queue, active)
    PROVE  LaneTypes'
<1>1. /\ LaneTypes /\ maxConcurrent \in Nat
      /\ active \in SUBSET Runs /\ \A r, q \in active : r = q
  BY DEF TypeOK, LaneTypes, Promises, Bodies
<1>2. CASE /\ sessQueue' = [sessQueue EXCEPT ![s] = queue]
           /\ sessActive' = [sessActive EXCEPT ![s] = active]
           /\ UNCHANGED <<inner, mainVars>>
  BY <1>1, <1>2 DEF LaneTypes, mainVars
<1>3. ASSUME queue # <<>>,
             sessQueue' = [sessQueue EXCEPT ![s] = Tail(queue)],
             sessActive' = [sessActive EXCEPT ![s] = {Head(queue)}],
             \/ inner' = [inner EXCEPT ![Head(queue)] = "drained"] /\ UNCHANGED mainVars
             \/ /\ inner' = [inner EXCEPT ![Head(queue)] = "pending"]
                /\ PumpMain(Append(mainQueue, Head(queue)), mainActive, body, maxConcurrent)
      PROVE  LaneTypes'
  <2>1. Head(queue) \in Runs /\ Tail(queue) \in Seq(Runs)
    BY <1>3
  <2>2. /\ sessQueue' \in [Sessions -> Seq(Runs)] /\ sessActive' \in [Sessions -> SUBSET Runs]
        /\ \A t \in Sessions : \A r, q \in sessActive'[t] : r = q
    BY <1>1, <1>3, <2>1 DEF LaneTypes
  <2>3. inner' \in [Runs -> Promises]
    <3>1. PICK v \in {"drained", "pending"} : inner' = [inner EXCEPT ![Head(queue)] = v]
      BY <1>3
    <3>2. v \in Promises /\ inner \in [Runs -> Promises]
      BY <1>1 DEF LaneTypes, Promises, Settled
    <3>3. QED
      BY <2>1, <3>1, <3>2
  <2>4. mainQueue' \in Seq(Runs) /\ mainActive' \in SUBSET Runs /\ body' \in [Runs -> Bodies]
    <3>1. CASE UNCHANGED mainVars
      BY <1>1, <3>1 DEF LaneTypes, mainVars
    <3>2. CASE PumpMain(Append(mainQueue, Head(queue)), mainActive, body, maxConcurrent)
      <4>1. Append(mainQueue, Head(queue)) \in Seq(Runs)
        BY <1>1, <2>1 DEF LaneTypes
      <4>2. QED
        BY <1>1, <3>2, <4>1, PumpMainEffect DEF LaneTypes
    <3>3. QED
      BY <1>3, <3>1, <3>2
  <2>5. QED
    BY <2>2, <2>3, <2>4 DEF LaneTypes
<1>4. QED
  BY <1>1, <1>2, <1>3, PumpSessionCases

\* The heads of the session lanes, and any order of them.
LEMMA OrderOfHeads ==
    ASSUME sessQueue \in [Sessions -> Seq(Runs)], NEW order \in Orders(Heads)
    PROVE  /\ Heads \in SUBSET Runs
           /\ order \in Seq(Runs) /\ Distinct(order)
           /\ \A i \in 1..Len(order) : order[i] \in Heads
           /\ \A r \in Heads : \E i \in 1..Len(order) : order[i] = r
<1>1. Heads \in SUBSET Runs
  BY DEF Heads
<1>2. IsFiniteSet(Heads) /\ Cardinality(Heads) \in Nat
  <2>1. IsFiniteSet(Runs)
    BY FS_Interval DEF Runs
  <2>2. QED
    BY <1>1, <2>1, FS_Subset, FS_CardinalityType
<1> DEFINE n == Cardinality(Heads)
<1>3. /\ order \in [1..n -> Heads] /\ n \in Nat
      /\ \A r \in Heads : \E i \in 1..n : order[i] = r
  BY <1>2 DEF Orders
<1>4. order \in Seq(Runs) /\ Len(order) = n
  <2>1. order \in [1..n -> Runs] /\ DOMAIN order = 1..n
    BY <1>1, <1>3
  <2> HIDE DEF n
  <2>2. order \in Seq(Runs)
    BY <1>3, <2>1, SeqDef
  <2>3. Len(order) = n
    BY <1>3, <2>1, <2>2, LenProperties
  <2>4. QED
    BY <2>2, <2>3
<1>5. \A i, j \in 1..n : order[i] = order[j] => i = j
  <2>1. order \in Surjection(1..n, Heads)
    BY <1>3 DEF Surjection
  <2>2. IsFiniteSet(1..n) /\ Cardinality(1..n) = Cardinality(Heads)
    BY <1>3, FS_Interval
  <2>3. order \in Injection(1..n, Heads)
    BY <2>1, <2>2, FS_SurjSameCardinalityImpliesInj
  <2>4. QED
    BY <2>3 DEF Injection, IsInjective
<1>6. QED
  BY <1>1, <1>3, <1>4, <1>5 DEF Distinct

LEMMA ResetType ==
    ASSUME TypeOK, resetAllLanes
    PROVE  LaneTypes'
<1>1. LaneTypes /\ maxConcurrent \in Nat
  BY DEF TypeOK, LaneTypes, Promises, Bodies
<1>2. PICK order \in Orders(Heads) : PumpMain(mainQueue \o order, {}, body, maxConcurrent)
  BY DEF resetAllLanes
<1>3. mainQueue \o order \in Seq(Runs)
  BY <1>1, OrderOfHeads, ConcatProperties DEF LaneTypes
<1>4. mainQueue' \in Seq(Runs) /\ mainActive' \in SUBSET Runs /\ body' \in [Runs -> Bodies]
  BY <1>1, <1>2, <1>3, PumpMainEffect DEF LaneTypes
<1>5. /\ sessQueue' \in [Sessions -> Seq(Runs)] /\ sessActive' \in [Sessions -> SUBSET Runs]
      /\ \A s \in Sessions : \A r, q \in sessActive'[s] : r = q
  BY <1>1 DEF LaneTypes, resetAllLanes
<1>6. inner' \in [Runs -> Promises]
  BY <1>1 DEF LaneTypes, resetAllLanes, Promises
<1>7. QED
  BY <1>4, <1>5, <1>6 DEF LaneTypes

-----------------------------------------------------------------------------
(* Type correctness.                                                       *)

\* The rest of TypeOK.
OtherTypes ==
    /\ session \in [Runs -> Sessions \cup {None}]
    /\ maxConcurrent \in 1..MaxConcurrent
    /\ outer \in [Runs -> Promises]
    /\ activeRuns \in [Sessions -> Runs \cup {None}]
    /\ gatewayDraining \in BOOLEAN /\ loop \in {"first", "starting", "serving", "exited"}
    /\ request \in {"none", "draining", "closing", "respawning"}
    /\ action \in {"none", "restart", "stop"}
    /\ awaited \subseteq {"main", "session"} \X Runs
    /\ awaitRuns \in BOOLEAN /\ overran \in BOOLEAN /\ missed \in BOOLEAN
    /\ requests \in 0..MaxRequests

LEMMA TypeParts == TypeOK <=> LaneTypes /\ OtherTypes
  BY DEF TypeOK, LaneTypes, OtherTypes, Promises, Bodies

LEMMA TypeInit == Init => TypeOK
<1> SUFFICES ASSUME Init
             PROVE  TypeOK
  OBVIOUS
<1>1. /\ sessQueue \in [Sessions -> Seq(Runs)] /\ sessActive \in [Sessions -> SUBSET Runs]
      /\ \A s \in Sessions : \A r, q \in sessActive[s] : r = q
  BY DEF Init
<1>2. /\ mainQueue \in Seq(Runs) /\ mainActive \in SUBSET Runs
      /\ inner \in [Runs -> Promises] /\ body \in [Runs -> Bodies]
  BY DEF Init, Promises, Bodies
<1>3. LaneTypes
  BY <1>1, <1>2 DEF LaneTypes
<1>4. OtherTypes
  <2>1. /\ session \in [Runs -> Sessions \cup {None}] /\ outer \in [Runs -> Promises]
        /\ activeRuns \in [Sessions -> Runs \cup {None}]
    BY DEF Init, Promises
  <2>2. maxConcurrent \in 1..MaxConcurrent /\ requests \in 0..MaxRequests
    BY DEF Init
  <2>3. QED
    BY <2>1, <2>2 DEF Init, OtherTypes
<1>5. QED
  BY <1>3, <1>4, TypeParts

LEMMA TypeStep ==
    ASSUME TypeOK, Promised(session, inner, outer, body), [Next]_vars
    PROVE  TypeOK'
<1>p. LaneTypes' /\ OtherTypes' => TypeOK'
  BY DEF TypeOK, LaneTypes, OtherTypes, Promises, Bodies
<1>t. LaneTypes /\ OtherTypes
  BY TypeParts
<1>c. maxConcurrent \in Nat
  BY <1>t DEF OtherTypes
<1>1. ASSUME NEW r \in Runs, NEW s \in Sessions, runEmbeddedPiAgent(r, s)
      PROVE  TypeOK'
  <2>1. OtherTypes'
    BY <1>t, <1>1 DEF runEmbeddedPiAgent, OtherTypes, loopVars, Promises, Settled
  <2>2. LaneTypes'
    <3>1. Append(sessQueue[s], r) \in Seq(Runs)
      BY <1>t DEF LaneTypes
    <3>2. CASE PumpSession(s, Append(sessQueue[s], r), sessActive[s])
      BY <3>1, <3>2, PumpSessionType
    <3>3. CASE UNCHANGED <<sessVars, mainVars, inner>>
      BY <1>t, <3>3 DEF LaneTypes, sessVars, mainVars
    <3>4. QED
      BY <1>1, <3>2, <3>3 DEF runEmbeddedPiAgent
  <2>3. QED
    BY <2>1, <2>2, <1>p
<1>2. ASSUME NEW r \in Runs, setActiveEmbeddedRun(r)
      PROVE  TypeOK'
  <2>1. OtherTypes'
    BY <1>t, <1>2 DEF setActiveEmbeddedRun, OtherTypes, loopVars
  <2>2. LaneTypes'
    BY <1>t, <1>2 DEF setActiveEmbeddedRun, LaneTypes, sessVars, Bodies
  <2>3. QED
    BY <2>1, <2>2, <1>p
<1>3. ASSUME NEW r \in Runs, clearActiveEmbeddedRun(r)
      PROVE  TypeOK'
  <2>1. OtherTypes'
    BY <1>t, <1>3 DEF clearActiveEmbeddedRun, OtherTypes, loopVars
  <2>2. LaneTypes'
    BY <1>t, <1>3 DEF clearActiveEmbeddedRun, LaneTypes, sessVars, Bodies
  <2>3. QED
    BY <2>1, <2>2, <1>p
<1>4. ASSUME NEW r \in Runs, MainTaskDone(r)
      PROVE  TypeOK'
  <2>1. OtherTypes'
    BY <1>t, <1>4 DEF MainTaskDone, OtherTypes, loopVars
  <2>2. /\ sessQueue' = sessQueue /\ sessActive' = sessActive
        /\ inner' \in [Runs -> Promises]
    BY <1>t, <1>4 DEF MainTaskDone, sessVars, LaneTypes, Promises, Settled
  <2>3. mainQueue' \in Seq(Runs) /\ mainActive' \in SUBSET Runs /\ body' \in [Runs -> Bodies]
    <3>1. /\ [body EXCEPT ![r] = "done"] \in [Runs -> Bodies]
          /\ mainActive \ {r} \in SUBSET Runs /\ mainQueue \in Seq(Runs) /\ mainActive \in SUBSET Runs
      BY <1>t DEF LaneTypes, Bodies
    <3>2. CASE PumpMain(mainQueue, mainActive \ {r}, [body EXCEPT ![r] = "done"], maxConcurrent)
      BY <1>c, <3>1, <3>2, PumpMainEffect
    <3>3. CASE body' = [body EXCEPT ![r] = "done"] /\ UNCHANGED <<mainQueue, mainActive>>
      BY <3>1, <3>3
    <3>4. QED
      BY <1>4, <3>2, <3>3 DEF MainTaskDone
  <2>4. QED
    BY <1>t, <2>1, <2>2, <2>3, <1>p DEF LaneTypes
<1>5. ASSUME NEW r \in Runs, SessionTaskDone(r)
      PROVE  TypeOK'
  <2>1. OtherTypes'
    BY <1>t, <1>5 DEF SessionTaskDone, OtherTypes, LaneTypes, loopVars
  <2>2. LaneTypes'
    <3>1. CASE UNCHANGED <<sessVars, mainVars, inner>>
      BY <1>t, <3>1 DEF LaneTypes, sessVars, mainVars
    <3>2. CASE PumpSession(session[r], sessQueue[session[r]], sessActive[session[r]] \ {r})
      <4>1. session[r] # None
        BY <1>5 DEF SessionTaskDone, Settling, Settled, Promised
      <4>2. session[r] \in Sessions
        BY <1>t, <4>1 DEF OtherTypes
      <4>3. QED
        BY <1>t, <3>2, <4>2, PumpSessionType DEF LaneTypes
    <3>3. QED
      BY <1>5, <3>1, <3>2 DEF SessionTaskDone
  <2>3. QED
    BY <2>1, <2>2, <1>p
<1>6. ASSUME NEW s \in Sessions, clearCommandLane(s)
      PROVE  TypeOK'
  <2>1. OtherTypes'
    BY <1>t, <1>6 DEF clearCommandLane, OtherTypes, loopVars, Promises, Settled
  <2>2. LaneTypes'
    BY <1>t, <1>6 DEF clearCommandLane, LaneTypes, mainVars
  <2>3. QED
    BY <2>1, <2>2, <1>p
<1>7. ASSUME NEW n \in 1..MaxConcurrent, setCommandLaneConcurrency(n)
      PROVE  TypeOK'
  <2>1. OtherTypes'
    BY <1>t, <1>7 DEF setCommandLaneConcurrency, OtherTypes, loopVars
  <2>2. mainQueue' \in Seq(Runs) /\ mainActive' \in SUBSET Runs /\ body' \in [Runs -> Bodies]
    <3>1. n \in Nat /\ PumpMain(mainQueue, mainActive, body, n)
      BY <1>7 DEF setCommandLaneConcurrency
    <3>2. QED
      BY <1>t, <3>1, PumpMainEffect DEF LaneTypes
  <2>3. LaneTypes'
    BY <1>t, <1>7, <2>2 DEF setCommandLaneConcurrency, LaneTypes, sessVars
  <2>4. QED
    BY <2>1, <2>3, <1>p
<1>8. ASSUME RestartInProcess
      PROVE  TypeOK'
  <2>1. OtherTypes'
    BY <1>t, <1>8 DEF RestartInProcess, OtherTypes
  <2>2. LaneTypes'
    <3>1. CASE resetAllLanes
      BY <3>1, ResetType
    <3>2. CASE UNCHANGED <<loop, gatewayDraining, sessVars, mainVars, inner>>
      BY <1>t, <3>2 DEF LaneTypes, sessVars, mainVars
    <3>3. QED
      BY <1>8, <3>1, <3>2 DEF RestartInProcess
  <2>3. QED
    BY <2>1, <2>2, <1>p
<1>9. CASE RequestRestart
  <2>1. ActiveTasks \subseteq {"main", "session"} \X Runs
    BY <1>t DEF ActiveTasks, ActiveSessionTasks, LaneTypes
  <2>2. OtherTypes'
    BY <1>t, <1>9, <2>1 DEF RequestRestart, OtherTypes, NoActiveRuns
  <2>3. LaneTypes'
    BY <1>t, <1>9 DEF RequestRestart, LaneTypes, sessVars, mainVars
  <2>4. QED
    BY <2>2, <2>3, <1>p
<1>10. CASE RequestStop \/ RunsDrained \/ AllDrained \/ DrainTimeout \/ ServerClosed \/ ProcessExits
            \/ \E started \in BOOLEAN : StartSettles(started)
  <2>1. CASE RequestStop
    BY <1>t, <2>1, <1>p DEF RequestStop, LaneTypes, OtherTypes, sessVars, mainVars
  <2>2. CASE RunsDrained
    BY <1>t, <2>2, <1>p DEF RunsDrained, LaneTypes, OtherTypes, sessVars, mainVars
  <2>3. CASE AllDrained
    BY <1>t, <2>3, <1>p DEF AllDrained, LaneTypes, OtherTypes, sessVars, mainVars
  <2>4. CASE DrainTimeout
    BY <1>t, <2>4, <1>p DEF DrainTimeout, LaneTypes, OtherTypes, sessVars, mainVars
  <2>5. CASE ServerClosed
    BY <1>t, <2>5, <1>p DEF ServerClosed, LaneTypes, OtherTypes, sessVars, mainVars
  <2>6. CASE ProcessExits
    BY <1>t, <2>6, <1>p DEF ProcessExits, LaneTypes, OtherTypes, sessVars, mainVars
  <2>7. CASE \E started \in BOOLEAN : StartSettles(started)
    BY <1>t, <2>7, <1>p DEF StartSettles, LaneTypes, OtherTypes, sessVars, mainVars
  <2>8. QED
    BY <1>10, <2>1, <2>2, <2>3, <2>4, <2>5, <2>6, <2>7
<1>11. CASE UNCHANGED vars
  BY <1>t, <1>11, <1>p DEF vars, sessVars, mainVars, loopVars, LaneTypes, OtherTypes
<1>12. QED
  BY <1>1, <1>2, <1>3, <1>4, <1>5, <1>6, <1>7, <1>8, <1>9, <1>10, <1>11 DEF Next, RunStep, LoopStep


-----------------------------------------------------------------------------
(* The pumps keep every run in its place.                                  *)

LEMMA PumpMainPlaces ==
    ASSUME NEW queue \in Seq(Runs), NEW active \in SUBSET Runs,
           NEW bodies \in [Runs -> Bodies], NEW cap \in Nat,
           PumpMain(queue, active, bodies, cap),
           NEW se, NEW inn, NEW out,
           WaitingInMain(queue, inn, bodies), Promised(se, inn, out, bodies)
    PROVE  WaitingInMain(mainQueue', inn, body') /\ Promised(se, inn, out, body')
<1>0. Distinct(queue)
  BY DEF WaitingInMain
<1>1. /\ mainQueue' \in Seq(Runs) /\ mainActive' \in SUBSET Runs /\ body' \in [Runs -> Bodies]
      /\ \A i \in 1..Len(mainQueue') : \E j \in 1..Len(queue) : mainQueue'[i] = queue[j]
      /\ \A r \in Runs : \/ body'[r] = bodies[r]
                         \/ body'[r] = "preparing" /\ \E j \in 1..Len(queue) : queue[j] = r
      /\ Distinct(queue) =>
            /\ Distinct(mainQueue')
            /\ \A i \in 1..Len(mainQueue') : body'[mainQueue'[i]] = bodies[mainQueue'[i]]
  BY PumpMainEffect, ZenonT(30)
<1>2. \A j \in 1..Len(queue) : queue[j] \in Runs /\ inn[queue[j]] = "pending" /\ bodies[queue[j]] = "none"
  BY DEF WaitingInMain
<1>3. WaitingInMain(mainQueue', inn, body')
  <2>1. ASSUME NEW i \in 1..Len(mainQueue')
        PROVE  inn[mainQueue'[i]] = "pending" /\ body'[mainQueue'[i]] = "none"
    <3>1. PICK j \in 1..Len(queue) : mainQueue'[i] = queue[j]
      BY <1>1
    <3>2. QED
      BY <3>1, <1>0, <1>1, <1>2
  <2>2. QED
    BY <2>1, <1>0, <1>1 DEF WaitingInMain
<1>4. ASSUME NEW r \in Runs
      PROVE  /\ body'[r] \in {"preparing", "attempt", "finishing"} => inn[r] = "pending"
             /\ inn[r] = "none" => body'[r] = "none"
  <2>1. CASE body'[r] = bodies[r]
    BY <2>1 DEF Promised
  <2>2. CASE body'[r] = "preparing" /\ \E j \in 1..Len(queue) : queue[j] = r
    BY <2>2, <1>2
  <2>3. QED
    BY <2>1, <2>2, <1>1
<1>5. QED
  BY <1>3, <1>4 DEF Promised

LEMMA PumpSessionPlaces ==
    ASSUME TypeOK,
           NEW s \in Sessions, NEW queue \in Seq(Runs), NEW active \in SUBSET sessActive[s],
           NEW se, NEW out,
           Placed(se, [sessQueue EXCEPT ![s] = queue], [sessActive EXCEPT ![s] = active],
                  mainQueue, inner, out, body),
           PumpSession(s, queue, active)
    PROVE  Placed(se, sessQueue', sessActive', mainQueue', inner', out, body')
<1> DEFINE sq == [sessQueue EXCEPT ![s] = queue]
           sa == [sessActive EXCEPT ![s] = active]
<1>t. /\ LaneTypes /\ maxConcurrent \in Nat
      /\ active \in SUBSET Runs
  BY DEF TypeOK, LaneTypes, Promises, Bodies
<1>s. \A t \in Sessions : /\ sq[t] = IF t = s THEN queue ELSE sessQueue[t]
                          /\ sa[t] = IF t = s THEN active ELSE sessActive[t]
                          /\ sq[t] \in Seq(Runs) /\ sa[t] \in SUBSET Runs
  BY <1>t DEF LaneTypes
<1>h. /\ Waiting(se, sq, inner, out) /\ Active(se, sa, inner, out)
      /\ WaitingInMain(mainQueue, inner, body) /\ Promised(se, inner, out, body)
  BY DEF Placed
<1>1. CASE /\ sessQueue' = sq /\ sessActive' = sa /\ UNCHANGED <<inner, mainVars>>
  BY <1>1 DEF mainVars
<1> HIDE DEF sq, sa
<1>2. ASSUME active = {}, queue # <<>>,
             sessQueue' = [sessQueue EXCEPT ![s] = Tail(queue)],
             sessActive' = [sessActive EXCEPT ![s] = {Head(queue)}],
             \/ inner' = [inner EXCEPT ![Head(queue)] = "drained"] /\ UNCHANGED mainVars
             \/ /\ inner' = [inner EXCEPT ![Head(queue)] = "pending"]
                /\ PumpMain(Append(mainQueue, Head(queue)), mainActive, body, maxConcurrent)
      PROVE  Placed(se, sessQueue', sessActive', mainQueue', inner', out, body')
  <2> DEFINE h == Head(queue)
  <2>1. /\ h \in Runs /\ h = queue[1] /\ Tail(queue) \in Seq(Runs) /\ 1 \in 1..Len(queue)
        /\ Len(Tail(queue)) = Len(queue) - 1 /\ Len(queue) \in Nat
        /\ \A i \in 1..Len(Tail(queue)) : i + 1 \in 1..Len(queue) /\ Tail(queue)[i] = queue[i + 1]
    BY <1>2
  <2> HIDE DEF h
  <2>2. /\ se[h] = s /\ out[h] = "pending" /\ inner[h] = "none"
        /\ Distinct(queue)
        /\ \A i \in 1..Len(queue) : queue[i] = h => i = 1
    BY <1>h, <1>s, <2>1 DEF Waiting, Distinct
  <2>3. /\ inner'[h] \in {"drained", "pending"}
        /\ \A r \in Runs : r # h => inner'[r] = inner[r]
        /\ \A t \in Sessions : /\ sessQueue'[t] = IF t = s THEN Tail(queue) ELSE sq[t]
                               /\ sessActive'[t] = IF t = s THEN {h} ELSE sa[t]
    BY <1>t, <1>s, <1>2, <2>1 DEF LaneTypes, h
  <2>4. Waiting(se, sessQueue', inner', out)
    <3>1. SUFFICES ASSUME NEW t \in Sessions
                   PROVE  /\ Distinct(sessQueue'[t])
                          /\ \A i \in 1..Len(sessQueue'[t]) :
                                /\ se[sessQueue'[t][i]] = t /\ out[sessQueue'[t][i]] = "pending"
                                /\ inner'[sessQueue'[t][i]] = "none"
      BY DEF Waiting
    <3>2. CASE t = s
      <4>1. Distinct(Tail(queue))
        <5>1. SUFFICES ASSUME NEW i \in 1..Len(Tail(queue)), NEW j \in 1..Len(Tail(queue)),
                              Tail(queue)[i] = Tail(queue)[j]
                       PROVE  i = j
          BY DEF Distinct
        <5>2. i + 1 = j + 1
          BY <5>1, <2>1, <2>2 DEF Distinct
        <5>3. QED
          BY <5>1, <5>2, <2>1
      <4>2. ASSUME NEW i \in 1..Len(Tail(queue))
            PROVE  /\ se[Tail(queue)[i]] = s /\ out[Tail(queue)[i]] = "pending"
                   /\ inner'[Tail(queue)[i]] = "none"
        <5>1. i + 1 \in 1..Len(queue) /\ Tail(queue)[i] = queue[i + 1] /\ i + 1 # 1 /\ queue[i + 1] \in Runs
          BY <2>1
        <5>2. queue[i + 1] # h
          BY <5>1, <2>2
        <5>3. se[queue[i + 1]] = s /\ out[queue[i + 1]] = "pending" /\ inner[queue[i + 1]] = "none"
          BY <5>1, <1>h, <1>s DEF Waiting
        <5>4. QED
          BY <5>1, <5>2, <5>3, <2>3
      <4>3. QED
        BY <3>2, <4>1, <4>2, <2>3
    <3>3. CASE t # s
      <4>1. sessQueue'[t] = sq[t] /\ sq[t] \in Seq(Runs)
        BY <3>3, <2>3, <1>s
      <4>2. /\ Distinct(sq[t])
            /\ \A i \in 1..Len(sq[t]) :
                  se[sq[t][i]] = t /\ out[sq[t][i]] = "pending" /\ inner[sq[t][i]] = "none"
        BY <1>h DEF Waiting
      <4>3. \A i \in 1..Len(sq[t]) : sq[t][i] \in Runs /\ sq[t][i] # h
        BY <3>3, <4>1, <4>2, <2>2
      <4>4. QED
        BY <4>1, <4>2, <4>3, <2>3
    <3>4. QED
      BY <3>2, <3>3
  <2>5. Active(se, sessActive', inner', out)
    <3>1. SUFFICES ASSUME NEW t \in Sessions, NEW r \in sessActive'[t]
                   PROVE  se[r] = t /\ out[r] = "pending" /\ inner'[r] # "none"
      BY DEF Active
    <3>2. CASE t = s
      BY <3>1, <3>2, <2>2, <2>3
    <3>3. CASE t # s
      <4>1. r \in sa[t] /\ r \in Runs
        BY <3>1, <3>3, <2>3, <1>s
      <4>2. se[r] = t /\ out[r] = "pending" /\ inner[r] # "none"
        BY <4>1, <1>h DEF Active
      <4>3. QED
        BY <4>1, <4>2, <2>2, <2>3
    <3>4. QED
      BY <3>2, <3>3
  <2>6. body[h] = "none" /\ (se[h] = None => FALSE)
    BY <2>1, <2>2, <1>h DEF Promised
  <2>7. Promised(se, inner', out, body)
    <3>1. SUFFICES ASSUME NEW r \in Runs
                   PROVE  /\ body[r] \in {"preparing", "attempt", "finishing"} => inner'[r] = "pending"
                          /\ inner'[r] = "pending" => out[r] = "pending"
                          /\ inner'[r] = "none" => body[r] = "none"
                          /\ se[r] = None => inner'[r] = "none" /\ out[r] = "none"
      BY DEF Promised
    <3>2. CASE r = h
      BY <3>2, <2>2, <2>3, <2>6
    <3>3. CASE r # h
      BY <3>3, <2>3, <1>h DEF Promised
    <3>4. QED
      BY <3>2, <3>3
  <2>8. \A i \in 1..Len(mainQueue) : mainQueue[i] \in Runs /\ mainQueue[i] # h
    BY <1>t, <1>h, <2>2 DEF WaitingInMain, LaneTypes
  <2>9. WaitingInMain(mainQueue, inner', body)
    BY <2>8, <2>3, <1>h DEF WaitingInMain
  <2>10. CASE UNCHANGED mainVars
    BY <2>4, <2>5, <2>7, <2>9, <2>10 DEF mainVars, Placed
  <2>11. CASE inner'[h] = "pending" /\ PumpMain(Append(mainQueue, h), mainActive, body, maxConcurrent)
    <3> DEFINE q == Append(mainQueue, h)
    <3>1. /\ q \in Seq(Runs) /\ Len(q) = Len(mainQueue) + 1 /\ Len(mainQueue) \in Nat
          /\ \A i \in 1..Len(q) : q[i] = IF i = Len(q) THEN h ELSE mainQueue[i]
      BY <1>t, <2>1 DEF LaneTypes
    <3> HIDE DEF q
    <3>2. \A i \in 1..Len(q) : i = Len(q) \/ i \in 1..Len(mainQueue)
      BY <3>1
    <3>3. Distinct(q)
      BY <3>1, <3>2, <2>8, <2>9 DEF Distinct, WaitingInMain
    <3>4. WaitingInMain(q, inner', body)
      BY <3>1, <3>2, <3>3, <2>6, <2>9, <2>11 DEF WaitingInMain
    <3>5. WaitingInMain(mainQueue', inner', body') /\ Promised(se, inner', out, body')
      BY <3>1, <3>4, <2>7, <2>11, <1>t, PumpMainPlaces DEF LaneTypes, q
    <3>6. QED
      BY <3>5, <2>4, <2>5 DEF Placed
  <2>12. QED
    <3>1. inner' = [inner EXCEPT ![Head(queue)] = "pending"] => inner'[h] = "pending"
      BY <1>t, <2>1 DEF LaneTypes, h
    <3>2. QED
      BY <3>1, <1>2, <2>10, <2>11 DEF h
<1>3. QED
  BY <1>t, <1>1, <1>2, PumpSessionCases DEF sq, sa

\* A started run takes the lane that the pump found idle.
LEMMA PumpSessionHolds ==
    ASSUME TypeOK,
           NEW s \in Sessions, NEW queue \in Seq(Runs), NEW active \in SUBSET sessActive[s],
           NEW se \in [Runs -> Sessions \cup {None}], NEW out,
           Waiting(se, [sessQueue EXCEPT ![s] = queue], inner, out),
           Promised(se, inner, out, body),
           Holds(se, [sessActive EXCEPT ![s] = active], inner, out),
           PumpSession(s, queue, active)
    PROVE  Holds(se, sessActive', inner', out)
<1> DEFINE sa == [sessActive EXCEPT ![s] = active]
<1>t. /\ LaneTypes /\ active \in SUBSET Runs
  BY DEF TypeOK, LaneTypes, Promises, Bodies
<1>s. \A t \in Sessions : sa[t] = IF t = s THEN active ELSE sessActive[t]
  BY <1>t DEF LaneTypes
<1>1. CASE sessActive' = sa /\ inner' = inner
  BY <1>1
<1> HIDE DEF sa
<1>2. ASSUME active = {}, queue # <<>>,
             sessActive' = [sessActive EXCEPT ![s] = {Head(queue)}],
             \/ inner' = [inner EXCEPT ![Head(queue)] = "drained"]
             \/ inner' = [inner EXCEPT ![Head(queue)] = "pending"]
      PROVE  Holds(se, sessActive', inner', out)
  <2> DEFINE h == Head(queue)
  <2>1. h \in Runs /\ h = queue[1] /\ 1 \in 1..Len(queue)
    BY <1>2
  <2> HIDE DEF h
  <2>2. se[h] = s
    <3>1. [sessQueue EXCEPT ![s] = queue][s] = queue
      BY <1>t DEF LaneTypes
    <3>2. QED
      BY <2>1, <3>1 DEF Waiting
  <2>3. /\ \A r \in Runs : r # h => inner'[r] = inner[r]
        /\ \A t \in Sessions : sessActive'[t] = IF t = s THEN {h} ELSE sa[t]
    BY <1>t, <1>s, <1>2, <2>1 DEF LaneTypes, h
  <2>4. SUFFICES ASSUME NEW r \in Runs, inner'[r] # "none", out[r] = "pending"
                 PROVE  r \in sessActive'[se[r]]
    BY DEF Holds
  <2>5. CASE r = h
    BY <2>5, <2>2, <2>3
  <2>6. CASE r # h
    <3>1. inner[r] # "none" /\ se[r] \in Sessions
      BY <2>4, <2>6, <2>3 DEF Promised
    <3>2. r \in sa[se[r]]
      BY <3>1, <2>4 DEF Holds, sa
    <3>3. QED
      BY <3>1, <3>2, <2>3, <1>s, <1>2
  <2>7. QED
    BY <2>5, <2>6
<1>3. QED
  BY <1>t, <1>1, <1>2, PumpSessionCases DEF sa

-----------------------------------------------------------------------------
(* Every handler keeps every run in its place.                             *)

\* A run that was not submitted is in no lane.
LEMMA FreshRun ==
    ASSUME TypeOK, Placement, NEW r \in Runs, session[r] = None
    PROVE  /\ \A s \in Sessions : r \notin sessActive[s]
           /\ \A s \in Sessions : \A i \in 1..Len(sessQueue[s]) : sessQueue[s][i] # r
           /\ \A i \in 1..Len(mainQueue) : mainQueue[i] # r
           /\ inner[r] = "none" /\ outer[r] = "none" /\ body[r] = "none"
<1>1. inner[r] = "none" /\ outer[r] = "none" /\ body[r] = "none"
  BY DEF Placement, Placed, Promised
<1>2. \A s \in Sessions : r \notin sessActive[s]
  BY DEF Placement, Placed, Active
<1>3. \A s \in Sessions : \A i \in 1..Len(sessQueue[s]) : sessQueue[s][i] # r
  BY <1>1 DEF Placement, Placed, Waiting
<1>4. \A i \in 1..Len(mainQueue) : mainQueue[i] # r
  BY <1>1 DEF Placement, Placed, WaitingInMain
<1>5. QED
  BY <1>1, <1>2, <1>3, <1>4

\* The lanes as runEmbeddedPiAgent finds them when it pumps.
LEMMA SubmittedPlaces ==
    ASSUME TypeOK, Placement, NEW r \in Runs, NEW s \in Sessions, session[r] = None,
           session' = [session EXCEPT ![r] = s],
           outer' = [outer EXCEPT ![r] = "pending"]
    PROVE  Placed(session', [sessQueue EXCEPT ![s] = Append(sessQueue[s], r)],
                  [sessActive EXCEPT ![s] = sessActive[s]], mainQueue, inner, outer', body)
<1> DEFINE q  == Append(sessQueue[s], r)
           sq == [sessQueue EXCEPT ![s] = q]
<1>t. LaneTypes /\ OtherTypes
  BY TypeParts
<1>f. /\ \A t \in Sessions : r \notin sessActive[t]
      /\ \A t \in Sessions : \A i \in 1..Len(sessQueue[t]) : sessQueue[t][i] # r
      /\ \A i \in 1..Len(mainQueue) : mainQueue[i] # r
      /\ inner[r] = "none" /\ outer[r] = "none" /\ body[r] = "none"
  BY FreshRun
<1>p. /\ Waiting(session, sessQueue, inner, outer) /\ Active(session, sessActive, inner, outer)
      /\ WaitingInMain(mainQueue, inner, body) /\ Promised(session, inner, outer, body)
  BY DEF Placement, Placed
<1>1. /\ \A x \in Runs : session'[x] = IF x = r THEN s ELSE session[x]
      /\ \A x \in Runs : outer'[x] = IF x = r THEN "pending" ELSE outer[x]
  BY <1>t DEF OtherTypes
<1>2. /\ q \in Seq(Runs) /\ Len(q) = Len(sessQueue[s]) + 1 /\ Len(sessQueue[s]) \in Nat
      /\ \A i \in 1..Len(q) : q[i] = IF i = Len(q) THEN r ELSE sessQueue[s][i]
  BY <1>t DEF LaneTypes
<1>3. \A t \in Sessions : sq[t] = IF t = s THEN q ELSE sessQueue[t]
  BY <1>t DEF LaneTypes
<1> HIDE DEF q, sq
<1>4. \A i \in 1..Len(q) : i = Len(q) \/ i \in 1..Len(sessQueue[s])
  BY <1>2
<1>5. Waiting(session', sq, inner, outer')
  <2>1. ASSUME NEW t \in Sessions, t # s
        PROVE  /\ Distinct(sq[t])
               /\ \A i \in 1..Len(sq[t]) :
                     session'[sq[t][i]] = t /\ outer'[sq[t][i]] = "pending" /\ inner[sq[t][i]] = "none"
    <3>1. sq[t] = sessQueue[t] /\ \A i \in 1..Len(sessQueue[t]) : sessQueue[t][i] \in Runs
      BY <2>1, <1>3, <1>t DEF LaneTypes
    <3>2. QED
      BY <3>1, <1>1, <1>f, <1>p DEF Waiting
  <2>2. Distinct(q)
    BY <1>2, <1>4, <1>f, <1>p DEF Waiting, Distinct
  <2>3. \A i \in 1..Len(q) : session'[q[i]] = s /\ outer'[q[i]] = "pending" /\ inner[q[i]] = "none"
    <3>1. \A i \in 1..Len(sessQueue[s]) : sessQueue[s][i] \in Runs
      BY <1>t DEF LaneTypes
    <3>2. QED
      BY <3>1, <1>1, <1>2, <1>4, <1>f, <1>p DEF Waiting
  <2>4. QED
    BY <2>1, <2>2, <2>3, <1>3 DEF Waiting
<1>6. [sessActive EXCEPT ![s] = sessActive[s]] = sessActive
  BY <1>t DEF LaneTypes
<1>7. Active(session', sessActive, inner, outer')
  BY <1>t, <1>f, <1>p, <1>1 DEF Active, LaneTypes
<1>8. Promised(session', inner, outer', body)
  BY <1>f, <1>p, <1>1 DEF Promised
<1>9. QED
  BY <1>5, <1>6, <1>7, <1>8, <1>p DEF Placed, sq, q

\* The lanes as completeTask of a session-lane task finds them.
LEMMA SettledPlaces ==
    ASSUME TypeOK, Placement, NEW r \in Settling, outer' = [outer EXCEPT ![r] = inner[r]]
    PROVE  /\ session[r] \in Sessions
           /\ Placed(session, sessQueue, [sessActive EXCEPT ![session[r]] = sessActive[session[r]] \ {r}],
                     mainQueue, inner, outer', body)
<1> DEFINE s  == session[r]
           sa == [sessActive EXCEPT ![s] = sessActive[s] \ {r}]
<1>t. LaneTypes /\ OtherTypes
  BY TypeParts
<1>p. /\ Waiting(session, sessQueue, inner, outer) /\ Active(session, sessActive, inner, outer)
      /\ WaitingInMain(mainQueue, inner, body) /\ Promised(session, inner, outer, body)
  BY DEF Placement, Placed
<1>1. r \in Runs /\ inner[r] \in Settled /\ outer[r] = "pending" /\ inner[r] \notin {"none", "pending"}
  BY DEF Settling, Settled
<1>2. s \in Sessions
  BY <1>1, <1>p, <1>t DEF Promised, OtherTypes
<1>3. \A x \in Runs : outer'[x] = IF x = r THEN inner[x] ELSE outer[x]
  BY <1>1, <1>t DEF OtherTypes
<1>4. \A t \in Sessions : sa[t] = IF t = s THEN sessActive[s] \ {r} ELSE sessActive[t]
  BY <1>2, <1>t DEF LaneTypes
<1> HIDE DEF sa
<1>5. Waiting(session, sessQueue, inner, outer')
  <2>1. \A t \in Sessions : \A i \in 1..Len(sessQueue[t]) : sessQueue[t][i] \in Runs /\ sessQueue[t][i] # r
    BY <1>1, <1>p, <1>t DEF Waiting, LaneTypes
  <2>2. QED
    BY <2>1, <1>3, <1>p DEF Waiting
<1>6. Active(session, sa, inner, outer')
  <2>1. SUFFICES ASSUME NEW t \in Sessions, NEW x \in sa[t]
                 PROVE  session[x] = t /\ outer'[x] = "pending" /\ inner[x] # "none"
    BY DEF Active
  <2>2. x \in sessActive[t] /\ x \in Runs
    BY <2>1, <1>4, <1>2, <1>t DEF LaneTypes
  <2>3. session[x] = t /\ outer[x] = "pending" /\ inner[x] # "none"
    BY <2>2, <1>p DEF Active
  <2>4. x # r
    BY <2>1, <2>3, <1>4
  <2>5. QED
    BY <2>2, <2>3, <2>4, <1>3
<1>7. Promised(session, inner, outer', body)
  BY <1>1, <1>2, <1>3, <1>p DEF Promised
<1>8. QED
  BY <1>2, <1>5, <1>6, <1>7, <1>p DEF Placed, sa

LEMMA ResetPlaces ==
    ASSUME TypeOK, Placement, resetAllLanes
    PROVE  Placed(session, sessQueue', sessActive', mainQueue', inner', outer, body')
<1>t. LaneTypes /\ OtherTypes /\ maxConcurrent \in Nat
  BY TypeParts DEF OtherTypes
<1>p. /\ Waiting(session, sessQueue, inner, outer) /\ Active(session, sessActive, inner, outer)
      /\ WaitingInMain(mainQueue, inner, body) /\ Promised(session, inner, outer, body)
  BY DEF Placement, Placed
<1>1. PICK order \in Orders(Heads) : PumpMain(mainQueue \o order, {}, body, maxConcurrent)
  BY DEF resetAllLanes
<1>2. /\ Heads \in SUBSET Runs
      /\ order \in Seq(Runs) /\ Distinct(order)
      /\ \A i \in 1..Len(order) : order[i] \in Heads
  BY <1>t, OrderOfHeads DEF LaneTypes
<1>3. \A r \in Runs : inner'[r] = IF r \in Heads THEN "pending" ELSE inner[r]
  BY DEF resetAllLanes
<1>4. \A r : r \in Heads <=> \E s \in Sessions : sessQueue[s] # <<>> /\ r = Head(sessQueue[s])
  BY DEF Heads
<1>5. \A s \in Sessions :
         /\ sessQueue'[s] = IF sessQueue[s] = <<>> THEN <<>> ELSE Tail(sessQueue[s])
         /\ sessActive'[s] = IF sessQueue[s] = <<>> THEN {} ELSE {Head(sessQueue[s])}
  BY DEF resetAllLanes
<1>6. \A s \in Sessions : sessQueue[s] # <<>> =>
         /\ Head(sessQueue[s]) = sessQueue[s][1] /\ 1 \in 1..Len(sessQueue[s])
         /\ \A i \in 1..Len(Tail(sessQueue[s])) :
               i + 1 \in 1..Len(sessQueue[s]) /\ i + 1 # 1 /\ Tail(sessQueue[s])[i] = sessQueue[s][i + 1]
  BY <1>t DEF LaneTypes
<1>7. \A r \in Heads : /\ r \in Runs /\ inner[r] = "none" /\ outer[r] = "pending" /\ body[r] = "none"
                       /\ session[r] \in Sessions
                       /\ sessQueue[session[r]] # <<>> /\ r = Head(sessQueue[session[r]])
  <2>1. SUFFICES ASSUME NEW s \in Sessions, sessQueue[s] # <<>>
                 PROVE  LET r == Head(sessQueue[s])
                        IN  /\ inner[r] = "none" /\ outer[r] = "pending" /\ body[r] = "none"
                            /\ session[r] = s
    BY <1>2, <1>4
  <2>2. Head(sessQueue[s]) \in Runs
    BY <2>1, <1>2, <1>4
  <2>3. QED
    BY <2>1, <2>2, <1>6, <1>p DEF Waiting, Promised
<1>tails. ASSUME NEW s \in Sessions, sessQueue[s] # <<>>
          PROVE  /\ Distinct(Tail(sessQueue[s]))
                 /\ \A i \in 1..Len(Tail(sessQueue[s])) :
                       /\ session[Tail(sessQueue[s])[i]] = s
                       /\ outer[Tail(sessQueue[s])[i]] = "pending"
                       /\ inner'[Tail(sessQueue[s])[i]] = "none"
  <2>2. /\ Distinct(sessQueue[s]) /\ Len(Tail(sessQueue[s])) \in Nat
        /\ \A i \in 1..Len(sessQueue[s]) :
              /\ sessQueue[s][i] \in Runs
              /\ session[sessQueue[s][i]] = s /\ outer[sessQueue[s][i]] = "pending"
              /\ inner[sessQueue[s][i]] = "none"
    BY <1>tails, <1>p, <1>t DEF Waiting, LaneTypes
  <2>3. Distinct(Tail(sessQueue[s]))
    <3>1. SUFFICES ASSUME NEW i \in 1..Len(Tail(sessQueue[s])), NEW j \in 1..Len(Tail(sessQueue[s])),
                          Tail(sessQueue[s])[i] = Tail(sessQueue[s])[j]
                   PROVE  i = j
      BY DEF Distinct
    <3>2. i + 1 = j + 1
      BY <3>1, <1>tails, <2>2, <1>6 DEF Distinct
    <3>3. QED
      BY <3>1, <3>2, <2>2
  <2>4. ASSUME NEW i \in 1..Len(Tail(sessQueue[s]))
        PROVE  /\ session[Tail(sessQueue[s])[i]] = s
               /\ outer[Tail(sessQueue[s])[i]] = "pending"
               /\ inner'[Tail(sessQueue[s])[i]] = "none"
    <3> DEFINE r == Tail(sessQueue[s])[i]
    <3>1. i + 1 \in 1..Len(sessQueue[s]) /\ i + 1 # 1 /\ r = sessQueue[s][i + 1] /\ r \in Runs
          /\ 1 \in 1..Len(sessQueue[s]) /\ Head(sessQueue[s]) = sessQueue[s][1]
      BY <1>tails, <2>2, <1>6
    <3>2. session[r] = s /\ outer[r] = "pending" /\ inner[r] = "none"
      BY <3>1, <2>2
    <3>3. r # Head(sessQueue[s])
      BY <3>1, <2>2 DEF Distinct
    <3> HIDE DEF r
    <3>4. r \notin Heads
      BY <3>2, <3>3, <1>7
    <3>5. inner'[r] = "none"
      BY <3>1, <3>2, <3>4, <1>3
    <3>6. QED
      BY <3>2, <3>5 DEF r
  <2>5. QED
    BY <2>3, <2>4
<1>8. Waiting(session, sessQueue', inner', outer)
  <2>1. Distinct(<<>>) /\ \A i : i \notin 1..Len(<<>>)
    BY DEF Distinct
  <2>2. ASSUME NEW t \in Sessions, sessQueue[t] = <<>>
        PROVE  sessQueue'[t] = <<>>
    BY <2>2, <1>5
  <2>3. ASSUME NEW t \in Sessions, sessQueue[t] # <<>>
        PROVE  sessQueue'[t] = Tail(sessQueue[t])
    BY <2>3, <1>5
  <2>4. ASSUME NEW t \in Sessions
        PROVE  /\ Distinct(sessQueue'[t])
               /\ \A i \in 1..Len(sessQueue'[t]) :
                     /\ session[sessQueue'[t][i]] = t /\ outer[sessQueue'[t][i]] = "pending"
                     /\ inner'[sessQueue'[t][i]] = "none"
    <3>1. CASE sessQueue[t] = <<>>
      BY <2>1, <2>2, <3>1
    <3>2. CASE sessQueue[t] # <<>>
      <4>1. sessQueue'[t] = Tail(sessQueue[t])
        BY <2>3, <3>2
      <4>2. /\ Distinct(Tail(sessQueue[t]))
            /\ \A i \in 1..Len(Tail(sessQueue[t])) :
                  /\ session[Tail(sessQueue[t])[i]] = t
                  /\ outer[Tail(sessQueue[t])[i]] = "pending"
                  /\ inner'[Tail(sessQueue[t])[i]] = "none"
        BY <1>tails, <3>2, Zenon
      <4>3. QED
        BY <4>1, <4>2
    <3>3. QED
      BY <3>1, <3>2
  <2>5. QED
    BY <2>4 DEF Waiting
<1>9. Active(session, sessActive', inner', outer)
  <2>1. SUFFICES ASSUME NEW s \in Sessions, NEW r \in sessActive'[s]
                 PROVE  session[r] = s /\ outer[r] = "pending" /\ inner'[r] # "none"
    BY DEF Active
  <2>2. sessQueue[s] # <<>> /\ r = Head(sessQueue[s])
    BY <2>1, <1>5
  <2>3. r \in Heads
    BY <2>2, <1>4
  <2>4. session[r] = s
    BY <2>2, <2>3, <1>6, <1>p DEF Waiting
  <2>5. QED
    BY <2>3, <2>4, <1>3, <1>7
<1>10. Promised(session, inner', outer, body)
  <2>1. SUFFICES ASSUME NEW r \in Runs
                 PROVE  /\ body[r] \in {"preparing", "attempt", "finishing"} => inner'[r] = "pending"
                        /\ inner'[r] = "pending" => outer[r] = "pending"
                        /\ inner'[r] = "none" => body[r] = "none"
                        /\ session[r] = None => inner'[r] = "none" /\ outer[r] = "none"
    BY DEF Promised
  <2>2. CASE r \in Heads
    BY <2>2, <1>3, <1>7
  <2>3. CASE r \notin Heads
    BY <2>3, <1>3, <1>p DEF Promised
  <2>4. QED
    BY <2>2, <2>3
<1>11. WaitingInMain(mainQueue \o order, inner', body)
  <2> DEFINE q == mainQueue \o order
  <2>1. /\ q \in Seq(Runs) /\ Len(q) = Len(mainQueue) + Len(order)
        /\ Len(mainQueue) \in Nat /\ Len(order) \in Nat
        /\ \A i \in 1..Len(q) : q[i] = IF i <= Len(mainQueue) THEN mainQueue[i] ELSE order[i - Len(mainQueue)]
    BY <1>t, <1>2, ConcatProperties DEF LaneTypes
  <2> HIDE DEF q
  <2>2. /\ Distinct(mainQueue)
        /\ \A i \in 1..Len(mainQueue) : /\ mainQueue[i] \in Runs /\ inner[mainQueue[i]] = "pending"
                                        /\ body[mainQueue[i]] = "none"
    BY <1>p, <1>t DEF WaitingInMain, LaneTypes
  <2>3. \A i \in 1..Len(order) : order[i] \in Heads
    BY <1>2
  <2>4. \A i \in 1..Len(mainQueue) : mainQueue[i] \notin Heads
    BY <2>2, <1>7
  <2>5. \A i \in 1..Len(q) : \/ i \in 1..Len(mainQueue) /\ q[i] = mainQueue[i]
                             \/ i - Len(mainQueue) \in 1..Len(order) /\ q[i] = order[i - Len(mainQueue)]
    BY <2>1
  <2>6. Distinct(q)
    <3>1. SUFFICES ASSUME NEW i \in 1..Len(q), NEW j \in 1..Len(q), q[i] = q[j]
                   PROVE  i = j
      BY DEF Distinct
    <3>2. CASE i \in 1..Len(mainQueue) /\ q[i] = mainQueue[i]
      <4>1. q[j] \notin Heads
        BY <3>1, <3>2, <2>4
      <4>2. j \in 1..Len(mainQueue) /\ q[j] = mainQueue[j]
        BY <4>1, <2>3, <2>5
      <4>3. QED
        BY <3>1, <3>2, <4>2, <2>2 DEF Distinct
    <3>3. CASE i - Len(mainQueue) \in 1..Len(order) /\ q[i] = order[i - Len(mainQueue)]
      <4>1. j - Len(mainQueue) \in 1..Len(order) /\ q[j] = order[j - Len(mainQueue)]
        BY <3>1, <3>3, <2>3, <2>4, <2>5
      <4>2. i - Len(mainQueue) = j - Len(mainQueue)
        BY <3>1, <3>3, <4>1, <1>2 DEF Distinct
      <4>3. QED
        BY <4>2, <2>1
    <3>4. QED
      BY <3>2, <3>3, <2>5
  <2>7. ASSUME NEW i \in 1..Len(q)
        PROVE  inner'[q[i]] = "pending" /\ body[q[i]] = "none"
    <3>1. CASE i \in 1..Len(mainQueue) /\ q[i] = mainQueue[i]
      BY <3>1, <2>2, <2>4, <1>3
    <3>2. CASE i - Len(mainQueue) \in 1..Len(order) /\ q[i] = order[i - Len(mainQueue)]
      <4>1. q[i] \in Heads
        BY <3>2, <2>3
      <4>2. QED
        BY <4>1, <1>3, <1>7
    <3>3. QED
      BY <3>1, <3>2, <2>5
  <2>8. QED
    BY <2>6, <2>7 DEF WaitingInMain, q
<1>12. WaitingInMain(mainQueue', inner', body') /\ Promised(session, inner', outer, body')
  <2>1. mainQueue \o order \in Seq(Runs) /\ body \in [Runs -> Bodies] /\ {} \in SUBSET Runs
    BY <1>t, <1>2, ConcatProperties DEF LaneTypes
  <2>2. QED
    BY <2>1, <1>1, <1>10, <1>11, <1>t, PumpMainPlaces
<1>13. QED
  BY <1>8, <1>9, <1>12 DEF Placed

LEMMA PlacementStep ==
    ASSUME TypeOK, Placement, [Next]_vars
    PROVE  Placement'
<1>t. LaneTypes /\ OtherTypes /\ maxConcurrent \in Nat
  BY TypeParts DEF OtherTypes
<1>p. /\ Waiting(session, sessQueue, inner, outer) /\ Active(session, sessActive, inner, outer)
      /\ WaitingInMain(mainQueue, inner, body) /\ Promised(session, inner, outer, body)
  BY DEF Placement, Placed
<1>0. ASSUME UNCHANGED <<session, sessQueue, sessActive, mainQueue, inner, outer, body>>
      PROVE  Placement'
  BY <1>0 DEF Placement
<1>1. ASSUME NEW r \in Runs, NEW s \in Sessions, runEmbeddedPiAgent(r, s)
      PROVE  Placement'
  <2>1. session[r] = None /\ session' = [session EXCEPT ![r] = s]
    BY <1>1 DEF runEmbeddedPiAgent
  <2>2. CASE gatewayDraining
    <3>1. /\ outer' = [outer EXCEPT ![r] = "drained"]
          /\ UNCHANGED <<sessQueue, sessActive, mainQueue, inner, body>>
      BY <1>1, <2>2 DEF runEmbeddedPiAgent, sessVars, mainVars
    <3>2. /\ \A x \in Runs : session'[x] = IF x = r THEN s ELSE session[x]
          /\ \A x \in Runs : outer'[x] = IF x = r THEN "drained" ELSE outer[x]
      BY <2>1, <3>1, <1>t DEF OtherTypes
    <3>3. /\ \A t \in Sessions : r \notin sessActive[t]
          /\ \A t \in Sessions : \A i \in 1..Len(sessQueue[t]) : sessQueue[t][i] # r
          /\ inner[r] = "none" /\ body[r] = "none"
      BY <2>1, FreshRun
    <3>4. Waiting(session', sessQueue, inner, outer')
      <4>1. \A t \in Sessions : \A i \in 1..Len(sessQueue[t]) : sessQueue[t][i] \in Runs
        BY <1>t DEF LaneTypes
      <4>2. QED
        BY <4>1, <3>2, <3>3, <1>p DEF Waiting
    <3>5. Active(session', sessActive, inner, outer')
      BY <3>2, <3>3, <1>p, <1>t DEF Active, LaneTypes
    <3>6. Promised(session', inner, outer', body)
      BY <3>2, <3>3, <1>p DEF Promised
    <3>7. QED
      BY <3>1, <3>4, <3>5, <3>6, <1>p DEF Placement, Placed
  <2>3. CASE ~gatewayDraining
    <3>1. /\ outer' = [outer EXCEPT ![r] = "pending"]
          /\ PumpSession(s, Append(sessQueue[s], r), sessActive[s])
      BY <1>1, <2>3 DEF runEmbeddedPiAgent
    <3>2. Append(sessQueue[s], r) \in Seq(Runs) /\ sessActive[s] \in SUBSET sessActive[s]
      BY <1>t DEF LaneTypes
    <3>3. Placed(session', [sessQueue EXCEPT ![s] = Append(sessQueue[s], r)],
                 [sessActive EXCEPT ![s] = sessActive[s]], mainQueue, inner, outer', body)
      BY <2>1, <3>1, SubmittedPlaces
    <3>4. QED
      BY <3>1, <3>2, <3>3, PumpSessionPlaces DEF Placement
  <2>4. QED
    BY <2>2, <2>3
<1>2. ASSUME NEW r \in Runs, setActiveEmbeddedRun(r) \/ clearActiveEmbeddedRun(r)
      PROVE  Placement'
  <2>1. /\ body[r] \in {"preparing", "attempt"}
        /\ \E b \in {"attempt", "finishing"} : body' = [body EXCEPT ![r] = b]
        /\ UNCHANGED <<session, sessQueue, sessActive, mainQueue, inner, outer>>
    BY <1>2 DEF setActiveEmbeddedRun, clearActiveEmbeddedRun, sessVars
  <2>2. /\ body'[r] \in {"attempt", "finishing"}
        /\ \A x \in Runs : x # r => body'[x] = body[x]
    BY <2>1, <1>t DEF LaneTypes
  <2>3. inner[r] = "pending"
    BY <2>1, <1>p DEF Promised
  <2>4. WaitingInMain(mainQueue, inner, body')
    <3>1. \A i \in 1..Len(mainQueue) : mainQueue[i] \in Runs /\ mainQueue[i] # r
      BY <2>1, <1>p, <1>t DEF WaitingInMain, LaneTypes
    <3>2. QED
      BY <3>1, <2>2, <1>p DEF WaitingInMain
  <2>5. Promised(session, inner, outer, body')
    BY <2>2, <2>3, <1>p DEF Promised
  <2>6. QED
    BY <2>1, <2>4, <2>5, <1>p DEF Placement, Placed
<1>3. ASSUME NEW r \in Runs, MainTaskDone(r)
      PROVE  Placement'
  <2> DEFINE bo == [body EXCEPT ![r] = "done"]
  <2>1. /\ body[r] \in {"preparing", "finishing"} /\ inner' = [inner EXCEPT ![r] = "ended"]
        /\ UNCHANGED <<session, sessQueue, sessActive, outer>>
        /\ \/ PumpMain(mainQueue, mainActive \ {r}, bo, maxConcurrent)
           \/ body' = bo /\ mainQueue' = mainQueue
    BY <1>3 DEF MainTaskDone, sessVars
  <2>2. /\ bo \in [Runs -> Bodies] /\ mainQueue \in Seq(Runs) /\ mainActive \ {r} \in SUBSET Runs
        /\ \A x \in Runs : bo[x] = IF x = r THEN "done" ELSE body[x]
        /\ \A x \in Runs : inner'[x] = IF x = r THEN "ended" ELSE inner[x]
    BY <2>1, <1>t DEF LaneTypes, Bodies
  <2> HIDE DEF bo
  <2>3. inner[r] = "pending" /\ session[r] # None
    BY <2>1, <1>p DEF Promised
  <2>4. Waiting(session, sessQueue, inner', outer)
    <3>1. \A t \in Sessions : \A i \in 1..Len(sessQueue[t]) : sessQueue[t][i] \in Runs /\ sessQueue[t][i] # r
      BY <2>3, <1>p, <1>t DEF Waiting, LaneTypes
    <3>2. QED
      BY <3>1, <2>2, <1>p DEF Waiting
  <2>5. Active(session, sessActive, inner', outer)
    BY <2>2, <1>p, <1>t DEF Active, LaneTypes
  <2>6. WaitingInMain(mainQueue, inner', bo)
    <3>1. \A i \in 1..Len(mainQueue) : mainQueue[i] \in Runs /\ mainQueue[i] # r
      BY <2>1, <1>p, <1>t DEF WaitingInMain, LaneTypes
    <3>2. QED
      BY <3>1, <2>2, <1>p DEF WaitingInMain
  <2>7. Promised(session, inner', outer, bo)
    BY <2>2, <2>3, <1>p DEF Promised
  <2>8. WaitingInMain(mainQueue', inner', body') /\ Promised(session, inner', outer, body')
    <3>1. CASE PumpMain(mainQueue, mainActive \ {r}, bo, maxConcurrent)
      BY <3>1, <2>2, <2>6, <2>7, <1>t, PumpMainPlaces
    <3>2. CASE body' = bo /\ mainQueue' = mainQueue
      BY <3>2, <2>6, <2>7
    <3>3. QED
      BY <3>1, <3>2, <2>1
  <2>9. QED
    BY <2>1, <2>4, <2>5, <2>8 DEF Placement, Placed
<1>4. ASSUME NEW r \in Runs, SessionTaskDone(r)
      PROVE  Placement'
  <2> DEFINE s == session[r]
  <2>1. r \in Settling /\ outer' = [outer EXCEPT ![r] = inner[r]] /\ session' = session
    BY <1>4 DEF SessionTaskDone
  <2>2. /\ s \in Sessions
        /\ Placed(session, sessQueue, [sessActive EXCEPT ![s] = sessActive[s] \ {r}],
                  mainQueue, inner, outer', body)
    BY <2>1, SettledPlaces
  <2>3. [sessQueue EXCEPT ![s] = sessQueue[s]] = sessQueue /\ sessQueue[s] \in Seq(Runs)
    BY <2>2, <1>t DEF LaneTypes
  <2> HIDE DEF s
  <2>4. CASE r \in sessActive[s]
    <3>1. PumpSession(s, sessQueue[s], sessActive[s] \ {r})
      BY <2>4, <1>4 DEF SessionTaskDone, s
    <3>2. QED
      BY <3>1, <2>1, <2>2, <2>3, PumpSessionPlaces DEF Placement
  <2>5. CASE r \notin sessActive[s]
    <3>1. UNCHANGED <<sessQueue, sessActive, mainQueue, body, inner>>
      BY <2>5, <1>4 DEF SessionTaskDone, sessVars, mainVars, s
    <3>2. [sessActive EXCEPT ![s] = sessActive[s] \ {r}] = sessActive
      BY <2>2, <2>5, <1>t DEF LaneTypes
    <3>3. QED
      BY <3>1, <3>2, <2>1, <2>2 DEF Placement
  <2>6. QED
    BY <2>4, <2>5
<1>5. ASSUME NEW s \in Sessions, clearCommandLane(s)
      PROVE  Placement'
  <2>1. /\ \A r \in Runs : outer'[r] = IF \E i \in 1..Len(sessQueue[s]) : sessQueue[s][i] = r
                                      THEN "cleared" ELSE outer[r]
        /\ sessQueue' = [sessQueue EXCEPT ![s] = <<>>]
        /\ UNCHANGED <<session, sessActive, mainQueue, body, inner>>
    BY <1>5 DEF clearCommandLane, mainVars
  <2>2. \A t \in Sessions : sessQueue'[t] = IF t = s THEN <<>> ELSE sessQueue[t]
    BY <2>1, <1>t DEF LaneTypes
  <2>3. ASSUME NEW r \in Runs, session[r] # s \/ inner[r] # "none"
        PROVE  outer'[r] = outer[r]
    BY <2>1, <2>3, <1>p DEF Waiting
  <2>4. Waiting(session, sessQueue', inner, outer')
    <3>1. SUFFICES ASSUME NEW t \in Sessions
                   PROVE  /\ Distinct(sessQueue'[t])
                          /\ \A i \in 1..Len(sessQueue'[t]) :
                                /\ session[sessQueue'[t][i]] = t /\ outer'[sessQueue'[t][i]] = "pending"
                                /\ inner[sessQueue'[t][i]] = "none"
      BY DEF Waiting
    <3>2. CASE t = s
      <4>1. sessQueue'[t] = <<>>
        BY <3>2, <2>2
      <4>2. QED
        BY <4>1 DEF Distinct
    <3>3. CASE t # s
      <4>1. sessQueue'[t] = sessQueue[t] /\ \A i \in 1..Len(sessQueue[t]) : sessQueue[t][i] \in Runs
        BY <3>3, <2>2, <1>t DEF LaneTypes
      <4>2. QED
        BY <3>3, <4>1, <2>3, <1>p DEF Waiting
    <3>4. QED
      BY <3>2, <3>3
  <2>5. Active(session, sessActive, inner, outer')
    BY <2>3, <1>p, <1>t DEF Active, LaneTypes
  <2>6. Promised(session, inner, outer', body)
    BY <2>3, <1>p DEF Promised
  <2>7. QED
    BY <2>1, <2>4, <2>5, <2>6, <1>p DEF Placement, Placed
<1>6. ASSUME NEW n \in 1..MaxConcurrent, setCommandLaneConcurrency(n)
      PROVE  Placement'
  <2>1. /\ PumpMain(mainQueue, mainActive, body, n) /\ n \in Nat
        /\ UNCHANGED <<session, sessQueue, sessActive, inner, outer>>
    BY <1>6 DEF setCommandLaneConcurrency, sessVars
  <2>2. mainQueue \in Seq(Runs) /\ mainActive \in SUBSET Runs /\ body \in [Runs -> Bodies]
    BY <1>t DEF LaneTypes
  <2>3. WaitingInMain(mainQueue', inner, body') /\ Promised(session, inner, outer, body')
    BY <2>1, <2>2, <1>p, PumpMainPlaces
  <2>4. QED
    BY <2>1, <2>3, <1>p DEF Placement, Placed
<1>7. ASSUME RestartInProcess
      PROVE  Placement'
  <2>1. session' = session /\ outer' = outer
    BY <1>7 DEF RestartInProcess
  <2>2. CASE resetAllLanes
    BY <2>1, <2>2, ResetPlaces DEF Placement
  <2>3. CASE UNCHANGED <<sessVars, mainVars, inner>>
    BY <2>1, <2>3, <1>0 DEF sessVars, mainVars
  <2>4. QED
    BY <1>7, <2>2, <2>3 DEF RestartInProcess
<1>8. ASSUME \/ RequestRestart \/ RequestStop \/ RunsDrained \/ AllDrained \/ DrainTimeout
             \/ ServerClosed \/ ProcessExits \/ \E started \in BOOLEAN : StartSettles(started)
      PROVE  Placement'
  BY <1>8, <1>0 DEF RequestRestart, RequestStop, RunsDrained, AllDrained, DrainTimeout,
                    ServerClosed, ProcessExits, StartSettles, sessVars, mainVars
<1>9. CASE UNCHANGED vars
  BY <1>9, <1>0 DEF vars, sessVars, mainVars
<1>10. QED
  BY <1>1, <1>2, <1>3, <1>4, <1>5, <1>6, <1>7, <1>8, <1>9 DEF Next, RunStep, LoopStep

-----------------------------------------------------------------------------
(* The run loop.                                                           *)

LEMMA LoopStepInv ==
    ASSUME TypeOK, LoopInv, [Next]_vars
    PROVE  LoopInv'
<1>t. gatewayDraining \in BOOLEAN /\ missed \in BOOLEAN
  BY DEF TypeOK
<1>1. CASE UNCHANGED <<gatewayDraining, request, action, missed>>
  BY <1>1 DEF LoopInv
<1>2. CASE RequestRestart
  BY <1>2 DEF RequestRestart, LoopInv
<1>3. CASE RequestStop
  BY <1>3 DEF RequestStop, LoopInv
<1>4. CASE RunsDrained
  BY <1>4 DEF RunsDrained, LoopInv
<1>5. CASE AllDrained
  BY <1>5 DEF AllDrained, LoopInv
<1>6. CASE DrainTimeout
  BY <1>6 DEF DrainTimeout, LoopInv
<1>7. CASE ServerClosed
  <2>1. request = "closing" /\ action' = action /\ gatewayDraining' = gatewayDraining /\ missed' = missed
    BY <1>7 DEF ServerClosed
  <2>2. CASE action = "stop"
    BY <1>7, <2>1, <2>2 DEF ServerClosed, LoopInv
  <2>3. CASE action # "stop"
    BY <1>7, <2>1, <2>3 DEF ServerClosed, LoopInv, TypeOK
  <2>4. QED
    BY <2>2, <2>3
<1>8. CASE RestartInProcess
  BY <1>8 DEF RestartInProcess, LoopInv
<1>9. ASSUME \/ \E r \in Runs : RunStep(r)
             \/ \E s \in Sessions : clearCommandLane(s)
             \/ \E n \in 1..MaxConcurrent : setCommandLaneConcurrency(n)
             \/ ProcessExits \/ \E started \in BOOLEAN : StartSettles(started)
             \/ UNCHANGED vars
      PROVE  UNCHANGED <<gatewayDraining, request, action, missed>>
  BY <1>9 DEF RunStep, runEmbeddedPiAgent, setActiveEmbeddedRun, clearActiveEmbeddedRun, MainTaskDone,
              SessionTaskDone, clearCommandLane, setCommandLaneConcurrency, ProcessExits, StartSettles,
              vars, loopVars
<1>10. QED
  BY <1>1, <1>2, <1>3, <1>4, <1>5, <1>6, <1>7, <1>8, <1>9 DEF Next, LoopStep

LEMMA OwnedStep ==
    ASSUME Inv, [Next]_vars, ~overran'
    PROVE  Holds(session', sessActive', inner', outer')
<1>t. TypeOK /\ LaneTypes /\ OtherTypes
  BY TypeParts DEF Inv
<1>p. /\ Placement
      /\ Waiting(session, sessQueue, inner, outer) /\ Active(session, sessActive, inner, outer)
      /\ Promised(session, inner, outer, body)
  BY DEF Inv, Placement, Placed
<1>h. ASSUME ~overran
      PROVE  \A r \in Runs : inner[r] # "none" /\ outer[r] = "pending" => r \in sessActive[session[r]]
  BY <1>h DEF Inv, Owned, Holds
<1>0. ASSUME overran' = overran, UNCHANGED <<session, sessActive, inner, outer>>
      PROVE  Holds(session', sessActive', inner', outer')
  BY <1>0, <1>h DEF Holds
<1>1. ASSUME NEW r \in Runs, NEW s \in Sessions, runEmbeddedPiAgent(r, s)
      PROVE  Holds(session', sessActive', inner', outer')
  <2>1. /\ session[r] = None /\ session' = [session EXCEPT ![r] = s] /\ ~overran
        /\ \E o \in {"pending", "drained"} : outer' = [outer EXCEPT ![r] = o]
    BY <1>1 DEF runEmbeddedPiAgent, loopVars
  <2>2. /\ \A x \in Runs : session'[x] = IF x = r THEN s ELSE session[x]
        /\ \A x \in Runs : x # r => outer'[x] = outer[x]
    BY <2>1, <1>t DEF OtherTypes
  <2>3. inner[r] = "none"
    BY <2>1, <1>p, <1>t, FreshRun
  <2>4. Holds(session', sessActive, inner, outer')
    BY <2>1, <2>2, <2>3, <1>h DEF Holds
  <2>5. CASE gatewayDraining
    BY <2>4, <2>5, <1>1 DEF runEmbeddedPiAgent, sessVars
  <2>6. CASE ~gatewayDraining
    <3>1. /\ outer' = [outer EXCEPT ![r] = "pending"]
          /\ PumpSession(s, Append(sessQueue[s], r), sessActive[s])
      BY <1>1, <2>6 DEF runEmbeddedPiAgent
    <3>2. /\ Append(sessQueue[s], r) \in Seq(Runs) /\ sessActive[s] \in SUBSET sessActive[s]
          /\ [sessActive EXCEPT ![s] = sessActive[s]] = sessActive
          /\ session' \in [Runs -> Sessions \cup {None}]
      BY <2>1, <1>t DEF LaneTypes, OtherTypes
    <3>3. Placed(session', [sessQueue EXCEPT ![s] = Append(sessQueue[s], r)],
                 [sessActive EXCEPT ![s] = sessActive[s]], mainQueue, inner, outer', body)
      BY <2>1, <3>1, <1>p, <1>t, SubmittedPlaces
    <3>4. QED
      BY <3>1, <3>2, <3>3, <2>4, <1>t, PumpSessionHolds DEF Placed
  <2>7. QED
    BY <2>5, <2>6
<1>2. ASSUME NEW r \in Runs, setActiveEmbeddedRun(r) \/ clearActiveEmbeddedRun(r)
      PROVE  Holds(session', sessActive', inner', outer')
  BY <1>2, <1>0 DEF setActiveEmbeddedRun, clearActiveEmbeddedRun, sessVars, loopVars
<1>3. ASSUME NEW r \in Runs, MainTaskDone(r)
      PROVE  Holds(session', sessActive', inner', outer')
  <2>1. /\ body[r] \in {"preparing", "finishing"} /\ inner' = [inner EXCEPT ![r] = "ended"]
        /\ UNCHANGED <<session, sessActive, outer, overran>>
    BY <1>3 DEF MainTaskDone, sessVars, loopVars
  <2>2. inner[r] = "pending" /\ \A x \in Runs : x # r => inner'[x] = inner[x]
    BY <2>1, <1>p, <1>t DEF Promised, LaneTypes
  <2>3. QED
    BY <2>1, <2>2, <1>h DEF Holds
<1>4. ASSUME NEW r \in Runs, SessionTaskDone(r)
      PROVE  Holds(session', sessActive', inner', outer')
  <2> DEFINE s  == session[r]
             sa == [sessActive EXCEPT ![s] = sessActive[s] \ {r}]
  <2>1. /\ r \in Settling /\ outer' = [outer EXCEPT ![r] = inner[r]]
        /\ session' = session /\ ~overran
    BY <1>4 DEF SessionTaskDone, loopVars
  <2>2. /\ s \in Sessions
        /\ Placed(session, sessQueue, sa, mainQueue, inner, outer', body)
    BY <2>1, <1>p, <1>t, SettledPlaces
  <2>3. /\ [sessQueue EXCEPT ![s] = sessQueue[s]] = sessQueue /\ sessQueue[s] \in Seq(Runs)
        /\ \A t \in Sessions : sa[t] = IF t = s THEN sessActive[s] \ {r} ELSE sessActive[t]
        /\ sessActive[s] \ {r} \in SUBSET sessActive[s]
    BY <2>2, <1>t DEF LaneTypes
  <2>4. /\ outer'[r] # "pending" /\ inner[r] # "none" /\ outer[r] = "pending"
        /\ \A x \in Runs : x # r => outer'[x] = outer[x]
    BY <2>1, <1>t DEF OtherTypes, Settling, Settled
  <2> HIDE DEF s, sa
  <2>5. Holds(session, sa, inner, outer')
    <3>1. SUFFICES ASSUME NEW x \in Runs, inner[x] # "none", outer'[x] = "pending"
                   PROVE  x \in sa[session[x]]
      BY DEF Holds
    <3>2. x # r /\ outer[x] = "pending"
      BY <3>1, <2>4
    <3>3. x \in sessActive[session[x]] /\ session[x] \in Sessions
      BY <3>1, <3>2, <2>1, <1>h, <1>p, <1>t DEF Promised, OtherTypes
    <3>4. QED
      BY <3>2, <3>3, <2>3
  <2>6. PumpSession(s, sessQueue[s], sessActive[s] \ {r})
    <3>1. r \in sessActive[s]
      BY <2>1, <2>4, <1>h DEF s
    <3>2. QED
      BY <3>1, <1>4 DEF SessionTaskDone, s
  <2>7. session \in [Runs -> Sessions \cup {None}]
    BY <1>t DEF OtherTypes
  <2>8. Waiting(session, sessQueue, inner, outer') /\ Promised(session, inner, outer', body)
    BY <2>2 DEF Placed
  <2>9. QED
    BY <2>1, <2>2, <2>3, <2>5, <2>6, <2>7, <2>8, <1>t, PumpSessionHolds DEF sa
<1>5. ASSUME NEW s \in Sessions, clearCommandLane(s)
      PROVE  Holds(session', sessActive', inner', outer')
  <2>1. /\ \A r \in Runs : outer'[r] = "pending" => outer[r] = "pending"
        /\ UNCHANGED <<session, sessActive, inner, overran>>
    BY <1>5 DEF clearCommandLane, loopVars
  <2>2. QED
    BY <2>1, <1>h DEF Holds
<1>6. ASSUME NEW n \in 1..MaxConcurrent, setCommandLaneConcurrency(n)
      PROVE  Holds(session', sessActive', inner', outer')
  BY <1>6, <1>0 DEF setCommandLaneConcurrency, sessVars, loopVars
<1>7. ASSUME RestartInProcess
      PROVE  Holds(session', sessActive', inner', outer')
  <2>1. session' = session /\ outer' = outer /\ overran' = overran /\ request = "respawning" /\ ~overran
    BY <1>7 DEF RestartInProcess
  <2>2. CASE UNCHANGED <<sessVars, mainVars, inner>>
    BY <2>1, <2>2, <1>0 DEF sessVars
  <2>3. CASE resetAllLanes
    <3>1. \A s \in Sessions : sessActive[s] = {}
      BY <2>1 DEF Inv, LoopInv, DrainDone
    <3>2. \A x \in Runs : inner[x] # "none" /\ outer[x] = "pending" => FALSE
      BY <3>1, <2>1, <1>h, <1>p, <1>t DEF Promised, OtherTypes
    <3>3. SUFFICES ASSUME NEW r \in Runs, inner'[r] # "none", outer[r] = "pending"
                   PROVE  r \in sessActive'[session[r]]
      BY <2>1 DEF Holds
    <3>4. r \in Heads
      BY <2>3, <3>2, <3>3 DEF resetAllLanes
    <3>5. PICK s \in Sessions : sessQueue[s] # <<>> /\ r = Head(sessQueue[s])
      BY <3>4 DEF Heads
    <3>6. Head(sessQueue[s]) = sessQueue[s][1] /\ 1 \in 1..Len(sessQueue[s])
      BY <3>5, <1>t DEF LaneTypes
    <3>7. session[r] = s
      BY <3>5, <3>6, <1>p DEF Waiting
    <3>8. QED
      BY <2>3, <3>5, <3>7 DEF resetAllLanes
  <2>4. QED
    BY <1>7, <2>2, <2>3 DEF RestartInProcess
<1>8. ASSUME \/ RequestRestart \/ RequestStop \/ RunsDrained \/ AllDrained
             \/ ServerClosed \/ ProcessExits \/ \E started \in BOOLEAN : StartSettles(started)
             \/ UNCHANGED vars
      PROVE  Holds(session', sessActive', inner', outer')
  BY <1>8, <1>0 DEF RequestRestart, RequestStop, RunsDrained, AllDrained,
                    ServerClosed, ProcessExits, StartSettles, sessVars, mainVars, vars, loopVars
<1>9. ~DrainTimeout
  BY DEF DrainTimeout
<1>10. QED
  BY <1>1, <1>2, <1>3, <1>4, <1>5, <1>6, <1>7, <1>8, <1>9 DEF Next, RunStep, LoopStep

LEMMA DrainWaitsStep ==
    ASSUME Inv, [Next]_vars
    PROVE  DrainWaits'
<1>t. TypeOK /\ LaneTypes /\ OtherTypes
  BY TypeParts DEF Inv
<1>0. ASSUME UNCHANGED <<sessActive, inner, awaited, request>>
      PROVE  DrainWaits'
  BY <1>0 DEF Inv, DrainWaits
<1>n. ASSUME request' # "draining"
      PROVE  DrainWaits'
  BY <1>n DEF DrainWaits
<1>d. ASSUME request = "draining"
      PROVE  /\ gatewayDraining
             /\ \A s \in Sessions : \A r \in sessActive[s] : <<"session", r>> \in awaited \/ inner[r] \in Settled
  BY <1>d DEF Inv, LoopInv, DrainWaits
<1>1. ASSUME NEW r \in Runs, NEW s \in Sessions, runEmbeddedPiAgent(r, s)
      PROVE  DrainWaits'
  <2>1. request' = request /\ awaited' = awaited
    BY <1>1 DEF runEmbeddedPiAgent, loopVars
  <2>2. CASE request = "draining"
    BY <2>1, <2>2, <1>1, <1>d, <1>0 DEF runEmbeddedPiAgent, sessVars
  <2>3. QED
    BY <2>1, <2>2, <1>n
<1>2. ASSUME NEW r \in Runs, setActiveEmbeddedRun(r) \/ clearActiveEmbeddedRun(r)
      PROVE  DrainWaits'
  BY <1>2, <1>0 DEF setActiveEmbeddedRun, clearActiveEmbeddedRun, sessVars, loopVars
<1>3. ASSUME NEW r \in Runs, MainTaskDone(r)
      PROVE  DrainWaits'
  <2>1. /\ inner' = [inner EXCEPT ![r] = "ended"]
        /\ UNCHANGED <<sessActive, awaited, request>>
    BY <1>3 DEF MainTaskDone, sessVars, loopVars
  <2>2. \A x \in Runs : inner'[x] = IF x = r THEN "ended" ELSE inner[x]
    BY <2>1, <1>t DEF LaneTypes
  <2>3. \A s \in Sessions : \A x \in sessActive[s] : x \in Runs
    BY <1>t DEF LaneTypes
  <2>4. QED
    BY <2>1, <2>2, <2>3, <1>d DEF DrainWaits, Settled
<1>4. ASSUME NEW r \in Runs, SessionTaskDone(r), request = "draining"
      PROVE  DrainWaits'
  <2> DEFINE s == session[r]
  <2>1. r \in Settling /\ outer' = [outer EXCEPT ![r] = inner[r]]
        /\ request' = request /\ awaited' = awaited
    BY <1>4 DEF SessionTaskDone, loopVars
  <2>2. s \in Sessions
    BY <2>1, <1>t, SettledPlaces DEF Inv
  <2>3. sessQueue[s] \in Seq(Runs) /\ sessActive[s] \ {r} \in SUBSET Runs
    BY <2>2, <1>t DEF LaneTypes
  <2> HIDE DEF s
  <2>4. CASE r \in sessActive[s]
    <3>1. PumpSession(s, sessQueue[s], sessActive[s] \ {r})
      BY <2>4, <1>4 DEF SessionTaskDone, s
    <3>2. \/ /\ sessActive' = [sessActive EXCEPT ![s] = sessActive[s] \ {r}]
             /\ inner' = inner
          \/ /\ sessQueue[s] # <<>>
             /\ sessActive' = [sessActive EXCEPT ![s] = {Head(sessQueue[s])}]
             /\ inner' = [inner EXCEPT ![Head(sessQueue[s])] = "drained"]
      BY <3>1, <2>2, <2>3, <1>4, <1>d, PumpSessionCases
    <3>3. CASE sessActive' = [sessActive EXCEPT ![s] = sessActive[s] \ {r}] /\ inner' = inner
      <4>1. \A t \in Sessions : sessActive'[t] \subseteq sessActive[t]
        BY <3>3, <2>2, <1>t DEF LaneTypes
      <4>2. QED
        BY <4>1, <3>3, <2>1, <1>4, <1>d DEF DrainWaits
    <3>4. CASE /\ sessQueue[s] # <<>>
               /\ sessActive' = [sessActive EXCEPT ![s] = {Head(sessQueue[s])}]
               /\ inner' = [inner EXCEPT ![Head(sessQueue[s])] = "drained"]
      <4> DEFINE h == Head(sessQueue[s])
      <4>1. h \in Runs
        BY <3>4, <2>3
      <4>2. /\ \A t \in Sessions : sessActive'[t] = IF t = s THEN {h} ELSE sessActive[t]
            /\ \A x \in Runs : inner'[x] = IF x = h THEN "drained" ELSE inner[x]
            /\ \A t \in Sessions : sessActive[t] \subseteq Runs
        BY <4>1, <3>4, <2>2, <1>t DEF LaneTypes
      <4> HIDE DEF h
      <4>3. ASSUME NEW t \in Sessions, NEW x \in sessActive'[t]
            PROVE  <<"session", x>> \in awaited \/ inner'[x] \in Settled
        <5>1. CASE x = h
          BY <5>1, <4>1, <4>2 DEF Settled
        <5>2. CASE x # h
          BY <5>2, <4>2, <4>3, <1>4, <1>d
        <5>3. QED
          BY <5>1, <5>2
      <4>4. QED
        BY <4>3, <2>1 DEF DrainWaits
    <3>5. QED
      BY <3>2, <3>3, <3>4
  <2>5. CASE r \notin sessActive[s]
    BY <2>5, <2>1, <1>4, <1>0 DEF SessionTaskDone, sessVars, s
  <2>6. QED
    BY <2>4, <2>5
<1>5. ASSUME NEW r \in Runs, SessionTaskDone(r), request # "draining"
      PROVE  DrainWaits'
  BY <1>5, <1>n DEF SessionTaskDone, loopVars
<1>6. ASSUME \/ \E s \in Sessions : clearCommandLane(s)
             \/ \E n \in 1..MaxConcurrent : setCommandLaneConcurrency(n)
             \/ RunsDrained \/ \E started \in BOOLEAN : StartSettles(started)
             \/ UNCHANGED vars
      PROVE  DrainWaits'
  BY <1>6, <1>0 DEF clearCommandLane, setCommandLaneConcurrency, RunsDrained, StartSettles,
                    sessVars, vars, loopVars
<1>7. ASSUME RequestRestart
      PROVE  DrainWaits'
  <2>1. awaited' = ActiveTasks /\ sessActive' = sessActive
    BY <1>7 DEF RequestRestart, sessVars
  <2>2. \A s \in Sessions : \A r \in sessActive[s] : <<"session", r>> \in ActiveTasks
    BY DEF ActiveTasks, ActiveSessionTasks
  <2>3. QED
    BY <2>1, <2>2 DEF DrainWaits
<1>8. ASSUME RequestStop \/ AllDrained \/ DrainTimeout \/ ServerClosed \/ RestartInProcess
      PROVE  DrainWaits'
  <2>1. request' # "draining"
    BY <1>8 DEF RequestStop, AllDrained, DrainTimeout, ServerClosed, RestartInProcess
  <2>2. QED
    BY <2>1, <1>n
<1>9. ASSUME ProcessExits
      PROVE  DrainWaits'
  BY <1>9, <1>0 DEF ProcessExits, sessVars
<1>10. QED
  BY <1>1, <1>2, <1>3, <1>4, <1>5, <1>6, <1>7, <1>8, <1>9 DEF Next, RunStep, LoopStep

LEMMA DrainDoneStep ==
    ASSUME Inv, [Next]_vars, ~overran', action' = "restart", request' \in {"closing", "respawning"}
    PROVE  \A s \in Sessions : sessActive'[s] = {}
<1>t. TypeOK /\ LaneTypes /\ OtherTypes
  BY TypeParts DEF Inv
<1>p. /\ Active(session, sessActive, inner, outer)
      /\ Promised(session, inner, outer, body)
  BY DEF Inv, Placement, Placed
<1>d. ASSUME UNCHANGED <<request, action, overran>> 
      PROVE  /\ gatewayDraining
             /\ \A s \in Sessions : sessActive[s] = {}
  BY <1>d DEF Inv, LoopInv, DrainDone
<1>0. ASSUME UNCHANGED <<request, action, overran, sessActive>>
      PROVE  \A s \in Sessions : sessActive'[s] = {}
  BY <1>0, <1>d
<1>1. ASSUME NEW r \in Runs, NEW s \in Sessions, runEmbeddedPiAgent(r, s)
      PROVE  \A t \in Sessions : sessActive'[t] = {}
  <2>1. UNCHANGED <<request, action, overran>>
    BY <1>1 DEF runEmbeddedPiAgent, loopVars
  <2>2. sessActive' = sessActive
    BY <2>1, <1>1, <1>d DEF runEmbeddedPiAgent, sessVars
  <2>3. QED
    BY <2>1, <2>2, <1>d
<1>2. ASSUME NEW r \in Runs, SessionTaskDone(r)
      PROVE  \A t \in Sessions : sessActive'[t] = {}
  <2>1. UNCHANGED <<request, action, overran>> /\ r \in Settling
    BY <1>2 DEF SessionTaskDone, loopVars
  <2>2. inner[r] # "none" /\ outer[r] = "pending" /\ ~overran
    BY <2>1 DEF Settling, Settled
  <2>3. r \in sessActive[session[r]]
    BY <2>2 DEF Inv, Owned, Holds
  <2>4. session[r] \in Sessions
    BY <2>2, <1>p, <1>t DEF Promised, OtherTypes
  <2>5. QED
    BY <2>1, <2>3, <2>4, <1>d
<1>3. ASSUME \/ \E r \in Runs : setActiveEmbeddedRun(r) \/ clearActiveEmbeddedRun(r) \/ MainTaskDone(r)
             \/ \E s \in Sessions : clearCommandLane(s)
             \/ \E n \in 1..MaxConcurrent : setCommandLaneConcurrency(n)
             \/ RunsDrained \/ ProcessExits \/ \E started \in BOOLEAN : StartSettles(started)
             \/ UNCHANGED vars
      PROVE  \A t \in Sessions : sessActive'[t] = {}
  BY <1>3, <1>0 DEF setActiveEmbeddedRun, clearActiveEmbeddedRun, MainTaskDone, clearCommandLane,
                    setCommandLaneConcurrency, RunsDrained, ProcessExits, StartSettles,
                    sessVars, vars, loopVars
<1>4. ASSUME RequestRestart
      PROVE  \A t \in Sessions : sessActive'[t] = {}
  <2>1. ActiveTasks = {} /\ sessActive' = sessActive
    BY <1>4 DEF RequestRestart, sessVars
  <2>2. QED
    <3>1. ActiveSessionTasks = {}
      BY <2>1 DEF ActiveTasks
    <3>2. QED
      BY <2>1, <3>1 DEF ActiveSessionTasks
<1>5. ASSUME AllDrained
      PROVE  \A t \in Sessions : sessActive'[t] = {}
  <2>1. Settling = {} /\ awaited \cap ActiveTasks = {} /\ request = "draining" /\ sessActive' = sessActive
    BY <1>5 DEF AllDrained, Turn, sessVars
  <2>2. ASSUME NEW s \in Sessions, NEW r \in sessActive[s]
        PROVE  FALSE
    <3>1. r \in Runs /\ outer[r] = "pending" /\ <<"session", r>> \in ActiveTasks
      BY <1>p, <1>t DEF Active, LaneTypes, ActiveTasks, ActiveSessionTasks
    <3>2. inner[r] \in Settled
      BY <3>1, <2>1 DEF Inv, DrainWaits
    <3>3. QED
      BY <3>1, <3>2, <2>1 DEF Settling
  <2>3. QED
    BY <2>1, <2>2
<1>6. ASSUME ServerClosed
      PROVE  \A t \in Sessions : sessActive'[t] = {}
  <2>1. request = "closing" /\ UNCHANGED <<action, overran, sessActive>>
    BY <1>6 DEF ServerClosed, sessVars
  <2>2. QED
    BY <2>1 DEF Inv, DrainDone
<1>7. ~RequestStop /\ ~DrainTimeout /\ ~RestartInProcess
  BY DEF RequestStop, DrainTimeout, RestartInProcess
<1>8. QED
  BY <1>1, <1>2, <1>3, <1>4, <1>5, <1>6, <1>7 DEF Next, RunStep, LoopStep

-----------------------------------------------------------------------------
(* The theorems.                                                           *)

LEMMA InvInit == Init => Inv
<1> SUFFICES ASSUME Init
             PROVE  Inv
  OBVIOUS
<1>1. TypeOK
  BY TypeInit
<1>2. \A s \in Sessions : sessQueue[s] = <<>> /\ Len(sessQueue[s]) = 0 /\ sessActive[s] = {}
  BY DEF Init
<1>3. mainQueue = <<>> /\ Len(mainQueue) = 0
  BY DEF Init
<1>4. \A r \in Runs : inner[r] = "none" /\ outer[r] = "none" /\ body[r] = "none"
  BY DEF Init
<1>5. Waiting(session, sessQueue, inner, outer)
  BY <1>2 DEF Waiting, Distinct
<1>6. WaitingInMain(mainQueue, inner, body)
  BY <1>3 DEF WaitingInMain, Distinct
<1>7. Active(session, sessActive, inner, outer)
  BY <1>2 DEF Active
<1>8. Promised(session, inner, outer, body)
  BY <1>4 DEF Promised
<1>9. Owned /\ DrainWaits /\ DrainDone
  BY <1>2, <1>4 DEF Owned, Holds, DrainWaits, DrainDone
<1>10. LoopInv
  BY DEF Init, LoopInv
<1>11. QED
  BY <1>1, <1>5, <1>6, <1>7, <1>8, <1>9, <1>10 DEF Inv, Placement, Placed

LEMMA InvStep == Inv /\ [Next]_vars => Inv'
<1> SUFFICES ASSUME Inv, [Next]_vars
             PROVE  Inv'
  OBVIOUS
<1>1. TypeOK /\ Placement /\ Promised(session, inner, outer, body) /\ LoopInv
  BY DEF Inv, Placement, Placed
<1>2. TypeOK'
  BY <1>1, TypeStep
<1>3. Placement'
  BY <1>1, PlacementStep
<1>4. Owned'
  BY OwnedStep DEF Owned
<1>5. LoopInv'
  BY <1>1, LoopStepInv
<1>6. DrainWaits'
  BY DrainWaitsStep
<1>7. DrainDone'
  BY DrainDoneStep DEF DrainDone
<1>8. QED
  BY <1>2, <1>3, <1>4, <1>5, <1>6, <1>7 DEF Inv

\* A run at work holds the lane of its session.
LEMMA WorkHoldsLane ==
    ASSUME Inv, ~overran, NEW r \in Runs, InBody(r)
    PROVE  r \in sessActive[session[r]] /\ session[r] \in Sessions
<1>1. inner[r] = "pending" /\ outer[r] = "pending" /\ session[r] # None
  BY DEF Inv, Placement, Placed, Promised, InBody
<1>2. QED
  BY <1>1 DEF Inv, Owned, Holds, TypeOK

\* The lanes and the run loop are well typed and no session lane ever has two
\* active tasks, for any number of runs, sessions and signals (drainLane).
THEOREM TypeCorrect == Spec => []TypeOK
<1>1. Inv => TypeOK
  BY DEF Inv
<1>2. QED
  BY <1>1, InvInit, InvStep, PTL DEF Spec

\* Two runs at work in one session would both hold the lane of the session,
\* which has one active task, unless a drain timed out and the lanes were reset
\* under them (runEmbeddedPiAgent, drainLane, resetAllLanes).
THEOREM RunsExclude == Spec => []OneRunPerSession
<1>1. Inv => OneRunPerSession
  <2>1. SUFFICES ASSUME Inv, ~overran,
                        NEW r \in Runs, NEW q \in Runs, InBody(r), InBody(q), session[r] = session[q]
                 PROVE  r = q
    BY DEF OneRunPerSession, OneBody
  <2>2. \A x \in Runs : InBody(x) => x \in sessActive[session[x]] /\ session[x] \in Sessions
    BY <2>1, WorkHoldsLane
  <2>3. QED
    BY <2>1, <2>2 DEF Inv, TypeOK
<1>2. QED
  BY <1>1, InvInit, InvStep, PTL DEF Spec

\* A drain that was not cut short ends with idle session lanes, and a run at
\* work holds one (waitForActiveTasks, waitForActiveEmbeddedRuns).
THEOREM DrainsCompletely == Spec => []DrainedIsQuiet
<1>1. Inv => DrainedIsQuiet
  <2>1. SUFFICES ASSUME Inv, request \in {"closing", "respawning"}, action = "restart", ~overran,
                        NEW r \in Runs, InBody(r)
                 PROVE  FALSE
    BY DEF DrainedIsQuiet
  <2>2. r \in sessActive[session[r]] /\ session[r] \in Sessions
    BY <2>1, WorkHoldsLane
  <2>3. QED
    BY <2>1, <2>2 DEF Inv, DrainDone
<1>2. QED
  BY <1>1, InvInit, InvStep, PTL DEF Spec

\* The flag that makes enqueueCommandInLane refuse is set by a restart only, and
\* outlives it only when the loop missed it (markGatewayDraining, resetAllLanes).
THEOREM RefusalsAreRestarts == Spec => []RefusesOnlyForRestart
<1>1. Inv => RefusesOnlyForRestart
  BY DEF Inv, LoopInv, RefusesOnlyForRestart
<1>2. QED
  BY <1>1, InvInit, InvStep, PTL DEF Spec
=============================================================================
