----------------------------- MODULE AgentLanes -----------------------------
(***************************************************************************)
(* The lanes OpenClaw puts every agent run through, and the gateway's run  *)
(* loop that drains them for a restart.  runEmbeddedPiAgent enqueues a     *)
(* task in the lane of the run's session; that task enqueues the run       *)
(* itself in the lane main.  A chat.send of the product ends up here.      *)
(*                                                                         *)
(* One action is one turn of the event loop.  The microtasks that carry    *)
(* the result of a main-lane task to its session-lane task run before any  *)
(* other turn (Turn).  A task belongs to the current generation of its     *)
(* lane exactly while it is in activeTaskIds: task ids are never used      *)
(* twice and resetAllLanes empties the set when it counts the generation.  *)
(* The reply-run registry, which counts the same runs, is left out.        *)
(***************************************************************************)
EXTENDS Naturals, Sequences, FiniteSets

CONSTANTS MaxRuns,        \* bound on the calls of runEmbeddedPiAgent
          Sessions,       \* session keys
          None,           \* undefined
          MaxConcurrent,  \* largest agents.defaults.maxConcurrent
          MaxRequests     \* bound on the signals the run loop handles

ASSUME LanesAssumption ==
    /\ MaxRuns \in Nat /\ MaxConcurrent \in Nat \ {0} /\ MaxRequests \in Nat
    /\ None \notin Nat /\ None \notin Sessions

\* Runs are numbered in the order in which they are submitted.
Runs == 1..MaxRuns

VARIABLES
    session,          \* the session of a submitted run
    sessQueue, sessActive,              \* every session lane: queue, activeTaskIds
    mainQueue, mainActive, maxConcurrent,  \* the lane main
    inner,            \* promise of the run's entry in main
    outer,            \* promise of its entry in the session lane: the caller's
    body,             \* the run itself: none, preparing, attempt, finishing, done
    activeRuns,       \* ACTIVE_EMBEDDED_RUNS: the run registered for a session
    gatewayDraining,
    loop,             \* runGatewayLoop: first (start), starting, serving, exited
    request,          \* shutdown under way: none, draining, closing, respawning
    action,           \* of that request: restart or stop
    awaited,          \* activeTaskIds of the waiter of waitForActiveTasks
    awaitRuns,        \* waitForActiveEmbeddedRuns still polls
    overran,          \* some drain timed out
    missed,           \* the last restart ended while the loop was still starting
    requests          \* how many requests so far

sessVars == <<sessQueue, sessActive>>
mainVars == <<mainQueue, mainActive, body>>
loopVars == <<gatewayDraining, loop, request, action, awaited, awaitRuns, overran, missed, requests>>
vars     == <<session, sessVars, mainVars, maxConcurrent, inner, outer, activeRuns, loopVars>>

\* How a promise settles: the run ended, with a result or an error; refused
\* with GatewayDrainingError; rejected with CommandLaneClearedError.
Settled == {"ended", "drained", "cleared"}

Init ==
    /\ session = [r \in Runs |-> None]
    /\ sessQueue = [s \in Sessions |-> <<>>] /\ sessActive = [s \in Sessions |-> {}]
    /\ mainQueue = <<>> /\ mainActive = {} /\ maxConcurrent = 1
    /\ inner = [r \in Runs |-> "none"] /\ outer = [r \in Runs |-> "none"]
    /\ body = [r \in Runs |-> "none"]
    /\ activeRuns = [s \in Sessions |-> None]
    /\ gatewayDraining = FALSE /\ loop = "first" /\ request = "none" /\ action = "none"
    /\ awaited = {} /\ awaitRuns = FALSE /\ overran = FALSE /\ missed = FALSE
    /\ requests = 0

-----------------------------------------------------------------------------
(* The pumps.                                                              *)

\* How many entries the pump of main starts.
Room(active, cap) == IF Cardinality(active) < cap THEN cap - Cardinality(active) ELSE 0

Started(queue, active, cap) ==
    {queue[i] : i \in {j \in 1..Len(queue) : j <= Room(active, cap)}}

\* drainLane of main: the entries at the front start until the lane is full.
PumpMain(queue, active, bodies, cap) ==
    /\ mainQueue' = SubSeq(queue, Room(active, cap) + 1, Len(queue))
    /\ mainActive' = active \cup Started(queue, active, cap)
    /\ body' = [r \in Runs |-> IF r \in Started(queue, active, cap) THEN "preparing" ELSE bodies[r]]

\* Mutant: a session lane runs two tasks at a time.
PumpSession_TwoTasks(s, queue, active) ==
    LET go == Cardinality(active) < 2 /\ queue # <<>>
        r  == Head(queue)
    IN  /\ sessQueue' = [sessQueue EXCEPT ![s] = IF go THEN Tail(queue) ELSE queue]
        /\ sessActive' = [sessActive EXCEPT ![s] = IF go THEN active \cup {r} ELSE active]
        /\ IF go /\ ~gatewayDraining
           THEN /\ inner' = [inner EXCEPT ![r] = "pending"]
                /\ PumpMain(Append(mainQueue, r), mainActive, body, maxConcurrent)
           ELSE /\ inner' = IF go THEN [inner EXCEPT ![r] = "drained"] ELSE inner
                /\ UNCHANGED mainVars

\* drainLane of a session lane, which runs one task.  The task calls
\* enqueueGlobal at once, and that refuses while the gateway drains.
PumpSession(s, queue, active) ==
    LET go == active = {} /\ queue # <<>>
        r  == Head(queue)
    IN  /\ sessQueue' = [sessQueue EXCEPT ![s] = IF go THEN Tail(queue) ELSE queue]
        /\ sessActive' = [sessActive EXCEPT ![s] = IF go THEN {r} ELSE active]
        /\ IF go /\ ~gatewayDraining
           THEN /\ inner' = [inner EXCEPT ![r] = "pending"]
                /\ PumpMain(Append(mainQueue, r), mainActive, body, maxConcurrent)
           ELSE /\ inner' = IF go THEN [inner EXCEPT ![r] = "drained"] ELSE inner
                /\ UNCHANGED mainVars

\* Session-lane tasks whose promise is about to settle.
Settling == {r \in Runs : inner[r] \in Settled /\ outer[r] = "pending"}

\* The process is alive and no microtask is waiting.
Turn == loop # "exited" /\ Settling = {}

-----------------------------------------------------------------------------
(* Runs.                                                                   *)

\* runEmbeddedPiAgent: enqueueCommandInLane of the session lane.
runEmbeddedPiAgent(r, s) ==
    /\ Turn
    /\ session[r] = None /\ \A q \in 1..(r - 1) : session[q] # None
    /\ session' = [session EXCEPT ![r] = s]
    /\ IF gatewayDraining
       THEN /\ outer' = [outer EXCEPT ![r] = "drained"]
            /\ UNCHANGED <<sessVars, mainVars, inner>>
       ELSE /\ outer' = [outer EXCEPT ![r] = "pending"]
            /\ PumpSession(s, Append(sessQueue[s], r), sessActive[s])
    /\ UNCHANGED <<maxConcurrent, activeRuns, loopVars>>

\* The attempt registers the run, replacing whatever the session had.
setActiveEmbeddedRun(r) ==
    /\ Turn
    /\ body[r] = "preparing"
    /\ body' = [body EXCEPT ![r] = "attempt"]
    /\ activeRuns' = [activeRuns EXCEPT ![session[r]] = r]
    /\ UNCHANGED <<session, sessVars, mainQueue, mainActive, maxConcurrent, inner, outer, loopVars>>

clearActiveEmbeddedRun(r) ==
    /\ Turn
    /\ body[r] = "attempt"
    /\ body' = [body EXCEPT ![r] = "finishing"]
    /\ activeRuns' = IF activeRuns[session[r]] = r
                     THEN [activeRuns EXCEPT ![session[r]] = None] ELSE activeRuns
    /\ UNCHANGED <<session, sessVars, mainQueue, mainActive, maxConcurrent, inner, outer, loopVars>>

\* The run returns or throws: its task in main completes, and pumps the lane if
\* it belongs to the current generation.
MainTaskDone(r) ==
    /\ Turn
    /\ body[r] \in {"preparing", "finishing"}
    /\ inner' = [inner EXCEPT ![r] = "ended"]
    /\ IF r \in mainActive
       THEN PumpMain(mainQueue, mainActive \ {r}, [body EXCEPT ![r] = "done"], maxConcurrent)
       ELSE body' = [body EXCEPT ![r] = "done"] /\ UNCHANGED <<mainQueue, mainActive>>
    /\ UNCHANGED <<session, sessVars, maxConcurrent, outer, activeRuns, loopVars>>

\* The session-lane task completes with the result of its main-lane entry.
SessionTaskDone(r) ==
    /\ loop # "exited"
    /\ r \in Settling
    /\ outer' = [outer EXCEPT ![r] = inner[r]]
    /\ IF r \in sessActive[session[r]]
       THEN PumpSession(session[r], sessQueue[session[r]], sessActive[session[r]] \ {r})
       ELSE UNCHANGED <<sessVars, mainVars, inner>>
    /\ UNCHANGED <<session, maxConcurrent, activeRuns, loopVars>>

\* An interrupt or an abort clears what waits in the session lane.
clearCommandLane(s) ==
    /\ Turn
    /\ sessQueue[s] # <<>>
    /\ outer' = [r \in Runs |-> IF \E i \in 1..Len(sessQueue[s]) : sessQueue[s][i] = r
                                THEN "cleared" ELSE outer[r]]
    /\ sessQueue' = [sessQueue EXCEPT ![s] = <<>>]
    /\ UNCHANGED <<session, sessActive, mainVars, maxConcurrent, inner, activeRuns, loopVars>>

\* applyGatewayLaneConcurrency at every start, and a reload of the configuration.
setCommandLaneConcurrency(n) ==
    /\ Turn
    /\ n # maxConcurrent
    /\ maxConcurrent' = n
    /\ PumpMain(mainQueue, mainActive, body, n)
    /\ UNCHANGED <<session, sessVars, inner, outer, activeRuns, loopVars>>

-----------------------------------------------------------------------------
(* The run loop.                                                           *)

ActiveSessionTasks == UNION {sessActive[s] : s \in Sessions}
NoActiveRuns       == \A s \in Sessions : activeRuns[s] = None

\* Mutant: only the tasks of main are waited for.
ActiveTasks_MainOnly == {<<"main", r>> : r \in mainActive}

\* The tasks waitForActiveTasks takes note of: those of every lane.
ActiveTasks == {<<"main", r>> : r \in mainActive} \cup {<<"session", r>> : r \in ActiveSessionTasks}

\* Mutant: a restart waits only for the runs that are registered already.
RequestRestart_RunsOnly ==
    /\ Turn
    /\ request = "none" /\ requests < MaxRequests
    /\ requests' = requests + 1
    /\ action' = "restart"
    /\ gatewayDraining' = TRUE
    /\ awaited' = {}
    /\ awaitRuns' = ~NoActiveRuns
    /\ request' = IF ~NoActiveRuns THEN "draining" ELSE "closing"
    /\ UNCHANGED <<session, sessVars, mainVars, maxConcurrent, inner, outer, activeRuns, loop, overran, missed>>

\* request("restart"), from SIGUSR1.
RequestRestart ==
    /\ Turn
    /\ request = "none" /\ requests < MaxRequests
    /\ requests' = requests + 1
    /\ action' = "restart"
    /\ gatewayDraining' = TRUE
    /\ awaited' = ActiveTasks
    /\ awaitRuns' = ~NoActiveRuns
    /\ request' = IF ActiveTasks # {} \/ ~NoActiveRuns THEN "draining" ELSE "closing"
    /\ UNCHANGED <<session, sessVars, mainVars, maxConcurrent, inner, outer, activeRuns, loop, overran, missed>>

\* request("stop"), from SIGTERM or SIGINT.
RequestStop ==
    /\ Turn
    /\ request = "none" /\ requests < MaxRequests
    /\ requests' = requests + 1
    /\ action' = "stop" /\ request' = "closing"
    /\ UNCHANGED <<session, sessVars, mainVars, maxConcurrent, inner, outer, activeRuns,
                   gatewayDraining, loop, awaited, awaitRuns, overran, missed>>

\* The poll of waitForActiveEmbeddedRuns finds none.
RunsDrained ==
    /\ Turn
    /\ request = "draining" /\ awaitRuns /\ NoActiveRuns
    /\ awaitRuns' = FALSE
    /\ UNCHANGED <<session, sessVars, mainVars, maxConcurrent, inner, outer, activeRuns,
                   gatewayDraining, loop, request, action, awaited, overran, missed, requests>>

\* Both waits are over and drained.
AllDrained ==
    /\ Turn
    /\ request = "draining" /\ ~awaitRuns /\ awaited \cap ActiveTasks = {}
    /\ request' = "closing" /\ awaited' = {}
    /\ UNCHANGED <<session, sessVars, mainVars, maxConcurrent, inner, outer, activeRuns,
                   gatewayDraining, loop, action, awaitRuns, overran, missed, requests>>

\* The drain timeout; runs are then aborted, which lets them end and no more.
DrainTimeout ==
    /\ Turn
    /\ request = "draining"
    /\ awaited \cap ActiveTasks # {} \/ (awaitRuns /\ ~NoActiveRuns)
    /\ request' = "closing" /\ overran' = TRUE
    /\ awaited' = {} /\ awaitRuns' = FALSE
    /\ UNCHANGED <<session, sessVars, mainVars, maxConcurrent, inner, outer, activeRuns,
                   gatewayDraining, loop, action, missed, requests>>

\* server.close() is over: a stop exits, a restart goes on to respawn.
ServerClosed ==
    /\ Turn
    /\ request = "closing"
    /\ IF action = "stop" THEN loop' = "exited" /\ UNCHANGED request
       ELSE request' = "respawning" /\ UNCHANGED loop
    /\ UNCHANGED <<session, sessVars, mainVars, maxConcurrent, inner, outer, activeRuns,
                   gatewayDraining, action, awaited, awaitRuns, overran, missed, requests>>

\* forceExitTimer during server.close(), a child process that takes over, or a
\* gateway lock that cannot be had again.
ProcessExits ==
    /\ Turn
    /\ request \in {"closing", "respawning"}
    /\ loop' = "exited"
    /\ UNCHANGED <<session, sessVars, mainVars, maxConcurrent, inner, outer, activeRuns,
                   gatewayDraining, request, action, awaited, awaitRuns, overran, missed, requests>>

Heads == {Head(sessQueue[s]) : s \in {t \in Sessions : sessQueue[t] # <<>>}}

\* The orders in which the session lanes can have been made.
Orders(S) == {o \in [1..Cardinality(S) -> S] : \A r \in S : \E i \in 1..Cardinality(S) : o[i] = r}

\* Mutant: no lane is drained after the reset.
resetAllLanes_NoDrain ==
    /\ sessActive' = [s \in Sessions |-> {}] /\ mainActive' = {}
    /\ UNCHANGED <<sessQueue, inner, mainQueue, body>>

\* Every lane is idle again and drains what is queued: main, which was made
\* first, and then every session lane, whose head goes to the end of main.
resetAllLanes ==
    /\ sessQueue' = [s \in Sessions |-> IF sessQueue[s] = <<>> THEN <<>> ELSE Tail(sessQueue[s])]
    /\ sessActive' = [s \in Sessions |-> IF sessQueue[s] = <<>> THEN {} ELSE {Head(sessQueue[s])}]
    /\ inner' = [r \in Runs |-> IF r \in Heads THEN "pending" ELSE inner[r]]
    /\ \E order \in Orders(Heads) : PumpMain(mainQueue \o order, {}, body, maxConcurrent)

\* Mutant: the lanes are reset and the gateway goes on refusing runs.
RestartInProcess_KeepsDraining ==
    /\ Turn
    /\ request = "respawning"
    /\ request' = "none"
    /\ missed' = (loop # "serving")
    /\ IF loop = "serving"
       THEN loop' = "starting" /\ UNCHANGED gatewayDraining /\ resetAllLanes
       ELSE UNCHANGED <<loop, gatewayDraining, sessVars, mainVars, inner>>
    /\ UNCHANGED <<session, maxConcurrent, outer, activeRuns, action, awaited, awaitRuns, overran, requests>>

\* restartResolver ends the wait of the loop, which starts a new iteration; a
\* loop that is still starting has no wait to end.
RestartInProcess ==
    /\ Turn
    /\ request = "respawning"
    /\ request' = "none"
    /\ missed' = (loop # "serving")
    /\ IF loop = "serving"
       THEN loop' = "starting" /\ gatewayDraining' = FALSE /\ resetAllLanes
       ELSE UNCHANGED <<loop, gatewayDraining, sessVars, mainVars, inner>>
    /\ UNCHANGED <<session, maxConcurrent, outer, activeRuns, action, awaited, awaitRuns, overran, requests>>

\* params.start() returns, or fails: only the first failure ends the process.
StartSettles(started) ==
    /\ Turn
    /\ loop \in {"first", "starting"}
    /\ loop' = IF loop = "first" /\ ~started THEN "exited" ELSE "serving"
    /\ UNCHANGED <<session, sessVars, mainVars, maxConcurrent, inner, outer, activeRuns,
                   gatewayDraining, request, action, awaited, awaitRuns, overran, missed, requests>>

RunStep(r) ==
    \/ \E s \in Sessions : runEmbeddedPiAgent(r, s)
    \/ setActiveEmbeddedRun(r) \/ clearActiveEmbeddedRun(r)
    \/ MainTaskDone(r) \/ SessionTaskDone(r)

LoopStep ==
    \/ RequestRestart \/ RequestStop \/ RunsDrained \/ AllDrained \/ DrainTimeout
    \/ ServerClosed \/ ProcessExits \/ RestartInProcess
    \/ \E started \in BOOLEAN : StartSettles(started)

Next ==
    \/ \E r \in Runs : RunStep(r)
    \/ \E s \in Sessions : clearCommandLane(s)
    \/ \E n \in 1..MaxConcurrent : setCommandLaneConcurrency(n)
    \/ LoopStep

Spec == Init /\ [][Next]_vars

\* A run ends: every attempt has a timeout.  Microtasks always run, and so do
\* the polls and timers of the loop.
FairSpec ==
    /\ Spec
    /\ \A r \in Runs :
          /\ WF_vars(setActiveEmbeddedRun(r) \/ MainTaskDone(r))
          /\ WF_vars(clearActiveEmbeddedRun(r))
          /\ WF_vars(SessionTaskDone(r))

-----------------------------------------------------------------------------
(* Properties.                                                             *)

InBody(r) == body[r] \in {"preparing", "attempt", "finishing"}

OneBody == \A r, q \in Runs : InBody(r) /\ InBody(q) /\ session[r] = session[q] => r = q

\* Type invariant; a session lane never has two active tasks.
TypeOK ==
    /\ session \in [Runs -> Sessions \cup {None}]
    /\ sessQueue \in [Sessions -> Seq(Runs)] /\ sessActive \in [Sessions -> SUBSET Runs]
    /\ \A s \in Sessions : \A r, q \in sessActive[s] : r = q
    /\ mainQueue \in Seq(Runs) /\ mainActive \subseteq Runs
    /\ maxConcurrent \in 1..MaxConcurrent
    /\ inner \in [Runs -> {"none", "pending"} \cup Settled]
    /\ outer \in [Runs -> {"none", "pending"} \cup Settled]
    /\ body \in [Runs -> {"none", "preparing", "attempt", "finishing", "done"}]
    /\ activeRuns \in [Sessions -> Runs \cup {None}]
    /\ gatewayDraining \in BOOLEAN /\ loop \in {"first", "starting", "serving", "exited"}
    /\ request \in {"none", "draining", "closing", "respawning"}
    /\ action \in {"none", "restart", "stop"}
    /\ awaited \subseteq {"main", "session"} \X Runs
    /\ awaitRuns \in BOOLEAN /\ overran \in BOOLEAN /\ missed \in BOOLEAN
    /\ requests \in 0..MaxRequests

\* Unless a drain timed out, at most one run is at work in a session, whatever
\* restarts, clears and changes of the concurrency happen in between
\* (the two lanes of runEmbeddedPiAgent, resetAllLanes).
OneRunPerSession == ~overran => OneBody

\* A restart whose drain did not time out finds no run at work when it closes
\* the server, although main went on starting runs that were queued in it
\* (waitForActiveTasks, waitForActiveEmbeddedRuns).
DrainedIsQuiet ==
    request \in {"closing", "respawning"} /\ action = "restart" /\ ~overran
        => \A r \in Runs : ~InBody(r)

\* A gateway that serves refuses runs only while a restart is under way, or
\* because its last restart ended before the loop waited for one (then nobody
\* resets the flag: markGatewayDraining, restartResolver, resetAllLanes).
RefusesOnlyForRestart == loop = "serving" /\ gatewayDraining /\ ~missed => request # "none"

\* The promise of every run that was submitted settles, or the process ends:
\* no lane is left with a queue and nobody to pump it (completeTask, pump,
\* resetAllLanes).
RunsSettle == \A r \in Runs : outer[r] = "pending" ~> (outer[r] \in Settled \/ loop = "exited")

=============================================================================
