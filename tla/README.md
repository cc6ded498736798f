# Vertx in TLA+

Vertx is a web workspace on top of the OpenClaw agent runtime. This project
models the parts of it that keep state and meet concurrency or failure: the
Product API and its JSON file, the realtime chain from OpenClaw to the browser,
the session page, and three parts of the vendored OpenClaw every message of a
session goes through: the lanes of agent runs, the queue of follow-up messages
and the write lock of a session's transcript. TLC checks every module on small
instances. TLAPS proves for every instance every safety property those runs check,
and that the mirror client implements its abstract specification; liveness stays
with TLC.

- [The system](#the-system)
- [Modules](#modules)
- [Runs](#runs)
- [What the counterexamples show](#what-the-counterexamples-show)
- [Fairness](#fairness)
- [Proofs](#proofs)
- [Only model-checked, and not modelled](#only-model-checked-and-not-modelled)
- [Plan](#plan)

## The system

    OpenClaw  --ws-->  openclaw-adapter  -->  realtime-gateway  --ws-->  browser: client, hook, reducer
    (runtime)          (source, adapter)      (clients, hello)     \
                                                                    --ws-->  product-api-server: mirror client
                                                                               |
                       browser: pages  --http-->  product-api-server  -->  domain store  -->  JSON file

| component | state | operations | correct when |
|---|---|---|---|
| Domain store and repository (`packages/domain`, `packages/api`) | twelve lists and records of `ProductApiState`, five id counters | create workflow, run, knowledge source, automation; start, retry, toggle; connect Feishu; settings; audit | ids are never reissued; summaries and details agree; a run has its workflow |
| JSON file repository (`product-api-server/file-repository.ts`) | memory and one file | every mutating call rewrites the whole file | what was answered with 201 survives a crash; the file is an earlier memory |
| Product API server (`product-api-server/index.ts`) | none of its own | routes, answers 201/4xx/500 | an operation that throws answers 500 and acknowledges nothing |
| Mirror interpretation (`domain`, `mirrorRealtimeEvent…`) | the repository | seven realtime events become runs, sessions, approvals, audit events | the count of approvals stays a count; lists stay aligned |
| Mirror client (`realtime-mirror-client.ts`) | socket, timer, stopped | connect, reconnect, close | one socket, never stranded, quiet after close |
| OpenClaw source (`openclaw-adapter`, `OpenClawGatewaySource`) | socket, hello, connect promise, pending requests, timers | subscribe, request, getSnapshot, close; WebSocket callbacks | no request before the handshake; never stranded; requests settle |
| Bridge adapter (`openclaw-adapter`) | `nextEventSeq` | normalise, number | a loss is visible as a gap |
| Realtime gateway (`realtime-gateway`, `realtime-gateway-server`) | set of clients | hello, broadcast, request, close | every client gets every event; shutdown ends |
| Browser client and hook (`app/web/src/shared/realtime`) | client, refs, timers, pending requests | connect, gap recovery, submit, stop, sync, route change | one client, never stranded, the page shows its session |
| Reducer (`state.ts`) | messages, stream, segments, run, queue, approvals | nine actions | no text of a run is lost |
| OpenClaw's lanes and run loop (`openclaw/src/process/command-queue.ts`, `cli/gateway-cli/run-loop.ts`, `agents/pi-embedded-runner`) | queue, active tasks and generation of every lane, active runs, draining flag, restart resolver | enqueue a run, start, finish, clear, resize; restart, stop, drain, reset | one run per session at a time; a drained gateway is quiet; every run's promise settles |
| OpenClaw's follow-up queue (`openclaw/src/auto-reply/reply/queue`, `utils/queue-helpers.ts`) | items, dropped lines, drain, recent ids of a session | enqueue behind a run, drop, drain in groups or one by one, retry, clear | no message is lost silently or answered twice; every message is answered |
| OpenClaw's session write lock (`openclaw/src/agents/session-write-lock.ts`) | a lock file, `HELD_LOCKS` of every process | acquire, share, judge and reclaim, release, watchdog, signal, exit, clean-up | one writer; a dead owner's lock is reclaimed |
| API client, pages, contracts, the rest of OpenClaw | react-query's cache, rendering, types | | not modelled |

What is hard here: a Product API operation is several repository calls with a
write each, and a crash or a failed write can fall between any two; a replaced
WebSocket keeps its callbacks, which act on the fields of its successor; promises
started with `void` have nobody to handle a rejection; close() overlaps with
connects and requests; events get lost between OpenClaw, gateway and browser and
the only sign of it is a number; React runs effects later than the dispatch that
causes them, and callbacks keep the session they were made with. In OpenClaw an
in-process restart forgets the tasks of its lanes while they run, a drain removes
queue items by position after the run that read them, and lock files are judged
first and removed by path later, by processes that may die in between. `PROJECT.json`
lists these hazards line by line with the properties that watch them.

## Modules

| module | models | state and actions |
|---|---|---|
| `ProductRepository` | `createInMemoryProductApiRepository`, the mirror's interpretation of events, the mock state | operators only: `Apply(st, call)` is one mutating repository call, `mirror…` the calls an event leads to |
| `ProductStore` | the store, the file and the process | `mem`, `disk`, `torn`, `up`, `counters`; an operation (`createWorkflow`, `retryRun`, `MirrorEvent`, …) fills `todo` with repository calls, `RepositoryCall` makes one (memory, then file), `WriteFails`, `MirrorWriteFails`, `Crash`, `Restart` fall between |
| `OpenClawSource` | `OpenClawGatewaySource` | its fields one by one, sockets by number of attempt, a connect promise per attempt; one action per method, callback and timer. Code that runs in the microtasks of a callback belongs to that callback's action |
| `RealtimeGateway` | normalisation, `createEventFrame`, `createRealtimeGatewayServer`, and the client's gap check | numbers, sockets, `clients`, hellos; a frame is numbered by upstream's broadcast or `Targeted` at the adapter's subscription and without a number; `counted` remembers whose `lastSeq` is a number of this upstream, `behind` who of them missed a numbered event, `misled` who took a later one for the next |
| `MirrorClient` | `startRealtimeMirrorClient` | `socket`, `reconnectTimer`, `stopped`, what `close()` awaits; approval events stand for all mirrored events |
| `EventFollower` | what the Product API expects of the mirror, without sockets and timers | `phase` (away, following, closing, closed) and two counts; an event is counted once while following, never while away or closed. `MirrorClient` implements it (`FollowsEvents`) |
| `RealtimeState` | the reducer `state.ts` | operators: one record, one function of state and action. Texts are event numbers, streams are sequences of them |
| `SessionRealtime` | `useSessionRealtime` and `RealtimeGatewayClient` | the refs, the reducer state, every client with its socket, its pending requests and the session key of its callbacks; the gateway broadcasts the events of all sessions |
| `AgentLanes` | `command-queue.ts`, `runEmbeddedPiAgent`'s two lanes, the registry of active runs, `runGatewayLoop` | per run: its promise in the session lane (`outer`), in main (`inner`) and its body; the loop's request, drain and restart. One action is one turn of the event loop; `overran` and `missed` remember a drain that timed out and a restart whose wake-up nobody waited for |
| `FollowupQueue` | `getFollowupQueue`, `enqueueFollowupRun`, `scheduleFollowupDrain`, `drainNextQueueItem`, and the parts of `runReplyAgent` around them | queue objects by number (a cleared queue may still be drained while the key names another), the batch a drain is at, the reply operation of the session; a message is one delivery, with the id it may share with an earlier one, and `expired` are the queued ones whose entry in `RECENT_QUEUE_MESSAGE_IDS` is gone (`Duplicate`, `SkipsDuplicate`, `Expire`); `ran`, `told`, `discarded`, `cleared` remember what became of a message, `raced` that a drop or clear hit a drain under way |
| `SessionWriteLock` | `session-write-lock.ts`, for one session | the file with its number, owner, payload and age; a program counter per caller with one step per await (a payload is read in `ReadPayload`, judged in `Judge` or `shouldReclaimContendedLockFile`, the file removed in `Remove`, and `seen` is the payload in between); `HELD_LOCKS` per process; deaths, reused pids, the watchdog, signals and the clean-up at start; `calm` says that nothing happened yet that the lock does not stand |
| `…Proofs`, one for each of `ProductStore`, `OpenClawSource`, `RealtimeGateway`, `MirrorClient`, `SessionRealtime`, `AgentLanes`, `FollowupQueue`, `SessionWriteLock` | | the inductive invariant of the module, lemmas and theorems, see [Proofs](#proofs) |
| `MC…` | | the modules as TLC runs them |

`SessionRealtime` extends `RealtimeState`, `ProductStore` extends
`ProductRepository`. `OpenClawSource` and `RealtimeGateway` share an interface: an
upstream event, a request, a snapshot, close(). `LostEvent` in the second is what
a reconnect in the first causes. The three OpenClaw modules stand for themselves:
`FollowupQueue` sees a run of `AgentLanes` as one that is active until it ends, and
a run holds the lock of `SessionWriteLock` while it writes.

Data is abstracted to what the properties tell apart: names, texts, payloads and
error messages are gone; an id given by the store is a number, one given by the
runtime a model value; a time is the number of the operation that read the clock.

Definitions whose names end in `_` and a few words (`CountersOf_OffByOne`) are
mutants: the same operator with a plausible bug. None is used by a specification;
each shows that the property it belongs to would notice.

## Runs

| run | bounds | shows |
|---|---|---|
| `store` | 3 operations, one runtime run and session | ids unique (of audit events until a mirrored one is audited), summaries match details, acknowledged resources survive, acknowledged changes are audited, runs have their workflow, the file is an older memory, last-run times are backed by runs; with failed and torn writes, crashes, restarts |
| `source` | 3 attempts, 2 requests | never stranded; no call before the handshake; a request that was sent settles |
| `source_outage` | 3 attempts, 1 request | **violation**, see below |
| `gateway` | 2 clients, 5 numbers, every kind of upstream frame, any number of upstream restarts | a numbered event lost between two numbered ones of one upstream process is seen as a gap; close() returns |
| `mirror_client` | 4 sockets, 2 approvals | one socket, never stranded, quiet after close, close() returns, implements `EventFollower` |
| `session` | 2 sessions, 3 clients, any 2 events, user actions or route changes | one client, never stranded, quiet when unmounted, no request left pending by a close, a run's text only grows |
| `session_switch`, `session_reconnect` | 1–2 sessions, 2–3 clients, 1–3 events | **violations** |
| `lanes` | 3 runs, 2 sessions, main of 1 or 2, 2 signals | one run per session, a drained gateway is quiet, runs are refused only for a restart, every promise settles |
| `followup` | 3 messages, a queue of 2, 2 channels and senders or repeated ids (`OneDifference`), 2 direct runs, 1 failure, 1 clear | no silent loss, no message runs twice (nor two deliveries of one id while its entry is kept), every message is answered |
| `followup_overflow` | 3 messages, a queue of 2 | **violation** |
| `lock` | 2 processes, 3 callers, 2 lock files, 1 death | one writer, an entry has its file, dead locks are reclaimed |

Some properties have a condition that names the case in which the code does not
keep them: `Stayed` (the page was not moved to another session), `~overran`,
`~missed`, `~raced`, `calm`; `behind` and `expired` mark such cases one client and
one message at a time. Each of these is a history the model itself produces, the case
outside it is described [below](#what-the-counterexamples-show), and the mutants
show that the property still notices bugs inside it.

`session` uses symmetry: sessions are model values that no definition chooses
among, and its properties are safety properties.

Why the bounds are enough. Three store operations are a create, something on what
it created, and something after a crash; the counters are derived anew at each
restart, so a longer history adds lists of the same shape. Three connection
attempts give a replaced socket, its successor, and the one that a timer armed by
the first opens: callbacks only distinguish "this socket" from "the current one".
One or two requests suffice because requests do not interact. Three clients of the
page are the lost one, its replacement, and the replacement's. Three runs in two
sessions are two that contend for a session lane and one that contends with them
for main; two signals are a restart and another during or after it. A queue of two
overflows with its third message, in any state of the drain. Two lock files are
one that is reclaimed and its successor, and three callers are two that share an
entry and a contender in another process; watchdog, signals and the ageing of a
lock whose owner lives are taken only while the lock is calm, since one of them ends
the case the safety properties are about. In `followup` the messages of one behaviour
differ in channel or in sender or repeat an id, which the drain and the check for
duplicates look at separately (`MCFollowupQueue`; the theorems have no such bound). For the safety properties of the passing
runs the argument need not be trusted: the [theorems](#proofs) hold for all bounds.

Deadlock checking is off in all runs: a process may have ended, a page may have
been left, and clocks and attempts are bounded.

## What the counterexamples show

Each is a run with one property, taken from a sentence of the repository's docs;
`PROJECT.json` quotes it.

- `source_outage`: a lost upstream connection can end the gateway process, by the
  timeout of a `void` sessions.subscribe or a refused `void ensureConnected()`.
- `session_switch`: after a route change the old client's close event reconnects
  with the old session's callbacks and leaks the new client. `OneClient` therefore
  holds only for a page that stays on its session (`Stayed`). React's StrictMode mounts twice in development and
  meets the same order.
- `session_reconnect`: no history is loaded after a reconnect.
- `followup_overflow`: an overflow during a follow-up run drops the item that runs;
  the shift after the run then removes the next one, which neither ran nor is in
  the summary.

Observed while modelling, and not runs of their own.

In the Product API: the settings change in memory before the file is written and
audited, so a failed write leaves a change in force that is not in the audit log
(`AckedAreAudited` is about changes that were answered with success); with a mirror
two counters hand out audit ids and collide; a late event turns a completed
mirrored run back to running; the mirror ignores hello and snapshot, so the events
it missed stay missed.

In the realtime chain: OpenClaw numbers only its broadcasts. `session.message`,
`sessions.changed` and tool events go to subscribers without a number
(`server-broadcast.ts:70`), which the adapter is by default. The loss of one leaves no
gap at all, and the adapter gives each the next number, which can be exactly that of
a lost broadcast; numbers that start again after an upstream restart look like no
gap. `LossIsDetected` is what is left: a client whose last event was a broadcast sees
the loss of later ones, provided that the next event it gets is a broadcast of the
same upstream. Also, requests and hellos that arrive while
the source's close() waits, or a second reconnect timer, open an upstream socket
after it; events that the source filters out use up upstream numbers, so a browser
reloads its history without any loss.

On the page: `activeRunRef` is one render late, so a message right after the
terminal frame of a run is deferred to a frame that never comes; the reducer
applies the events of all sessions, which breaks `PageShowsItsSession` with deltas
and terminal frames alone; a first page load never loads the history; a failed
`chat.send` replays the demo frames on a page that is connected to a gateway.

In OpenClaw: after a drain that timed out `resetAllLanes` empties the active tasks
while the runs go on, and the next run of a session starts beside the one at work
(`docs/concepts/queue.md:83` promises otherwise); a restart asked for while the
server starts wakes nobody (`run-loop.ts:111`), and the gateway serves with
`gatewayDraining` set and refuses every run; a clear during a drain lets the end of
that drain delete a queue by key that is a new one; a follow-up that throws after
its model run repeats it. A message that is delivered again is answered again when the
entry of its id is more than five minutes old or one of more than ten thousand, when
it has no id, or when nothing is active: a direct run does not ask
(`enqueue.ts:14`). One judge alone can remove a lock that lives
(`session-write-lock.ts:548`–`565`): it reads the payload, the owner releases the lock
and exits, another caller makes a new one, and the judge finds the old pid dead and
removes the path; TLC finds this trace when `Disturbs` leaves late judgements out. Two
judges of one stale lock can likewise remove each other's new lock; the clean-up at start removes a lock whose
payload is not written yet; without process start times a caller may take its own
process's lock for an orphan between the payload and `HELD_LOCKS.set`; an owner
that is forced out by the watchdog, or robbed by age, writes on.

## Fairness

Safety properties assume none. Six modules state it:

- `OpenClawSource!FairSpec`: the request timer fires (`setTimeout` in sendRequest).
- `RealtimeGateway!FairSpec`: the source's close() ends, a socket that is being
  closed is closed, the server then emits close. The ws library ends a close
  handshake without an answer after thirty seconds.
- `MirrorClient!FairSpec`: a socket that is being closed is closed, for the same
  reason.
- `AgentLanes!FairSpec`: a run that started registers or ends, and ends once
  registered (every attempt has a timeout), and the microtasks of its tasks run.
  Nothing is assumed of the loop: a restart may never be asked for.
- `FollowupQueue!Fairness`: debounce timers fire, runs return (they have a timeout;
  the bounded failures are the exception), a message that is being queued is.
- `SessionWriteLock!FairSpec`: file operations return, a caller that waits tries
  again unless it times out, a caller that holds the lock releases it, and time
  passes. Nothing is assumed of deaths, restarts and clean-ups.

No fairness is assumed of peers: nothing says that an upstream answers, that a
connect succeeds or that a client leaves.

## Proofs

Every invariant and every action property of the passing runs is a theorem, for
every value of the constants. The assumptions are those the modules name, which TLC
evaluates on every run: bounds are natural numbers (a queue's cap, main's
concurrency, the clients of a page and the mirror's sockets are at least one); ids
of the runtime are not numbers, as those of the store are; sentinels (`None`,
`Direct`) are not among the values they stand beside; for the lock, the callers are
finitely many. Every proof has the same shape: the invariant `Inv` holds at the
start, each action keeps it (one lemma per action), and it implies the property.

**ProductStore.** `TypeCorrect`, `IdsStayUnique`, `SummariesMatch`, `AnswersSurvive`,
`AnswersAreAudited`, `RunsAreOwned`, `FileFollowsMemory`, and the action property
`LastRunsAreBacked`. An operation is several repository calls, so the invariant
speaks of an operation that is half done. *StateOK* of memory and file: ids are
unique and at most the length of their list, lists match, runs are owned.
*CountersOK*: a counter is past every id and at most the length plus one, except
while the next call is the prepend that uses the id just given. The second bound is
what a restart needs, which takes its counters from the lengths, where mirrored
runs count too. *CallsOK*: what the calls still to make rest on (the workflow of
the run to be written is there, the run of the stamp to be set is there).
*ReplyOK*: the resource that the answer will name is there or is written by the next
call, and the last call audits it, so no answer goes out before both. *Behind*: the file's log is the older part of memory's.
*StampsBacked*: last-run times have their runs. *AckedIn* and *AuditedIn* then say
that what was answered is in the file and counted in its log.

**OpenClawSource.** `TypeCorrect`, `NoStranding`, `HandshakeFirst`. The invariant
has three layers. *Newest*: socket, connect promise and connect request are null
or those of the newest attempt, because callbacks of older sockets can only null
them. *Running*: a promise that is kept belongs to a socket that has its close
event still to come, and that event arms a timer; without the promise conjunct
`NeverStranded` is not inductive, since ensureConnected opens nothing while a
promise is there. *Handshake*: hello and resolved promises belong to sockets whose
handshake was accepted, and a connect request in flight travels on its own
attempt's socket, so a late answer to an older attempt cannot set the current
hello.

**RealtimeGateway.** `TypeCorrect` (the broadcast set is exactly the sockets in
use) and `LossesAreSeen`: no client is misled. *NumbersInv*: a client that is
`counted` is not ahead of upstream, and one that is `behind` is counted and strictly
behind it, so the next number exceeds `lastSeq + 1`. *HelloInv* is needed because a
hello resets `lastSeq`: a client that counts as behind has had its only hello.
Unnumbered events and upstream restarts happen at any time and take clients out of
`counted` and `behind`; clients come back with the next numbered event. That is
necessary: a client left in `behind` by either is misled, as TLC shows.

**MirrorClient.** `TypeCorrect`, `AtMostOneSocket`, `NoStranding`,
`QuietAfterClose`, from one invariant: before close() the live socket is the one
in `socket` and the timer is armed exactly when there is none; from close() on
only the awaited socket can be live, and not after close() has returned. From the
same invariant `Implements`: `MirrorClient` refines `EventFollower`, under the
mapping of its sockets and flags to a phase. The step that needs the invariant is
an approval event: the handlers that run for it are as many as there are open
sockets, and the count is right only because that is one exactly while following.

**SessionRealtime.** `TypeCorrect`, `ClientsExclude`, `NeverStranded`,
`LeavingIsQuiet`, `RequestsWaitOnOpenSockets`, and the action property
`TextOnlyGrows`. *ClientsOK*: the clients up to `made` have a socket and a session,
the others nothing. *HookOK*: a mounted page holds the newest client and is not
closed by the user; one that was left has neither client nor timer. *NewestOnly*:
of a page that stayed only the newest client is connected, and no timer is armed
while it is; this is why a reconnect, which closes nothing, has nothing to close.
*OnOpenSockets*: a request is pending on an open socket. The close of a socket
rejects its requests one by one and each rejection dispatches, so `TypeCorrect` and
`RequestsWaitOnOpenSockets` rest on lemmas about every length of that list. So does
`TextOnlyGrows`, on how many segments a flattened stream has: the text a tool moves
from the stream to the segments stays where it is read.

**AgentLanes.** `TypeCorrect`, `RunsExclude`, `DrainsCompletely`,
`RefusalsAreRestarts`. *Placement*: a run that waits in its session lane was not
handed to main, one that waits in main has not begun, and a run is at work only
while both of its promises are open. *Owned*: until a drain overruns, a run that
was handed to main and has not settled occupies its session lane; with one active
task to a lane that is `OneRunPerSession`. Without *Owned* the property is not
inductive, and a drain that overruns breaks it, since the lanes then forget their
tasks. *DrainWaits*: while a restart drains, every active task of a session lane is
awaited or is about to settle because main refused it; *DrainDone* is what is left
of it when the drain ends. *LoopInv* ties the flag `gatewayDraining` to a request
under way. The pumps of the lanes are lemmas of their own, used by every handler.

**FollowupQueue.** `TypeCorrect`, `NothingLostSilently`, `NothingRunsTwice`, for messages
with any channels, senders and ids. A drain
takes messages off its queue by number while drops and clears change it. *Batched*:
no message of a batch is further back in the queue than in the batch (a drop only
moves messages forward), so the number that ran takes all of them, and nothing runs
again; that holds with drops and clears too. *OnePlace*: a message is decided about,
in one queue or its drain, or was run. *Known*: what is in a queue or was run had been
queued. *OneOfTheId*, an invariant of its own: of two queued deliveries of one id the
entry of one has expired; with *Known* it is the second half of `NoMessageRunsTwice`.
*Undisturbed*, until a drop or clear hits a
drain: there is one queue and its batch is its front, so nothing else is taken with
the batch. *Strays*: every clear leaves at most one drain behind, so a new queue can
always be made. One lemma covers all the steps that change one queue.

**SessionWriteLock.** `TypeCorrect`, `EntriesOnDisk`, `OneWriter`. The invariant
has two layers. The first always holds: *Deaths* (a pid was used at most as often
as processes died, and a lock file's incarnation is not newer than its pid's),
*Numbers* (the number of a lock file is known to its maker alone until it is
entered), *Counts* (an entry's count is the number of callers that share it),
*Awake* (a caller at work is in a process that lives), *Seen* (a payload that was read
names the owner of its file for as long as that file is there) and *Watchdogs*. The second
holds in the calm case: *BetweenOwn* (whoever is between making a file and entering
it, or between forgetting an entry and removing its file, owns the file on the
disk, and is alone), *HoldersOwn* (so does every process with an entry, and every
holder shares the current entry), *RemoversRight* (whoever is about to remove a
lock as stale is alone, and the owner of the lock on the disk is dead) and *Young* (a lock that lives is
not old). `Exclusive` and `HeldIsOnDisk` are not inductive without *RemoversRight*:
a payload is read in one step, judged in a second and the file removed in a third,
and only the death of the owner of a lock that is still there makes the decision
right when it is carried out. `calm` ends when a judgement is late.

## Only model-checked, and not modelled

Liveness (`SentRequestsSettle`, `ShutdownFinishes`, `CloseReturns`, `RunsSettle`,
`EveryMessageIsAnswered`, `DeadLocksAreReclaimed`) is out of the prover's reach and
stays with TLC, and with the bounds of its runs. The properties of the runs that
expect a violation do not hold and have no theorem. Induction over data is not
available as a rule; where a proof needs it (the rejection of a list of requests,
the segments of a stream, the end of a group) it takes a least counterexample,
which the well-foundedness of the natural numbers gives.

Not modelled: routing, parsing of configuration, CORS, health checks, rendering and
react-query's cache. Of OpenClaw, which is vendored and makes up more than 99% of
the repository's lines, only the three parts above: the rest is channel plugins,
model providers, generated schemas, a command line, a web interface and scripts,
which the product neither changes nor calls except through the gateway protocol, and
most of which is I/O without concurrency of its own. Of modelled parts: the page without a gateway URL (mock plane) and
`fallbackToMock = false`, which no page sets; a gateway without a source's
`request`; error frames for malformed input; the `limit` of chat.history.
An accepted `chat.send` joins the transcript at the moment its answer is received.
Of the lanes: cron and subagent lanes, which work like main, and the reply-run
registry, which counts the runs a second time. Of the follow-up queue: modes other
than followup and collect, which do not queue or are aliases. Of the lock: other
sessions, which have other files.

## Plan

Done: the modules above, in the order Product API, OpenClaw source, browser,
gateway, mirror client and its abstract specification, OpenClaw's lanes, follow-up
queue and write lock.

Next, models:
1. Compose `RealtimeGateway` with `OpenClawSource`: requests of clients from socket
   to answer, hellos that wait for a connection which is never made, shutdown with
   requests in flight.
2. Compose `MirrorClient` with `ProductStore`: mirrored events across reconnects
   and crashes of the Product API, and the order of a run's statuses.
3. An abstract event log (each client sees a contiguous part of what was published
   since its hello, or is told of a gap) that `RealtimeGateway` implements for the
   numbered events, and an abstract resource store (create, acknowledge, crash) that
   `ProductStore` implements.
4. A liveness property of the page: after the last failure it ends up connected.

Done, proofs: the safety properties of every module, and the refinement of
`EventFollower` by `MirrorClient`.

Next, proofs:
1. The refinements of the abstract event log and of the abstract resource store,
   once they are stated. Their invariants are there: *NumbersInv* and *HelloInv* of
   the gateway, *ReplyOK* and *AckedIn* of the store.
2. The safety properties of the two compositions, from the invariants of their
   parts.
