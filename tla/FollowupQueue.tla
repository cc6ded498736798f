--------------------------- MODULE FollowupQueue ---------------------------
(***************************************************************************)
(* OpenClaw's follow-up queue of one session: messages that arrive while   *)
(* the agent works are queued, and a drain runs them when it is done.      *)
(*                                                                         *)
(* The registry FOLLOWUP_QUEUES holds at most one queue object for the     *)
(* session; a drain keeps the object it began with, registered or not.     *)
(* op is the session's reply operation, which a direct run and a follow-up *)
(* run have to create and only one can have.  A message is a number, one   *)
(* for every delivery, with the channel it came from, the sender that      *)
(* decides its authorisation, and the message id: two deliveries of one    *)
(* message have the same, and one without an id has one of its own.        *)
(* Which of the equivalent callbacks runs a follow-up is left out, and so  *)
(* are the settings a later message may bring.                             *)
(***************************************************************************)
EXTENDS Naturals, Sequences, FiniteSets

CONSTANTS MaxMessages,  \* bound on the messages that arrive
          Cap,          \* messages.queue.cap
          Channels, Senders,
          None,         \* undefined
          Direct,       \* the owner of op when it is no queue
          MaxDirects,   \* bound on the messages that run at once
          MaxFailures,  \* bound on follow-up runs that throw
          MaxClears     \* bound on the clears of the session's queues

ASSUME QueueAssumption ==
    /\ MaxMessages \in Nat /\ Cap \in Nat \ {0}
    /\ MaxDirects \in Nat /\ MaxFailures \in Nat /\ MaxClears \in Nat
    /\ None \notin Nat /\ Direct \notin Nat /\ None # Direct

Messages == 1..MaxMessages
Queues   == 1..(MaxClears + 1)

VARIABLES
    mode, policy,     \* settings: followup or collect; old, new or summarize
    channel, sender, id,  \* of every message
    registry,         \* FOLLOWUP_QUEUES.get(key)
    items,            \* queue.items
    lines,            \* queue.summaryLines; droppedCount > 0 when there are any
    lastRun,          \* whether queue.lastRun is defined
    drain,            \* the queue's drain: none, debounce, starting, running
    force,            \* collectState.forceIndividualCollect of that drain
    batch,            \* what it runs
    op,               \* the reply operation of the session
    deciding,         \* messages that saw an active run and are to be queued
    arrived,          \* how many messages arrived
    accepted,         \* messages that were queued
    expired,          \* those whose entry in RECENT_QUEUE_MESSAGE_IDS is gone
    ran,              \* messages whose follow-up run returned
    told,             \* messages whose line a summary gave to such a run
    discarded,        \* dropped by policy old, or lines that fell off the list
    cleared,          \* removed by a clear
    raced,            \* a drop or a clear hit a queue whose drain was under way
    directs, failures, clears

setting    == <<mode, policy, channel, sender, id>>
queueVars  == <<registry, items, lines, lastRun, drain, force, batch>>
history    == <<accepted, ran, told, discarded, cleared, raced>>
counts     == <<directs, failures, clears>>
vars       == <<setting, queueVars, op, deciding, arrived, history, expired, counts>>

NoBatch == [kind |-> "none", msgs |-> <<>>, rest |-> <<>>, summary |-> <<>>]

Elems(s) == {s[i] : i \in 1..Len(s)}

Init ==
    /\ mode \in {"followup", "collect"} /\ policy \in {"old", "new", "summarize"}
    /\ channel \in [Messages -> Channels] /\ sender \in [Messages -> Senders]
    /\ id \in [Messages -> Messages]
    /\ \A m \in Messages : /\ id[m] <= m /\ id[id[m]] = id[m]
                           /\ channel[id[m]] = channel[m] /\ sender[id[m]] = sender[m]
    /\ registry = None
    /\ items = [q \in Queues |-> <<>>] /\ lines = [q \in Queues |-> <<>>]
    /\ lastRun = [q \in Queues |-> FALSE]
    /\ drain = [q \in Queues |-> "none"] /\ force = [q \in Queues |-> FALSE]
    /\ batch = [q \in Queues |-> NoBatch]
    /\ op = None /\ deciding = {} /\ arrived = 0
    /\ accepted = {} /\ expired = {} /\ ran = {} /\ told = {} /\ discarded = {} /\ cleared = {}
    /\ raced = FALSE /\ directs = 0 /\ failures = 0 /\ clears = 0

-----------------------------------------------------------------------------
(* Drains.                                                                 *)

Pending(is, ls, q) == is[q] # <<>> \/ ls[q] # <<>>

\* scheduleFollowupDrain: begins a drain of the registered queue unless it has
\* one; an empty queue is drained at once and taken from the registry.
scheduleFollowupDrain(reg, is, ls, dr) ==
    IF reg = None \/ dr[reg] # "none"
    THEN registry' = reg /\ drain' = dr /\ UNCHANGED force
    ELSE /\ force' = [force EXCEPT ![reg] = FALSE]
         /\ IF Pending(is, ls, reg)
            THEN registry' = reg /\ drain' = [dr EXCEPT ![reg] = "debounce"]
            ELSE registry' = None /\ drain' = dr

\* The finally block: the key is deleted, whatever queue it has by now, or the
\* drain begins again.
DrainEnds(q, is, ls) ==
    LET idle == [drain EXCEPT ![q] = "none"]
    IN  IF Pending(is, ls, q) THEN scheduleFollowupDrain(registry, is, ls, idle)
        ELSE registry' = None /\ drain' = idle /\ UNCHANGED force

\* The while condition of the drain.
NextRound(q, is, ls) ==
    IF Pending(is, ls, q)
    THEN drain' = [drain EXCEPT ![q] = "debounce"] /\ UNCHANGED <<registry, force>>
    ELSE DrainEnds(q, is, ls)

\* hasCrossChannelItems: every message has a channel to route to.
isCrossChannel(s) == \E m, n \in Elems(s) : channel[m] # channel[n]

\* How many messages at the front have one authorisation.
GroupLength(s) ==
    IF \E i \in 1..Len(s) : sender[s[i]] # sender[s[1]]
    THEN (CHOOSE i \in 1..Len(s) : /\ sender[s[i]] # sender[s[1]]
                                   /\ \A j \in 1..(i - 1) : sender[s[j]] = sender[s[1]]) - 1
    ELSE Len(s)

\* The first group of splitCollectItemsByAuthorization, and what is left.
GroupBatch(s, summary) ==
    [kind |-> "group", msgs |-> SubSeq(s, 1, GroupLength(s)),
     rest |-> SubSeq(s, GroupLength(s) + 1, Len(s)), summary |-> summary]

\* A summary prompt exists: only policy summarize keeps lines.
Summary(q) == lines[q]

ItemBatch(q)    == [NoBatch EXCEPT !.kind = "item", !.msgs = <<Head(items[q])>>]
SummaryBatch(q) == [NoBatch EXCEPT !.kind = "summary", !.summary = Summary(q)]
\* In place of the message at the front, and with its routing.
HeadBatch(q)    == [NoBatch EXCEPT !.kind = "head", !.summary = Summary(q)]

\* What a round of the drain hands to runFollowup; NoBatch when it gives up.
RoundBatch(q) ==
    IF mode = "collect"
    THEN CASE (force[q] \/ isCrossChannel(items[q])) /\ items[q] # <<>> -> ItemBatch(q)
           [] items[q] = <<>> -> IF Summary(q) # <<>> /\ lastRun[q] THEN SummaryBatch(q) ELSE NoBatch
           [] OTHER -> GroupBatch(items[q], Summary(q))
    ELSE CASE Summary(q) # <<>> -> IF lastRun[q] /\ items[q] # <<>> THEN HeadBatch(q) ELSE NoBatch
           [] items[q] = <<>> -> NoBatch
           [] OTHER -> ItemBatch(q)

\* The debounce time is over.
DrainRound(q) ==
    /\ drain[q] = "debounce"
    /\ batch' = [batch EXCEPT ![q] = RoundBatch(q)]
    /\ IF RoundBatch(q) = NoBatch
       THEN DrainEnds(q, items, lines)
       ELSE /\ drain' = [drain EXCEPT ![q] = "starting"]
            /\ force' = [force EXCEPT ![q] = @ \/ (mode = "collect" /\ isCrossChannel(items[q]))]
            /\ UNCHANGED registry
    /\ UNCHANGED <<setting, items, lines, lastRun, op, deciding, arrived, history, expired, counts>>

\* runFollowup creates its reply operation, or throws because there is one.
FollowupStarts(q) ==
    /\ drain[q] = "starting"
    /\ IF op = None
       THEN op' = q /\ drain' = [drain EXCEPT ![q] = "running"] /\ UNCHANGED <<registry, force, batch>>
       ELSE /\ DrainEnds(q, items, lines)
            /\ batch' = [batch EXCEPT ![q] = NoBatch]
            /\ UNCHANGED op
    /\ UNCHANGED <<setting, items, lines, lastRun, deciding, arrived, history, expired, counts>>

\* Mutant: the messages of a group stay in the queue after their run.
Taken_NotSpliced(b) == IF b.kind = "group" THEN 0 ELSE 1

\* How many messages the drain takes from the front after a run.
Taken(b) == CASE b.kind \in {"item", "head"} -> 1
              [] b.kind = "group" -> Len(b.msgs)
              [] OTHER -> 0

\* The run returned; its messages are taken off the front of the queue, the
\* lines are forgotten if a summary was given, and the next group follows.
FollowupReturns(q) ==
    LET b  == batch[q]
        is == [items EXCEPT ![q] = SubSeq(@, Taken(b) + 1, Len(@))]
        ls == IF b.summary # <<>> THEN [lines EXCEPT ![q] = <<>>] ELSE lines
    IN  /\ drain[q] = "running"
        /\ op' = None
        /\ items' = is /\ lines' = ls
        /\ ran' = ran \cup Elems(b.msgs)
        /\ told' = told \cup Elems(b.summary)
        /\ IF b.rest # <<>>
           THEN /\ batch' = [batch EXCEPT ![q] = GroupBatch(b.rest, <<>>)]
                /\ drain' = [drain EXCEPT ![q] = "starting"]
                /\ UNCHANGED <<registry, force>>
           ELSE /\ batch' = [batch EXCEPT ![q] = NoBatch]
                /\ NextRound(q, is, ls)
        /\ UNCHANGED <<setting, lastRun, deciding, arrived, accepted, expired, discarded,
                       cleared, raced, counts>>

\* Mutant: the message is taken off before its run, and gone when that throws.
FollowupThrows_Shifted(q) ==
    LET is == [items EXCEPT ![q] = SubSeq(@, 2, Len(@))]
    IN  /\ drain[q] = "running" /\ failures < MaxFailures
        /\ failures' = failures + 1
        /\ op' = None
        /\ items' = is
        /\ batch' = [batch EXCEPT ![q] = NoBatch]
        /\ DrainEnds(q, is, lines)
        /\ UNCHANGED <<setting, lines, lastRun, deciding, arrived, history, expired, directs, clears>>

\* runFollowup threw, before the agent's run or when its reply could not be
\* delivered: nothing is taken, and the drain begins again with the same work.
FollowupThrows(q) ==
    /\ drain[q] = "running" /\ failures < MaxFailures
    /\ failures' = failures + 1
    /\ op' = None
    /\ batch' = [batch EXCEPT ![q] = NoBatch]
    /\ DrainEnds(q, items, lines)
    /\ UNCHANGED <<setting, items, lines, lastRun, deciding, arrived, history, expired, directs, clears>>

-----------------------------------------------------------------------------
(* Messages.                                                               *)

\* A message with nothing active runs at once.
DirectRun ==
    /\ op = None /\ directs < MaxDirects
    /\ op' = Direct /\ directs' = directs + 1
    /\ UNCHANGED <<setting, queueVars, deciding, arrived, history, expired, failures, clears>>

\* finalizeWithFollowup at the end of every direct run.
DirectRunEnds ==
    /\ op = Direct
    /\ op' = None
    /\ scheduleFollowupDrain(registry, items, lines, drain)
    /\ UNCHANGED <<setting, items, lines, lastRun, batch, deciding, arrived, history, expired, counts>>

\* A message that finds a run active; it is queued some awaits later.
Arrive ==
    /\ op # None /\ arrived < MaxMessages
    /\ arrived' = arrived + 1
    /\ deciding' = deciding \cup {arrived + 1}
    /\ UNCHANGED <<setting, queueVars, op, history, expired, counts>>

Free(q) == registry # q /\ drain[q] = "none"

\* getFollowupQueue: the registered queue, or a new one.
TheQueue == IF registry # None THEN registry ELSE CHOOSE q \in Queues : Free(q)

\* The contents of TheQueue: a new one is empty.
Contents(f) == IF registry = None THEN [f EXCEPT ![TheQueue] = <<>>] ELSE f

\* Mutant: the queue that is full keeps its cap plus one messages.
Overflow_OffByOne(s) == Len(s) > Cap

Overflow(s) == Len(s) >= Cap

\* Mutant: nobody looks whether the run is still active.
AfterEnqueue_NoRecheck(q, is, ls) == registry' = q /\ UNCHANGED <<drain, force>>

\* The liveness of the run is checked again after the message is queued.
AfterEnqueue(q, is, ls) ==
    IF op = None THEN scheduleFollowupDrain(q, is, ls, drain)
    ELSE registry' = q /\ UNCHANGED <<drain, force>>

LastLines(s) == IF Len(s) > Cap THEN Tail(s) ELSE s

\* Mutant: only the queue is searched for the message, not the recent ids.
Duplicate_QueueOnly(m) == \E n \in Elems(Contents(items)[TheQueue]) : id[n] = id[m]

\* The message id is one of the recent ones, or that of a message in the queue.
Duplicate(m) ==
    \E n \in (accepted \ expired) \cup Elems(Contents(items)[TheQueue]) : id[n] = id[m]

\* enqueueFollowupRun with applyQueueDropPolicy.
enqueueFollowupRun(m) ==
    LET q    == TheQueue
        old  == Contents(items)
        full == Overflow(old[q])
        kept == IF full THEN Tail(old[q]) ELSE old[q]
        head == Head(old[q])
        note == IF full /\ policy = "summarize" THEN Append(Contents(lines)[q], head) ELSE Contents(lines)[q]
        is   == [old EXCEPT ![q] = IF full /\ policy = "new" THEN @ ELSE Append(kept, m)]
        ls   == [Contents(lines) EXCEPT ![q] = LastLines(note)]
    IN  /\ m \in deciding /\ ~Duplicate(m)
        /\ deciding' = deciding \ {m}
        /\ items' = is /\ lines' = ls
        /\ lastRun' = [lastRun EXCEPT ![q] = TRUE]
        /\ accepted' = IF full /\ policy = "new" THEN accepted ELSE accepted \cup {m}
        /\ discarded' = discarded \cup (IF full /\ policy = "old" THEN {head} ELSE {})
                                  \cup (Elems(note) \ Elems(LastLines(note)))
        /\ raced' = (raced \/ (full /\ policy # "new" /\ drain[q] \in {"starting", "running"}))
        /\ AfterEnqueue(q, is, ls)
        /\ UNCHANGED <<setting, batch, op, arrived, expired, ran, told, cleared, counts>>

\* A message that is delivered again is skipped, after getFollowupQueue, which
\* may have made a queue.
SkipsDuplicate(m) ==
    LET q == TheQueue
    IN  /\ m \in deciding /\ Duplicate(m)
        /\ deciding' = deciding \ {m}
        /\ items' = Contents(items) /\ lines' = Contents(lines)
        /\ lastRun' = [lastRun EXCEPT ![q] = @ /\ registry # None]
        /\ AfterEnqueue(q, Contents(items), Contents(lines))
        /\ UNCHANGED <<setting, batch, op, arrived, history, expired, counts>>

\* The entry of a queued message in RECENT_QUEUE_MESSAGE_IDS is five minutes
\* old, or one of more than ten thousand.  As a bound, only the entries that are
\* asked for go.
Expire(m) ==
    /\ m \in accepted \ expired
    /\ \E n \in Messages : n # m /\ id[n] = id[m]
    /\ expired' = expired \cup {m}
    /\ UNCHANGED <<setting, queueVars, op, deciding, arrived, history, counts>>

\* clearSessionQueues: an abort, a reset or the end of a subagent.
clearFollowupQueue ==
    /\ clears < MaxClears
    /\ registry # None
    /\ clears' = clears + 1
    /\ cleared' = cleared \cup Elems(items[registry]) \cup Elems(lines[registry])
    /\ items' = [items EXCEPT ![registry] = <<>>]
    /\ lines' = [lines EXCEPT ![registry] = <<>>]
    /\ lastRun' = [lastRun EXCEPT ![registry] = FALSE]
    /\ raced' = (raced \/ drain[registry] # "none")
    /\ registry' = None
    /\ UNCHANGED <<setting, drain, force, batch, op, deciding, arrived, accepted, expired, ran,
                   told, discarded, directs, failures>>

DrainStep(q) == DrainRound(q) \/ FollowupStarts(q) \/ FollowupReturns(q) \/ FollowupThrows(q)

Next ==
    \/ \E q \in Queues : DrainStep(q)
    \/ DirectRun \/ DirectRunEnds \/ Arrive
    \/ \E m \in Messages : enqueueFollowupRun(m) \/ SkipsDuplicate(m) \/ Expire(m)
    \/ clearFollowupQueue

Spec == Init /\ [][Next]_vars

\* Debounce timers fire, runs end (they have a timeout), and what was decided is
\* carried out.
Fairness ==
    /\ \A q \in Queues : /\ WF_vars(DrainRound(q)) /\ WF_vars(FollowupStarts(q))
                         /\ WF_vars(FollowupReturns(q))
    /\ WF_vars(DirectRunEnds)
    /\ \A m \in Messages : WF_vars(enqueueFollowupRun(m) \/ SkipsDuplicate(m))

FairSpec == Spec /\ Fairness

-----------------------------------------------------------------------------
(* Properties.                                                             *)

\* The types of the queues, and of what is counted.
QueueType ==
    /\ mode \in {"followup", "collect"} /\ policy \in {"old", "new", "summarize"}
    /\ registry \in Queues \cup {None} /\ op \in Queues \cup {None, Direct}
    /\ items \in [Queues -> Seq(Messages)] /\ lines \in [Queues -> Seq(Messages)]
    /\ \A q \in Queues : Len(items[q]) <= Cap /\ Len(lines[q]) <= Cap
    /\ lastRun \in [Queues -> BOOLEAN] /\ force \in [Queues -> BOOLEAN]
    /\ drain \in [Queues -> {"none", "debounce", "starting", "running"}]
    /\ \A q \in Queues : (batch[q] # NoBatch) <=> (drain[q] \in {"starting", "running"})
    /\ deciding \subseteq Messages /\ arrived \in 0..MaxMessages
    /\ accepted \cup ran \cup told \cup discarded \cup cleared \subseteq Messages
    /\ raced \in BOOLEAN /\ directs \in 0..MaxDirects /\ failures \in 0..MaxFailures /\ clears \in 0..MaxClears

\* Type invariant; a queue never has more messages or lines than its cap.
TypeOK ==
    /\ QueueType
    /\ channel \in [Messages -> Channels] /\ sender \in [Messages -> Senders]
    /\ id \in [Messages -> Messages] /\ expired \subseteq accepted

\* The messages somebody still has: a queue that is registered or drained.
Held == UNION {Elems(items[q]) \cup Elems(lines[q]) : q \in {p \in Queues : ~Free(p)}}

Answered == ran \cup told \cup discarded \cup cleared

\* Summaries that are given in place of the first message are lossy by
\* themselves.
Lossy == mode # "collect" /\ policy = "summarize"

\* A message that was queued is run, named in a summary, dropped by the policy
\* or cleared, and until then some queue has it: unless a drop or a clear hits
\* a drain under way, which takes messages by their number
\* (drainNextQueueItem, the splice of a group, the finally block).
NoSilentLoss == ~raced /\ ~Lossy => accepted \subseteq Held \cup Answered

\* What the documentation says of the policy summarize: whatever is dropped is
\* in the summary that a run is given.
DroppedAreSummarised == policy = "summarize" /\ clears = 0 => accepted \subseteq Held \cup Answered

\* The messages that were given to a follow-up run.
Given == ran \cup UNION {Elems(batch[q].msgs) : q \in {p \in Queues : drain[p] = "running"}}

\* A message whose follow-up run returned is given to no other, although runs
\* that throw are tried again and groups overlap with new arrivals (the splice
\* after the run); and of two deliveries of one message id both are given to
\* follow-up runs only if the entry of one of them in RECENT_QUEUE_MESSAGE_IDS
\* is gone (enqueueFollowupRun), however often the queue was emptied, dropped
\* from or cleared between.  Nothing is promised of messages without an id, nor
\* of a delivery that finds nothing active: a direct run asks nobody.
NoMessageRunsTwice ==
    /\ \A q \in Queues : drain[q] = "running" => Elems(batch[q].msgs) \cap ran = {}
    /\ \A m, n \in Given : m # n /\ id[m] = id[n] => {m, n} \cap expired # {}

\* Every message that was queued is answered in the end, under the conditions
\* of NoSilentLoss: the queue is never left with nobody to drain it, although
\* the run it waited for may be over before it is queued (the check after
\* enqueueFollowupRun, the finally block, finalizeWithFollowup).
EveryMessageIsAnswered ==
    \A m \in Messages : m \in accepted ~> (m \in Answered \/ raced \/ Lossy)

=============================================================================
