-------------------------- MODULE SessionWriteLock --------------------------
(***************************************************************************)
(* The lock file OpenClaw keeps beside a session's transcript, for one     *)
(* session.  Processes (the gateway, a command line, a sandbox) run        *)
(* several callers each; the callers of a process share HELD_LOCKS.        *)
(*                                                                         *)
(* A process that dies may be followed by another with the same pid: inc   *)
(* counts them, and stands for the start time in the payload where the     *)
(* platform gives one.  Lock files are numbered in the order in which they *)
(* are made; the number is what the code cannot see, for it removes files  *)
(* by their path.  Every await is a step of its own: the payload of a lock *)
(* is read in one, its owner is looked up in the next, and the file is     *)
(* removed in a third.                                                     *)
(*                                                                         *)
(* The lock stands processes that die at any moment and come back with the *)
(* same pid, callers that share it, payloads that are not written, and     *)
(* judgements of a lock that is there and that nobody else is about to     *)
(* remove.  It does not stand two that judge one lock at a time, a lock    *)
(* released or removed between the reading of its payload and a judgement  *)
(* that it is stale, owners that take longer than staleMs or maxHoldMs,    *)
(* signals, a clean-up beside the runs, and platforms without start times: *)
(* calm says that there was none of these so far.  As a bound, watchdog,   *)
(* signals and ageing only disturb a lock that is calm.                    *)
(***************************************************************************)
EXTENDS Naturals, FiniteSets

CONSTANTS Procs,      \* pids
          Callers,    \* pairs of the pid of the caller's process and a number
          None,       \* no file, no entry
          MaxOpens,   \* bound on the lock files made
          MaxDeaths   \* bound on the deaths of processes

ASSUME LockAssumption ==
    /\ Callers \subseteq Procs \X Nat /\ IsFiniteSet(Callers)
    /\ MaxOpens \in Nat /\ MaxDeaths \in Nat
    /\ None \notin [n : Nat, owner : Procs, inc : Nat, whole : BOOLEAN, old : BOOLEAN]
    /\ None \notin [n : Nat, count : Nat]

Files == 1..MaxOpens

\* The pid of a caller's process.
pid(c) == c[1]

VARIABLES
    alive, inc,   \* of every pid
    hasStart,     \* getProcessStartTime works on this platform
    file,         \* the lock file: its number, owner, inc, whether the payload
                  \* is written and whether it is older than staleMs
    opens,        \* how many lock files were made
    pc,           \* where a caller is
    lock,         \* the lock file a caller made or shares
    seen,         \* what readLockPayload gave a caller
    heldLocks,    \* HELD_LOCKS.get(sessionFile) of a process
    watchdog,     \* the watchdog is about to remove the file
    cleaner,      \* cleanStaleLockFiles of a starting process
    cleanerSeen,  \* what readLockPayload gave it
    calm,         \* nothing happened yet that the lock does not stand
    deaths

callerVars == <<pc, lock, seen>>
cleanVars  == <<cleaner, cleanerSeen>>
procVars   == <<alive, inc, heldLocks, watchdog, cleanVars>>
vars       == <<procVars, hasStart, file, opens, callerVars, calm, deaths>>

Init ==
    /\ alive = [p \in Procs |-> TRUE] /\ inc = [p \in Procs |-> 0]
    /\ hasStart \in BOOLEAN
    /\ file = None /\ opens = 0
    /\ pc = [c \in Callers |-> "idle"] /\ lock = [c \in Callers |-> 0]
    /\ seen = [c \in Callers |-> None]
    /\ heldLocks = [p \in Procs |-> None]
    /\ watchdog = [p \in Procs |-> FALSE]
    /\ cleaner = [p \in Procs |-> "done"] /\ cleanerSeen = [p \in Procs |-> None]
    /\ calm = hasStart /\ deaths = 0

-----------------------------------------------------------------------------
(* The inspection of a lock file.                                          *)

\* The payload on the disk; null when there is none to parse.
readLockPayload == IF file # None /\ file.whole THEN file ELSE None

\* The lock file a payload was read from is still there.
StillThere(s) == file # None /\ file.n = s.n

\* Whether the payload is older than staleMs by now: as old as its file, and
\* any age when that is gone.
Ages(s) == IF StillThere(s) THEN {file.old} ELSE {s.old, TRUE}

\* The pid lives, in another process than the one that made the lock.
pidRecycled(s) == hasStart /\ inc[s.owner] # s.inc

\* inspectLockPayload of a payload that is whole.
inspectLockPayload(s, old) == ~alive[s.owner] \/ pidRecycled(s) \/ old

\* The lock has the pid of the process that looks, which has no entry for it.
shouldTreatAsOrphanSelfLock(p, s) ==
    /\ s.owner = p /\ ~hasStart /\ heldLocks[p] = None

\* Mutant: a payload that cannot be read makes the lock stale at once.
MtimeStale_Unread == file # None

\* Mutant: a payload that cannot be read never makes it stale.
MtimeStale_Never == FALSE

\* A lock without a payload is stale when the file at the path is old.
MtimeStale == file # None /\ file.old

\* Somebody has judged the lock stale and not removed it yet.
Removing == (\E c \in Callers : pc[c] = "remove") \/ (\E p \in Procs : cleaner[p] = "remove")

\* A judgement that a lock is stale disturbs when another one is under way, or
\* when the lock it is about is gone.
Disturbs(s) == Removing \/ (s # None /\ ~StillThere(s))

\* The process that made the lock file still runs.
OwnerLives == alive[file.owner] /\ inc[file.owner] = file.inc

\* The call of c is over.
Idle(c) == pc' = [pc EXCEPT ![c] = "idle"] /\ lock' = [lock EXCEPT ![c] = 0]

\* The condition of the loop, after a delay or a removal: the next attempt, or
\* the time is up.
Again(c) == \E next \in {"open", "idle"} : pc' = [pc EXCEPT ![c] = next]

-----------------------------------------------------------------------------
(* acquireSessionWriteLock.                                                *)

\* The call up to the loop: a process that holds the lock shares it.
acquireSessionWriteLock(c, allowReentrant) ==
    LET held == heldLocks[pid(c)]
    IN  /\ alive[pid(c)] /\ pc[c] = "idle" /\ UNCHANGED seen
        /\ IF allowReentrant /\ held # None
           THEN /\ heldLocks' = [heldLocks EXCEPT ![pid(c)].count = @ + 1]
                /\ pc' = [pc EXCEPT ![c] = "holding"]
                /\ lock' = [lock EXCEPT ![c] = held.n]
           ELSE pc' = [pc EXCEPT ![c] = "open"] /\ UNCHANGED <<lock, heldLocks>>
        /\ UNCHANGED <<alive, inc, watchdog, cleanVars, hasStart, file, opens, calm, deaths>>

\* fs.open with wx.
Open(c) ==
    /\ pc[c] = "open"
    /\ IF file # None
       THEN pc' = [pc EXCEPT ![c] = "inspect"] /\ UNCHANGED <<file, opens, lock>>
       ELSE /\ opens < MaxOpens
            /\ opens' = opens + 1
            /\ file' = [n |-> opens + 1, owner |-> pid(c), inc |-> inc[pid(c)],
                        whole |-> FALSE, old |-> FALSE]
            /\ lock' = [lock EXCEPT ![c] = opens + 1]
            /\ pc' = [pc EXCEPT ![c] = "write"]
    /\ UNCHANGED <<procVars, hasStart, seen, calm, deaths>>

\* The payload reaches the file, wherever its handle points.
WritePayload(c) ==
    /\ pc[c] = "write"
    /\ file' = IF file # None /\ file.n = lock[c] THEN [file EXCEPT !.whole = TRUE] ELSE file
    /\ pc' = [pc EXCEPT ![c] = "register"]
    /\ UNCHANGED <<procVars, hasStart, opens, lock, seen, calm, deaths>>

\* It does not: the file is removed and the caller gets the error.
WriteFails(c) ==
    /\ pc[c] = "write"
    /\ pc' = [pc EXCEPT ![c] = "unlink"]
    /\ UNCHANGED <<procVars, hasStart, file, opens, lock, seen, calm, deaths>>

\* HELD_LOCKS.set, a turn after the payload was written.
Register(c) ==
    /\ pc[c] = "register"
    /\ heldLocks' = [heldLocks EXCEPT ![pid(c)] = [n |-> lock[c], count |-> 1]]
    /\ pc' = [pc EXCEPT ![c] = "holding"]
    /\ UNCHANGED <<alive, inc, watchdog, cleanVars, hasStart, file, opens, lock, seen, calm, deaths>>

\* EEXIST: the payload is read; a lock that is gone by now has none.
ReadPayload(c) ==
    /\ pc[c] = "inspect"
    /\ pc' = [pc EXCEPT ![c] = "judge"]
    /\ seen' = [seen EXCEPT ![c] = readLockPayload]
    /\ UNCHANGED <<procVars, hasStart, file, opens, lock, calm, deaths>>

\* The payload is judged, a turn after it was read.
Judge(c) ==
    LET s == seen[c]
    IN  /\ pc[c] = "judge"
        /\ s # None
        /\ \E old \in Ages(s) :
              IF inspectLockPayload(s, old) \/ shouldTreatAsOrphanSelfLock(pid(c), s)
              THEN pc' = [pc EXCEPT ![c] = "remove"] /\ calm' = (calm /\ ~Disturbs(s))
              ELSE Again(c) /\ UNCHANGED calm
        /\ seen' = [seen EXCEPT ![c] = None]
        /\ UNCHANGED <<procVars, hasStart, file, opens, lock, deaths>>

\* Without a payload the file at the path is judged by its mtime; one that is
\* gone by now is tried for again.
shouldReclaimContendedLockFile(c) ==
    /\ pc[c] = "judge" /\ seen[c] = None
    /\ IF MtimeStale
       THEN pc' = [pc EXCEPT ![c] = "remove"] /\ calm' = (calm /\ ~Disturbs(None))
       ELSE Again(c) /\ UNCHANGED calm
    /\ UNCHANGED <<procVars, hasStart, file, opens, lock, seen, deaths>>

\* fs.rm of the path, whatever file it names now.
Remove(c) ==
    /\ pc[c] = "remove"
    /\ file' = None
    /\ Again(c)
    /\ UNCHANGED <<procVars, hasStart, opens, lock, seen, calm, deaths>>

-----------------------------------------------------------------------------
(* Releases.                                                               *)

\* The caller's lock is the one its process has an entry for.
IsCurrent(c) == heldLocks[pid(c)] # None /\ heldLocks[pid(c)].n = lock[c]

\* Mutant: the first release of a shared lock removes it.
releaseHeldLock_First(c) ==
    /\ pc[c] = "holding"
    /\ IF IsCurrent(c)
       THEN /\ heldLocks' = [heldLocks EXCEPT ![pid(c)] = None]
            /\ pc' = [pc EXCEPT ![c] = "unlink"] /\ UNCHANGED lock
       ELSE Idle(c) /\ UNCHANGED heldLocks
    /\ UNCHANGED <<alive, inc, watchdog, cleanVars, hasStart, file, opens, seen, calm, deaths>>

\* Mutant: the count is compared before it is taken down.
releaseHeldLock_OffByOne(c) ==
    /\ pc[c] = "holding"
    /\ IF ~IsCurrent(c)
       THEN Idle(c) /\ UNCHANGED heldLocks
       ELSE IF heldLocks[pid(c)].count > 0
            THEN heldLocks' = [heldLocks EXCEPT ![pid(c)].count = @ - 1] /\ Idle(c)
            ELSE /\ heldLocks' = [heldLocks EXCEPT ![pid(c)] = None]
                 /\ pc' = [pc EXCEPT ![c] = "unlink"] /\ UNCHANGED lock
    /\ UNCHANGED <<alive, inc, watchdog, cleanVars, hasStart, file, opens, seen, calm, deaths>>

\* release(): the last one of the entry forgets it and removes the file.
releaseHeldLock(c) ==
    /\ pc[c] = "holding"
    /\ IF ~IsCurrent(c)
       THEN Idle(c) /\ UNCHANGED heldLocks
       ELSE IF heldLocks[pid(c)].count > 1
            THEN heldLocks' = [heldLocks EXCEPT ![pid(c)].count = @ - 1] /\ Idle(c)
            ELSE /\ heldLocks' = [heldLocks EXCEPT ![pid(c)] = None]
                 /\ pc' = [pc EXCEPT ![c] = "unlink"] /\ UNCHANGED lock
    /\ UNCHANGED <<alive, inc, watchdog, cleanVars, hasStart, file, opens, seen, calm, deaths>>

\* The fs.rm of a release, or of a payload that could not be written.
Unlink(c) ==
    /\ pc[c] = "unlink"
    /\ file' = None
    /\ Idle(c)
    /\ UNCHANGED <<procVars, hasStart, opens, seen, calm, deaths>>

\* The entry is older than maxHoldMs: it is released by force, and whoever
\* holds it does not learn of it.
runLockWatchdogCheck(p) ==
    /\ alive[p] /\ heldLocks[p] # None /\ ~watchdog[p] /\ calm
    /\ heldLocks' = [heldLocks EXCEPT ![p] = None]
    /\ watchdog' = [watchdog EXCEPT ![p] = TRUE]
    /\ calm' = FALSE
    /\ UNCHANGED <<alive, inc, cleanVars, hasStart, file, opens, callerVars, deaths>>

WatchdogRemoves(p) ==
    /\ watchdog[p]
    /\ file' = None
    /\ watchdog' = [watchdog EXCEPT ![p] = FALSE]
    /\ UNCHANGED <<alive, inc, heldLocks, cleanVars, hasStart, opens, callerVars, calm, deaths>>

\* What releaseAllLocksSync leaves on the disk.
ReleasedSync(p) == IF heldLocks[p] # None THEN None ELSE file

\* A termination signal the process has another handler for: the locks go, and
\* the process goes on for a while.
handleTerminationSignal(p) ==
    /\ alive[p] /\ heldLocks[p] # None /\ calm
    /\ file' = ReleasedSync(p)
    /\ heldLocks' = [heldLocks EXCEPT ![p] = None]
    /\ calm' = FALSE
    /\ UNCHANGED <<alive, inc, watchdog, cleanVars, hasStart, opens, callerVars, deaths>>

\* The process and everything it was about to do are gone.
Dies(p) ==
    /\ alive[p] /\ deaths < MaxDeaths
    /\ deaths' = deaths + 1
    /\ alive' = [alive EXCEPT ![p] = FALSE]
    /\ heldLocks' = [heldLocks EXCEPT ![p] = None]
    /\ watchdog' = [watchdog EXCEPT ![p] = FALSE]
    /\ cleaner' = [cleaner EXCEPT ![p] = "done"]
    /\ cleanerSeen' = [cleanerSeen EXCEPT ![p] = None]
    /\ pc' = [c \in Callers |-> IF pid(c) = p THEN "idle" ELSE pc[c]]
    /\ lock' = [c \in Callers |-> IF pid(c) = p THEN 0 ELSE lock[c]]
    /\ seen' = [c \in Callers |-> IF pid(c) = p THEN None ELSE seen[c]]
    /\ UNCHANGED <<inc, hasStart, opens, calm>>

Exit(p)  == Dies(p) /\ file' = ReleasedSync(p)
Crash(p) == Dies(p) /\ UNCHANGED file

\* A process starts with a pid that was used before.
Restart(p) ==
    /\ ~alive[p]
    /\ alive' = [alive EXCEPT ![p] = TRUE]
    /\ inc' = [inc EXCEPT ![p] = @ + 1]
    /\ cleaner' = [cleaner EXCEPT ![p] = "due"]
    /\ UNCHANGED <<heldLocks, watchdog, cleanerSeen, hasStart, file, opens, callerVars, calm, deaths>>

-----------------------------------------------------------------------------
(* Time, and the clean-up of a gateway that starts.                        *)

\* The lock becomes older than staleMs.
Age ==
    /\ file # None /\ ~file.old
    /\ calm \/ ~OwnerLives
    /\ file' = [file EXCEPT !.old = TRUE]
    /\ calm' = (calm /\ ~OwnerLives)
    /\ UNCHANGED <<procVars, hasStart, opens, callerVars, deaths>>

\* cleanStaleLockFiles lists the directory.
CleanList(p) ==
    /\ alive[p] /\ cleaner[p] = "due"
    /\ cleaner' = [cleaner EXCEPT ![p] = IF file = None THEN "done" ELSE "listed"]
    /\ UNCHANGED <<alive, inc, heldLocks, watchdog, cleanerSeen, hasStart, file, opens, callerVars,
                   calm, deaths>>

CleanRead(p) ==
    /\ cleaner[p] = "listed"
    /\ cleaner' = [cleaner EXCEPT ![p] = "judge"]
    /\ cleanerSeen' = [cleanerSeen EXCEPT ![p] = readLockPayload]
    /\ UNCHANGED <<alive, inc, heldLocks, watchdog, hasStart, file, opens, callerVars, calm, deaths>>

\* It judges the lock by the time of the listing: one that is gone or has no
\* payload is stale at once.
CleanInspect(p) ==
    LET s     == cleanerSeen[p]
        stale == s = None \/ inspectLockPayload(s, s.old)
    IN  /\ cleaner[p] = "judge"
        /\ cleaner' = [cleaner EXCEPT ![p] = IF stale THEN "remove" ELSE "done"]
        /\ cleanerSeen' = [cleanerSeen EXCEPT ![p] = None]
        /\ calm' = (calm /\ s # None /\ ~(stale /\ Disturbs(s)))
        /\ UNCHANGED <<alive, inc, heldLocks, watchdog, hasStart, file, opens, callerVars, deaths>>

CleanRemove(p) ==
    /\ cleaner[p] = "remove"
    /\ file' = None
    /\ cleaner' = [cleaner EXCEPT ![p] = "done"]
    /\ UNCHANGED <<alive, inc, heldLocks, watchdog, cleanerSeen, hasStart, opens, callerVars, calm, deaths>>

CallerStep(c) ==
    \/ Open(c) \/ WritePayload(c) \/ Register(c)
    \/ ReadPayload(c) \/ Judge(c) \/ shouldReclaimContendedLockFile(c) \/ Remove(c)
    \/ releaseHeldLock(c) \/ Unlink(c)

Next ==
    \/ \E c \in Callers :
          \/ \E allowReentrant \in BOOLEAN : acquireSessionWriteLock(c, allowReentrant)
          \/ CallerStep(c) \/ WriteFails(c)
    \/ \E p \in Procs :
          \/ runLockWatchdogCheck(p) \/ WatchdogRemoves(p) \/ handleTerminationSignal(p)
          \/ Exit(p) \/ Crash(p) \/ Restart(p)
          \/ CleanList(p) \/ CleanRead(p) \/ CleanInspect(p) \/ CleanRemove(p)
    \/ Age

Spec == Init /\ [][Next]_vars

\* File operations return, a caller that waits tries again, and time passes.
FairSpec == Spec /\ (\A c \in Callers : WF_vars(CallerStep(c))) /\ WF_vars(Age)

-----------------------------------------------------------------------------
(* Properties.                                                             *)

LockFile == [n : Files, owner : Procs, inc : 0..MaxDeaths, whole : BOOLEAN, old : BOOLEAN]

\* Type invariant.
TypeOK ==
    /\ alive \in [Procs -> BOOLEAN] /\ inc \in [Procs -> 0..MaxDeaths] /\ hasStart \in BOOLEAN
    /\ file \in {None} \cup LockFile
    /\ opens \in 0..MaxOpens /\ lock \in [Callers -> 0..MaxOpens]
    /\ pc \in [Callers -> {"idle", "open", "write", "register", "inspect", "judge", "remove",
                           "holding", "unlink"}]
    /\ seen \in [Callers -> {None} \cup LockFile]
    /\ heldLocks \in [Procs -> {None} \cup [n : Files, count : 1..Cardinality(Callers)]]
    /\ watchdog \in [Procs -> BOOLEAN]
    /\ cleaner \in [Procs -> {"due", "listed", "judge", "remove", "done"}]
    /\ cleanerSeen \in [Procs -> {None} \cup LockFile]
    /\ calm \in BOOLEAN /\ deaths \in 0..MaxDeaths

\* Two callers hold the lock only if they share it.
AtMostOneHolder ==
    \A c, d \in Callers : pc[c] = "holding" /\ pc[d] = "holding" => lock[c] = lock[d]

\* The session has one writer at a time (open with wx, the judgement of
\* contended locks, the count of releases).
Exclusive == calm => AtMostOneHolder

\* While a process has an entry for the lock, the lock file on the disk is its
\* own: no release, reclaim or exit removed it early (releaseHeldLock, rm).
HeldIsOnDisk == calm => \A p \in Procs : heldLocks[p] # None => file # None /\ file.n = heldLocks[p].n

Waiters == {c \in Callers : pc[c] \in {"open", "inspect", "judge", "remove"}}

\* A lock whose process died does not keep others out for ever, whether its
\* payload was written or not and whoever has its pid now
\* (shouldReclaimContendedLockFile, shouldTreatAsOrphanSelfLock).
DeadLocksAreReclaimed ==
    \A n \in Files :
        (Waiters # {} /\ file # None /\ file.n = n /\ ~OwnerLives)
            ~> (Waiters = {} \/ file = None \/ file.n # n)

=============================================================================
