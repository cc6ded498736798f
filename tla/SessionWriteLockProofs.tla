----------------------- MODULE SessionWriteLockProofs -----------------------
(***************************************************************************)
(* The session write lock, for any number of processes and callers: type   *)
(* correctness, and that the session has one writer at a time as long as   *)
(* nothing happens that the lock does not stand (calm).                    *)
(***************************************************************************)
EXTENDS SessionWriteLock, FiniteSetTheorems, TLAPS

Entry == [n : Files, count : Nat \ {0}]

\* TypeOK, with counts of any size, in two parts.
TypeBase ==
    /\ alive \in [Procs -> BOOLEAN] /\ inc \in [Procs -> 0..MaxDeaths] /\ hasStart \in BOOLEAN
    /\ file \in {None} \cup LockFile
    /\ opens \in 0..MaxOpens /\ lock \in [Callers -> 0..MaxOpens]
    /\ pc \in [Callers -> {"idle", "open", "write", "register", "inspect", "judge", "remove",
                           "holding", "unlink"}]
    /\ heldLocks \in [Procs -> {None} \cup Entry]
    /\ watchdog \in [Procs -> BOOLEAN]
    /\ cleaner \in [Procs -> {"due", "listed", "judge", "remove", "done"}]
    /\ deaths \in 0..MaxDeaths

SeenType ==
    /\ seen \in [Callers -> {None} \cup LockFile]
    /\ cleanerSeen \in [Procs -> {None} \cup LockFile]
    /\ calm \in BOOLEAN

\* A pid was used as often as processes died, at most.
Deaths ==
    /\ \A p \in Procs : inc[p] <= deaths /\ (~alive[p] => inc[p] < deaths)
    /\ file # None => file.inc <= inc[file.owner]

\* Callers that made a lock file and have not entered it yet.
Makers == {c \in Callers : pc[c] \in {"write", "register"}}

\* The number of a lock file is known to nobody before it is made, and to its
\* maker alone until it is entered.
Numbers ==
    /\ \A c \in Callers : lock[c] <= opens
    /\ \A c \in Callers : pc[c] \in {"write", "register", "holding", "unlink"} <=> lock[c] # 0
    /\ \A p \in Procs : heldLocks[p] # None => heldLocks[p].n <= opens
    /\ \A c \in Makers : \A d \in Callers : d # c => lock[d] # lock[c]
    /\ \A c \in Makers : \A p \in Procs : heldLocks[p] # None => heldLocks[p].n # lock[c]

\* A payload that was read is that of the lock file it was read from, for as
\* long as that file is there.
SeenOK(s) ==
    s # None => /\ s.n <= opens
                /\ StillThere(s) => /\ file.owner = s.owner /\ file.inc = s.inc
                                    /\ s.old => file.old

Seen ==
    /\ file # None => file.n <= opens
    /\ \A c \in Callers : SeenOK(seen[c])
    /\ \A p \in Procs : SeenOK(cleanerSeen[p])

\* The callers that share the entry of a process.
Holders(p) == {c \in Callers : pid(c) = p /\ pc[c] = "holding" /\ lock[c] = heldLocks[p].n}

\* The count of an entry is how many share it.
Counts == \A p \in Procs : heldLocks[p] # None => heldLocks[p].count = Cardinality(Holders(p))

\* The process p made the lock file on the disk, number n, and lives.
Owns(p, n) ==
    /\ alive[p] /\ file # None
    /\ file.n = n /\ file.owner = p /\ file.inc = inc[p]

\* Callers whose lock file is about to be entered or removed.
Between == {c \in Callers : pc[c] \in {"write", "register", "unlink"}}

BetweenOwn ==
    /\ \A c \in Between : Owns(pid(c), lock[c]) /\ heldLocks[pid(c)] = None
    /\ \A c, d \in Between : c = d

HoldersOwn ==
    /\ \A p \in Procs : heldLocks[p] # None => Owns(p, heldLocks[p].n)
    /\ \A c \in Callers : pc[c] = "holding" =>
          heldLocks[pid(c)] # None /\ heldLocks[pid(c)].n = lock[c]

Removers  == {c \in Callers : pc[c] = "remove"}
Cleaners  == {p \in Procs : cleaner[p] = "remove"}

\* Only the lock of a dead process is removed by others, and by one of them.
RemoversRight ==
    /\ Removers # {} \/ Cleaners # {} => file # None /\ ~OwnerLives
    /\ \A c, d \in Removers : c = d
    /\ \A p, q \in Cleaners : p = q
    /\ Removers = {} \/ Cleaners = {}

\* A lock that lives is younger than staleMs.
Young == file # None /\ OwnerLives => ~file.old

CalmInv == BetweenOwn /\ HoldersOwn /\ RemoversRight /\ Young

\* A caller that is at work is in a process that lives.
Awake == \A c \in Callers : pc[c] # "idle" => alive[pid(c)]

\* It is calm only where start times are known and no watchdog is at work.
Watchdogs == calm => hasStart /\ \A p \in Procs : ~watchdog[p]

Inv == TypeBase /\ SeenType /\ Deaths /\ Numbers /\ Seen /\ Counts /\ Awake /\ Watchdogs /\ (calm => CalmInv)

-----------------------------------------------------------------------------
USE LockAssumption DEF Files

LEMMA PidType == \A c \in Callers : pid(c) \in Procs
  BY DEF pid

LEMMA NoneIsNoRecord == None \notin LockFile /\ None \notin Entry
  BY DEF LockFile, Entry

\* A lock file that is made, one that is written to and one that ages are files.
LEMMA FileMade ==
    ASSUME NEW m \in Files, NEW p \in Procs, NEW i \in 0..MaxDeaths
    PROVE  [n |-> m, owner |-> p, inc |-> i, whole |-> FALSE, old |-> FALSE] # None
<1>1. [n |-> m, owner |-> p, inc |-> i, whole |-> FALSE, old |-> FALSE] \in LockFile
  BY DEF LockFile
<1> QED  BY <1>1, NoneIsNoRecord

LEMMA FileChanged ==
    ASSUME NEW f \in LockFile
    PROVE  [f EXCEPT !.whole = TRUE] # None /\ [f EXCEPT !.old = TRUE] # None
<1>1. [f EXCEPT !.whole = TRUE] \in LockFile /\ [f EXCEPT !.old = TRUE] \in LockFile
  BY DEF LockFile
<1> QED  BY <1>1, NoneIsNoRecord

LEMMA TypeInit == Init => TypeBase /\ SeenType /\ Deaths /\ Numbers /\ Seen /\ Counts /\ Watchdogs
  BY PidType DEF Init, TypeBase, SeenType, Deaths, Numbers, Makers, Seen, SeenOK, Counts, Watchdogs

\* What a step of each kind leaves alone, the actions of Next one by one.
LEMMA TypeStep ==
    ASSUME TypeBase, Deaths, Numbers, [Next]_vars
    PROVE  TypeBase'
<1> USE PidType DEF TypeBase, vars, procVars, callerVars, cleanVars, LockFile, Entry
<1>1. ASSUME NEW c \in Callers, NEW r \in BOOLEAN, acquireSessionWriteLock(c, r) PROVE TypeBase'
  BY <1>1 DEF acquireSessionWriteLock
<1>2. ASSUME NEW c \in Callers, Open(c) PROVE TypeBase'
  <2>1. CASE file # None
    BY <1>2, <2>1 DEF Open
  <2>2. CASE file = None
    <3>1. opens + 1 \in 1..MaxOpens /\ pid(c) \in Procs /\ inc[pid(c)] \in 0..MaxDeaths
      BY <1>2, <2>2 DEF Open
    <3>2. file' \in LockFile
      <4>1. file' = [n |-> opens + 1, owner |-> pid(c), inc |-> inc[pid(c)],
                     whole |-> FALSE, old |-> FALSE]
        BY <1>2, <2>2 DEF Open
      <4> HIDE DEF TypeBase
      <4> QED  BY <3>1, <4>1
    <3>3. opens' \in 0..MaxOpens /\ lock' \in [Callers -> 0..MaxOpens]
      BY <1>2, <2>2, <3>1 DEF Open
    <3> QED  BY <1>2, <2>2, <3>2, <3>3 DEF Open
  <2> QED  BY <2>1, <2>2
<1>3. ASSUME NEW c \in Callers, WritePayload(c) PROVE TypeBase'
  BY <1>3 DEF WritePayload
<1>4. ASSUME NEW c \in Callers, WriteFails(c) PROVE TypeBase'
  BY <1>4 DEF WriteFails
<1>5. ASSUME NEW c \in Callers, Register(c) PROVE TypeBase'
  <2>1. lock[c] \in 1..MaxOpens
    BY <1>5 DEF Register, Numbers
  <2> QED  BY <1>5, <2>1 DEF Register
<1>6. ASSUME NEW c \in Callers, ReadPayload(c) PROVE TypeBase'
  BY <1>6 DEF ReadPayload
<1>7. ASSUME NEW c \in Callers, Judge(c) PROVE TypeBase'
  BY <1>7 DEF Judge, Again
<1>8. ASSUME NEW c \in Callers, shouldReclaimContendedLockFile(c) \/ Remove(c) PROVE TypeBase'
  BY <1>8 DEF shouldReclaimContendedLockFile, Remove, Again
<1>9. ASSUME NEW c \in Callers, Unlink(c) PROVE TypeBase'
  BY <1>9 DEF Unlink, Idle
<1>10. ASSUME NEW c \in Callers, releaseHeldLock(c) PROVE TypeBase'
  BY <1>10 DEF releaseHeldLock, IsCurrent, Idle
<1>11. ASSUME NEW p \in Procs, runLockWatchdogCheck(p) PROVE TypeBase'
  BY <1>11 DEF runLockWatchdogCheck
<1>12. ASSUME NEW p \in Procs, WatchdogRemoves(p) PROVE TypeBase'
  BY <1>12 DEF WatchdogRemoves
<1>13. ASSUME NEW p \in Procs, handleTerminationSignal(p) PROVE TypeBase'
  BY <1>13 DEF handleTerminationSignal, ReleasedSync
<1>14. ASSUME NEW p \in Procs, Exit(p) PROVE TypeBase'
  BY <1>14 DEF Exit, Dies, ReleasedSync
<1>15. ASSUME NEW p \in Procs, Crash(p) PROVE TypeBase'
  BY <1>15 DEF Crash, Dies
<1>16. ASSUME NEW p \in Procs, Restart(p) PROVE TypeBase'
  BY <1>16 DEF Restart, Deaths
<1>17. ASSUME NEW p \in Procs, CleanList(p) PROVE TypeBase'
  BY <1>17 DEF CleanList
<1>18. ASSUME NEW p \in Procs, CleanRead(p) \/ CleanInspect(p) PROVE TypeBase'
  BY <1>18 DEF CleanRead, CleanInspect
<1>19. ASSUME NEW p \in Procs, CleanRemove(p) PROVE TypeBase'
  BY <1>19 DEF CleanRemove
<1>20. CASE Age
  BY <1>20 DEF Age
<1>21. CASE UNCHANGED vars
  BY <1>21
<1> QED
  BY <1>1, <1>2, <1>3, <1>4, <1>5, <1>6, <1>7, <1>8, <1>9, <1>10, <1>11, <1>12, <1>13, <1>14,
     <1>15, <1>16, <1>17, <1>18, <1>19, <1>20, <1>21 DEF Next, CallerStep

LEMMA DeathsStep ==
    ASSUME TypeBase, TypeBase', SeenType, Deaths, Numbers, [Next]_vars
    PROVE  Deaths' /\ (Watchdogs => Watchdogs')
<1> USE PidType DEF TypeBase, Deaths, Watchdogs, vars, procVars, callerVars, cleanVars, LockFile
<1>1. ASSUME NEW c \in Callers, Open(c) PROVE Deaths' /\ (Watchdogs => Watchdogs')
  BY <1>1 DEF Open
<1>2. ASSUME NEW c \in Callers, WritePayload(c) PROVE Deaths' /\ (Watchdogs => Watchdogs')
  BY <1>2 DEF WritePayload
<1>3. ASSUME NEW p \in Procs, Dies(p), file' \in {file, None} PROVE Deaths' /\ (Watchdogs => Watchdogs')
  BY <1>3 DEF Dies
<1>4. ASSUME NEW p \in Procs, Restart(p) PROVE Deaths' /\ (Watchdogs => Watchdogs')
  BY <1>4 DEF Restart
<1>5. CASE Age
  BY <1>5 DEF Age
<1>6. ASSUME UNCHANGED <<alive, inc, deaths>>, file' \in {file, None}
      PROVE  Deaths'
  BY <1>6
<1>7. ASSUME NEW p \in Procs, runLockWatchdogCheck(p) \/ WatchdogRemoves(p) PROVE Watchdogs => Watchdogs'
  BY <1>7 DEF runLockWatchdogCheck, WatchdogRemoves
<1> HIDE DEF TypeBase, Deaths, Watchdogs, LockFile
<1>8. ASSUME UNCHANGED <<watchdog, hasStart>>, calm' => calm PROVE Watchdogs => Watchdogs'
  BY <1>8 DEF Watchdogs
<1>9. CASE UNCHANGED vars
  BY <1>6, <1>8, <1>9
<1>10. ASSUME NEW c \in Callers,
              \/ \E r \in BOOLEAN : acquireSessionWriteLock(c, r)
              \/ CallerStep(c) \/ WriteFails(c)
       PROVE  Deaths' /\ (Watchdogs => Watchdogs')
  BY <1>1, <1>2, <1>6, <1>8, <1>10 DEF CallerStep, acquireSessionWriteLock, WriteFails,
     Register, ReadPayload, Judge, shouldReclaimContendedLockFile, Remove, Unlink, releaseHeldLock, SeenType
<1>11. ASSUME NEW p \in Procs, runLockWatchdogCheck(p) \/ WatchdogRemoves(p)
       PROVE  Deaths' /\ (Watchdogs => Watchdogs')
  BY <1>6, <1>7, <1>11 DEF runLockWatchdogCheck, WatchdogRemoves
<1>12. ASSUME NEW p \in Procs, Exit(p) \/ Crash(p) PROVE Deaths' /\ (Watchdogs => Watchdogs')
  BY <1>3, <1>12 DEF Exit, Crash, ReleasedSync
<1>13. ASSUME NEW p \in Procs,
              handleTerminationSignal(p) \/ CleanList(p) \/ CleanRead(p) \/ CleanInspect(p) \/ CleanRemove(p)
       PROVE  Deaths' /\ (Watchdogs => Watchdogs')
  BY <1>6, <1>8, <1>13 DEF handleTerminationSignal, ReleasedSync, CleanList, CleanRead, CleanInspect,
     CleanRemove, SeenType
<1> QED
  BY <1>4, <1>5, <1>9, <1>10, <1>11, <1>12, <1>13 DEF Next

\* What is read of a file stays right: a lock file keeps its owner and gets no
\* younger, and the next one has another number.
LEMMA SeenTypeStep ==
    ASSUME TypeBase, SeenType, [Next]_vars
    PROVE  SeenType'
<1>0. readLockPayload \in {None} \cup LockFile
  BY DEF TypeBase, readLockPayload
<1>1. /\ \/ UNCHANGED seen
         \/ \E c \in Callers : \E s \in {None, readLockPayload} : seen' = [seen EXCEPT ![c] = s]
         \/ \E p \in Procs : seen' = [c \in Callers |-> IF pid(c) = p THEN None ELSE seen[c]]
      /\ \/ UNCHANGED cleanerSeen
         \/ \E p \in Procs : \E s \in {None, readLockPayload} : cleanerSeen' = [cleanerSeen EXCEPT ![p] = s]
      /\ UNCHANGED calm \/ calm' \in BOOLEAN
  BY DEF Next, vars, procVars, callerVars, cleanVars, acquireSessionWriteLock, CallerStep, Open,
         WritePayload, WriteFails, Register, ReadPayload, Judge, shouldReclaimContendedLockFile, Remove,
         Unlink, releaseHeldLock, runLockWatchdogCheck, WatchdogRemoves, handleTerminationSignal, Exit,
         Crash, Dies, Restart, CleanList, CleanRead, CleanInspect, CleanRemove, Age
<1> QED
  BY <1>0, <1>1 DEF SeenType

LEMMA SeenStep ==
    ASSUME TypeBase, TypeBase', SeenType, SeenType', Seen, [Next]_vars
    PROVE  Seen'
<1> USE PidType, NoneIsNoRecord DEF TypeBase, SeenType, LockFile, vars, procVars, callerVars, cleanVars
<1> DEFINE Kept(s) == s = None \/ s = file
           Reads == /\ \A c \in Callers : seen'[c] = seen[c] \/ Kept(seen'[c])
                    /\ \A p \in Procs : cleanerSeen'[p] = cleanerSeen[p] \/ Kept(cleanerSeen'[p])
           Same == \/ opens' = opens /\ file' = None
                   \/ /\ opens' = opens /\ file' # None /\ file # None
                      /\ file'.n = file.n /\ file'.owner = file.owner /\ file'.inc = file.inc
                      /\ file.old => file'.old
                   \/ /\ opens' = opens + 1 /\ file' # None /\ file'.n = opens + 1
<1>1. ASSUME Reads, Same PROVE Seen'
  <2>1. SeenOK(file)
    BY DEF SeenOK, StillThere, Seen
  <2>2. ASSUME NEW s, s = None \/ s \in LockFile, SeenOK(s) PROVE SeenOK(s)'
    <3> HIDE DEF TypeBase
    <3>1. opens \in Nat /\ (s # None => s.n \in Nat)
      BY <2>2 DEF TypeBase
    <3> QED  BY <1>1, <2>2, <3>1 DEF SeenOK, StillThere
  <2>3. file' # None => file'.n <= opens'
    BY <1>1 DEF Seen
  <2>4. \A c \in Callers : SeenOK(seen[c])'
    <3> SUFFICES ASSUME NEW c \in Callers, NEW s, s = seen'[c] PROVE SeenOK(s)'
      BY DEF SeenOK, StillThere
    <3>1. s = None \/ s \in LockFile
      OBVIOUS
    <3>2. SeenOK(s)
      BY <1>1, <2>1 DEF Seen, SeenOK
    <3> QED  BY <2>2, <3>1, <3>2
  <2>5. \A p \in Procs : SeenOK(cleanerSeen[p])'
    <3> SUFFICES ASSUME NEW p \in Procs, NEW s, s = cleanerSeen'[p] PROVE SeenOK(s)'
      BY DEF SeenOK, StillThere
    <3>1. s = None \/ s \in LockFile
      OBVIOUS
    <3>2. SeenOK(s)
      BY <1>1, <2>1 DEF Seen, SeenOK
    <3> QED  BY <2>2, <3>1, <3>2
  <2> QED  BY <2>3, <2>4, <2>5 DEF Seen
<1>2. ASSUME UNCHANGED <<seen, cleanerSeen>> PROVE Reads
  BY <1>2
<1>3. ASSUME opens' = opens, file' \in {file, None} PROVE Same
  BY <1>3
<1>4. ASSUME NEW c \in Callers, Open(c) PROVE Seen'
  <2>1. Same
    <3>1. CASE file # None
      BY <1>4, <3>1 DEF Open
    <3>2. CASE file = None
      <4>1. opens + 1 \in Files /\ inc[pid(c)] \in 0..MaxDeaths /\ opens' = opens + 1
        BY <1>4, <3>2 DEF Open
      <4>2. file' = [n |-> opens + 1, owner |-> pid(c), inc |-> inc[pid(c)],
                     whole |-> FALSE, old |-> FALSE]
        BY <1>4, <3>2 DEF Open
      <4> HIDE DEF TypeBase, SeenType, Files
      <4> QED  BY <4>1, <4>2, FileMade
    <3> QED  BY <3>1, <3>2
  <2>2. UNCHANGED <<seen, cleanerSeen>>
    BY <1>4 DEF Open
  <2> HIDE DEF Same, Reads
  <2> QED  BY <1>1, <1>2, <2>1, <2>2
<1>5. ASSUME NEW c \in Callers, WritePayload(c) PROVE Seen'
  <2>1. Same
    BY <1>5, FileChanged DEF WritePayload
  <2>2. UNCHANGED <<seen, cleanerSeen>>
    BY <1>5 DEF WritePayload
  <2> HIDE DEF Same, Reads
  <2> QED  BY <1>1, <1>2, <2>1, <2>2
<1>6. CASE Age
  <2>1. Same
    BY <1>6, FileChanged DEF Age
  <2>2. UNCHANGED <<seen, cleanerSeen>>
    BY <1>6 DEF Age
  <2> HIDE DEF Same, Reads
  <2> QED  BY <1>1, <1>2, <2>1, <2>2
<1>7. ASSUME NEW c \in Callers, ReadPayload(c) \/ Judge(c) PROVE Reads
  BY <1>7 DEF ReadPayload, Judge, readLockPayload
<1>8. ASSUME NEW p \in Procs, CleanRead(p) \/ CleanInspect(p) PROVE Reads
  BY <1>8 DEF CleanRead, CleanInspect, readLockPayload
<1>9. ASSUME NEW p \in Procs, Dies(p) PROVE Reads
  BY <1>9 DEF Dies
<1> HIDE DEF Same, Reads, TypeBase
<1> QED
  BY <1>1, <1>2, <1>3, <1>4, <1>5, <1>6, <1>7, <1>8, <1>9 DEF Next, CallerStep, acquireSessionWriteLock,
     WriteFails, Register, ReadPayload, Judge, shouldReclaimContendedLockFile, Remove, Unlink,
     releaseHeldLock, runLockWatchdogCheck, WatchdogRemoves, handleTerminationSignal, Exit, Crash, Dies,
     ReleasedSync, Restart, CleanList, CleanRead, CleanInspect, CleanRemove

LEMMA NumbersStep ==
    ASSUME TypeBase, TypeBase', Numbers, [Next]_vars
    PROVE  Numbers'
<1> USE PidType, NoneIsNoRecord DEF TypeBase, Numbers, Makers, vars, procVars, callerVars, cleanVars, Entry
<1>0. /\ opens \in Nat /\ \A d \in Callers : lock[d] \in Nat
      /\ \A q \in Procs : heldLocks[q] # None => heldLocks[q].n \in Nat
  OBVIOUS
<1>1. ASSUME NEW c \in Callers, NEW r \in BOOLEAN, acquireSessionWriteLock(c, r) PROVE Numbers'
  <2>1. CASE r /\ heldLocks[pid(c)] # None
    <3>1. heldLocks[pid(c)].n \in 1..opens /\ pc[c] = "idle" /\ opens' = opens
      BY <1>1, <2>1 DEF acquireSessionWriteLock
    <3>2. \A q \in Procs : heldLocks'[q] # None => heldLocks[q] # None /\ heldLocks'[q].n = heldLocks[q].n
      BY <1>1, <2>1 DEF acquireSessionWriteLock
    <3>3. \A d \in Callers : /\ pc'[d] = IF d = c THEN "holding" ELSE pc[d]
                             /\ lock'[d] = IF d = c THEN heldLocks[pid(c)].n ELSE lock[d]
      BY <1>1, <2>1 DEF acquireSessionWriteLock
    <3> HIDE DEF TypeBase
    <3> QED  BY <1>0, <2>1, <3>1, <3>2, <3>3
  <2>2. CASE ~(r /\ heldLocks[pid(c)] # None)
    BY <1>1, <2>2 DEF acquireSessionWriteLock
  <2> QED  BY <2>1, <2>2
<1>2. ASSUME NEW c \in Callers, Open(c) PROVE Numbers'
  <2>1. CASE file # None
    BY <1>2, <2>1 DEF Open
  <2>2. CASE file = None
    <3>1. opens' = opens + 1 /\ pc[c] = "open" /\ UNCHANGED heldLocks
      BY <1>2, <2>2 DEF Open
    <3>2. \A d \in Callers : /\ pc'[d] = IF d = c THEN "write" ELSE pc[d]
                             /\ lock'[d] = IF d = c THEN opens + 1 ELSE lock[d]
      BY <1>2, <2>2 DEF Open
    <3> HIDE DEF TypeBase
    <3> QED  BY <1>0, <3>1, <3>2
  <2> QED  BY <2>1, <2>2
<1>3. ASSUME NEW c \in Callers, WritePayload(c) \/ WriteFails(c) PROVE Numbers'
  BY <1>3 DEF WritePayload, WriteFails
<1>4. ASSUME NEW c \in Callers, Register(c) PROVE Numbers'
  BY <1>4 DEF Register
<1>5. ASSUME NEW c \in Callers, ReadPayload(c) \/ Judge(c) \/ shouldReclaimContendedLockFile(c) \/ Remove(c)
      PROVE  Numbers'
  <2>1. /\ UNCHANGED <<lock, heldLocks, opens>> /\ pc[c] \in {"inspect", "judge", "remove"}
        /\ \E v \in {"open", "idle", "judge", "remove"} : pc' = [pc EXCEPT ![c] = v]
    BY <1>5 DEF ReadPayload, Judge, shouldReclaimContendedLockFile, Remove, Again
  <2>2. /\ pc'[c] \in {"open", "idle", "judge", "remove"}
        /\ \A d \in Callers : d # c => pc'[d] = pc[d]
    BY <2>1
  <2> HIDE DEF TypeBase
  <2> QED  BY <2>1, <2>2
<1>6. ASSUME NEW c \in Callers, Idle(c), UNCHANGED <<heldLocks, opens>> PROVE Numbers'
  <2>1. \A d \in Callers : /\ pc'[d] = IF d = c THEN "idle" ELSE pc[d]
                           /\ lock'[d] = IF d = c THEN 0 ELSE lock[d]
    BY <1>6 DEF Idle
  <2> HIDE DEF TypeBase
  <2> QED  BY <1>0, <1>6, <2>1
<1>7. ASSUME NEW c \in Callers, releaseHeldLock(c) PROVE Numbers'
  <2>1. opens' = opens /\ pc[c] = "holding"
    BY <1>7 DEF releaseHeldLock
  <2>2. \A q \in Procs : heldLocks'[q] # None => heldLocks[q] # None /\ heldLocks'[q].n = heldLocks[q].n
    <3>1. CASE heldLocks' = heldLocks
      BY <3>1
    <3>2. CASE IsCurrent(c) /\ heldLocks' = [heldLocks EXCEPT ![pid(c)].count = @ - 1]
      BY <3>2 DEF IsCurrent
    <3>3. CASE heldLocks' = [heldLocks EXCEPT ![pid(c)] = None]
      BY <3>3
    <3> HIDE DEF TypeBase, Numbers
    <3> QED  BY <1>7, <3>1, <3>2, <3>3 DEF releaseHeldLock
  <2>3. \/ \A d \in Callers : /\ pc'[d] = IF d = c THEN "idle" ELSE pc[d]
                              /\ lock'[d] = IF d = c THEN 0 ELSE lock[d]
        \/ \A d \in Callers : /\ pc'[d] = IF d = c THEN "unlink" ELSE pc[d]
                              /\ lock'[d] = lock[d]
    <3>1. CASE Idle(c)
      BY <3>1 DEF Idle
    <3>2. CASE pc' = [pc EXCEPT ![c] = "unlink"] /\ UNCHANGED lock
      BY <3>2
    <3> HIDE DEF TypeBase, Numbers
    <3> QED  BY <1>7, <3>1, <3>2 DEF releaseHeldLock
  <2> HIDE DEF TypeBase
  <2> QED  BY <1>0, <2>1, <2>2, <2>3
<1>8. ASSUME NEW p \in Procs, runLockWatchdogCheck(p) \/ handleTerminationSignal(p) PROVE Numbers'
  BY <1>8 DEF runLockWatchdogCheck, handleTerminationSignal
<1>9. ASSUME NEW p \in Procs, Dies(p) PROVE Numbers'
  BY <1>9 DEF Dies
<1>10. ASSUME UNCHANGED <<pc, lock, heldLocks, opens>> PROVE Numbers'
  BY <1>10
<1> QED
  BY <1>1, <1>2, <1>3, <1>4, <1>5, <1>6, <1>7, <1>8, <1>9, <1>10 DEF Next, CallerStep, Unlink, procVars,
     WatchdogRemoves, Exit, Crash, Restart, CleanList, CleanRead, CleanInspect, CleanRemove, Age

LEMMA HoldersFinite ==
    ASSUME NEW p \in Procs
    PROVE  IsFiniteSet(Holders(p)) /\ Cardinality(Holders(p)) \in 0..Cardinality(Callers)
<1>1. Holders(p) \subseteq Callers
  BY DEF Holders
<1> QED
  BY <1>1, FS_Subset, FS_CardinalityType

\* A step that changes neither an entry nor who shares it.
LEMMA SameHolders ==
    ASSUME Counts, NEW p \in Procs,
           heldLocks'[p] = None \/ (heldLocks'[p] = heldLocks[p] /\ Holders(p)' = Holders(p))
    PROVE  heldLocks'[p] # None => heldLocks'[p].count = Cardinality(Holders(p)')
  BY DEF Counts

LEMMA CountsStep ==
    ASSUME TypeBase, TypeBase', Numbers, Counts, [Next]_vars
    PROVE  Counts'
<1> SUFFICES ASSUME NEW p \in Procs, heldLocks'[p] # None
             PROVE  heldLocks'[p].count = Cardinality(Holders(p)')
  BY DEF Counts
<1> USE PidType, NoneIsNoRecord DEF TypeBase, vars, procVars, callerVars, cleanVars, Entry, Holders
<1> DEFINE Same == heldLocks'[p] = None \/ (heldLocks'[p] = heldLocks[p] /\ Holders(p)' = Holders(p))
<1>0. ASSUME Same PROVE heldLocks'[p].count = Cardinality(Holders(p)')
  BY <1>0, SameHolders
<1>1. ASSUME NEW c \in Callers, NEW r \in BOOLEAN, acquireSessionWriteLock(c, r)
      PROVE  heldLocks'[p].count = Cardinality(Holders(p)')
  <2>1. CASE Same
    BY <1>0, <2>1
  <2>2. CASE r /\ heldLocks[pid(c)] # None /\ pid(c) = p
    <3>1. Holders(p)' = Holders(p) \cup {c} /\ c \notin Holders(p)
      BY <1>1, <2>2 DEF acquireSessionWriteLock
    <3>2. heldLocks'[p].count = heldLocks[p].count + 1
      BY <1>1, <2>2 DEF acquireSessionWriteLock
    <3>3. heldLocks[p].count = Cardinality(Holders(p))
      BY <2>2 DEF Counts
    <3>4. Cardinality(Holders(p) \cup {c}) = Cardinality(Holders(p)) + 1
      <4> HIDE DEF Holders, TypeBase
      <4> QED  BY <3>1, HoldersFinite, FS_AddElement
    <3> HIDE DEF Holders, TypeBase
    <3> QED  BY <3>1, <3>2, <3>3, <3>4
  <2>3. CASE ~(r /\ heldLocks[pid(c)] # None /\ pid(c) = p)
    <3>1. Same
      BY <1>1, <2>3 DEF acquireSessionWriteLock, Numbers
    <3> QED  BY <1>0, <3>1
  <2> QED  BY <2>2, <2>3
<1>2. ASSUME NEW c \in Callers, Register(c) PROVE heldLocks'[p].count = Cardinality(Holders(p)')
  <2>1. CASE pid(c) = p
    <3>1. Holders(p)' = {c}
      BY <1>2, <2>1 DEF Register, Numbers, Makers
    <3>2. heldLocks'[p].count = 1
      BY <1>2, <2>1 DEF Register
    <3> QED  BY <3>1, <3>2, FS_Singleton
  <2>2. CASE pid(c) # p
    <3>1. Same
      BY <1>2, <2>2 DEF Register
    <3> QED  BY <1>0, <3>1
  <2> QED  BY <2>1, <2>2
<1>3. ASSUME NEW c \in Callers, releaseHeldLock(c) PROVE heldLocks'[p].count = Cardinality(Holders(p)')
  <2>1. CASE pid(c) = p /\ IsCurrent(c)
    <3>1. heldLocks[p].count > 1
      BY <1>3, <2>1 DEF releaseHeldLock, IsCurrent
    <3>2. Holders(p)' = Holders(p) \ {c} /\ c \in Holders(p)
      BY <1>3, <2>1, <3>1 DEF releaseHeldLock, IsCurrent, Idle
    <3>3. heldLocks'[p].count = heldLocks[p].count - 1
      BY <1>3, <2>1, <3>1 DEF releaseHeldLock, IsCurrent
    <3>4. heldLocks[p].count = Cardinality(Holders(p))
      BY <2>1 DEF Counts, IsCurrent
    <3>5. Cardinality(Holders(p) \ {c}) = Cardinality(Holders(p)) - 1
      <4> HIDE DEF Holders, TypeBase
      <4> QED  BY <3>2, HoldersFinite, FS_RemoveElement
    <3> HIDE DEF Holders, TypeBase
    <3> QED  BY <3>2, <3>3, <3>4, <3>5
  <2>2. CASE ~(pid(c) = p /\ IsCurrent(c))
    <3>1. Same
      BY <1>3, <2>2 DEF releaseHeldLock, IsCurrent, Idle
    <3> QED  BY <1>0, <3>1
  <2> QED  BY <2>1, <2>2
<1>4. ASSUME NEW c \in Callers,
             \/ Open(c) \/ WritePayload(c) \/ WriteFails(c) \/ ReadPayload(c) \/ Judge(c)
             \/ shouldReclaimContendedLockFile(c) \/ Remove(c) \/ Unlink(c)
      PROVE  Same
  BY <1>4 DEF Open, WritePayload, WriteFails, ReadPayload, Judge, shouldReclaimContendedLockFile, Remove,
              Again, Unlink, Idle
<1>5. ASSUME NEW q \in Procs, runLockWatchdogCheck(q) \/ handleTerminationSignal(q) PROVE Same
  BY <1>5 DEF runLockWatchdogCheck, handleTerminationSignal
<1>6. ASSUME NEW q \in Procs, Dies(q) PROVE Same
  BY <1>6 DEF Dies
<1>7. ASSUME UNCHANGED <<pc, lock, heldLocks>> PROVE Same
  BY <1>7
<1> HIDE DEF Same
<1> QED
  BY <1>0, <1>1, <1>2, <1>3, <1>4, <1>5, <1>6, <1>7 DEF Next, CallerStep, WatchdogRemoves,
     Exit, Crash, Restart, CleanList, CleanRead, CleanInspect, CleanRemove, Age

LEMMA AwakeStep ==
    ASSUME TypeBase, Awake, [Next]_vars
    PROVE  Awake'
<1> USE PidType DEF Awake, vars, procVars, callerVars, cleanVars
<1> DEFINE Moves(c) == alive[pid(c)] /\ alive' = alive /\ \E v : pc' = [pc EXCEPT ![c] = v]
<1>1. ASSUME NEW c \in Callers, Moves(c) PROVE Awake'
  BY <1>1 DEF TypeBase
<1>2. ASSUME NEW c \in Callers, CallerStep(c) \/ WriteFails(c) PROVE Moves(c)
  BY <1>2 DEF CallerStep, Open, WritePayload, WriteFails, Register, ReadPayload, Judge,
              shouldReclaimContendedLockFile, Remove, Again, Unlink, Idle, releaseHeldLock
<1>3. ASSUME NEW c \in Callers, NEW r \in BOOLEAN, acquireSessionWriteLock(c, r) PROVE Moves(c)
  BY <1>3 DEF acquireSessionWriteLock
<1>4. ASSUME NEW p \in Procs, Dies(p) PROVE Awake'
  BY <1>4 DEF Dies, TypeBase
<1>5. ASSUME NEW p \in Procs, Restart(p) PROVE Awake'
  BY <1>5 DEF Restart, TypeBase
<1>6. ASSUME UNCHANGED <<pc, alive>> PROVE Awake'
  BY <1>6
<1> HIDE DEF Moves, Awake
<1> QED
  BY <1>1, <1>2, <1>3, <1>4, <1>5, <1>6 DEF Next, runLockWatchdogCheck, WatchdogRemoves,
     handleTerminationSignal, Exit, Crash, CleanList, CleanRead, CleanInspect, CleanRemove, Age

-----------------------------------------------------------------------------
(* The calm case.                                                          *)

\* Nothing that disturbs the lock is ever forgotten.
LEMMA CalmBefore ==
    ASSUME SeenType, [Next]_vars, calm'
    PROVE  calm
  BY DEF SeenType, Next, vars, procVars, callerVars, cleanVars, acquireSessionWriteLock, CallerStep, Open,
         WritePayload, WriteFails, Register, ReadPayload, Judge, shouldReclaimContendedLockFile, Remove,
         Unlink, releaseHeldLock, runLockWatchdogCheck, WatchdogRemoves, handleTerminationSignal, Exit,
         Crash, Dies, Restart, CleanList, CleanRead, CleanInspect, CleanRemove, Age

NobodyHolds ==
    /\ Between = {}
    /\ \A p \in Procs : heldLocks[p] = None
    /\ \A c \in Callers : pc[c] # "holding"

\* Who may be at work on the lock file together.
LEMMA Apart ==
    ASSUME TypeBase, CalmInv
    PROVE  /\ file = None => NobodyHolds /\ Removers = {} /\ Cleaners = {}
           /\ Removers # {} \/ Cleaners # {} => NobodyHolds
           /\ \A c \in Between : /\ OwnerLives /\ Removers = {} /\ Cleaners = {}
                                  /\ \A p \in Procs : heldLocks[p] = None
                                  /\ \A d \in Callers : pc[d] # "holding"
           /\ \A p \in Procs : heldLocks[p] # None =>
                  /\ OwnerLives /\ Removers = {} /\ Cleaners = {} /\ Between = {}
                  /\ \A q \in Procs : q # p => heldLocks[q] = None
                  /\ \A c \in Callers : pc[c] = "holding" => pid(c) = p /\ lock[c] = heldLocks[p].n
<1> USE PidType DEF CalmInv
<1>1. \A c \in Between : file # None /\ OwnerLives /\ heldLocks[pid(c)] = None /\ file.owner = pid(c)
  BY DEF BetweenOwn, Owns, OwnerLives, Between
<1>2. \A p \in Procs : heldLocks[p] # None => file # None /\ OwnerLives /\ file.owner = p
  BY DEF HoldersOwn, Owns, OwnerLives
<1>3. \A c \in Callers : pc[c] = "holding" => heldLocks[pid(c)] # None /\ heldLocks[pid(c)].n = lock[c]
  BY DEF HoldersOwn
<1>4. Removers # {} \/ Cleaners # {} => file # None /\ ~OwnerLives
  BY DEF RemoversRight
<1>5. Between \subseteq Callers
  BY DEF Between
<1> HIDE DEF CalmInv
<1> QED
  BY <1>1, <1>2, <1>3, <1>4, <1>5 DEF NobodyHolds

\* When nobody holds the lock nor is about to remove the file, the calm case
\* is a matter of the file alone.
LEMMA CalmIfIdle ==
    ASSUME NobodyHolds, Removers = {}, Cleaners = {}, Young
    PROVE  CalmInv
  BY DEF CalmInv, NobodyHolds, BetweenOwn, HoldersOwn, RemoversRight

LEMMA CallersCalm ==
    ASSUME Inv, TypeBase', calm, CalmInv, calm', NEW c \in Callers,
           \/ \E r \in BOOLEAN : acquireSessionWriteLock(c, r)
           \/ CallerStep(c) \/ WriteFails(c)
    PROVE  CalmInv'
<1> USE PidType, NoneIsNoRecord DEF TypeBase, LockFile, Entry, procVars, callerVars, cleanVars
<1>0. TypeBase /\ SeenType /\ Numbers /\ Deaths /\ Awake /\ Counts /\ Seen /\ hasStart
  BY DEF Inv, Watchdogs
<1>a. Young /\ BetweenOwn /\ HoldersOwn /\ RemoversRight
  BY DEF CalmInv
\* The caller moves, and neither had to do with the file nor has now.
<1>1. ASSUME UNCHANGED <<alive, inc, file, heldLocks, lock, cleaner>>,
             NEW v \in {"idle", "open", "inspect", "judge"}, pc' = [pc EXCEPT ![c] = v],
             pc[c] \notin {"write", "register", "unlink", "holding"}
      PROVE  CalmInv'
  <2>1. /\ Between' = Between /\ Removers' \subseteq Removers /\ Cleaners' = Cleaners
        /\ \A d \in Callers : pc'[d] = "holding" <=> pc[d] = "holding"
    BY <1>0, <1>1 DEF Between, Removers, Cleaners
  <2>2. Young' /\ BetweenOwn' /\ HoldersOwn'
    BY <1>a, <1>1, <2>1 DEF Young, OwnerLives, BetweenOwn, HoldersOwn, Owns
  <2>3. RemoversRight'
    BY <1>a, <1>1, <2>1 DEF RemoversRight, OwnerLives
  <2> QED  BY <2>2, <2>3 DEF CalmInv
<1>2. ASSUME NEW r \in BOOLEAN, acquireSessionWriteLock(c, r) PROVE CalmInv'
  <2>1. CASE r /\ heldLocks[pid(c)] # None
    <3>1. UNCHANGED <<alive, inc, file, cleaner>>
      BY <1>2 DEF acquireSessionWriteLock
    <3>2. /\ pc[c] = "idle"
          /\ \A d \in Callers : pc'[d] = IF d = c THEN "holding" ELSE pc[d]
          /\ \A d \in Callers : lock'[d] = IF d = c THEN heldLocks[pid(c)].n ELSE lock[d]
      BY <1>0, <1>2, <2>1 DEF acquireSessionWriteLock
    <3>3. \A q \in Procs : /\ heldLocks'[q] # None <=> heldLocks[q] # None
                           /\ heldLocks[q] # None => heldLocks'[q].n = heldLocks[q].n
      BY <1>0, <1>2, <2>1 DEF acquireSessionWriteLock
    <3>4. Between = {} /\ Removers = {} /\ Cleaners = {}
      BY <1>0, <2>1, Apart
    <3>5. Between' = {} /\ Removers' = {} /\ Cleaners' = {}
      BY <3>1, <3>2, <3>4 DEF Between, Removers, Cleaners
    <3> HIDE DEF TypeBase
    <3>6. HoldersOwn'
      BY <1>a, <2>1, <3>1, <3>2, <3>3 DEF HoldersOwn, Owns
    <3>7. Young' /\ BetweenOwn' /\ RemoversRight'
      BY <1>a, <3>1, <3>5 DEF Young, OwnerLives, BetweenOwn, RemoversRight
    <3> QED  BY <3>6, <3>7 DEF CalmInv
  <2>2. CASE ~(r /\ heldLocks[pid(c)] # None)
    BY <1>1, <1>2, <2>2 DEF acquireSessionWriteLock
  <2> QED  BY <2>1, <2>2
<1>3. CASE Open(c)
  <2>1. CASE file # None
    BY <1>1, <1>3, <2>1 DEF Open
  <2>2. CASE file = None
    <3>1. /\ UNCHANGED <<alive, inc, heldLocks, cleaner>> /\ pc[c] = "open"
          /\ file' = [n |-> opens + 1, owner |-> pid(c), inc |-> inc[pid(c)],
                      whole |-> FALSE, old |-> FALSE]
      BY <1>3, <2>2 DEF Open
    <3>2. \A d \in Callers : /\ pc'[d] = IF d = c THEN "write" ELSE pc[d]
                             /\ lock'[d] = IF d = c THEN opens + 1 ELSE lock[d]
      BY <1>0, <1>3, <2>2 DEF Open
    <3>3. NobodyHolds /\ Removers = {} /\ Cleaners = {}
      BY <1>0, <2>2, Apart
    <3>4. Between' = {c} /\ Removers' = {} /\ Cleaners' = {}
      BY <3>1, <3>2, <3>3 DEF NobodyHolds, Between, Removers, Cleaners
    <3>5. alive[pid(c)]
      BY <1>0, <3>1 DEF Awake
    <3>6. file' # None
      <4>1. opens + 1 \in Files /\ inc[pid(c)] \in 0..MaxDeaths
        BY <1>0, <1>3, <2>2 DEF Open
      <4> HIDE DEF TypeBase, Files
      <4> QED  BY <3>1, <4>1, FileMade
    <3> HIDE DEF TypeBase
    <3>7. BetweenOwn'
      BY <3>1, <3>2, <3>3, <3>4, <3>5, <3>6 DEF BetweenOwn, Owns, NobodyHolds
    <3>8. HoldersOwn'
      BY <3>1, <3>2, <3>3 DEF HoldersOwn, NobodyHolds
    <3>9. Young' /\ RemoversRight'
      BY <3>1, <3>4 DEF Young, RemoversRight
    <3> QED  BY <3>7, <3>8, <3>9 DEF CalmInv
  <2> QED  BY <2>1, <2>2
<1>4. CASE WritePayload(c) \/ WriteFails(c)
  <2>1. UNCHANGED <<alive, inc, heldLocks, cleaner, lock>> /\ pc[c] = "write"
    BY <1>4 DEF WritePayload, WriteFails
  <2>2. /\ file # None => file' # None /\ file'.n = file.n /\ file'.owner = file.owner
                          /\ file'.inc = file.inc /\ file'.old = file.old
        /\ file = None => file' = None
    <3>1. CASE file # None /\ file' = [file EXCEPT !.whole = TRUE]
      <4>1. file \in LockFile
        BY <1>0, <3>1
      <4>2. file' # None
        BY <3>1, <4>1, FileChanged
      <4> QED  BY <3>1, <4>1, <4>2
    <3>2. CASE file' = file
      BY <3>2
    <3> HIDE DEF TypeBase
    <3> QED  BY <1>4, <3>1, <3>2 DEF WritePayload, WriteFails
  <2>3. /\ Between' = Between /\ Removers' = Removers /\ Cleaners' = Cleaners
        /\ \A d \in Callers : pc'[d] = "holding" <=> pc[d] = "holding"
    <3>1. \E v \in {"register", "unlink"} : pc' = [pc EXCEPT ![c] = v]
      BY <1>4 DEF WritePayload, WriteFails
    <3>2. pc'[c] \in {"register", "unlink"} /\ \A d \in Callers : d # c => pc'[d] = pc[d]
      BY <1>0, <3>1
    <3> HIDE DEF TypeBase
    <3> QED  BY <2>1, <3>2 DEF Between, Removers, Cleaners
  <2> HIDE DEF TypeBase
  <2>4. BetweenOwn' /\ HoldersOwn'
    BY <1>a, <2>1, <2>2, <2>3 DEF BetweenOwn, HoldersOwn, Owns
  <2>5. RemoversRight' /\ Young'
    BY <1>a, <2>1, <2>2, <2>3 DEF RemoversRight, OwnerLives, Young
  <2> QED  BY <2>4, <2>5 DEF CalmInv
<1>5. CASE Register(c)
  <2>1. UNCHANGED <<alive, inc, file, cleaner, lock>> /\ pc[c] = "register"
    BY <1>5 DEF Register
  <2>2. \A d \in Callers : pc'[d] = IF d = c THEN "holding" ELSE pc[d]
    BY <1>0, <1>5 DEF Register
  <2>3. heldLocks' = [heldLocks EXCEPT ![pid(c)] = [n |-> lock[c], count |-> 1]]
    BY <1>5 DEF Register
  <2>4. c \in Between /\ \A d \in Between : d = c
    BY <1>a, <2>1 DEF Between, BetweenOwn
  <2>5. Owns(pid(c), lock[c])
    BY <1>a, <2>4 DEF BetweenOwn
  <2>6. /\ Removers = {} /\ Cleaners = {}
        /\ \A q \in Procs : heldLocks[q] = None
        /\ \A d \in Callers : pc[d] # "holding"
    BY <1>0, <2>4, Apart
  <2>7. Between' = {} /\ Removers' = {} /\ Cleaners' = {}
    BY <2>1, <2>2, <2>4, <2>6 DEF Between, Removers, Cleaners
  <2>8. /\ \A q \in Procs : q # pid(c) => heldLocks'[q] = None
        /\ heldLocks'[pid(c)] # None /\ heldLocks'[pid(c)].n = lock[c]
    BY <1>0, <2>3, <2>6
  <2> HIDE DEF TypeBase
  <2>9. HoldersOwn'
    BY <2>1, <2>2, <2>5, <2>6, <2>8 DEF HoldersOwn, Owns
  <2>10. BetweenOwn' /\ RemoversRight' /\ Young'
    BY <1>a, <2>1, <2>7 DEF BetweenOwn, RemoversRight, Young, OwnerLives
  <2> QED  BY <2>9, <2>10 DEF CalmInv
\* The caller has judged a lock stale: it is there, its process is dead, and
\* nobody else is about to remove it.
<1>6. ASSUME pc' = [pc EXCEPT ![c] = "remove"], pc[c] = "judge", file # None, ~OwnerLives, ~Removing,
             UNCHANGED <<alive, inc, file, heldLocks, lock, cleaner>>
      PROVE  CalmInv'
  <2>1. Removers = {} /\ Cleaners = {}
    BY <1>6 DEF Removing, Removers, Cleaners
  <2>2. Removers' = {c} /\ Cleaners' = {} /\ Between' = Between
    BY <1>0, <1>6, <2>1 DEF Removers, Cleaners, Between
  <2>3. \A d \in Callers : pc'[d] = "holding" <=> pc[d] = "holding"
    BY <1>0, <1>6
  <2> HIDE DEF TypeBase
  <2>4. Young' /\ BetweenOwn' /\ HoldersOwn'
    BY <1>a, <1>6, <2>2, <2>3 DEF Young, OwnerLives, BetweenOwn, HoldersOwn, Owns
  <2>5. RemoversRight'
    BY <1>6, <2>2 DEF RemoversRight, OwnerLives
  <2> QED  BY <2>4, <2>5 DEF CalmInv
<1>7. CASE ReadPayload(c)
  BY <1>1, <1>7 DEF ReadPayload
<1>8. CASE Judge(c)
  <2>1. UNCHANGED <<alive, inc, file, heldLocks, lock, cleaner>> /\ pc[c] = "judge" /\ seen[c] # None
    BY <1>8 DEF Judge
  <2>2. PICK old \in Ages(seen[c]) :
           IF inspectLockPayload(seen[c], old) \/ shouldTreatAsOrphanSelfLock(pid(c), seen[c])
           THEN pc' = [pc EXCEPT ![c] = "remove"] /\ calm' = (calm /\ ~Disturbs(seen[c]))
           ELSE Again(c) /\ UNCHANGED calm
    BY <1>8 DEF Judge
  <2>3. CASE Again(c)
    BY <1>1, <2>1, <2>3 DEF Again
  <2>4. CASE ~Again(c)
    <3>1. /\ pc' = [pc EXCEPT ![c] = "remove"] /\ ~Disturbs(seen[c])
          /\ inspectLockPayload(seen[c], old)
      BY <1>0, <2>2, <2>4 DEF shouldTreatAsOrphanSelfLock
    <3>2. StillThere(seen[c]) /\ ~Removing /\ old = file.old
      BY <2>1, <3>1, <2>2 DEF Disturbs, Ages
    <3>3. file # None /\ file.owner = seen[c].owner /\ file.inc = seen[c].inc
      BY <1>0, <2>1, <3>2 DEF Seen, SeenOK, StillThere
    <3>4. ~OwnerLives
      BY <1>0, <1>a, <3>1, <3>2, <3>3 DEF inspectLockPayload, pidRecycled, Young, OwnerLives
    <3> QED  BY <1>6, <2>1, <3>1, <3>2, <3>3, <3>4
  <2> QED  BY <2>3, <2>4
<1>9. CASE shouldReclaimContendedLockFile(c)
  <2>1. UNCHANGED <<alive, inc, file, heldLocks, lock, cleaner>> /\ pc[c] = "judge"
    BY <1>9 DEF shouldReclaimContendedLockFile
  <2>2. CASE Again(c)
    BY <1>1, <2>1, <2>2 DEF Again
  <2>3. CASE ~Again(c)
    <3>1. pc' = [pc EXCEPT ![c] = "remove"] /\ MtimeStale /\ ~Removing
      BY <1>9, <2>3 DEF shouldReclaimContendedLockFile, Disturbs
    <3>2. file # None /\ ~OwnerLives
      BY <1>a, <3>1 DEF MtimeStale, Young
    <3> QED  BY <1>6, <2>1, <3>1, <3>2
  <2> QED  BY <2>2, <2>3
<1>10. CASE Remove(c)
  <2>1. /\ UNCHANGED <<alive, inc, heldLocks, lock, cleaner>> /\ pc[c] = "remove"
        /\ file' = None /\ \E v \in {"open", "idle"} : pc' = [pc EXCEPT ![c] = v]
    BY <1>10 DEF Remove, Again
  <2>2. c \in Removers /\ (\A d \in Removers : d = c) /\ Cleaners = {} /\ NobodyHolds
    BY <1>0, <1>a, <2>1, Apart DEF Removers, RemoversRight
  <2>3. NobodyHolds' /\ Removers' = {} /\ Cleaners' = {}
    BY <1>0, <2>1, <2>2 DEF NobodyHolds, Between, Removers, Cleaners
  <2>4. Young'
    BY <2>1 DEF Young
  <2> HIDE DEF TypeBase
  <2> QED  BY <2>3, <2>4 DEF CalmInv, NobodyHolds, BetweenOwn, HoldersOwn, RemoversRight
<1>11. CASE Unlink(c)
  <2>1. /\ UNCHANGED <<alive, inc, heldLocks, cleaner>> /\ pc[c] = "unlink"
        /\ file' = None /\ pc' = [pc EXCEPT ![c] = "idle"]
    BY <1>11 DEF Unlink, Idle
  <2>2. c \in Between /\ \A d \in Between : d = c
    BY <1>a, <2>1 DEF Between, BetweenOwn
  <2>3. /\ Removers = {} /\ Cleaners = {}
        /\ \A q \in Procs : heldLocks[q] = None
        /\ \A d \in Callers : pc[d] # "holding"
    BY <1>0, <2>2, Apart
  <2>4. NobodyHolds' /\ Removers' = {} /\ Cleaners' = {}
    BY <1>0, <2>1, <2>2, <2>3 DEF NobodyHolds, Between, Removers, Cleaners
  <2>5. Young'
    BY <2>1 DEF Young
  <2> HIDE DEF TypeBase
  <2> QED  BY <2>4, <2>5 DEF CalmInv, NobodyHolds, BetweenOwn, HoldersOwn, RemoversRight
<1>12. CASE releaseHeldLock(c)
  <2>1. UNCHANGED <<alive, inc, file, cleaner>> /\ pc[c] = "holding"
    BY <1>12 DEF releaseHeldLock
  <2>2. IsCurrent(c) /\ Owns(pid(c), lock[c])
    BY <1>a, <2>1 DEF HoldersOwn, IsCurrent
  <2>3. /\ Removers = {} /\ Cleaners = {} /\ Between = {}
        /\ \A q \in Procs : q # pid(c) => heldLocks[q] = None
        /\ \A d \in Callers : pc[d] = "holding" => pid(d) = pid(c) /\ lock[d] = heldLocks[pid(c)].n
    BY <1>0, <2>2, Apart DEF IsCurrent
  <2>4. CASE heldLocks[pid(c)].count > 1
    <3>1. /\ \A d \in Callers : pc'[d] = IF d = c THEN "idle" ELSE pc[d]
          /\ \A d \in Callers : lock'[d] = IF d = c THEN 0 ELSE lock[d]
      BY <1>0, <1>12, <2>2, <2>4 DEF releaseHeldLock, Idle
    <3>2. heldLocks' = [heldLocks EXCEPT ![pid(c)].count = @ - 1]
      BY <1>12, <2>2, <2>4 DEF releaseHeldLock
    <3>3. \A q \in Procs : /\ heldLocks'[q] # None => heldLocks[q] # None
                           /\ heldLocks[q] # None => heldLocks'[q].n = heldLocks[q].n
      BY <1>0, <2>2, <2>3, <3>2 DEF IsCurrent
    <3>4. heldLocks'[pid(c)] # None
      <4>1. heldLocks[pid(c)] \in Entry
        BY <1>0, <2>2 DEF IsCurrent
      <4>2. heldLocks'[pid(c)] \in Entry
        BY <1>0, <2>4, <3>2, <4>1
      <4> HIDE DEF TypeBase, Entry
      <4> QED  BY <4>2
    <3>5. Between' = {} /\ Removers' = {} /\ Cleaners' = {}
      BY <2>1, <2>3, <3>1 DEF Between, Removers, Cleaners
    <3> HIDE DEF TypeBase
    <3>6. HoldersOwn'
      BY <1>a, <2>1, <2>2, <2>3, <3>1, <3>3, <3>4 DEF HoldersOwn, Owns, IsCurrent
    <3>7. BetweenOwn' /\ RemoversRight' /\ Young'
      BY <1>a, <2>1, <3>5 DEF BetweenOwn, RemoversRight, Young, OwnerLives
    <3> QED  BY <3>6, <3>7 DEF CalmInv
  <2>5. CASE ~(heldLocks[pid(c)].count > 1)
    <3>1. /\ UNCHANGED lock
          /\ \A d \in Callers : pc'[d] = IF d = c THEN "unlink" ELSE pc[d]
          /\ \A q \in Procs : heldLocks'[q] = IF q = pid(c) THEN None ELSE heldLocks[q]
      BY <1>0, <1>12, <2>2, <2>5 DEF releaseHeldLock
    <3>2. heldLocks[pid(c)].count = 1
      <4>1. heldLocks[pid(c)] \in Entry
        BY <1>0, <2>2 DEF IsCurrent
      <4>2. heldLocks[pid(c)].count \in Nat \ {0}
        BY <4>1
      <4> HIDE DEF TypeBase
      <4> QED  BY <2>5, <4>2
    <3>3. \A d \in Callers : pc[d] = "holding" => d = c
      <4>1. Cardinality(Holders(pid(c))) = 1 /\ IsFiniteSet(Holders(pid(c)))
        BY <1>0, <2>2, <3>2, HoldersFinite DEF Counts, IsCurrent
      <4>2. PICK x : Holders(pid(c)) = {x}
        <5> HIDE DEF TypeBase
        <5> QED  BY <4>1, FS_Singleton
      <4>3. \A d \in Callers : pc[d] = "holding" => d \in Holders(pid(c))
        BY <2>3 DEF Holders
      <4> HIDE DEF TypeBase
      <4> QED  BY <2>1, <4>2, <4>3
    <3>4. Between' = {c} /\ Removers' = {} /\ Cleaners' = {}
      BY <2>1, <2>3, <3>1 DEF Between, Removers, Cleaners
    <3> HIDE DEF TypeBase
    <3>5. BetweenOwn'
      BY <2>1, <2>2, <3>1, <3>4 DEF BetweenOwn, Owns
    <3>6. HoldersOwn'
      BY <2>3, <3>1, <3>3 DEF HoldersOwn
    <3>7. RemoversRight' /\ Young'
      BY <1>a, <2>1, <3>4 DEF RemoversRight, Young, OwnerLives
    <3> QED  BY <3>5, <3>6, <3>7 DEF CalmInv
  <2> QED  BY <2>4, <2>5
<1> QED
  BY <1>2, <1>3, <1>4, <1>5, <1>7, <1>8, <1>9, <1>10, <1>11, <1>12 DEF CallerStep

LEMMA ProcessesCalm ==
    ASSUME Inv, TypeBase', calm, CalmInv, calm', NEW p \in Procs,
           \/ runLockWatchdogCheck(p) \/ WatchdogRemoves(p) \/ handleTerminationSignal(p)
           \/ Exit(p) \/ Crash(p) \/ Restart(p)
           \/ CleanList(p) \/ CleanRead(p) \/ CleanInspect(p) \/ CleanRemove(p)
    PROVE  CalmInv'
<1> USE PidType, NoneIsNoRecord DEF TypeBase, LockFile, Entry, procVars, callerVars, cleanVars
<1>0. TypeBase /\ SeenType /\ Deaths /\ Watchdogs /\ Seen /\ hasStart
  BY DEF Inv, Watchdogs
<1>a. Young /\ BetweenOwn /\ HoldersOwn /\ RemoversRight
  BY DEF CalmInv
<1>1. ~(runLockWatchdogCheck(p) \/ WatchdogRemoves(p) \/ handleTerminationSignal(p))
  BY <1>0 DEF runLockWatchdogCheck, WatchdogRemoves, handleTerminationSignal, Watchdogs
\* A process dies: its callers are gone, and its lock with them if it exits.
<1>2. ASSUME Dies(p), file' = file \/ (heldLocks[p] # None /\ file' = None) PROVE CalmInv'
  <2>1. /\ inc' = inc
        /\ \A q \in Procs : alive'[q] <=> (alive[q] /\ q # p)
        /\ \A q \in Procs : heldLocks'[q] = IF q = p THEN None ELSE heldLocks[q]
        /\ \A c \in Callers : pc'[c] = IF pid(c) = p THEN "idle" ELSE pc[c]
        /\ \A c \in Callers : lock'[c] = IF pid(c) = p THEN 0 ELSE lock[c]
        /\ \A q \in Procs : cleaner'[q] = IF q = p THEN "done" ELSE cleaner[q]
    <3>1. \A q \in Procs : alive'[q] <=> (alive[q] /\ q # p)
      BY <1>0, <1>2 DEF Dies
    <3>2. \A c \in Callers : pc'[c] = IF pid(c) = p THEN "idle" ELSE pc[c]
      BY <1>2 DEF Dies
    <3>3. \A c \in Callers : lock'[c] = IF pid(c) = p THEN 0 ELSE lock[c]
      BY <1>2 DEF Dies
    <3> QED  BY <1>0, <1>2, <3>1, <3>2, <3>3 DEF Dies
  <2>2. /\ Between' = {c \in Between : pid(c) # p}
        /\ Removers' = {c \in Removers : pid(c) # p}
        /\ Cleaners' = {q \in Cleaners : q # p}
    BY <2>1 DEF Between, Removers, Cleaners
  <2>3. CASE file' = file
    <3>1. BetweenOwn'
      BY <1>a, <2>1, <2>2, <2>3 DEF BetweenOwn, Owns, Between
    <3>2. HoldersOwn'
      BY <1>a, <2>1, <2>3 DEF HoldersOwn, Owns
    <3>3. Young' /\ RemoversRight'
      BY <1>0, <1>a, <2>1, <2>2, <2>3 DEF Young, OwnerLives, RemoversRight
    <3> QED  BY <3>1, <3>2, <3>3 DEF CalmInv
  <2>4. CASE heldLocks[p] # None /\ file' = None
    <3>1. /\ Removers = {} /\ Cleaners = {} /\ Between = {}
          /\ \A q \in Procs : q # p => heldLocks[q] = None
          /\ \A c \in Callers : pc[c] = "holding" => pid(c) = p
      BY <1>0, <2>4, Apart
    <3> HIDE DEF TypeBase
    <3>2. NobodyHolds' /\ Removers' = {} /\ Cleaners' = {}
      BY <2>1, <2>2, <3>1 DEF NobodyHolds
    <3> QED  BY <2>4, <3>2 DEF CalmInv, Young, NobodyHolds, BetweenOwn, HoldersOwn, RemoversRight
  <2> QED  BY <1>2, <2>3, <2>4
<1>3. CASE Exit(p) \/ Crash(p)
  BY <1>2, <1>3 DEF Exit, Crash, ReleasedSync
<1>4. CASE Restart(p)
  <2>1. /\ UNCHANGED <<heldLocks, file, pc, lock>> /\ ~alive[p]
        /\ \A q \in Procs : alive'[q] <=> (alive[q] \/ q = p)
        /\ \A q \in Procs : inc'[q] = IF q = p THEN inc[q] + 1 ELSE inc[q]
        /\ \A q \in Procs : cleaner'[q] = IF q = p THEN "due" ELSE cleaner[q]
    <3>1. \A q \in Procs : alive'[q] <=> (alive[q] \/ q = p)
      BY <1>0, <1>4 DEF Restart
    <3>2. \A q \in Procs : inc'[q] = IF q = p THEN inc[q] + 1 ELSE inc[q]
      BY <1>0, <1>4 DEF Restart
    <3>3. \A q \in Procs : cleaner'[q] = IF q = p THEN "due" ELSE cleaner[q]
      BY <1>0, <1>4 DEF Restart
    <3> QED  BY <1>4, <3>1, <3>2, <3>3 DEF Restart
  <2>2. Between' = Between /\ Removers' = Removers /\ Cleaners' \subseteq Cleaners
    BY <2>1 DEF Between, Removers, Cleaners
  <2>3. file # None => (OwnerLives' <=> OwnerLives)
    BY <1>0, <2>1 DEF OwnerLives, Deaths
  <2>4. BetweenOwn' /\ HoldersOwn'
    BY <1>a, <2>1, <2>2 DEF BetweenOwn, HoldersOwn, Owns, Between
  <2> HIDE DEF TypeBase
  <2>5. Young' /\ RemoversRight'
    BY <1>a, <2>1, <2>2, <2>3 DEF Young, RemoversRight
  <2> QED  BY <2>4, <2>5 DEF CalmInv
<1>5. CASE CleanList(p) \/ CleanRead(p) \/ CleanInspect(p)
  <2>1. UNCHANGED <<alive, inc, heldLocks, file, pc, lock>>
    BY <1>5 DEF CleanList, CleanRead, CleanInspect
  <2>2. Between' = Between /\ Removers' = Removers
    BY <2>1 DEF Between, Removers
  <2>3. BetweenOwn' /\ HoldersOwn' /\ Young'
    BY <1>a, <2>1, <2>2 DEF BetweenOwn, HoldersOwn, Owns, Young, OwnerLives
  <2>4. CASE cleaner'[p] # "remove"
    <3>1. Cleaners' \subseteq Cleaners
      BY <1>0, <1>5, <2>4 DEF Cleaners, CleanList, CleanRead, CleanInspect
    <3> HIDE DEF TypeBase
    <3>2. RemoversRight'
      BY <1>a, <2>1, <2>2, <3>1 DEF RemoversRight, OwnerLives
    <3> QED  BY <2>3, <3>2 DEF CalmInv
  <2>5. CASE cleaner'[p] = "remove"
    <3>1. /\ cleaner' = [cleaner EXCEPT ![p] = "remove"]
          /\ cleanerSeen[p] # None /\ inspectLockPayload(cleanerSeen[p], cleanerSeen[p].old)
          /\ ~Disturbs(cleanerSeen[p])
      BY <1>0, <1>5, <2>5 DEF CleanList, CleanRead, CleanInspect
    <3>a. file # None /\ ~Removing /\ StillThere(cleanerSeen[p])
      BY <3>1 DEF Disturbs, StillThere
    <3>b. /\ file.owner = cleanerSeen[p].owner /\ file.inc = cleanerSeen[p].inc
          /\ cleanerSeen[p].old => file.old
      BY <1>0, <3>1, <3>a DEF Seen, SeenOK
    <3>2. ~OwnerLives
      BY <1>0, <1>a, <3>1, <3>a, <3>b DEF inspectLockPayload, pidRecycled, Young, OwnerLives
    <3>3. Removers = {} /\ Cleaners' = {p}
      BY <1>0, <3>1, <3>a DEF Removing, Removers, Cleaners
    <3> HIDE DEF TypeBase
    <3>4. RemoversRight'
      BY <2>1, <2>2, <3>a, <3>2, <3>3 DEF RemoversRight, OwnerLives
    <3> QED  BY <2>3, <3>4 DEF CalmInv
  <2> QED  BY <2>4, <2>5
<1>6. CASE CleanRemove(p)
  <2>1. /\ UNCHANGED <<heldLocks, pc, lock>> /\ cleaner[p] = "remove" /\ file' = None
        /\ cleaner' = [cleaner EXCEPT ![p] = "done"]
    BY <1>6 DEF CleanRemove
  <2>2. p \in Cleaners /\ (\A q \in Cleaners : q = p) /\ Removers = {} /\ NobodyHolds
    BY <1>0, <1>a, <2>1, Apart DEF Cleaners, RemoversRight
  <2>3. NobodyHolds' /\ Removers' = {} /\ Cleaners' = {}
    BY <1>0, <2>1, <2>2 DEF NobodyHolds, Between, Removers, Cleaners
  <2> HIDE DEF TypeBase
  <2> QED  BY <2>1, <2>3 DEF CalmInv, Young, NobodyHolds, BetweenOwn, HoldersOwn, RemoversRight
<1> QED
  BY <1>1, <1>3, <1>4, <1>5, <1>6

LEMMA AgeCalm ==
    ASSUME Inv, TypeBase', calm, CalmInv, calm', Age
    PROVE  CalmInv'
<1>1. /\ UNCHANGED <<alive, inc, heldLocks, cleaner, pc, lock>>
      /\ file # None /\ ~OwnerLives /\ file' = [file EXCEPT !.old = TRUE]
  BY DEF Age, procVars, callerVars, cleanVars
<1>2. file \in LockFile
  BY <1>1 DEF Inv, TypeBase
<1>3. file' # None /\ file'.owner = file.owner /\ file'.inc = file.inc
  <2>1. file' # None
    BY <1>1, <1>2, FileChanged
  <2> QED  BY <1>1, <1>2, <2>1 DEF LockFile
<1>4. Between' = Between /\ Removers' = Removers /\ Cleaners' = Cleaners
  BY <1>1 DEF Between, Removers, Cleaners
<1>5. ~OwnerLives'
  BY <1>1, <1>3 DEF OwnerLives
<1>6. Between = {} /\ \A p \in Procs : heldLocks[p] = None
  BY <1>1, Apart DEF Inv
<1> QED
  BY <1>1, <1>3, <1>4, <1>5, <1>6
  DEF CalmInv, BetweenOwn, HoldersOwn, RemoversRight, Young

LEMMA InvInit == Init => Inv
<1> SUFFICES ASSUME Init PROVE Inv
  OBVIOUS
<1>1. TypeBase /\ SeenType /\ Deaths /\ Numbers /\ Seen /\ Counts /\ Watchdogs
  BY TypeInit
<1>2. Awake /\ NobodyHolds /\ Removers = {} /\ Cleaners = {} /\ Young
  BY PidType DEF Init, Awake, NobodyHolds, Between, Removers, Cleaners, Young
<1>3. CalmInv
  BY <1>2, CalmIfIdle
<1> QED
  BY <1>1, <1>2, <1>3 DEF Inv

LEMMA InvStep ==
    ASSUME Inv, [Next]_vars
    PROVE  Inv'
<1>1. TypeBase'
  BY TypeStep DEF Inv
<1>2. SeenType' /\ Deaths' /\ Watchdogs' /\ Numbers' /\ Seen' /\ Counts' /\ Awake'
  BY <1>1, DeathsStep, NumbersStep, SeenTypeStep, SeenStep, CountsStep, AwakeStep DEF Inv
<1>3. ASSUME calm' PROVE CalmInv'
  <2>1. calm /\ CalmInv
    BY <1>3, CalmBefore DEF Inv
  <2>2. CASE UNCHANGED vars
    BY <2>1, <2>2 DEF vars, procVars, callerVars, cleanVars, CalmInv, BetweenOwn, HoldersOwn, RemoversRight,
                      Young, Owns, OwnerLives, Between, Removers, Cleaners
  <2>3. CASE Next
    BY <1>1, <1>3, <2>1, <2>3, CallersCalm, ProcessesCalm, AgeCalm DEF Next
  <2> QED  BY <2>2, <2>3
<1> QED
  BY <1>1, <1>2, <1>3 DEF Inv

LEMMA Invariance == Spec => []Inv
  BY InvInit, InvStep, PTL DEF Spec

\* The lock's bookkeeping keeps its types; the count of an entry never exceeds
\* the callers there are and never reaches zero.
THEOREM TypeCorrect == Spec => []TypeOK
<1>1. Inv => TypeOK
  <2> SUFFICES ASSUME Inv PROVE TypeOK
    OBVIOUS
  <2>1. \A p \in Procs : heldLocks[p] \in {None} \cup [n : Files, count : 1..Cardinality(Callers)]
    <3> SUFFICES ASSUME NEW p \in Procs, heldLocks[p] # None
                 PROVE  heldLocks[p] \in [n : Files, count : 1..Cardinality(Callers)]
      OBVIOUS
    <3>1. heldLocks[p] \in Entry
      BY DEF Inv, TypeBase
    <3>2. heldLocks[p].count \in 1..Cardinality(Callers)
      <4>1. heldLocks[p].count = Cardinality(Holders(p)) /\ heldLocks[p].count \in Nat \ {0}
        BY <3>1 DEF Inv, Counts, Entry
      <4>2. Cardinality(Callers) \in Nat
        BY FS_CardinalityType
      <4> QED  BY <4>1, <4>2, HoldersFinite
    <3> QED  BY <3>1, <3>2 DEF Entry
  <2>2. heldLocks \in [Procs -> {None} \cup [n : Files, count : 1..Cardinality(Callers)]]
    BY <2>1 DEF Inv, TypeBase
  <2> QED  BY <2>2 DEF Inv, TypeBase, SeenType, TypeOK
<1> QED
  BY <1>1, Invariance, PTL

\* In the calm case every entry has its lock file on the disk: no release,
\* reclaim, exit or crash takes it away early.
THEOREM EntriesOnDisk == Spec => []HeldIsOnDisk
<1>1. Inv => HeldIsOnDisk
  BY DEF Inv, CalmInv, HoldersOwn, Owns, HeldIsOnDisk
<1> QED
  BY <1>1, Invariance, PTL

\* In the calm case the session has one writer at a time, however many
\* processes and callers there are and whenever they die.
THEOREM OneWriter == Spec => []Exclusive
<1>1. Inv => Exclusive
  <2> SUFFICES ASSUME Inv, calm, NEW c \in Callers, NEW d \in Callers,
                      pc[c] = "holding", pc[d] = "holding"
               PROVE  lock[c] = lock[d]
    BY DEF Exclusive, AtMostOneHolder
  <2>1. /\ heldLocks[pid(c)] # None /\ heldLocks[pid(c)].n = lock[c]
        /\ heldLocks[pid(d)] # None /\ heldLocks[pid(d)].n = lock[d]
    BY DEF Inv, CalmInv, HoldersOwn
  <2>2. file.n = lock[c] /\ file.n = lock[d]
    BY <2>1, PidType DEF Inv, CalmInv, HoldersOwn, Owns
  <2> QED  BY <2>2
<1> QED
  BY <1>1, Invariance, PTL

=============================================================================
