--------------------------- MODULE SessionWriteLock ---------------------------
(***************************************************************************)
(* The lock of one session file: a file next to it, created with the flag  *)
(* "wx", that names the process which created it, and an entry of that     *)
(* process's map HELD_LOCKS that counts the callers who share it.          *)
(*                                                                         *)
(* A lock is named by the call that created its file: a call creates one   *)
(* at most.  Every file operation is awaited, so other calls and other     *)
(* processes run before and after each; a process may be killed, leave in  *)
(* order, or take a termination signal that other listeners keep it from   *)
(* dying of.                                                               *)
(***************************************************************************)
EXTENDS Integers, FiniteSets

CONSTANTS
    Process,    \* instances of programs: one that is started again is another
    Pid,        \* process ids, which the system uses again
    Gateway,    \* the processes that sweep stale locks when they start
    Call,       \* calls of acquireSessionWriteLock
    ProcessOf,  \* the process that makes each
    Reentrant,  \* those with allowReentrant
    None

LockFile == [lock : Call, written : BOOLEAN, old : BOOLEAN]
HeldLock == [lock : Call, count : 1..Cardinality(Call)]

ASSUME SessionWriteLockAssumption ==
    /\ IsFiniteSet(Call) /\ Call \cap Process = {}
    /\ Gateway \subseteq Process
    /\ ProcessOf \in [Call -> Process]
    /\ Reentrant \subseteq Call
    /\ None \notin Call \cup Pid \cup LockFile \cup HeldLock

VARIABLES
    platform,  \* "linux", where the start time of a process is known, or "other"
    up,        \* each process: "new", "up", "gone"
    pidOf,     \* and the pid it has or had, or None
    file,      \* the lock file, or None
    heldLocks, \* HELD_LOCKS of each process: the entry of the session, or None
    pc,        \* where each call stands; "ousted" is one that holds what was taken
    lockOf,    \* the lock a call was given
    watchdog,  \* whether the watchdog timer of each process runs
    releasing, \* locks whose handle is being closed and file removed
    sweep,     \* cleanStaleLockFiles of each process: "due", "listed", "removing", "done"
    judged,    \* the lock whose file a call or a sweep has read last
    careless   \* history: something happened that the lock is not safe from

vars == <<platform, up, pidOf, file, heldLocks, pc, lockOf, watchdog, releasing, sweep, judged,
          careless>>

\* The calls in the loop of acquireSessionWriteLock that have no file.
Waiting == {"opening", "reading", "stat", "removing"}

TypeOK ==
    /\ platform \in {"linux", "other"}
    /\ up \in [Process -> {"new", "up", "gone"}]
    /\ pidOf \in [Process -> Pid \cup {None}]
    /\ file \in LockFile \cup {None}
    /\ heldLocks \in [Process -> HeldLock \cup {None}]
    /\ pc \in [Call -> Waiting \cup {"idle", "preparing", "writing", "written", "holding",
                                     "ousted", "releasing", "cleaning", "done", "failed", "gone"}]
    /\ lockOf \in [Call -> Call \cup {None}]
    /\ watchdog \in [Process -> BOOLEAN]
    /\ releasing \subseteq Call
    /\ sweep \in [Process -> {"due", "listed", "removing", "done"}]
    /\ judged \in [Call \cup Process -> Call \cup {None}]
    /\ careless \in BOOLEAN

Init ==
    /\ platform \in {"linux", "other"}
    /\ up = [p \in Process |-> "new"]
    /\ pidOf = [p \in Process |-> None]
    /\ file = None
    /\ heldLocks = [p \in Process |-> None]
    /\ pc = [c \in Call |-> "idle"]
    /\ lockOf = [c \in Call |-> None]
    /\ watchdog = [p \in Process |-> FALSE]
    /\ releasing = {}
    /\ sweep = [p \in Process |-> IF p \in Gateway THEN "due" ELSE "done"]
    /\ judged = [a \in Call \cup Process |-> None]
    /\ careless = FALSE

Up(c) == up[ProcessOf[c]] = "up"
held(c) == heldLocks[ProcessOf[c]]
noteCareless(happened) == careless' = (careless \/ happened)

-----------------------------------------------------------------------------
(* The inspection of a lock file.                                          *)

isPidAlive(l) == \E p \in Process : up[p] = "up" /\ pidOf[p] = pidOf[ProcessOf[l]]

\* The pid lives, with another start time than the file's.
pidRecycled(l) == platform = "linux" /\ isPidAlive(l) /\ ~Up(l)

\* Mutant of tooOld: no lock is.
tooOld_Never(f) == FALSE
\* More than staleMs since createdAt, or since the mtime of an unwritten file.
tooOld(f) == f.old

\* Mutant of needsMtime: what cannot be read is stale at once.
needsMtime_Never(f) == FALSE
\* lockInspectionNeedsMtimeStaleFallback: neither a pid nor a date.
needsMtime(f) == ~f.written

stale(f) ==
    \/ ~f.written
    \/ ~isPidAlive(f.lock)
    \/ pidRecycled(f.lock)
    \/ tooOld(f)

\* shouldTreatAsOrphanSelfLock: the file has this process's pid and no start
\* time, and this process has no entry.
orphanSelf(c, f) ==
    /\ f.written /\ platform # "linux"
    /\ pidOf[ProcessOf[f.lock]] = pidOf[ProcessOf[c]]
    /\ held(c) = None

-----------------------------------------------------------------------------
(* Processes                                                               *)

\* A process starts, with a pid no other process has.
Start(p) ==
    /\ up[p] = "new"
    /\ up' = [up EXCEPT ![p] = "up"]
    /\ \E id \in Pid \ {pidOf[q] : q \in {r \in Process : up[r] = "up"}} :
          pidOf' = [pidOf EXCEPT ![p] = id]
    /\ UNCHANGED <<platform, file, heldLocks, pc, lockOf, watchdog, releasing, sweep,
                   judged, careless>>

\* The callers of an entry are not told that it is taken from them.
oust(p) ==
    pc' = [c \in Call |->
        IF ProcessOf[c] = p /\ pc[c] = "holding" /\ lockOf[c] = heldLocks[p].lock
        THEN "ousted" ELSE pc[c]]

\* What a process leaves of its memory: nothing.
Dies(p) ==
    /\ up' = [up EXCEPT ![p] = "gone"]
    /\ heldLocks' = [heldLocks EXCEPT ![p] = None]
    /\ pc' = [c \in Call |-> IF ProcessOf[c] = p THEN "gone" ELSE pc[c]]
    /\ lockOf' = [c \in Call |-> IF ProcessOf[c] = p THEN None ELSE lockOf[c]]
    /\ watchdog' = [watchdog EXCEPT ![p] = FALSE]
    /\ releasing' = {l \in releasing : ProcessOf[l] # p}
    /\ sweep' = [sweep EXCEPT ![p] = "done"]
    /\ judged' = [a \in Call \cup Process |->
          IF a = p \/ (a \in Call /\ ProcessOf[a] = p) THEN None ELSE judged[a]]
    /\ UNCHANGED <<platform, pidOf, careless>>

\* It is killed.
Crash(p) == up[p] = "up" /\ Dies(p) /\ UNCHANGED file

\* releaseAllLocksSync: the path of an entry is removed, whosever file it is.
releaseAllLocksSync(p) == file' = IF heldLocks[p] # None THEN None ELSE file

\* The exit event, or a signal with no listener but this module's.
Exit(p) == up[p] = "up" /\ releaseAllLocksSync(p) /\ Dies(p)

\* handleTerminationSignal when another listener keeps the process alive.
Signal(p) ==
    /\ up[p] = "up" /\ heldLocks[p] # None
    /\ releaseAllLocksSync(p)
    /\ heldLocks' = [heldLocks EXCEPT ![p] = None]
    /\ watchdog' = [watchdog EXCEPT ![p] = FALSE]
    /\ oust(p)
    /\ UNCHANGED <<platform, up, pidOf, lockOf, releasing, sweep, judged, careless>>

\* staleMs passes for the file there is.
Age ==
    /\ file # None /\ ~file.old
    /\ file' = [file EXCEPT !.old = TRUE]
    /\ noteCareless(Up(file.lock))
    /\ UNCHANGED <<platform, up, pidOf, heldLocks, pc, lockOf, watchdog, releasing,
                   sweep, judged>>

-----------------------------------------------------------------------------
(* acquireSessionWriteLock                                                 *)

\* The watchdog is started, the directory made and its real path asked: while
\* that is awaited a release of the process may stop the watchdog again.
Prepare(c) ==
    /\ pc[c] = "idle" /\ Up(c)
    /\ watchdog' = [watchdog EXCEPT ![ProcessOf[c]] = TRUE]
    /\ pc' = [pc EXCEPT ![c] = "preparing"]
    /\ UNCHANGED <<platform, up, pidOf, file, heldLocks, lockOf, releasing, sweep, judged,
                   careless>>

\* A caller who may share its process's lock does; others enter the loop.
Acquire(c) ==
    /\ pc[c] = "preparing" /\ Up(c)
    /\ IF c \in Reentrant /\ held(c) # None
       THEN /\ heldLocks' = [heldLocks EXCEPT ![ProcessOf[c]].count = @ + 1]
            /\ pc' = [pc EXCEPT ![c] = "holding"]
            /\ lockOf' = [lockOf EXCEPT ![c] = held(c).lock]
       ELSE /\ pc' = [pc EXCEPT ![c] = "opening"]
            /\ UNCHANGED <<heldLocks, lockOf>>
    /\ UNCHANGED <<platform, up, pidOf, file, watchdog, releasing, sweep, judged, careless>>

\* The open with "wx": the file is created, or there was one.
Open(c) ==
    /\ pc[c] = "opening" /\ Up(c)
    /\ IF file = None
       THEN /\ file' = [lock |-> c, written |-> FALSE, old |-> FALSE]
            /\ pc' = [pc EXCEPT ![c] = "writing"]
       ELSE pc' = [pc EXCEPT ![c] = "reading"] /\ UNCHANGED file
    /\ UNCHANGED <<platform, up, pidOf, heldLocks, lockOf, watchdog, releasing, sweep,
                   judged, careless>>

\* The payload reaches the file, which may no longer be at its path.
Write(c) ==
    /\ pc[c] = "writing" /\ Up(c)
    /\ pc' = [pc EXCEPT ![c] = "written"]
    /\ file' = IF file # None /\ file.lock = c THEN [file EXCEPT !.written = TRUE] ELSE file
    /\ UNCHANGED <<platform, up, pidOf, heldLocks, lockOf, watchdog, releasing, sweep,
                   judged, careless>>

\* The write fails: the handle is closed, the path removed, the error thrown.
WriteFails(c) ==
    /\ pc[c] = "writing" /\ Up(c)
    /\ pc' = [pc EXCEPT ![c] = "cleaning"]
    /\ UNCHANGED <<platform, up, pidOf, file, heldLocks, lockOf, watchdog, releasing, sweep,
                   judged, careless>>

Cleaned(c) ==
    /\ pc[c] = "cleaning" /\ Up(c)
    /\ pc' = [pc EXCEPT ![c] = "failed"] /\ file' = None
    /\ UNCHANGED <<platform, up, pidOf, heldLocks, lockOf, watchdog, releasing, sweep,
                   judged, careless>>

\* The write was awaited: HELD_LOCKS.set, and the caller has the lock.
Record(c) ==
    /\ pc[c] = "written" /\ Up(c)
    /\ heldLocks' = [heldLocks EXCEPT ![ProcessOf[c]] = [lock |-> c, count |-> 1]]
    /\ pc' = [pc EXCEPT ![c] = "holding"]
    /\ lockOf' = [lockOf EXCEPT ![c] = c]
    /\ UNCHANGED <<platform, up, pidOf, file, watchdog, releasing, sweep, judged, careless>>

\* There was a file: it is read and judged.  One that is not to be reclaimed
\* is slept on; of one without a payload, or gone by now, the mtime is asked.
Read(c) ==
    /\ pc[c] = "reading" /\ Up(c)
    /\ IF file = None \/ needsMtime(file)
       THEN /\ pc' = [pc EXCEPT ![c] = "stat"]
            /\ judged' = [judged EXCEPT ![c] = IF file = None THEN None ELSE file.lock]
            /\ UNCHANGED careless
       ELSE IF stale(file) \/ orphanSelf(c, file)
       THEN /\ pc' = [pc EXCEPT ![c] = "removing"]
            /\ judged' = [judged EXCEPT ![c] = file.lock]
            /\ noteCareless(orphanSelf(c, file) /\ Up(file.lock))
       ELSE /\ pc' = [pc EXCEPT ![c] = "opening"]
            /\ UNCHANGED <<judged, careless>>
    /\ UNCHANGED <<platform, up, pidOf, file, heldLocks, lockOf, watchdog, releasing, sweep>>

\* shouldReclaimContendedLockFile, by the mtime of what is there now.
Stat(c) ==
    /\ pc[c] = "stat" /\ Up(c)
    /\ IF file # None /\ tooOld(file)
       THEN pc' = [pc EXCEPT ![c] = "removing"] /\ UNCHANGED judged
       ELSE pc' = [pc EXCEPT ![c] = "opening"] /\ judged' = [judged EXCEPT ![c] = None]
    /\ UNCHANGED <<platform, up, pidOf, file, heldLocks, lockOf, watchdog, releasing,
                   sweep, careless>>

\* The removal of a file that was found stale, by whatever is there now.
Reclaim(c) ==
    /\ pc[c] = "removing" /\ Up(c)
    /\ pc' = [pc EXCEPT ![c] = "opening"] /\ judged' = [judged EXCEPT ![c] = None]
    /\ file' = None
    /\ noteCareless(file # None /\ file.lock # judged[c])
    /\ UNCHANGED <<platform, up, pidOf, heldLocks, lockOf, watchdog, releasing, sweep>>

\* timeoutMs is over when the loop looks.
Timeout(c) ==
    /\ pc[c] = "opening" /\ Up(c)
    /\ pc' = [pc EXCEPT ![c] = "failed"]
    /\ UNCHANGED <<platform, up, pidOf, file, heldLocks, lockOf, watchdog, releasing, sweep,
                   judged, careless>>

-----------------------------------------------------------------------------
(* releaseHeldLock                                                         *)

\* Mutant of current: whatever entry there is is the caller's.
current_Any(p, l) == heldLocks[p] # None
\* The entry is the one the caller was given.
current(p, l) == heldLocks[p] # None /\ heldLocks[p].lock = l

\* Mutant of lastRef: the first release is the last.
lastRef_First(p) == TRUE
\* Another: it looks at the count before it is lowered.
lastRef_AtZero(p) == heldLocks[p].count = 0
\* The count falls to zero.
lastRef(p) == heldLocks[p].count = 1

\* A caller is done with the lock.
Release(c) ==
    LET p == ProcessOf[c] IN
    /\ pc[c] \in {"holding", "ousted"} /\ Up(c)
    /\ IF current(p, lockOf[c])
       THEN IF lastRef(p)
            THEN /\ heldLocks' = [heldLocks EXCEPT ![p] = None]
                 /\ releasing' = releasing \cup {heldLocks[p].lock}
                 /\ pc' = [pc EXCEPT ![c] = "releasing"]
                 /\ UNCHANGED lockOf
            ELSE /\ heldLocks' = [heldLocks EXCEPT ![p].count = @ - 1]
                 /\ pc' = [pc EXCEPT ![c] = "done"] /\ lockOf' = [lockOf EXCEPT ![c] = None]
                 /\ UNCHANGED releasing
       ELSE /\ pc' = [pc EXCEPT ![c] = "done"] /\ lockOf' = [lockOf EXCEPT ![c] = None]
            /\ UNCHANGED <<heldLocks, releasing>>
    /\ UNCHANGED <<platform, up, pidOf, file, watchdog, sweep, judged, careless>>

\* The handle is closed and the path removed; the watchdog stops when nothing
\* is held.
Removed(l) ==
    /\ l \in releasing
    /\ releasing' = releasing \ {l}
    /\ file' = None
    /\ watchdog' = [watchdog EXCEPT ![ProcessOf[l]] = @ /\ held(l) # None]
    /\ LET over == {c \in Call : pc[c] = "releasing" /\ lockOf[c] = l} IN
       /\ pc' = [c \in Call |-> IF c \in over THEN "done" ELSE pc[c]]
       /\ lockOf' = [c \in Call |-> IF c \in over THEN None ELSE lockOf[c]]
    /\ UNCHANGED <<platform, up, pidOf, heldLocks, sweep, judged, careless>>

\* runLockWatchdogCheck: an entry older than its maxHoldMs is released, its
\* callers or not.
Watchdog(p) ==
    /\ up[p] = "up" /\ watchdog[p] /\ heldLocks[p] # None
    /\ heldLocks' = [heldLocks EXCEPT ![p] = None]
    /\ releasing' = releasing \cup {heldLocks[p].lock}
    /\ oust(p)
    /\ UNCHANGED <<platform, up, pidOf, file, lockOf, watchdog, sweep, judged, careless>>

-----------------------------------------------------------------------------
(* cleanStaleLockFiles: no mtime is asked.                                 *)

\* readdir lists the lock file, or there is none.
SweepLists(p) ==
    /\ up[p] = "up" /\ sweep[p] = "due"
    /\ sweep' = [sweep EXCEPT ![p] = IF file # None THEN "listed" ELSE "done"]
    /\ UNCHANGED <<platform, up, pidOf, file, heldLocks, pc, lockOf, watchdog, releasing,
                   judged, careless>>

\* It is read: one that is gone by now has no pid, and its path is removed.
SweepReads(p) ==
    /\ up[p] = "up" /\ sweep[p] = "listed"
    /\ IF file = None
       THEN sweep' = [sweep EXCEPT ![p] = "removing"] /\ UNCHANGED <<judged, careless>>
       ELSE IF stale(file)
       THEN /\ sweep' = [sweep EXCEPT ![p] = "removing"]
            /\ judged' = [judged EXCEPT ![p] = file.lock]
            /\ noteCareless(~file.written /\ Up(file.lock))
       ELSE sweep' = [sweep EXCEPT ![p] = "done"] /\ UNCHANGED <<judged, careless>>
    /\ UNCHANGED <<platform, up, pidOf, file, heldLocks, pc, lockOf, watchdog, releasing>>

SweepRemoves(p) ==
    /\ up[p] = "up" /\ sweep[p] = "removing"
    /\ sweep' = [sweep EXCEPT ![p] = "done"] /\ judged' = [judged EXCEPT ![p] = None]
    /\ file' = None
    /\ noteCareless(file # None /\ file.lock # judged[p])
    /\ UNCHANGED <<platform, up, pidOf, heldLocks, pc, lockOf, watchdog, releasing>>

-----------------------------------------------------------------------------
Next ==
    \/ Age
    \/ \E p \in Process :
          \/ Start(p) \/ Crash(p) \/ Exit(p) \/ Signal(p) \/ Watchdog(p)
          \/ SweepLists(p) \/ SweepReads(p) \/ SweepRemoves(p)
    \/ \E c \in Call :
          \/ Prepare(c) \/ Acquire(c) \/ Open(c) \/ Write(c) \/ WriteFails(c) \/ Cleaned(c)
          \/ Record(c) \/ Read(c) \/ Stat(c) \/ Reclaim(c) \/ Timeout(c) \/ Release(c)
          \/ Removed(c)

Spec == Init /\ [][Next]_vars

\* Time passes, and the loop of a call goes on.
FairSpec ==
    /\ Spec /\ WF_vars(Age)
    /\ \A c \in Call : WF_vars(Open(c) \/ Read(c) \/ Stat(c) \/ Reclaim(c))

-----------------------------------------------------------------------------
(* Properties                                                              *)

\* The calls that have the session file to themselves, and were not ousted.
Holders == {c \in Call : pc[c] = "holding"}

\* From the open that creates it to the removal that its own process makes, a
\* lock's file is at the path: no reclaim, sweep or late release of another
\* takes it - unless a removal met another file than the one that was read (or
\* a file where none was), a lock outlived staleMs, a sweep met a file still
\* being written, or a process without start times took its own lock for an
\* orphan.  Watchdog and signals are no such excuse.
LiveLockKept ==
    ~careless =>
        \A l \in Call :
            \/ Up(l) /\ pc[l] \in {"writing", "written", "cleaning"}
            \/ l \in releasing
            \/ held(l) # None /\ held(l).lock = l
            => file # None /\ file.lock = l

\* Callers who hold the session at the same time share one lock: with the
\* same excuses, and leaving out the callers whom the watchdog or a signal
\* ousted, nothing lets a second writer in.
OneWriter == ~careless => \A c, d \in Holders : lockOf[c] = lockOf[d]

\* The count of an entry is the number of callers who have its lock, and a
\* caller who was not ousted finds its entry when it releases: an ousted one
\* drops no reference of a later lock.
RefsCounted ==
    \A p \in Process :
        LET mine == {c \in Holders : ProcessOf[c] = p} IN
        /\ heldLocks[p] # None =>
              heldLocks[p].count = Cardinality({c \in mine : lockOf[c] = heldLocks[p].lock})
        /\ ~careless =>
              \A c \in mine : heldLocks[p] # None /\ heldLocks[p].lock = lockOf[c]

\* A file whose process is gone.
Abandoned == file # None /\ ~Up(file.lock)

\* A file its process left behind is removed if a call keeps waiting for it:
\* by its dead pid, by its start time, or by its age.
StaleLockReclaimed ==
    \A c \in Call : (Abandoned /\ pc[c] \in Waiting) ~> (~Abandoned \/ pc[c] \notin Waiting)
=============================================================================
