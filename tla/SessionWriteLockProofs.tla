------------------------ MODULE SessionWriteLockProofs ------------------------
(* Proofs, for any number of processes and calls, of the safety of          *)
(* SessionWriteLock: a live lock is kept, callers share one lock, and       *)
(* references are counted.                                                  *)
(*                                                                          *)
(* The argument.  A lock whose process still answers for it has its file at *)
(* the path, so there is one such lock at most, and whoever removes his own *)
(* file removes nobody else's.  Whoever removes another's has judged it, or *)
(* is careless: the file that was judged belongs to a process that is gone, *)
(* and a call never creates a file twice, so no live lock can have taken    *)
(* its name in between.                                                     *)
EXTENDS SessionWriteLock, FiniteSetTheorems, TLAPS

Steps == Waiting \cup {"idle", "preparing", "writing", "written", "holding", "ousted",
                       "releasing", "cleaning", "done", "failed", "gone"}

-----------------------------------------------------------------------------
(* The invariant.                                                          *)

\* A call that has opened its file, or never will.
Opened(c) == pc[c] \notin Waiting \cup {"idle", "preparing"}

\* A lock that was recorded in HELD_LOCKS.
Recorded(l) == pc[l] \in {"holding", "ousted", "releasing", "done"}

\* A caller who was given a lock and has not done with it.
Given(c) == pc[c] \in {"holding", "ousted", "releasing"}

\* The process of l answers for its file.
Live(l) ==
    \/ Up(l) /\ pc[l] \in {"writing", "written", "cleaning"}
    \/ l \in releasing
    \/ held(l) # None /\ held(l).lock = l

\* Calls stand where their processes are.
CallsOfProcesses ==
    \A c \in Call : /\ up[ProcessOf[c]] = "new" => pc[c] = "idle"
                    /\ up[ProcessOf[c]] = "gone" => pc[c] = "gone"

\* Entries and locks being released are recorded ones of running processes.
EntriesOfProcesses ==
    /\ \A p \in Process : heldLocks[p] # None =>
          up[p] = "up" /\ ProcessOf[heldLocks[p].lock] = p /\ Recorded(heldLocks[p].lock)
    /\ \A l \in releasing : /\ Up(l) /\ Recorded(l)
                            /\ held(l) = None \/ held(l).lock # l

\* What callers were given is a lock of their process, which for those who
\* were ousted or are releasing is not its entry.
LocksOfCalls ==
    \A c \in Call :
        /\ Given(c) => /\ lockOf[c] \in Call /\ Recorded(lockOf[c])
                       /\ ProcessOf[lockOf[c]] = ProcessOf[c]
        /\ pc[c] \in {"ousted", "releasing"} => held(c) = None \/ held(c).lock # lockOf[c]

\* Files that are there, or were judged, were opened.
FilesOfCalls ==
    /\ file # None => Opened(file.lock)
    /\ \A a \in Call \cup Process : judged[a] # None => Opened(judged[a])

\* Who is about to remove a file that was judged.
Removing == {c \in Call : pc[c] = "removing"} \cup {p \in Process : sweep[p] = "removing"}

\* Unless something careless happened, old files and those that were found
\* stale have no process.
StaleIsDead ==
    ~careless /\ file # None =>
        /\ file.old => ~Up(file.lock)
        /\ \A a \in Removing : judged[a] = file.lock => ~Up(file.lock)

\* The callers who share the entry of p.
Sharers(p) == {c \in Call : pc[c] = "holding" /\ ProcessOf[c] = p /\ lockOf[c] = heldLocks[p].lock}

Counted == \A p \in Process : heldLocks[p] # None => heldLocks[p].count = Cardinality(Sharers(p))

Found == ~careless => \A c \in Holders : held(c) # None /\ held(c).lock = lockOf[c]

Places == CallsOfProcesses /\ EntriesOfProcesses /\ LocksOfCalls /\ FilesOfCalls

Kept == ~careless => \A l \in Call : Live(l) => file # None /\ file.lock = l

IInv == TypeOK /\ Places /\ StaleIsDead /\ Kept /\ Counted /\ Found

-----------------------------------------------------------------------------
(* The helpers.                                                            *)

\* The processes of calls.
LEMMA Types ==
    /\ IsFiniteSet(Call) /\ Cardinality(Call) \in Nat
    /\ None \notin Call /\ None \notin LockFile /\ None \notin HeldLock
    /\ \A c \in Call : ProcessOf[c] \in Process /\ c \notin Process
  BY SessionWriteLockAssumption, FS_CardinalityType

\* The count of an entry is that of its sharers.
LEMMA SharersAre ==
    ASSUME TypeOK
    PROVE  RefsCounted <=> Counted /\ Found
  <1>1. ASSUME NEW p \in Process
        PROVE  {c \in {c \in Holders : ProcessOf[c] = p} : lockOf[c] = heldLocks[p].lock} = Sharers(p)
    BY DEF Holders, Sharers
  <1>2. (\A p \in Process : \A c \in {c \in Holders : ProcessOf[c] = p} :
            heldLocks[p] # None /\ heldLocks[p].lock = lockOf[c])
        <=> \A c \in Holders : held(c) # None /\ held(c).lock = lockOf[c]
    BY Types DEF Holders, held
  <1>3. QED
    BY <1>1, <1>2 DEF RefsCounted, Counted, Found

LEMMA KeptIs == LiveLockKept <=> Kept
  BY DEF LiveLockKept, Kept, Live

\* An entry has between one and all of the calls as its sharers.
LEMMA SharersFinite ==
    ASSUME NEW p \in Process
    PROVE  /\ IsFiniteSet(Sharers(p)) /\ Cardinality(Sharers(p)) \in Nat
           /\ Cardinality(Sharers(p)) <= Cardinality(Call)
  <1>1. Sharers(p) \in SUBSET Call
    BY DEF Sharers
  <1>2. QED
    BY <1>1, Types, FS_Subset, FS_CardinalityType

\* One more caller may share an entry: the calls are not yet exhausted.
LEMMA OneMore ==
    ASSUME IInv, NEW c \in Call, pc[c] = "preparing", held(c) # None
    PROVE  /\ [held(c) EXCEPT !.count = @ + 1] \in HeldLock
           /\ [held(c) EXCEPT !.count = @ + 1].lock = held(c).lock
           /\ [held(c) EXCEPT !.count = @ + 1].count = held(c).count + 1
  <1> DEFINE p == ProcessOf[c]
  <1>1. p \in Process /\ held(c) = heldLocks[p] /\ held(c) \in HeldLock
    BY Types DEF IInv, TypeOK, held
  <1>2. held(c).count = Cardinality(Sharers(p)) /\ c \notin Sharers(p)
    BY <1>1 DEF IInv, Counted, Sharers
  <1>3. Sharers(p) \cup {c} \in SUBSET Call
    BY DEF Sharers
  <1>4. Cardinality(Sharers(p) \cup {c}) = Cardinality(Sharers(p)) + 1
    BY <1>1, <1>2, SharersFinite, FS_AddElement
  <1>5. Cardinality(Sharers(p) \cup {c}) <= Cardinality(Call)
    BY <1>3, Types, FS_Subset
  <1>6. Cardinality(Sharers(p)) \in Nat
    BY <1>1, SharersFinite
  <1>7. held(c).count + 1 \in 1 .. Cardinality(Call)
    BY <1>2, <1>4, <1>5, <1>6, Types
  <1>8. QED
    BY <1>1, <1>7 DEF HeldLock

-----------------------------------------------------------------------------
(* Types                                                                   *)

LEMMA TypeStep ==
    ASSUME IInv, Next
    PROVE  TypeOK'
  <1> USE Types DEF IInv, TypeOK, Waiting
  <1>1. CASE Age
    BY <1>1 DEF Age, noteCareless, LockFile
  <1>2. ASSUME NEW p \in Process, Start(p)
        PROVE  TypeOK'
    BY <1>2 DEF Start
  <1>3. ASSUME NEW p \in Process, Crash(p) \/ Exit(p)
        PROVE  TypeOK'
    <2>1. Dies(p) /\ file' \in {None, file}
      BY <1>3 DEF Crash, Exit, releaseAllLocksSync
    <2>2. /\ up' \in [Process -> {"new", "up", "gone"}]
          /\ heldLocks' \in [Process -> HeldLock \cup {None}]
          /\ watchdog' \in [Process -> BOOLEAN]
          /\ sweep' \in [Process -> {"due", "listed", "removing", "done"}]
          /\ releasing' \subseteq Call
      BY <2>1 DEF Dies
    <2>3. /\ pc' \in [Call -> Steps]
          /\ lockOf' \in [Call -> Call \cup {None}]
      BY <2>1 DEF Dies, Steps
    <2>4. judged' \in [Call \cup Process -> Call \cup {None}]
      BY <2>1 DEF Dies
    <2>5. platform' = platform /\ pidOf' = pidOf /\ careless' = careless
      BY <2>1 DEF Dies
    <2>6. QED
      BY <2>1, <2>2, <2>3, <2>4, <2>5 DEF Steps
  <1>4. ASSUME NEW p \in Process, Signal(p)
        PROVE  TypeOK'
    BY <1>4 DEF Signal, oust, releaseAllLocksSync
  <1>5. ASSUME NEW p \in Process, Watchdog(p)
        PROVE  TypeOK'
    BY <1>5 DEF Watchdog, oust, HeldLock
  <1>6. ASSUME NEW p \in Process, SweepLists(p) \/ SweepReads(p) \/ SweepRemoves(p)
        PROVE  TypeOK'
    <2>1. file # None => file.lock \in Call
      BY DEF LockFile
    <2>2. judged' \in [Call \cup Process -> Call \cup {None}]
      BY <1>6, <2>1 DEF SweepLists, SweepReads, SweepRemoves
    <2>3. sweep' \in [Process -> {"due", "listed", "removing", "done"}] /\ file' \in {file, None}
      BY <1>6 DEF SweepLists, SweepReads, SweepRemoves
    <2>4. careless' \in BOOLEAN
      BY <1>6 DEF SweepLists, SweepReads, SweepRemoves, noteCareless
    <2>5. UNCHANGED <<platform, up, pidOf, heldLocks, pc, lockOf, watchdog, releasing>>
      BY <1>6 DEF SweepLists, SweepReads, SweepRemoves
    <2>6. QED
      BY <2>2, <2>3, <2>4, <2>5
  <1>7. ASSUME NEW c \in Call, Acquire(c)
        PROVE  TypeOK'
    <2> DEFINE p == ProcessOf[c]
    <2>2. heldLocks' \in [Process -> HeldLock \cup {None}]
      <3>1. CASE held(c) # None
        <4>1. [held(c) EXCEPT !.count = @ + 1] \in HeldLock
          BY <1>7, <3>1, OneMore DEF Acquire
        <4>2. heldLocks' \in {heldLocks, [heldLocks EXCEPT ![p] = [held(c) EXCEPT !.count = @ + 1]]}
          BY <1>7 DEF Acquire, held
        <4>3. QED
          BY <4>1, <4>2
      <3>2. CASE held(c) = None
        BY <1>7, <3>2 DEF Acquire
      <3>3. QED
        BY <3>1, <3>2
    <2>3. lockOf' \in [Call -> Call \cup {None}]
      <3>1. held(c) # None => held(c).lock \in Call
        BY DEF held, HeldLock
      <3>2. QED
        BY <1>7, <3>1 DEF Acquire
    <2>4. watchdog' \in [Process -> BOOLEAN]
      BY <1>7 DEF Acquire
    <2>5. pc' \in [Call -> Steps]
      BY <1>7 DEF Acquire, Steps, Waiting
    <2>6. UNCHANGED <<platform, up, pidOf, file, releasing, sweep, judged, careless>>
      BY <1>7 DEF Acquire
    <2>7. QED
      BY <2>2, <2>3, <2>4, <2>5, <2>6 DEF Steps
  <1>8. ASSUME NEW c \in Call, Open(c) \/ Write(c) \/ WriteFails(c) \/ Cleaned(c) \/ Timeout(c)
        PROVE  TypeOK'
    <2>1. file' \in LockFile \cup {None}
      <3> DEFINE created == [lock |-> c, written |-> FALSE, old |-> FALSE]
                 filled == [file EXCEPT !.written = TRUE]
      <3>1. file # None => filled \in LockFile
        BY DEF LockFile
      <3>2. created \in LockFile
        BY DEF LockFile
      <3>3. file' \in {file, None, created} \/ (file # None /\ file' = filled)
        BY <1>8 DEF Open, Write, WriteFails, Cleaned, Timeout
      <3> HIDE DEF created, filled
      <3>4. file \in LockFile \cup {None}
        OBVIOUS
      <3>5. QED
        BY <3>1, <3>2, <3>3, <3>4
    <2>2. pc' \in [Call -> Steps]
      <3>1. CASE Open(c)
        BY <3>1 DEF Open, Steps, Waiting
      <3>2. CASE Write(c)
        BY <3>2 DEF Write, Steps
      <3>3. CASE WriteFails(c)
        BY <3>3 DEF WriteFails, Steps
      <3>4. CASE Cleaned(c)
        BY <3>4 DEF Cleaned, Steps
      <3>5. CASE Timeout(c)
        BY <3>5 DEF Timeout, Steps
      <3>6. QED
        BY <1>8, <3>1, <3>2, <3>3, <3>4, <3>5
    <2>3. UNCHANGED <<platform, up, pidOf, heldLocks, lockOf, watchdog, releasing, sweep,
                      judged, careless>>
      BY <1>8 DEF Open, Write, WriteFails, Cleaned, Timeout
    <2>4. QED
      BY <2>1, <2>2, <2>3 DEF Steps
  <1>9. ASSUME NEW c \in Call, Record(c)
        PROVE  TypeOK'
    <2>1. Cardinality(Call) # 0
      BY FS_EmptySet
    <2>2. [lock |-> c, count |-> 1] \in HeldLock
      BY <2>1 DEF HeldLock
    <2>3. QED
      BY <1>9, <2>2 DEF Record
  <1>10. ASSUME NEW c \in Call, Read(c) \/ Stat(c) \/ Reclaim(c)
        PROVE  TypeOK'
    <2>1. file # None => file.lock \in Call
      BY DEF LockFile
    <2>2. judged' \in [Call \cup Process -> Call \cup {None}]
      BY <1>10, <2>1 DEF Read, Stat, Reclaim
    <2>3. pc' \in [Call -> Steps] /\ file' \in {file, None}
      BY <1>10 DEF Read, Stat, Reclaim, Steps
    <2>4. careless' \in BOOLEAN
      BY <1>10 DEF Read, Stat, Reclaim, noteCareless
    <2>5. UNCHANGED <<platform, up, pidOf, heldLocks, lockOf, watchdog, releasing, sweep>>
      BY <1>10 DEF Read, Stat, Reclaim
    <2>6. QED
      BY <2>2, <2>3, <2>4, <2>5 DEF Steps
  <1>11. ASSUME NEW c \in Call, Release(c)
        PROVE  TypeOK'
    BY <1>11 DEF Release, current, lastRef, HeldLock
  <1>12. ASSUME NEW c \in Call, Removed(c)
        PROVE  TypeOK'
    BY <1>12 DEF Removed
  <1>13. ASSUME NEW c \in Call, Prepare(c)
        PROVE  TypeOK'
    BY <1>13 DEF Prepare
  <1>14. QED
    BY <1>1, <1>2, <1>3, <1>4, <1>5, <1>6, <1>7, <1>8, <1>9, <1>10, <1>11, <1>12, <1>13 DEF Next

-----------------------------------------------------------------------------
(* Where calls, entries and files are.                                     *)

\* A step of one call leaves its process as it is.
OwnSteps(c) ==
    \/ Prepare(c) \/ Acquire(c) \/ Open(c) \/ Write(c) \/ WriteFails(c) \/ Cleaned(c) \/ Record(c)
    \/ Read(c) \/ Stat(c) \/ Reclaim(c) \/ Timeout(c) \/ Release(c)

LEMMA CallsStep ==
    ASSUME IInv, Next
    PROVE  CallsOfProcesses'
  <1> USE Types DEF IInv, TypeOK, Places, CallsOfProcesses
  <1>1. CASE Age
    BY <1>1 DEF Age
  <1>2. ASSUME NEW p \in Process, Start(p)
        PROVE  CallsOfProcesses'
    BY <1>2 DEF Start
  <1>3. ASSUME NEW p \in Process, Dies(p), up[p] = "up"
        PROVE  CallsOfProcesses'
    BY <1>3 DEF Dies
  <1>4. ASSUME NEW p \in Process, oust(p), up' = up
        PROVE  CallsOfProcesses'
    BY <1>4 DEF oust
  <1>5. ASSUME NEW p \in Process, SweepLists(p) \/ SweepReads(p) \/ SweepRemoves(p)
        PROVE  CallsOfProcesses'
    BY <1>5 DEF SweepLists, SweepReads, SweepRemoves
  <1>6. ASSUME NEW c \in Call, OwnSteps(c)
        PROVE  CallsOfProcesses'
    <2>1. Up(c) /\ up' = up /\ \A d \in Call \ {c} : pc'[d] = pc[d]
      BY <1>6 DEF OwnSteps, Prepare, Acquire, Open, Write, WriteFails, Cleaned, Record, Read, Stat,
                  Reclaim, Timeout, Release
    <2>2. QED
      BY <2>1 DEF Up
  <1>7. ASSUME NEW c \in Call, Removed(c)
        PROVE  CallsOfProcesses'
    BY <1>7 DEF Removed
  <1>8. ASSUME NEW p \in Process, Crash(p) \/ Exit(p)
        PROVE  CallsOfProcesses'
    BY <1>3, <1>8 DEF Crash, Exit
  <1>9. ASSUME NEW p \in Process, Signal(p) \/ Watchdog(p)
        PROVE  CallsOfProcesses'
    BY <1>4, <1>9 DEF Signal, Watchdog, oust
  <1> HIDE DEF IInv, TypeOK, Places, CallsOfProcesses
  <1>10. QED
    BY <1>1, <1>2, <1>5, <1>6, <1>7, <1>8, <1>9 DEF Next, OwnSteps

LEMMA EntriesStep ==
    ASSUME IInv, Next
    PROVE  EntriesOfProcesses'
  <1> USE Types DEF IInv, TypeOK, Places, EntriesOfProcesses, Up, held, Recorded
  <1>1. CASE Age
    BY <1>1 DEF Age
  <1>2. ASSUME NEW p \in Process, Start(p)
        PROVE  EntriesOfProcesses'
    BY <1>2 DEF Start
  <1>3. ASSUME NEW p \in Process, Dies(p), up[p] = "up"
        PROVE  EntriesOfProcesses'
    BY <1>3 DEF Dies, HeldLock
  <1>4. ASSUME NEW p \in Process, Signal(p)
        PROVE  EntriesOfProcesses'
    BY <1>4 DEF Signal, oust, HeldLock
  <1>5. ASSUME NEW p \in Process, Watchdog(p)
        PROVE  EntriesOfProcesses'
    BY <1>5 DEF Watchdog, oust, HeldLock
  <1>6. ASSUME NEW p \in Process, SweepLists(p) \/ SweepReads(p) \/ SweepRemoves(p)
        PROVE  EntriesOfProcesses'
    BY <1>6 DEF SweepLists, SweepReads, SweepRemoves
  <1>7. ASSUME NEW c \in Call, Acquire(c)
        PROVE  EntriesOfProcesses'
    <2>1. /\ releasing' = releasing /\ up' = up
          /\ \A d \in Call : Recorded(d) => Recorded(d)'
      BY <1>7 DEF Acquire
    <2>2. heldLocks' = heldLocks \/ heldLocks' = [heldLocks EXCEPT ![ProcessOf[c]].count = @ + 1]
      BY <1>7 DEF Acquire
    <2>3. QED
      BY <1>7, <2>1, <2>2 DEF Acquire, HeldLock
  <1>8. ASSUME NEW c \in Call, Record(c)
        PROVE  EntriesOfProcesses'
    BY <1>8 DEF Record
  <1>9. ASSUME NEW c \in Call, Release(c)
        PROVE  EntriesOfProcesses'
    BY <1>9 DEF Release, current, lastRef, HeldLock
  <1>10. ASSUME NEW c \in Call, OwnSteps(c), heldLocks' = heldLocks, releasing' = releasing
        PROVE  EntriesOfProcesses'
    <2>1. up' = up /\ \A d \in Call : Recorded(d) => Recorded(d)'
      BY <1>10 DEF OwnSteps, Prepare, Acquire, Open, Write, WriteFails, Cleaned, Record, Read, Stat,
                   Reclaim, Timeout, Release
    <2>2. QED
      BY <1>10, <2>1 DEF HeldLock
  <1>11. ASSUME NEW c \in Call, Removed(c)
        PROVE  EntriesOfProcesses'
    BY <1>11 DEF Removed, HeldLock
  <1>12. ASSUME NEW p \in Process, Crash(p) \/ Exit(p)
         PROVE  EntriesOfProcesses'
    BY <1>3, <1>12 DEF Crash, Exit
  <1>13. ASSUME NEW c \in Call, Prepare(c) \/ Open(c) \/ Write(c) \/ WriteFails(c) \/ Cleaned(c)
                                 \/ Read(c) \/ Stat(c) \/ Reclaim(c) \/ Timeout(c)
         PROVE  EntriesOfProcesses'
    <2>1. heldLocks' = heldLocks /\ releasing' = releasing /\ OwnSteps(c)
      BY <1>13 DEF OwnSteps, Prepare, Open, Write, WriteFails, Cleaned, Read, Stat, Reclaim, Timeout
    <2>2. QED
      BY <1>10, <2>1
  <1> HIDE DEF IInv, TypeOK, Places, EntriesOfProcesses, Up, held, Recorded
  <1>14. QED
    BY <1>1, <1>2, <1>4, <1>5, <1>6, <1>7, <1>8, <1>9, <1>11, <1>12, <1>13 DEF Next

LEMMA LocksStep ==
    ASSUME IInv, Next
    PROVE  LocksOfCalls'
  <1> USE Types DEF IInv, TypeOK, Places, LocksOfCalls, EntriesOfProcesses, Given, Up, held, Recorded
  <1>1. CASE Age
    BY <1>1 DEF Age
  <1>2. ASSUME NEW p \in Process, Start(p)
        PROVE  LocksOfCalls'
    BY <1>2 DEF Start
  <1>3. ASSUME NEW p \in Process, Dies(p), up[p] = "up"
        PROVE  LocksOfCalls'
    BY <1>3 DEF Dies
  <1>4. ASSUME NEW p \in Process, Signal(p) \/ Watchdog(p)
        PROVE  LocksOfCalls'
    BY <1>4 DEF Signal, Watchdog, oust
  <1>5. ASSUME NEW p \in Process, SweepLists(p) \/ SweepReads(p) \/ SweepRemoves(p)
        PROVE  LocksOfCalls'
    BY <1>5 DEF SweepLists, SweepReads, SweepRemoves
  <1>6. ASSUME NEW c \in Call, Acquire(c)
        PROVE  LocksOfCalls'
    BY <1>6 DEF Acquire, HeldLock
  <1>7. ASSUME NEW c \in Call, Record(c)
        PROVE  LocksOfCalls'
    BY <1>7 DEF Record
  <1>8. ASSUME NEW c \in Call, Release(c)
        PROVE  LocksOfCalls'
    BY <1>8 DEF Release, current, lastRef, HeldLock
  <1>9. ASSUME NEW c \in Call, OwnSteps(c), heldLocks' = heldLocks, lockOf' = lockOf,
               ~Given(c), ~Given(c)'
        PROVE  LocksOfCalls'
    <2>1. \A d \in Call : Recorded(d) => Recorded(d)'
      BY <1>9 DEF OwnSteps, Prepare, Acquire, Open, Write, WriteFails, Cleaned, Record, Read, Stat,
                  Reclaim, Timeout, Release
    <2>2. \A d \in Call \ {c} : pc'[d] = pc[d]
      BY <1>9 DEF OwnSteps, Prepare, Acquire, Open, Write, WriteFails, Cleaned, Record, Read, Stat,
                  Reclaim, Timeout, Release
    <2>3. QED
      BY <1>9, <2>1, <2>2
  <1>10. ASSUME NEW c \in Call, Removed(c)
        PROVE  LocksOfCalls'
    BY <1>10 DEF Removed
  <1>11. ASSUME NEW c \in Call, Prepare(c) \/ Open(c) \/ Write(c) \/ WriteFails(c) \/ Cleaned(c)
                                \/ Read(c) \/ Stat(c) \/ Reclaim(c) \/ Timeout(c)
        PROVE  LocksOfCalls'
    BY <1>9, <1>11 DEF OwnSteps, Prepare, Open, Write, WriteFails, Cleaned, Read, Stat, Reclaim, Timeout
  <1>12. ASSUME NEW p \in Process, Crash(p) \/ Exit(p)
         PROVE  LocksOfCalls'
    BY <1>3, <1>12 DEF Crash, Exit
  <1> HIDE DEF IInv, TypeOK, Places, LocksOfCalls, EntriesOfProcesses, Given, Up, held, Recorded
  <1>13. QED
    BY <1>1, <1>2, <1>4, <1>5, <1>6, <1>7, <1>8, <1>10, <1>11, <1>12 DEF Next

LEMMA FilesStep ==
    ASSUME IInv, Next
    PROVE  FilesOfCalls'
  <1> USE Types DEF IInv, TypeOK, Places, FilesOfCalls, Opened, Waiting
  <1>1. CASE Age
    BY <1>1 DEF Age, LockFile
  <1>2. ASSUME NEW p \in Process, Start(p)
        PROVE  FilesOfCalls'
    BY <1>2 DEF Start, LockFile
  <1>3. ASSUME NEW p \in Process, Crash(p) \/ Exit(p)
        PROVE  FilesOfCalls'
    BY <1>3 DEF Crash, Exit, Dies, releaseAllLocksSync, LockFile
  <1>4. ASSUME NEW p \in Process, Signal(p) \/ Watchdog(p)
        PROVE  FilesOfCalls'
    BY <1>4 DEF Signal, Watchdog, oust, releaseAllLocksSync, LockFile
  <1>5. ASSUME NEW p \in Process, SweepLists(p) \/ SweepReads(p) \/ SweepRemoves(p)
        PROVE  FilesOfCalls'
    BY <1>5 DEF SweepLists, SweepReads, SweepRemoves, LockFile
  <1>6. ASSUME NEW c \in Call, Removed(c)
        PROVE  FilesOfCalls'
    BY <1>6 DEF Removed, LockFile
  <1>7. ASSUME NEW c \in Call, OwnSteps(c)
        PROVE  FilesOfCalls'
    <2>1. \A d \in Call : Opened(d) => Opened(d)'
      BY <1>7 DEF OwnSteps, Prepare, Acquire, Open, Write, WriteFails, Cleaned, Record, Read, Stat,
                  Reclaim, Timeout, Release
    <2>2. (file # None => file.lock \in Call /\ Opened(file.lock))'
      <3>1. CASE Open(c) /\ file = None
        BY <3>1 DEF Open
      <3>2. CASE ~(Open(c) /\ file = None)
        <4>1. file' # None => file # None /\ file'.lock = file.lock
          BY <1>7, <3>2 DEF OwnSteps, Prepare, Acquire, Open, Write, WriteFails, Cleaned, Record, Read,
                            Stat, Reclaim, Timeout, Release, LockFile
        <4>2. QED
          BY <2>1, <4>1 DEF LockFile
      <3>3. QED
        BY <3>1, <3>2
    <2>3. \A a \in Call \cup Process :
             judged'[a] = judged[a] \/ judged'[a] = None \/ (file # None /\ judged'[a] = file.lock)
      BY <1>7 DEF OwnSteps, Prepare, Acquire, Open, Write, WriteFails, Cleaned, Record, Read, Stat,
                  Reclaim, Timeout, Release
    <2>4. QED
      BY <2>1, <2>2, <2>3 DEF LockFile
  <1>8. QED
    BY <1>1, <1>2, <1>3, <1>4, <1>5, <1>6, <1>7 DEF Next, OwnSteps

-----------------------------------------------------------------------------
(* What was judged, and what is live.                                      *)

\* Where nothing careless happened, there is one live lock at most.
LEMMA OneLive ==
    ASSUME IInv, ~careless, NEW k \in Call, NEW l \in Call, Live(k), Live(l)
    PROVE  k = l
  BY DEF IInv, Kept

\* A live lock has a running process, and was opened.
LEMMA LiveIsUp ==
    ASSUME IInv, NEW l \in Call, Live(l)
    PROVE  Up(l) /\ Opened(l)
  BY Types DEF IInv, TypeOK, Places, EntriesOfProcesses, Live, Up, held, Opened, Recorded, Waiting

\* The process of a file is no longer to start.
LEMMA FileStarted ==
    ASSUME IInv, file # None
    PROVE  file.lock \in Call /\ up[ProcessOf[file.lock]] \in {"up", "gone"}
  BY Types DEF IInv, TypeOK, Places, CallsOfProcesses, FilesOfCalls, Opened, LockFile

\* A file that is found stale, and was written, has no process.
LEMMA StaleHasNoProcess ==
    ASSUME IInv, ~careless, file # None, file.written, stale(file)
    PROVE  ~Up(file.lock)
  <1>1. file.lock \in Call /\ ProcessOf[file.lock] \in Process
    BY Types DEF IInv, TypeOK, LockFile
  <1>2. Up(file.lock) => isPidAlive(file.lock)
    BY <1>1 DEF Up, isPidAlive
  <1>3. QED
    BY <1>2 DEF stale, pidRecycled, tooOld, IInv, StaleIsDead

LEMMA StaleStep ==
    ASSUME IInv, Next
    PROVE  StaleIsDead'
  <1> SUFFICES ASSUME ~careless', file' # None
               PROVE  /\ file'.old => up'[ProcessOf[file'.lock]] # "up"
                      /\ \A a \in Removing' : judged'[a] = file'.lock
                            => up'[ProcessOf[file'.lock]] # "up"
    BY DEF StaleIsDead, Up
  <1> DEFINE Dead == /\ file'.old => up'[ProcessOf[file'.lock]] # "up"
                     /\ \A a \in Removing' : judged'[a] = file'.lock
                            => up'[ProcessOf[file'.lock]] # "up"
  <1> USE Types DEF IInv, TypeOK, Up
  <1>1. ~careless
    BY DEF Next, Age, noteCareless, Start, Crash, Exit, Dies, Signal, Watchdog, SweepLists, SweepReads,
           SweepRemoves, Prepare, Acquire, Open, Write, WriteFails, Cleaned, Record, Read, Stat, Reclaim,
           Timeout, Release, Removed
  <1>2. file # None => /\ file.old => up[ProcessOf[file.lock]] # "up"
                       /\ \A a \in Removing : judged[a] = file.lock
                            => up[ProcessOf[file.lock]] # "up"
    BY <1>1 DEF StaleIsDead
  <1>3. CASE Age
    <2>1. file # None /\ file' = [file EXCEPT !.old = TRUE] /\ up' = up /\ ~Up(file.lock)
      BY <1>3 DEF Age, noteCareless
    <2>2. file'.lock = file.lock
      BY <2>1 DEF LockFile
    <2>3. QED
      BY <2>1, <2>2
  <1>4. ASSUME file # None, file'.lock = file.lock, file'.old = file.old,
               up'[ProcessOf[file.lock]] # "up" \/ up'[ProcessOf[file.lock]] = up[ProcessOf[file.lock]],
               \A a \in Removing' : a \in Removing /\ judged'[a] = judged[a]
        PROVE  Dead
    BY <1>2, <1>4
  <1>5. ASSUME NEW p \in Process, Start(p) \/ SweepLists(p)
        PROVE  Dead
    BY <1>4, <1>5, FileStarted DEF Start, SweepLists, Removing
  <1>6. ASSUME NEW p \in Process, Crash(p) \/ Exit(p)
        PROVE  Dead
    <2>1. file # None /\ file' = file
      BY <1>6 DEF Crash, Exit, releaseAllLocksSync
    <2>2. \A a \in Removing' : a \in Removing /\ judged'[a] = judged[a]
      BY <1>6 DEF Crash, Exit, Dies, Removing
    <2>3. QED
      BY <1>4, <1>6, <2>1, <2>2, FileStarted DEF Crash, Exit, Dies
  <1>7. ASSUME NEW p \in Process, Signal(p) \/ Watchdog(p)
        PROVE  Dead
    <2>1. file # None /\ file' = file
      BY <1>7 DEF Signal, Watchdog, releaseAllLocksSync
    <2>2. Removing' \subseteq Removing /\ judged' = judged /\ up' = up
      BY <1>7 DEF Signal, Watchdog, oust, Removing
    <2>3. QED
      BY <1>4, <2>1, <2>2
  <1>8. ASSUME NEW p \in Process, SweepReads(p)
        PROVE  Dead
    <2>1. file' = file /\ up' = up
      BY <1>8 DEF SweepReads
    <2>2. stale(file) => ~Up(file.lock)
      <3>1. stale(file) /\ file.written => ~Up(file.lock)
        BY <1>1, <2>1, StaleHasNoProcess
      <3>2. stale(file) /\ ~file.written => ~Up(file.lock)
        BY <1>8, <2>1 DEF SweepReads, noteCareless
      <3>3. QED
        BY <3>1, <3>2
    <2>3. ~stale(file) => judged' = judged /\ Removing' \subseteq Removing
      BY <1>8 DEF SweepReads, Removing
    <2>4. QED
      BY <1>2, <1>4, <2>1, <2>2, <2>3
  <1>9. ASSUME NEW p \in Process, SweepRemoves(p)
        PROVE  Dead
    BY <1>9 DEF SweepRemoves
  <1>10. ASSUME NEW c \in Call, Open(c), file = None
         PROVE  Dead
    <2>1. file'.lock = c /\ ~file'.old
      BY <1>10 DEF Open
    <2>2. \A a \in Removing' : a \in Call \cup Process
      BY DEF Removing
    <2>3. judged' = judged /\ ~Opened(c)
      BY <1>10 DEF Open, Opened, Waiting
    <2>4. QED
      BY <2>1, <2>2, <2>3 DEF Places, FilesOfCalls
  <1>11. ASSUME NEW c \in Call, Read(c)
         PROVE  Dead
    <2>1. file' = file /\ up' = up /\ sweep' = sweep
      BY <1>11 DEF Read
    <2>2. CASE ~Up(file.lock)
      BY <2>1, <2>2
    <2>3. CASE Up(file.lock)
      <3>1. ~(file.written /\ (stale(file) \/ orphanSelf(c, file)))
        BY <1>1, <1>11, <2>1, <2>3, StaleHasNoProcess DEF Read, noteCareless, needsMtime
      <3>2. pc'[c] # "removing"
        BY <1>11, <2>1, <3>1 DEF Read, needsMtime, orphanSelf
      <3>3. \A a \in Removing' : a \in Removing /\ judged'[a] = judged[a]
        BY <1>11, <3>2 DEF Read, Removing
      <3>4. QED
        BY <1>4, <2>1, <3>3
    <2>4. QED
      BY <2>2, <2>3
  <1>12. ASSUME NEW c \in Call, Stat(c)
         PROVE  Dead
    <2>1. file' = file /\ up' = up /\ sweep' = sweep
      BY <1>12 DEF Stat
    <2>2. CASE tooOld(file)
      BY <1>2, <2>1, <2>2 DEF tooOld
    <2>3. CASE ~tooOld(file)
      <3>1. \A a \in Removing' : a \in Removing /\ judged'[a] = judged[a]
        BY <1>12, <2>3 DEF Stat, Removing
      <3>2. QED
        BY <1>4, <2>1, <3>1
    <2>4. QED
      BY <2>2, <2>3
  <1>13. ASSUME NEW c \in Call, Prepare(c) \/ Acquire(c) \/ Write(c) \/ WriteFails(c) \/ Record(c)
                                 \/ Timeout(c) \/ Release(c) \/ (Open(c) /\ file # None)
         PROVE  Dead
    <2>1. file # None /\ file'.lock = file.lock /\ file'.old = file.old
      BY <1>13 DEF Prepare, Acquire, Write, WriteFails, Record, Timeout, Release, Open, LockFile
    <2>2. up' = up /\ \A a \in Removing' : a \in Removing /\ judged'[a] = judged[a]
      BY <1>13 DEF Prepare, Acquire, Write, WriteFails, Record, Timeout, Release, Open, Removing
    <2>3. QED
      BY <1>4, <2>1, <2>2
  <1>14. ASSUME NEW c \in Call, Cleaned(c) \/ Reclaim(c) \/ Removed(c)
         PROVE  Dead
    BY <1>14 DEF Cleaned, Reclaim, Removed
  <1>15. QED
    BY <1>3, <1>5, <1>6, <1>7, <1>8, <1>9, <1>10, <1>11, <1>12, <1>13, <1>14 DEF Next

LEMMA KeptStep ==
    ASSUME IInv, Next
    PROVE  Kept'
  <1> SUFFICES ASSUME ~careless', NEW l \in Call, Live(l)'
               PROVE  file' # None /\ file'.lock = l
    BY DEF Kept
  <1> DEFINE There == file' # None /\ file'.lock = l
  <1> USE Types DEF IInv, TypeOK
  <1>1. ~careless
    BY DEF Next, Age, noteCareless, Start, Crash, Exit, Dies, Signal, Watchdog, SweepLists, SweepReads,
           SweepRemoves, Prepare, Acquire, Open, Write, WriteFails, Cleaned, Record, Read, Stat, Reclaim,
           Timeout, Release, Removed
  <1>2. Live(l) => file # None /\ file.lock = l
    BY <1>1 DEF Kept
  <1>3. CASE Age
    <2>1. Live(l) /\ file'.lock = file.lock /\ file' \in LockFile
      BY <1>3 DEF Age, Live, Up, held, LockFile
    <2>2. QED
      BY <1>2, <2>1
  <1>4. ASSUME NEW p \in Process, Start(p)
        PROVE  There
    <2>1. Live(l)
      BY <1>4 DEF Start, Live, Up, held, Places, CallsOfProcesses
    <2>2. QED
      BY <1>2, <1>4, <2>1 DEF Start
  <1>5. ASSUME NEW p \in Process, Crash(p) \/ Exit(p)
        PROVE  There
    <2>1. Live(l) /\ ProcessOf[l] # p
      BY <1>5 DEF Crash, Exit, Dies, Live, Up, held
    <2>2. heldLocks[p] = None \/ Crash(p)
      <3>1. heldLocks[p] # None => heldLocks[p].lock \in Call /\ ProcessOf[heldLocks[p].lock] = p
        BY DEF HeldLock, Places, EntriesOfProcesses
      <3>2. heldLocks[p] # None => Live(heldLocks[p].lock)
        BY <3>1 DEF Live, held
      <3>3. QED
        BY <1>1, <2>1, <3>1, <3>2, OneLive
    <2>3. file' = file
      BY <1>5, <2>2 DEF Crash, Exit, releaseAllLocksSync
    <2>4. QED
      BY <1>2, <2>1, <2>3
  <1>6. ASSUME NEW p \in Process, Signal(p)
        PROVE  There
    <2>1. heldLocks[p].lock \in Call /\ ProcessOf[heldLocks[p].lock] = p /\ heldLocks[p] # None
      BY <1>6 DEF Signal, HeldLock, Places, EntriesOfProcesses
    <2>2. Live(heldLocks[p].lock) /\ heldLocks[p].lock \notin releasing
      BY <2>1 DEF Live, held, Places, EntriesOfProcesses
    <2>3. Live(l)
      BY <1>6 DEF Signal, oust, Live, Up, held
    <2>4. l = heldLocks[p].lock
      BY <1>1, <2>1, <2>2, <2>3, OneLive
    <2>5. pc'[l] \notin {"writing", "written", "cleaning"}
      BY <1>6, <2>1, <2>4 DEF Signal, oust, Places, EntriesOfProcesses, Recorded
    <2>6. FALSE
      BY <1>6, <2>1, <2>2, <2>4, <2>5 DEF Signal, Live, held
    <2>7. QED
      BY <2>6
  <1>7. ASSUME NEW p \in Process, Watchdog(p)
        PROVE  There
    <2>1. heldLocks[p].lock \in Call /\ ProcessOf[heldLocks[p].lock] = p /\ heldLocks[p] # None
      BY <1>7 DEF Watchdog, HeldLock, Places, EntriesOfProcesses
    <2>2. Live(l)
      BY <1>7, <2>1 DEF Watchdog, oust, Live, Up, held
    <2>3. QED
      BY <1>2, <1>7, <2>2 DEF Watchdog
  <1>8. ASSUME NEW p \in Process, SweepLists(p) \/ SweepReads(p)
        PROVE  There
    <2>1. Live(l)
      BY <1>8 DEF SweepLists, SweepReads, Live, Up, held
    <2>2. QED
      BY <1>2, <1>8, <2>1 DEF SweepLists, SweepReads
  <1>9. ASSUME NEW p \in Process, SweepRemoves(p)
        PROVE  There
    <2>1. Live(l)
      BY <1>9 DEF SweepRemoves, Live, Up, held
    <2>2. file # None /\ file.lock = l /\ judged[p] = l
      BY <1>2, <1>9, <2>1 DEF SweepRemoves, noteCareless
    <2>3. p \in Removing
      BY <1>9 DEF SweepRemoves, Removing
    <2>4. QED
      BY <1>1, <2>1, <2>2, <2>3, LiveIsUp DEF StaleIsDead
  <1>10. ASSUME NEW c \in Call, Open(c)
         PROVE  There
    <2>1. CASE l = c
      <3>1. pc'[c] = "writing"
        <4>1. ~Live(c)
          BY <1>10, LiveIsUp DEF Open, Opened, Waiting
        <4>2. QED
          BY <1>10, <2>1, <4>1 DEF Open, Live, Up, held
      <3>2. file = None
        BY <1>10, <3>1 DEF Open
      <3>3. file' = [lock |-> c, written |-> FALSE, old |-> FALSE]
        BY <1>10, <3>2 DEF Open
      <3>4. file' \in LockFile
        BY <3>3 DEF LockFile
      <3>5. QED
        BY <2>1, <3>3, <3>4
    <2>2. CASE l # c
      <3>1. Live(l)
        BY <1>10, <2>2 DEF Open, Live, Up, held
      <3>2. QED
        BY <1>2, <1>10, <3>1 DEF Open
    <2>3. QED
      BY <2>1, <2>2
  <1>11. ASSUME NEW c \in Call, Prepare(c) \/ Acquire(c) \/ Write(c) \/ WriteFails(c) \/ Record(c)
                                 \/ Read(c) \/ Stat(c) \/ Timeout(c) \/ Release(c)
         PROVE  There
    <2>1. Live(l)
      <3>1. CASE Acquire(c)
        BY <3>1 DEF Acquire, Live, Up, held, HeldLock
      <3>2. CASE Prepare(c) \/ Write(c) \/ WriteFails(c) \/ Read(c) \/ Stat(c) \/ Timeout(c)
        BY <3>2 DEF Prepare, Write, WriteFails, Read, Stat, Timeout, Live, Up, held
      <3>3. CASE Record(c)
        BY <3>3 DEF Record, Live, Up, held
      <3>4. CASE Release(c)
        BY <3>4 DEF Release, current, lastRef, Live, Up, held, HeldLock, Places,
                    EntriesOfProcesses
      <3>5. QED
        BY <1>11, <3>1, <3>2, <3>3, <3>4
    <2>2. file # None /\ file.lock = l
      BY <1>2, <2>1
    <2>3. file' = file \/ file' = [file EXCEPT !.written = TRUE]
      BY <1>11 DEF Prepare, Acquire, Write, WriteFails, Record, Read, Stat, Timeout, Release
    <2>4. file' \in LockFile /\ file'.lock = l
      <3> DEFINE filled == [file EXCEPT !.written = TRUE]
      <3>1. file \in LockFile
        BY <2>2
      <3>2. filled \in LockFile /\ filled.lock = file.lock
        BY <3>1 DEF LockFile
      <3>3. file' = file \/ file' = filled
        BY <2>3
      <3> HIDE DEF filled
      <3>4. QED
        BY <2>2, <3>1, <3>2, <3>3
    <2>5. QED
      BY <2>4
  <1>12. ASSUME NEW c \in Call, Cleaned(c)
         PROVE  There
    <2>1. Live(c) /\ c \notin releasing /\ ~(held(c) # None /\ held(c).lock = c)
      BY <1>12 DEF Cleaned, Live, Up, Places, EntriesOfProcesses, Recorded, held
    <2>2. Live(l) /\ l # c
      BY <1>12, <2>1 DEF Cleaned, Live, Up, held
    <2>3. QED
      BY <1>1, <2>1, <2>2, OneLive
  <1>13. ASSUME NEW c \in Call, Reclaim(c)
         PROVE  There
    <2>1. Live(l)
      BY <1>13 DEF Reclaim, Live, Up, held
    <2>2. file # None /\ file.lock = l /\ judged[c] = l
      BY <1>2, <1>13, <2>1 DEF Reclaim, noteCareless
    <2>3. c \in Removing
      BY <1>13 DEF Reclaim, Removing
    <2>4. QED
      BY <1>1, <2>1, <2>2, <2>3, LiveIsUp DEF StaleIsDead
  <1>14. ASSUME NEW c \in Call, Removed(c)
         PROVE  There
    <2>1. Live(c) /\ Recorded(c) /\ ~(held(c) # None /\ held(c).lock = c)
      BY <1>14 DEF Removed, Live, Places, EntriesOfProcesses
    <2>2. Live(l) /\ l # c
      BY <1>14, <2>1 DEF Removed, Live, Up, held, Recorded
    <2>3. QED
      BY <1>1, <2>1, <2>2, OneLive
  <1>15. QED
    BY <1>3, <1>4, <1>5, <1>6, <1>7, <1>8, <1>9, <1>10, <1>11, <1>12, <1>13, <1>14 DEF Next

-----------------------------------------------------------------------------
(* Who shares a lock.                                                      *)

\* What is still the entry has the sharers it had.
LEMMA SameSharers ==
    ASSUME IInv, NEW p \in Process, heldLocks'[p] # None, heldLocks'[p] = heldLocks[p],
           \A c \in Call : ProcessOf[c] = p =>
              (pc'[c] = "holding" /\ lockOf'[c] = heldLocks[p].lock
                 <=> pc[c] = "holding" /\ lockOf[c] = heldLocks[p].lock)
    PROVE  heldLocks'[p].count = Cardinality(Sharers(p)')
  <1>1. Sharers(p)' = Sharers(p)
    BY DEF Sharers
  <1>2. QED
    BY <1>1 DEF IInv, Counted

LEMMA CountedStep ==
    ASSUME IInv, Next
    PROVE  Counted'
  <1> SUFFICES ASSUME NEW q \in Process, heldLocks'[q] # None
               PROVE  heldLocks'[q].count = Cardinality(Sharers(q)')
    BY DEF Counted
  <1> DEFINE Right == heldLocks'[q].count = Cardinality(Sharers(q)')
  <1> USE Types DEF IInv, TypeOK
  <1>1. ASSUME heldLocks' = heldLocks, lockOf' = lockOf,
               \A c \in Call : pc'[c] = pc[c] \/ (pc[c] # "holding" /\ pc'[c] # "holding")
        PROVE  Right
    BY <1>1, SameSharers
  <1>2. ASSUME NEW p \in Process,
               Age \/ Start(p) \/ SweepLists(p) \/ SweepReads(p) \/ SweepRemoves(p)
        PROVE  Right
    BY <1>1, <1>2 DEF Age, Start, SweepLists, SweepReads, SweepRemoves
  <1>3. ASSUME NEW p \in Process, Crash(p) \/ Exit(p)
        PROVE  Right
    <2>1. p # q /\ heldLocks'[q] = heldLocks[q]
      BY <1>3 DEF Crash, Exit, Dies
    <2>2. \A c \in Call : ProcessOf[c] = q => pc'[c] = pc[c] /\ lockOf'[c] = lockOf[c]
      BY <1>3, <2>1 DEF Crash, Exit, Dies
    <2>3. QED
      BY <2>1, <2>2, SameSharers
  <1>4. ASSUME NEW p \in Process, Signal(p) \/ Watchdog(p)
        PROVE  Right
    <2>1. p # q /\ heldLocks'[q] = heldLocks[q] /\ lockOf' = lockOf
      BY <1>4 DEF Signal, Watchdog
    <2>2. \A c \in Call : ProcessOf[c] = q => pc'[c] = pc[c]
      BY <1>4, <2>1 DEF Signal, Watchdog, oust
    <2>3. QED
      BY <2>1, <2>2, SameSharers
  <1>5. ASSUME NEW c \in Call, Acquire(c)
        PROVE  Right
    <2> DEFINE p == ProcessOf[c]
    <2>1. CASE c \in Reentrant /\ held(c) # None /\ q = p
      <3>1. heldLocks'[q] = [heldLocks[q] EXCEPT !.count = @ + 1] /\ heldLocks[q] \in HeldLock
        BY <1>5, <2>1 DEF Acquire, held
      <3>2. heldLocks'[q].lock = heldLocks[q].lock /\ heldLocks'[q].count = heldLocks[q].count + 1
        BY <3>1 DEF HeldLock
      <3>3. Sharers(q)' = Sharers(q) \cup {c} /\ c \notin Sharers(q)
        BY <1>5, <2>1, <3>2 DEF Acquire, held, Sharers
      <3>4. Cardinality(Sharers(q)') = Cardinality(Sharers(q)) + 1
        BY <3>3, SharersFinite, FS_AddElement
      <3>5. QED
        BY <2>1, <3>2, <3>4 DEF Counted, held
    <2>2. CASE ~(c \in Reentrant /\ held(c) # None /\ q = p)
      <3>1. heldLocks'[q] = heldLocks[q]
        BY <1>5, <2>2 DEF Acquire
      <3>2. \A d \in Call : ProcessOf[d] = q => (pc'[d] = pc[d] /\ lockOf'[d] = lockOf[d])
                                             \/ (pc[d] # "holding" /\ pc'[d] # "holding")
        BY <1>5, <2>2 DEF Acquire
      <3>3. QED
        BY <3>1, <3>2, SameSharers
    <2>3. QED
      BY <2>1, <2>2
  <1>6. ASSUME NEW c \in Call, Record(c)
        PROVE  Right
    <2>1. CASE q = ProcessOf[c]
      <3>1. heldLocks'[q] = [lock |-> c, count |-> 1]
        BY <1>6, <2>1 DEF Record
      <3>2. \A d \in Call \ {c} : ~(pc'[d] = "holding" /\ lockOf'[d] = c)
        BY <1>6 DEF Record, Places, LocksOfCalls, Given, Recorded
      <3>3. pc'[c] = "holding" /\ lockOf'[c] = c /\ heldLocks'[q].lock = c
        BY <1>6, <3>1 DEF Record
      <3>4. \A d \in Call : pc'[d] = "holding" /\ ProcessOf[d] = q /\ lockOf'[d] = heldLocks'[q].lock
                             <=> d = c
        BY <2>1, <3>2, <3>3
      <3>5. Sharers(q)' = {c}
        BY <3>4 DEF Sharers
      <3>6. Cardinality({c}) = 1
        BY FS_Singleton
      <3>7. heldLocks'[q].count = 1
        BY <3>1
      <3>8. QED
        BY <3>5, <3>6, <3>7
    <2>2. CASE q # ProcessOf[c]
      <3>1. /\ heldLocks'[q] = heldLocks[q]
            /\ \A d \in Call : ProcessOf[d] = q => pc'[d] = pc[d] /\ lockOf'[d] = lockOf[d]
        BY <1>6, <2>2 DEF Record
      <3>2. QED
        BY <3>1, SameSharers
    <2>3. QED
      BY <2>1, <2>2
  <1>7. ASSUME NEW c \in Call, Release(c)
        PROVE  Right
    <2> DEFINE p == ProcessOf[c]
    <2>1. CASE current(p, lockOf[c]) /\ ~lastRef(p) /\ q = p
      <3>1. heldLocks'[q] = [heldLocks[q] EXCEPT !.count = @ - 1] /\ heldLocks[q] \in HeldLock
        BY <1>7, <2>1 DEF Release, current
      <3>2. heldLocks'[q].lock = heldLocks[q].lock /\ heldLocks'[q].count = heldLocks[q].count - 1
        BY <3>1 DEF HeldLock
      <3>3. pc[c] = "holding"
        BY <1>7, <2>1 DEF Release, current, Places, LocksOfCalls, held
      <3>4. Sharers(q)' = Sharers(q) \ {c} /\ c \in Sharers(q)
        BY <1>7, <2>1, <3>2, <3>3 DEF Release, current, Sharers
      <3>5. Cardinality(Sharers(q)') = Cardinality(Sharers(q)) - 1
        BY <3>4, SharersFinite, FS_RemoveElement
      <3>6. QED
        BY <2>1, <3>2, <3>5 DEF Counted, current
    <2>2. CASE ~(current(p, lockOf[c]) /\ ~lastRef(p) /\ q = p)
      <3>1. heldLocks'[q] = heldLocks[q] /\ (q = p => ~current(p, lockOf[c]))
        BY <1>7, <2>2 DEF Release
      <3>2. \A d \in Call : d # c => pc'[d] = pc[d] /\ lockOf'[d] = lockOf[d]
        BY <1>7 DEF Release
      <3>3. pc'[c] # "holding"
        BY <1>7 DEF Release
      <3>4. QED
        BY <3>1, <3>2, <3>3, SameSharers DEF current
    <2>3. QED
      BY <2>1, <2>2
  <1>8. ASSUME NEW c \in Call, Removed(c)
        PROVE  Right
    <2>1. \A d \in Call : (pc'[d] = pc[d] /\ lockOf'[d] = lockOf[d])
                          \/ (pc[d] # "holding" /\ pc'[d] # "holding")
      BY <1>8 DEF Removed
    <2>2. QED
      BY <1>8, <2>1, SameSharers DEF Removed
  <1>9. ASSUME NEW c \in Call, Prepare(c) \/ Open(c) \/ Write(c) \/ WriteFails(c) \/ Cleaned(c)
                                \/ Read(c) \/ Stat(c) \/ Reclaim(c) \/ Timeout(c)
        PROVE  Right
    BY <1>1, <1>9 DEF Prepare, Open, Write, WriteFails, Cleaned, Read, Stat, Reclaim, Timeout
  <1>10. QED
    BY <1>2, <1>3, <1>4, <1>5, <1>6, <1>7, <1>8, <1>9 DEF Next

LEMMA FoundStep ==
    ASSUME IInv, Next
    PROVE  Found'
  <1> SUFFICES ASSUME ~careless', NEW d \in Call, pc'[d] = "holding"
               PROVE  heldLocks'[ProcessOf[d]] # None /\ heldLocks'[ProcessOf[d]].lock = lockOf'[d]
    BY DEF Found, Holders, held
  <1> DEFINE q == ProcessOf[d]
             Mine == heldLocks'[q] # None /\ heldLocks'[q].lock = lockOf'[d]
  <1> USE Types DEF IInv, TypeOK
  <1>1. ~careless
    BY DEF Next, Age, noteCareless, Start, Crash, Exit, Dies, Signal, Watchdog, SweepLists, SweepReads,
           SweepRemoves, Prepare, Acquire, Open, Write, WriteFails, Cleaned, Record, Read, Stat, Reclaim,
           Timeout, Release, Removed
  <1>2. pc[d] = "holding" => heldLocks[q] # None /\ heldLocks[q].lock = lockOf[d]
    BY <1>1 DEF Found, Holders, held
  <1>3. ASSUME NEW p \in Process,
               Age \/ Start(p) \/ SweepLists(p) \/ SweepReads(p) \/ SweepRemoves(p)
        PROVE  Mine
    BY <1>2, <1>3 DEF Age, Start, SweepLists, SweepReads, SweepRemoves
  <1>4. ASSUME NEW p \in Process, Crash(p) \/ Exit(p)
        PROVE  Mine
    BY <1>2, <1>4 DEF Crash, Exit, Dies
  <1>5. ASSUME NEW p \in Process, Signal(p) \/ Watchdog(p)
        PROVE  Mine
    BY <1>2, <1>5 DEF Signal, Watchdog, oust
  <1>6. ASSUME NEW c \in Call, Acquire(c)
        PROVE  Mine
    <2>1. CASE c \in Reentrant /\ held(c) # None /\ q = ProcessOf[c]
      <3>1. heldLocks'[q] = [held(c) EXCEPT !.count = @ + 1]
        BY <1>6, <2>1 DEF Acquire, held
      <3>2. heldLocks'[q] \in HeldLock /\ heldLocks'[q].lock = heldLocks[q].lock
        BY <1>6, <2>1, <3>1, OneMore DEF Acquire, held
      <3>3. QED
        BY <1>2, <1>6, <2>1, <3>2 DEF Acquire, held
    <2>2. CASE ~(c \in Reentrant /\ held(c) # None /\ q = ProcessOf[c])
      <3>1. heldLocks'[q] = heldLocks[q]
        BY <1>6, <2>2 DEF Acquire
      <3>2. d # c /\ pc[d] = "holding" /\ lockOf'[d] = lockOf[d]
        BY <1>6, <2>2 DEF Acquire
      <3>3. QED
        BY <1>2, <3>1, <3>2
    <2>3. QED
      BY <2>1, <2>2
  <1>7. ASSUME NEW c \in Call, Record(c)
        PROVE  Mine
    <2>1. CASE d = c
      <3>1. [lock |-> c, count |-> 1] # None
        BY <1>7, TypeStep, FS_EmptySet DEF Record, HeldLock
      <3>2. QED
        BY <1>7, <2>1, <3>1 DEF Record
    <2>2. CASE d # c /\ q = ProcessOf[c]
      <3>1. pc[d] = "holding" /\ lockOf[d] \in Call /\ Live(lockOf[d]) /\ Live(c) /\ lockOf[d] # c
        BY <1>2, <1>7, <2>2 DEF Record, Live, Up, held, Places, LocksOfCalls, Given, Recorded
      <3>2. QED
        BY <1>1, <3>1, OneLive
    <2>3. CASE d # c /\ q # ProcessOf[c]
      BY <1>2, <1>7, <2>3 DEF Record
    <2>4. QED
      BY <2>1, <2>2, <2>3
  <1>8. ASSUME NEW c \in Call, Release(c)
        PROVE  Mine
    <2>1. d # c /\ pc[d] = "holding" /\ lockOf'[d] = lockOf[d]
      BY <1>8 DEF Release
    <2>2. CASE q = ProcessOf[c] /\ current(q, lockOf[c]) /\ lastRef(q)
      <3>1. pc[c] = "holding" /\ c \in Sharers(q) /\ d \in Sharers(q)
        BY <1>2, <1>8, <2>1, <2>2 DEF Release, current, Places, LocksOfCalls, held, Sharers
      <3>2. Cardinality(Sharers(q)) = 1
        BY <2>2 DEF Counted, lastRef, current
      <3>3. QED
        BY <2>1, <3>1, <3>2, SharersFinite, FS_Singleton
    <2>3. CASE q = ProcessOf[c] /\ current(q, lockOf[c]) /\ ~lastRef(q)
      <3>1. heldLocks'[q] = [heldLocks[q] EXCEPT !.count = @ - 1] /\ heldLocks[q] \in HeldLock
        BY <1>8, <2>3 DEF Release, current
      <3>2. heldLocks[q].count \in 1 .. Cardinality(Call) /\ heldLocks[q].count # 1
        BY <2>3, <3>1 DEF lastRef, HeldLock
      <3>3. heldLocks'[q] \in HeldLock /\ heldLocks'[q].lock = heldLocks[q].lock
        BY <3>1, <3>2 DEF HeldLock
      <3>4. QED
        BY <1>2, <2>1, <3>3
    <2>4. CASE q # ProcessOf[c] \/ ~current(q, lockOf[c])
      BY <1>2, <1>8, <2>1, <2>4 DEF Release
    <2>5. QED
      BY <2>2, <2>3, <2>4
  <1>9. ASSUME NEW c \in Call, Removed(c)
        PROVE  Mine
    BY <1>2, <1>9 DEF Removed
  <1>10. ASSUME NEW c \in Call, Prepare(c) \/ Open(c) \/ Write(c) \/ WriteFails(c) \/ Cleaned(c)
                                 \/ Read(c) \/ Stat(c) \/ Reclaim(c) \/ Timeout(c)
        PROVE  Mine
    BY <1>2, <1>10 DEF Prepare, Open, Write, WriteFails, Cleaned, Read, Stat, Reclaim, Timeout
  <1>11. QED
    BY <1>3, <1>4, <1>5, <1>6, <1>7, <1>8, <1>9, <1>10 DEF Next

-----------------------------------------------------------------------------
(* The theorems.                                                           *)

\* The inductive invariant (acquireSessionWriteLock, releaseHeldLock, the
\* watchdog, the sweep and the signal handler).
THEOREM Invariance == Spec => []IInv
  <1>1. Init => IInv
    <2> SUFFICES ASSUME Init
                 PROVE  IInv
      OBVIOUS
    <2> USE Types DEF Init
    <2>1. TypeOK
      BY DEF TypeOK, Waiting
    <2>2. Places
      BY DEF Places, CallsOfProcesses, EntriesOfProcesses, LocksOfCalls, FilesOfCalls, Given
    <2>3. StaleIsDead /\ Kept
      BY DEF StaleIsDead, Kept, Live, Up, held
    <2>4. Counted /\ Found
      BY DEF Counted, Found, Holders
    <2>5. QED
      BY <2>1, <2>2, <2>3, <2>4 DEF IInv
  <1>2. IInv /\ [Next]_vars => IInv'
    <2>1. CASE Next
      BY <2>1, TypeStep, CallsStep, EntriesStep, LocksStep, FilesStep, StaleStep, KeptStep,
         CountedStep, FoundStep DEF IInv, Places
    <2>2. CASE UNCHANGED vars
      BY <2>2 DEF vars, IInv, TypeOK, Places, CallsOfProcesses, EntriesOfProcesses, LocksOfCalls,
         FilesOfCalls, Given, StaleIsDead, Kept, Live, Counted, Sharers, Found, Holders, Up, held,
         Waiting, Opened, Recorded, Removing
    <2>3. QED
      BY <2>1, <2>2
  <1>3. QED
    BY <1>1, <1>2, PTL DEF Spec

\* Every reachable state is well typed, and no count leaves its range.
THEOREM TypeCorrect == Spec => []TypeOK
  <1>1. IInv => TypeOK
    BY DEF IInv
  <1>2. QED
    BY <1>1, Invariance, PTL

\* No reclaim, sweep or late release takes the file of a live lock
\* (acquireSessionWriteLock, cleanStaleLockFiles, releaseHeldLock).
THEOREM LiveLocksKept == Spec => []LiveLockKept
  <1>1. IInv => LiveLockKept
    BY KeptIs DEF IInv
  <1>2. QED
    BY <1>1, Invariance, PTL

\* The references of a lock are its callers (releaseHeldLock).
THEOREM References == Spec => []RefsCounted
  <1>1. IInv => RefsCounted
    BY SharersAre DEF IInv
  <1>2. QED
    BY <1>1, Invariance, PTL

\* Two callers who hold the session at the same time share one lock: what
\* each was given is live, and there is one live lock.
THEOREM MutualExclusion == Spec => []OneWriter
  <1>1. IInv => OneWriter
    <2> SUFFICES ASSUME IInv, ~careless, NEW c \in Holders, NEW d \in Holders
                 PROVE  lockOf[c] = lockOf[d]
      BY DEF OneWriter
    <2>1. ASSUME NEW e \in Holders
          PROVE  lockOf[e] \in Call /\ Live(lockOf[e])
      <3>1. /\ e \in Call /\ held(e) # None /\ held(e).lock = lockOf[e]
            /\ lockOf[e] \in Call /\ ProcessOf[lockOf[e]] = ProcessOf[e]
        BY DEF Holders, IInv, Found, Places, LocksOfCalls, Given
      <3>2. QED
        BY <3>1 DEF Live, held
    <2>2. QED
      BY <2>1, OneLive
  <1>2. QED
    BY <1>1, Invariance, PTL
=============================================================================
