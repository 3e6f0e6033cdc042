------------------------- MODULE CronServiceProofs -------------------------
(***************************************************************************)
(* Proofs about the cron scheduler: its types, that a job has one run at a *)
(* time, that no write brings a job back or undoes an edit, and that a     *)
(* slot that passed is not given up without a run.                         *)
(***************************************************************************)
EXTENDS CronService, FiniteSetTheorems, TLAPS

Store == UNION {[S -> JobState] : S \in SUBSET Job}

History == UNION {[S -> At \cup {Gone}] : S \in SUBSET Job}

Tick == [pc : Step, todo : SUBSET Job, held : BOOLEAN]

Boot == [phase : Phase, skip : SUBSET Job, todo : Seq(Job),
         later : {q \in Seq(Job) : Len(q) <= Cardinality(Job)}]

Manual == [pc : {"idle", "queued", "prepare", "run"}, job : Job \cup {None},
           force : BOOLEAN, at : Time \cup {None}]

\* The types.
Types ==
    /\ now \in Time /\ disk \in Store /\ mem \in [Service -> Store \cup {NoStore}]
    /\ latest \in Service /\ alive \in SUBSET Service
    /\ timer \in [Service -> {"off", "job", "recheck"}]
    /\ tick \in [Service -> Tick] /\ boot \in [Service -> Boot]
    /\ manual \in [Service -> Manual]
    /\ \A s \in Service : manual[s].pc # "idle" => manual[s].job \in Job /\ manual[s].at \in Time
    /\ runs \in SUBSET Run /\ \A r \in runs : r.out # "going" => r.end \in Time
    /\ ops \in 0 .. MaxOps /\ known \in History /\ freed \in SUBSET Job /\ shared \in BOOLEAN

loaded(s) == boot[s].phase \notin {"off", "new"}

\* A service not created yet has no state; one that is alive was started, and
\* has its copy of the store after the first section of start(), before which
\* nothing else of it runs.
Services ==
    /\ latest \in alive /\ \A s \in alive : s <= latest
    /\ \A s \in Service : s > latest =>
        /\ tick[s] = NoTick /\ boot[s] = NoBoot /\ manual[s] = NoManual
        /\ mem[s] = NoStore /\ timer[s] = "off"
    /\ \A s \in alive :
        /\ boot[s].phase # "off"
        /\ loaded(s) => mem[s] \in Store
        /\ ~loaded(s) => /\ tick[s] = NoTick /\ manual[s] = NoManual
                         /\ mem[s] = NoStore /\ timer[s] = "off"

\* The history knows every job that is stored.
Recorded ==
    /\ DOMAIN disk \subseteq DOMAIN known
    /\ \A s \in alive : loaded(s) => DOMAIN mem[s] \subseteq DOMAIN known

\* Two stores that differ in marks and next runs only.
SameJobs(m, f) ==
    /\ DOMAIN m = DOMAIN f
    /\ \A j \in DOMAIN f :
        /\ m[j].on = f[j].on /\ m[j].at = f[j].at /\ m[j].last = f[j].last
        /\ m[j].st = f[j].st /\ m[j].errs = f[j].errs

\* Where the job is enabled, a next run that f has is also that of m.
AsFiled(m, f) ==
    /\ SameJobs(m, f)
    /\ \A j \in DOMAIN f : f[j].on /\ f[j].next # None => m[j].next = f[j].next

\* A service that is alone has the jobs of the history, on file and in memory.
Kept ==
    /\ alive = {latest}
    /\ DOMAIN disk = {j \in DOMAIN known : known[j] # Gone}
    /\ \A j \in DOMAIN disk : disk[j].at = known[j]
    /\ loaded(latest) => AsFiled(mem[latest], disk)

\* Each run belongs to the tick, to the catch-up or to the manual run of that
\* service; the plans hold the jobs that none of their runs has taken.
Planned ==
    /\ \A r \in runs :
        /\ r.svc = latest /\ r.job \in DOMAIN known
        /\ r.by = "tick" => tick[latest].pc = "run" /\ r.job \notin tick[latest].todo
        /\ r.by = "start" => boot[latest].phase = "catchup"
                             /\ r.job \notin ToSet(boot[latest].todo)
        /\ r.by = "manual" => manual[latest].pc = "run" /\ manual[latest].job = r.job
    /\ \A q, r \in runs : q.by = r.by /\ q.job = r.job => q = r
    /\ tick[latest].todo \subseteq DOMAIN known
    /\ tick[latest].pc # "run" => tick[latest].todo = {}
    /\ ToSet(boot[latest].todo) \subseteq DOMAIN known
    /\ boot[latest].phase # "catchup" => boot[latest].todo = <<>>
    /\ IsInjective(boot[latest].todo)

busy(j) ==
    \/ \E r \in runs : r.job = j
    \/ j \in tick[latest].todo \/ j \in ToSet(boot[latest].todo)

\* A job whose mark was never taken away is in one plan or has one run, and is
\* marked all that time, on file and in memory.
Marked ==
    \A j \in Job \ freed :
        /\ \A q, r \in runs : q.job = j /\ r.job = j => q = r
        /\ \A r \in runs : r.job = j =>
              j \notin tick[latest].todo /\ j \notin ToSet(boot[latest].todo)
        /\ j \in tick[latest].todo => j \notin ToSet(boot[latest].todo)
        /\ busy(j) =>
            /\ j \in DOMAIN disk => disk[j].mark # None
            /\ loaded(latest) /\ j \in DOMAIN mem[latest] => mem[latest][j].mark # None

IInv ==
    /\ Types /\ Services /\ Recorded
    /\ ~shared => Kept /\ Planned /\ Marked

-----------------------------------------------------------------------------
(* The constants, the times and the records.                               *)

\* The sizes and bounds are numbers.
LEMMA Numbers ==
    /\ Period \in Nat \ {0} /\ Backoff \in Nat \ {0} /\ Stagger \in Nat \ {0}
    /\ Concurrency \in Nat \ {0} /\ MaxService \in Nat \ {0}
    /\ MaxAttempts \in Nat /\ Stuck \in Nat /\ MaxImmediate \in Nat
    /\ MaxNow \in Nat /\ MaxOps \in Nat
    /\ Cardinality(Job) \in Nat /\ Stagger * Cardinality(Job) \in Nat
PROOF
  <1>1. Cardinality(Job) \in Nat
    BY CronAssumption, FS_CardinalityType
  <1>2. Stagger \in Nat
    BY CronAssumption
  <1>3. Stagger * Cardinality(Job) \in Nat
    BY <1>1, <1>2
  <1> QED  BY <1>1, <1>3, CronAssumption

\* A product grows with its factor: n staggered jobs take n times Stagger.
LEMMA StaggerGrows ==
    ASSUME NEW n \in Nat, n <= Cardinality(Job)
    PROVE  Stagger * n \in 0 .. Stagger * Cardinality(Job)
PROOF
  <1> DEFINE d == Cardinality(Job) - n
  <1>1. d \in Nat /\ Cardinality(Job) = n + d
    BY Numbers
  <1>2. Stagger * Cardinality(Job) = Stagger * n + Stagger * d
    BY <1>1, Numbers
  <1>3. Stagger * n \in Nat /\ Stagger * d \in Nat
    BY <1>1, Numbers
  <1> QED  BY <1>2, <1>3, Numbers

\* The times up to a period, a backoff or the staggering past the clock's
\* bound may be next runs.
LEMMA NextTimes ==
    /\ None \in NextTime /\ FirstAt \subseteq NextTime
    /\ \A t \in Nat : t <= MaxNow + Period + Backoff => t \in NextTime
    /\ \A t \in Nat : t <= MaxNow + Stagger * Cardinality(Job) => t \in NextTime
    /\ NextTime \subseteq Int /\ \A t \in NextTime : t # None => t \in Nat
PROOF
  <1> DEFINE Slack == Stagger * Cardinality(Job)
  <1>1. Slack \in Nat
    BY Numbers
  <1>2. NextTime = {None} \cup 0 .. (MaxNow + Period + Backoff + Slack) \cup FirstAt
    BY DEF NextTime
  <1> HIDE DEF Slack
  <1>3. FirstAt \subseteq Nat
    BY CronAssumption
  <1>4. /\ \A t \in Nat : t <= MaxNow + Period + Backoff => t \in NextTime
        /\ \A t \in Nat : t <= MaxNow + Slack => t \in NextTime
    BY <1>1, <1>2, Numbers
  <1>5. NextTime \subseteq Int /\ \A t \in NextTime : t # None => t \in Nat
    BY <1>1, <1>2, <1>3, Numbers DEF None
  <1>6. None \in NextTime /\ FirstAt \subseteq NextTime
    BY <1>2
  <1> QED  BY <1>4, <1>5, <1>6 DEF Slack

\* The clock's times may be next runs.
LEMMA TimesAreNext == Time \subseteq NextTime
PROOF
  <1>1. \A t \in Time : t \in Nat /\ t <= MaxNow + Period + Backoff
    BY Numbers DEF Time
  <1> QED  BY <1>1, NextTimes

\* Whole periods: what is left of a number, at most that number, and at least
\* one period if the number is.
LEMMA Periods ==
    ASSUME NEW n \in Nat
    PROVE  /\ n \div Period \in Nat /\ (n \div Period) * Period \in Nat
           /\ (n \div Period) * Period <= n
           /\ n >= Period => (n \div Period) * Period >= Period
PROOF
  <1>0. Period \in Nat \ {0}
    BY Numbers
  <1> DEFINE q == n \div Period
  <1>1. q \in Nat /\ q * Period \in Nat /\ q * Period <= n /\ n < (q + 1) * Period
    BY <1>0
  <1> HIDE DEF q
  <1>2. ASSUME n >= Period PROVE q * Period >= Period
    <2>1. q # 0
      BY <1>0, <1>1, <1>2
    <2> DEFINE d == q - 1
    <2>2. d \in Nat /\ q = d + 1
      BY <1>1, <2>1
    <2> HIDE DEF d
    <2>3. q * Period = d * Period + Period /\ d * Period \in Nat
      BY <1>0, <2>2
    <2> QED  BY <1>0, <2>3
  <1> QED  BY <1>1, <1>2 DEF q

\* The slot of the cron grid after a time.
LEMMA GridSlot ==
    ASSUME NEW t \in Nat
    PROVE  /\ (t \div Period + 1) * Period \in Nat
           /\ (t \div Period + 1) * Period <= t + Period
PROOF
  <1>0. Period \in Nat \ {0}
    BY Numbers
  <1> DEFINE q == t \div Period
  <1>1. q \in Nat /\ q * Period \in Nat /\ q * Period <= t
    BY Periods
  <1> HIDE DEF q
  <1>2. (q + 1) * Period = q * Period + Period
    BY <1>0, <1>1
  <1>3. (q + 1) * Period \in Nat /\ (q + 1) * Period <= t + Period
    BY <1>0, <1>1, <1>2
  <1> QED  BY <1>3 DEF q

\* The slot of a cadence after a time, whatever its anchor.
LEMMA Anchored ==
    ASSUME NEW a \in At, NEW t \in Time
    PROVE  anchored(a, t) \in NextTime
PROOF
  <1>0. FirstAt \subseteq Nat /\ \A u \in Time : u \in Nat /\ u <= MaxNow
    <2>1. FirstAt \subseteq Nat
      BY CronAssumption
    <2>2. \A u \in Time : u \in Nat /\ u <= MaxNow
      BY Numbers DEF Time
    <2> QED  BY <2>1, <2>2
  <1>1. a \in FirstAt \/ a \in Time \/ a = -1
    BY DEF At, None
  <1>2. a \in Int /\ a >= -1 /\ t \in Nat /\ t <= MaxNow
    <2>1. t \in Nat /\ t <= MaxNow
      BY <1>0
    <2>2. a \in Nat \/ a = -1
      BY <1>0, <1>1
    <2> QED  BY <2>1, <2>2
  <1>3. CASE t < a
    <2>1. a \in NextTime
      BY <1>1, <1>2, <1>3, NextTimes, TimesAreNext
    <2> QED  BY <1>3, <2>1 DEF anchored
  <1>4. CASE t = a
    <2>1. anchored(a, t) = t + 1 * Period
      BY <1>2, <1>4 DEF anchored
    <2>2. t + 1 * Period \in Nat /\ t + 1 * Period <= MaxNow + Period + Backoff
      BY <1>2, Numbers
    <2> QED  BY <2>1, <2>2, NextTimes
  <1>5. CASE t > a
    <2> DEFINE n == t - a + Period - 1
               x == (n \div Period) * Period
    <2>1. n \in Nat /\ n >= Period
      BY <1>2, <1>5, Numbers
    <2>2. anchored(a, t) = a + x
      BY <1>2, <1>5 DEF anchored
    <2>3. n = t - a + Period - 1
      OBVIOUS
    <2> HIDE DEF n
    <2>4. x \in Nat /\ x <= n /\ x >= Period
      BY <2>1, Periods
    <2> HIDE DEF x
    <2>5. a + x \in Nat /\ a + x <= MaxNow + Period + Backoff
      BY <1>2, <2>3, <2>4, Numbers
    <2> QED  BY <2>2, <2>5, NextTimes
  <1> QED  BY <1>2, <1>3, <1>4, <1>5

\* No job's time is the mark of a job that is gone.
LEMMA NotGone == Gone \notin At
PROOF
  BY CronAssumption DEF At, Time, None, Gone

\* The times a job may be given are times a record may have.
LEMMA TimesAre ==
    ASSUME NEW j \in Job, now \in Time
    PROVE  times(j) \subseteq At
PROOF
  <1>1. Kind[j] \in {"at", "every", "cron"}
    BY CronAssumption
  <1> QED  BY <1>1 DEF times, At

\* A next run that is computed is in range, and a disabled job has none.
LEMMA NextComputed ==
    ASSUME NEW j \in Job, NEW r \in JobState, NEW t \in Time
    PROVE  computeNext(j, r, t) \in NextTime /\ (~r.on => computeNext(j, r, t) = None)
PROOF
  <1>1. /\ r.on \in BOOLEAN /\ r.at \in At /\ r.at \in FirstAt \cup Time \cup {None}
        /\ r.last \in Time \cup {None}
    BY DEF JobState, At
  <1>2. t \in Nat /\ t <= MaxNow /\ (r.last # None => r.last \in Nat /\ r.last <= MaxNow)
    BY <1>1, Numbers DEF Time
  <1>3. Kind[j] \in {"at", "every", "cron"}
    BY CronAssumption
  <1>4. CASE ~r.on
    BY <1>4, NextTimes DEF computeNext
  <1>5. CASE r.on /\ Kind[j] = "at"
    BY <1>1, <1>5, NextTimes, TimesAreNext DEF computeNext
  <1>6. CASE r.on /\ Kind[j] = "every"
    <2>1. anchored(r.at, t) \in NextTime
      BY <1>1, Anchored
    <2>2. computeNext(j, r, t) =
             IF r.last # None /\ r.last + Period > t THEN r.last + Period
             ELSE anchored(r.at, t)
      BY <1>6 DEF computeNext
    <2>3. r.last # None => r.last + Period \in Nat /\ r.last + Period <= MaxNow + Period + Backoff
      BY <1>2, Numbers
    <2> QED  BY <1>6, <2>1, <2>2, <2>3, NextTimes
  <1>7. CASE r.on /\ Kind[j] = "cron"
    <2> DEFINE slotted == (t \div Period + 1) * Period
    <2>1. slotted \in Nat /\ slotted <= t + Period
      BY <1>2, GridSlot
    <2>2. computeNext(j, r, t) = slotted
      BY <1>7 DEF computeNext
    <2> HIDE DEF slotted
    <2>3. slotted <= MaxNow + Period + Backoff
      BY <1>2, <2>1, Numbers
    <2> QED  BY <1>7, <2>1, <2>2, <2>3, NextTimes
  <1> QED  BY <1>1, <1>3, <1>4, <1>5, <1>6, <1>7

\* Writing a next run leaves the rest of a record.
LEMMA NextWritten ==
    ASSUME NEW r \in JobState, NEW n \in NextTime,
           NEW w, w = [r EXCEPT !.next = n]
    PROVE  /\ w \in JobState /\ w.next = n /\ w.mark = r.mark
           /\ w.on = r.on /\ w.at = r.at /\ w.last = r.last /\ w.st = r.st /\ w.errs = r.errs
PROOF
  BY DEF JobState

\* Writing a mark leaves the rest of a record.
LEMMA MarkWritten ==
    ASSUME NEW r \in JobState, NEW k \in Time \cup {None},
           NEW w, w = [r EXCEPT !.mark = k]
    PROVE  /\ w \in JobState /\ w.next = r.next /\ w.mark = k
           /\ w.on = r.on /\ w.at = r.at /\ w.last = r.last /\ w.st = r.st /\ w.errs = r.errs
PROOF
  BY DEF JobState

-----------------------------------------------------------------------------
(* The passes over the whole store.                                        *)

\* A store is a function from its jobs to records.
LEMMA StoreShape ==
    /\ \A m \in Store : m \in [DOMAIN m -> JobState] /\ DOMAIN m \subseteq Job
    /\ \A S \in SUBSET Job : \A m \in [S -> JobState] : m \in Store /\ DOMAIN m = S
PROOF
  <1>1. ASSUME NEW m \in Store
        PROVE  m \in [DOMAIN m -> JobState] /\ DOMAIN m \subseteq Job
    <2>1. PICK S \in SUBSET Job : m \in [S -> JobState]
      BY DEF Store
    <2> QED  BY <2>1
  <1>2. ASSUME NEW S \in SUBSET Job, NEW m \in [S -> JobState]
        PROVE  m \in Store /\ DOMAIN m = S
    BY DEF Store
  <1> QED  BY <1>1, <1>2

\* What normalizeJobTickState leaves of a job.
LEMMA Normalized ==
    ASSUME NEW m \in Store, NEW t \in Time
    PROVE  LET n == normalizeJobTickState(m, t) IN
           /\ n \in Store /\ SameJobs(n, m)
           /\ \A j \in DOMAIN m :
                /\ n[j].mark = IF j \in losesMark(m, t) THEN None ELSE m[j].mark
                /\ m[j].on => n[j].next = m[j].next
PROOF
  <1> DEFINE n == normalizeJobTickState(m, t)
             next(j) == IF m[j].on THEN m[j].next ELSE None
             mark(j) == IF j \in losesMark(m, t) THEN None ELSE m[j].mark
  <1>1. n = [j \in DOMAIN m |-> [m[j] EXCEPT !.next = next(j), !.mark = mark(j)]]
    BY DEF normalizeJobTickState
  <1>2. \A j \in DOMAIN m : m[j] \in JobState
    BY StoreShape
  <1>3. ASSUME NEW j \in DOMAIN m
        PROVE  next(j) \in NextTime /\ mark(j) \in Time \cup {None}
    BY <1>2, NextTimes DEF JobState
  <1> HIDE DEF n, next, mark
  <1>4. DOMAIN n = DOMAIN m
    BY <1>1
  <1>5. ASSUME NEW j \in DOMAIN m
        PROVE  /\ n[j] \in JobState /\ n[j].next = next(j) /\ n[j].mark = mark(j)
               /\ n[j].on = m[j].on /\ n[j].at = m[j].at /\ n[j].last = m[j].last
               /\ n[j].st = m[j].st /\ n[j].errs = m[j].errs
    <2>1. n[j] = [m[j] EXCEPT !.next = next(j), !.mark = mark(j)]
      BY <1>1
    <2>2. m[j] \in JobState /\ next(j) \in NextTime /\ mark(j) \in Time \cup {None}
      BY <1>2, <1>3
    <2> DEFINE v == [m[j] EXCEPT !.next = next(j)]
    <2>3. /\ v \in JobState /\ v.next = next(j) /\ v.mark = m[j].mark
          /\ v.on = m[j].on /\ v.at = m[j].at /\ v.last = m[j].last /\ v.st = m[j].st
          /\ v.errs = m[j].errs
      BY <2>2, NextWritten
    <2>4. n[j] = [v EXCEPT !.mark = mark(j)]
      BY <2>1
    <2> HIDE DEF v
    <2> QED  BY <2>2, <2>3, <2>4, MarkWritten
  <1>6. n \in [DOMAIN m -> JobState]
    BY <1>1, <1>4, <1>5
  <1>7. n \in Store
    BY <1>6, StoreShape
  <1>8. SameJobs(n, m)
    BY <1>4, <1>5 DEF SameJobs
  <1> QED  BY <1>5, <1>7, <1>8 DEF n, next, mark

\* What the maintenance pass leaves of a job: it keeps a next run that is there
\* and, with recomputeExpired, was not served.
LEMMA Maintained ==
    ASSUME NEW m \in Store, NEW t \in Time, NEW expired \in BOOLEAN
    PROVE  LET n == recomputeNextRunsForMaintenance(m, t, expired) IN
           /\ n \in Store /\ SameJobs(n, m)
           /\ \A j \in DOMAIN m :
                /\ n[j].mark = IF j \in losesMark(m, t) THEN None ELSE m[j].mark
                /\ m[j].on /\ m[j].next # None =>
                      \/ n[j].next = m[j].next
                      \/ expired /\ m[j].last # None /\ m[j].last >= m[j].next
PROOF
  <1> DEFINE w == normalizeJobTickState(m, t)
             n == recomputeNextRunsForMaintenance(m, t, expired)
             moves(r) == r.next = None \/ (expired /\ r.next <= t /\ r.mark = None /\ r.last # None /\ r.last >= r.next)
             next(j) == IF moves(w[j]) THEN computeNext(j, w[j], t) ELSE w[j].next
  <1>1. /\ w \in Store /\ SameJobs(w, m)
        /\ \A j \in DOMAIN m :
             /\ w[j].mark = IF j \in losesMark(m, t) THEN None ELSE m[j].mark
             /\ m[j].on => w[j].next = m[j].next
    BY Normalized
  <1>2. DOMAIN w = DOMAIN m /\ DOMAIN m \subseteq Job /\ \A j \in DOMAIN m : w[j] \in JobState
    BY <1>1, StoreShape DEF SameJobs
  <1>3. n = [j \in DOMAIN m |-> [w[j] EXCEPT !.next = next(j)]]
    BY DEF recomputeNextRunsForMaintenance
  <1> HIDE DEF w
  <1>4. ASSUME NEW j \in DOMAIN m
        PROVE  next(j) \in NextTime
    <2>1. j \in Job /\ w[j] \in JobState
      BY <1>2
    <2>2. computeNext(j, w[j], t) \in NextTime /\ w[j].next \in NextTime
      BY <2>1, NextComputed DEF JobState
    <2> QED  BY <2>2
  <1>5. ASSUME NEW j \in DOMAIN m, m[j].on, m[j].next # None
        PROVE  \/ next(j) = m[j].next
               \/ expired /\ m[j].last # None /\ m[j].last >= m[j].next
    <2>1. w[j].next = m[j].next /\ w[j].last = m[j].last
      BY <1>1, <1>2, <1>5 DEF SameJobs
    <2> QED  BY <1>5, <2>1
  <1> HIDE DEF n, next
  <1>6. ASSUME NEW j \in DOMAIN m
        PROVE  /\ n[j] \in JobState /\ n[j].next = next(j) /\ n[j].mark = w[j].mark
               /\ n[j].on = w[j].on /\ n[j].at = w[j].at /\ n[j].last = w[j].last
               /\ n[j].st = w[j].st /\ n[j].errs = w[j].errs
    <2>1. n[j] = [w[j] EXCEPT !.next = next(j)]
      BY <1>3
    <2>2. w[j] \in JobState /\ next(j) \in NextTime
      BY <1>2, <1>4
    <2> QED  BY <2>1, <2>2, NextWritten
  <1>7. n \in [DOMAIN m -> JobState] /\ DOMAIN n = DOMAIN m
    BY <1>3, <1>6
  <1>8. n \in Store
    BY <1>2, <1>7, StoreShape
  <1>9. SameJobs(n, m)
    BY <1>1, <1>6, <1>7 DEF SameJobs
  <1>10. \A j \in DOMAIN m :
            /\ n[j].mark = IF j \in losesMark(m, t) THEN None ELSE m[j].mark
            /\ m[j].on /\ m[j].next # None =>
                  \/ n[j].next = m[j].next
                  \/ expired /\ m[j].last # None /\ m[j].last >= m[j].next
    BY <1>1, <1>5, <1>6
  <1> QED  BY <1>8, <1>9, <1>10 DEF n

\* Without recomputeExpired, no next run of an enabled job moves.
LEMMA Repaired ==
    ASSUME NEW m \in Store, NEW t \in Time
    PROVE  LET n == recomputeNextRunsForMaintenance(m, t, FALSE) IN
           /\ n \in Store
           /\ \A j \in DOMAIN m : m[j].on /\ m[j].next # None => n[j].next = m[j].next
PROOF
  <1> DEFINE n == recomputeNextRunsForMaintenance(m, t, FALSE)
  <1>1. /\ n \in Store
        /\ \A j \in DOMAIN m :
             m[j].on /\ m[j].next # None =>
                \/ n[j].next = m[j].next
                \/ FALSE /\ m[j].last # None /\ m[j].last >= m[j].next
    BY Maintained
  <1> QED  BY <1>1

\* What the full pass leaves of a job.
LEMMA Recomputed ==
    ASSUME NEW m \in Store, NEW t \in Time
    PROVE  LET n == recomputeNextRuns(m, t) IN
           /\ n \in Store /\ SameJobs(n, m)
           /\ \A j \in DOMAIN m :
                n[j].mark = IF j \in losesMark(m, t) THEN None ELSE m[j].mark
PROOF
  <1> DEFINE w == normalizeJobTickState(m, t)
             n == recomputeNextRuns(m, t)
             next(j) == IF w[j].next = None \/ w[j].next <= t THEN computeNext(j, w[j], t)
                        ELSE w[j].next
  <1>1. /\ w \in Store /\ SameJobs(w, m)
        /\ \A j \in DOMAIN m : w[j].mark = IF j \in losesMark(m, t) THEN None ELSE m[j].mark
    BY Normalized
  <1>2. DOMAIN w = DOMAIN m /\ DOMAIN m \subseteq Job /\ \A j \in DOMAIN m : w[j] \in JobState
    BY <1>1, StoreShape DEF SameJobs
  <1>3. n = [j \in DOMAIN m |-> [w[j] EXCEPT !.next = next(j)]]
    BY DEF recomputeNextRuns
  <1> HIDE DEF w
  <1>4. ASSUME NEW j \in DOMAIN m
        PROVE  next(j) \in NextTime
    <2>1. j \in Job /\ w[j] \in JobState
      BY <1>2
    <2>2. computeNext(j, w[j], t) \in NextTime /\ w[j].next \in NextTime
      BY <2>1, NextComputed DEF JobState
    <2> QED  BY <2>2
  <1> HIDE DEF n, next
  <1>5. ASSUME NEW j \in DOMAIN m
        PROVE  /\ n[j] \in JobState /\ n[j].mark = w[j].mark
               /\ n[j].on = w[j].on /\ n[j].at = w[j].at /\ n[j].last = w[j].last
               /\ n[j].st = w[j].st /\ n[j].errs = w[j].errs
    <2>1. n[j] = [w[j] EXCEPT !.next = next(j)]
      BY <1>3
    <2>2. w[j] \in JobState /\ next(j) \in NextTime
      BY <1>2, <1>4
    <2> QED  BY <2>1, <2>2, NextWritten
  <1>6. n \in [DOMAIN m -> JobState] /\ DOMAIN n = DOMAIN m
    BY <1>3, <1>5
  <1>7. n \in Store
    BY <1>2, <1>6, StoreShape
  <1>8. SameJobs(n, m)
    BY <1>1, <1>5, <1>6 DEF SameJobs
  <1>9. \A j \in DOMAIN m : n[j].mark = IF j \in losesMark(m, t) THEN None ELSE m[j].mark
    BY <1>1, <1>5
  <1> QED  BY <1>7, <1>8, <1>9 DEF n

\* A store with the mark of some jobs written.
LEMMA MarksWritten ==
    ASSUME NEW m \in Store, NEW S, NEW k \in Time \cup {None},
           NEW n, n = [j \in DOMAIN m |-> IF j \in S THEN [m[j] EXCEPT !.mark = k] ELSE m[j]]
    PROVE  /\ n \in Store /\ AsFiled(n, m)
           /\ \A j \in DOMAIN m : /\ n[j].mark = IF j \in S THEN k ELSE m[j].mark
                                  /\ n[j].next = m[j].next
PROOF
  <1>1. DOMAIN n = DOMAIN m /\ DOMAIN m \subseteq Job /\ \A j \in DOMAIN m : m[j] \in JobState
    BY StoreShape
  <1>2. ASSUME NEW j \in DOMAIN m
        PROVE  /\ n[j] \in JobState /\ n[j].mark = IF j \in S THEN k ELSE m[j].mark
               /\ n[j].next = m[j].next /\ n[j].on = m[j].on /\ n[j].at = m[j].at
               /\ n[j].last = m[j].last /\ n[j].st = m[j].st /\ n[j].errs = m[j].errs
    <2>1. CASE j \in S
      <3>1. n[j] = [m[j] EXCEPT !.mark = k]
        BY <2>1
      <3> QED  BY <1>1, <2>1, <3>1, MarkWritten
    <2>2. CASE j \notin S
      BY <1>1, <2>2
    <2> QED  BY <2>1, <2>2
  <1>3. n \in [DOMAIN m -> JobState]
    BY <1>1, <1>2
  <1>4. n \in Store
    BY <1>1, <1>3, StoreShape
  <1> QED  BY <1>1, <1>2, <1>4 DEF AsFiled, SameJobs

\* A store with the record of one job replaced.
LEMMA JobReplaced ==
    ASSUME NEW m \in Store, NEW j \in DOMAIN m, NEW r \in JobState,
           NEW n, n = [m EXCEPT ![j] = r]
    PROVE  /\ n \in Store /\ DOMAIN n = DOMAIN m /\ n[j] = r
           /\ \A k \in DOMAIN m \ {j} : n[k] = m[k]
PROOF
  <1>1. m \in [DOMAIN m -> JobState] /\ DOMAIN m \subseteq Job
    BY StoreShape
  <1>2. n \in [DOMAIN m -> JobState] /\ n[j] = r /\ \A k \in DOMAIN m \ {j} : n[k] = m[k]
    BY <1>1
  <1>3. n \in Store /\ DOMAIN n = DOMAIN m
    BY <1>1, <1>2, StoreShape
  <1> QED  BY <1>2, <1>3

-----------------------------------------------------------------------------
(* The results of the runs.                                                *)

\* The runs of a set that have ended.
Ended(done) == done \subseteq Run /\ \A ran \in done : ran.out # "going" /\ ran.end \in Time

\* The result of a run keeps the time the user gave the job and ends its mark;
\* an enabled job that is to run again is given its next run.
LEMMA ResultApplied ==
    ASSUME NEW j \in Job, NEW r \in JobState, NEW ran \in Run,
           ran.out # "going", ran.end \in Time, NEW force
    PROVE  /\ applyJobResult(j, r, ran, force) \in JobState
           /\ applyJobResult(j, r, ran, force).at = r.at
           /\ applyJobResult(j, r, ran, force).mark = None
PROOF
  <1> DEFINE failed == ran.out \in {"error", "fatal"}
             errs == IF ~failed THEN 0
                     ELSE IF r.errs > MaxAttempts THEN r.errs ELSE r.errs + 1
             done == [r EXCEPT !.mark = None, !.last = ran.start, !.errs = errs,
                               !.st = IF failed THEN "error" ELSE ran.out]
             plain == IF force THEN [done EXCEPT !.last = r.last] ELSE done
             natural == computeNext(j, plain, ran.end)
  <1>1. /\ r \in [on : BOOLEAN, at : At, next : NextTime,
                  mark : Time \cup {None}, last : Time \cup {None},
                  st : {"none", "ok", "skipped", "error"}, errs : 0 .. (MaxAttempts + 1)]
        /\ ran.start \in Time
        /\ ran.out \in {"ok", "skipped", "error", "fatal"}
    BY CronAssumption DEF JobState, Run
  <1>2. errs \in 0 .. (MaxAttempts + 1)
    BY <1>1, Numbers
  <1> HIDE DEF errs
  <1>3. done \in JobState /\ done.at = r.at /\ done.mark = None
    BY <1>1, <1>2 DEF JobState
  <1> HIDE DEF done
  <1>4. plain \in JobState
    BY <1>1, <1>3 DEF JobState
  <1> HIDE DEF plain
  <1>5. natural \in NextTime
    BY <1>4, NextComputed
  <1> HIDE DEF natural
  <1>6. ran.end + Backoff \in NextTime
    BY Numbers, NextTimes DEF Time
  <1>7. ASSUME NEW n \in NextTime, NEW w, w = [done EXCEPT !.next = n]
        PROVE  w \in JobState /\ w.at = r.at /\ w.mark = None
    BY <1>3, <1>7, NextWritten
  <1>8. ASSUME NEW w, w = [done EXCEPT !.on = FALSE, !.next = None]
        PROVE  w \in JobState /\ w.at = r.at /\ w.mark = None
    BY <1>3, <1>8, NextTimes DEF JobState
  <1> DEFINE retry == Kind[j] = "at" /\ ran.out = "error" /\ errs <= MaxAttempts
             delayed == IF natural > ran.end + Backoff THEN natural ELSE ran.end + Backoff
             result == applyJobResult(j, r, ran, force)
  <1>9. result = CASE Kind[j] = "at" /\ ran.out = "error" /\ errs <= MaxAttempts ->
                         [done EXCEPT !.next = ran.end + Backoff]
                   [] Kind[j] = "at" /\ ~(ran.out = "error" /\ errs <= MaxAttempts) ->
                         [done EXCEPT !.on = FALSE, !.next = None]
                   [] Kind[j] # "at" /\ failed /\ r.on -> [done EXCEPT !.next = delayed]
                   [] OTHER -> [done EXCEPT !.next = natural]
    BY DEF applyJobResult, errs, done, plain, natural
  <1>10. delayed \in NextTime
    BY <1>5, <1>6
  <1> HIDE DEF result, delayed, failed
  <1>11. CASE Kind[j] = "at" /\ ran.out = "error" /\ errs <= MaxAttempts
    <2>1. result = [done EXCEPT !.next = ran.end + Backoff]
      BY <1>9, <1>11
    <2> QED  BY <1>6, <1>7, <2>1 DEF result
  <1>12. CASE Kind[j] = "at" /\ ~(ran.out = "error" /\ errs <= MaxAttempts)
    <2>1. result = [done EXCEPT !.on = FALSE, !.next = None]
      BY <1>9, <1>12
    <2> QED  BY <1>8, <2>1 DEF result
  <1>13. CASE Kind[j] # "at" /\ failed /\ r.on
    <2>1. result = [done EXCEPT !.next = delayed]
      BY <1>9, <1>13
    <2> QED  BY <1>7, <1>10, <2>1 DEF result
  <1>14. CASE Kind[j] # "at" /\ ~(failed /\ r.on)
    <2>1. result = [done EXCEPT !.next = natural]
      BY <1>9, <1>14
    <2> QED  BY <1>5, <1>7, <2>1 DEF result
  <1> QED  BY <1>11, <1>12, <1>13, <1>14

\* n is m with the results of a set of runs: the other jobs stay as they are,
\* the deleted ones are gone, none comes back, and no job loses the time the
\* user gave it.
Applied(n, m, done) ==
    /\ n \in Store /\ DOMAIN n \subseteq DOMAIN m
    /\ \A j \in DOMAIN n : n[j].at = m[j].at
    /\ \A j \in DOMAIN m : (\A ran \in done : ran.job # j) => j \in DOMAIN n /\ n[j] = m[j]
    /\ (\A q, r \in done : q.job = r.job => q = r)
          => DOMAIN n = DOMAIN m \ completed(m, done)

\* That is what applying the results does.
LEMMA OutcomesApplied ==
    ASSUME NEW m \in Store, NEW done, Ended(done), NEW force,
           NEW n, n = applyOutcomes(m, done, force)
    PROVE  Applied(n, m, done)
PROOF
  <1> DEFINE of(j) == CHOOSE ran \in done : ran.job = j
             over == {ran.job : ran \in done}
             kept == {j \in DOMAIN m : ~(j \in over /\ deletes(j, of(j)))}
  <1>1. n = [j \in kept |-> IF j \in over THEN applyJobResult(j, m[j], of(j), force) ELSE m[j]]
    BY DEF applyOutcomes
  <1>2. ASSUME NEW j \in over
        PROVE  of(j) \in done /\ of(j).job = j
    <2>1. \E ran \in done : ran.job = j
      BY <1>2
    <2> QED  BY <2>1
  <1>3. \A j : j \in over <=> \E ran \in done : ran.job = j
    OBVIOUS
  <1>4. DOMAIN m \subseteq Job /\ \A j \in DOMAIN m : m[j] \in JobState
    BY StoreShape
  <1>5. kept \subseteq DOMAIN m /\ \A j \in DOMAIN m : j \notin over => j \in kept
    OBVIOUS
  <1>6. ASSUME \A q, r \in done : q.job = r.job => q = r
        PROVE  kept = DOMAIN m \ completed(m, done)
    <2>1. ASSUME NEW j \in DOMAIN m
          PROVE  j \in kept <=> j \notin completed(m, done)
      <3>1. CASE j \in over
        <4>1. of(j) \in done /\ of(j).job = j
          BY <1>2, <3>1
        <4>2. \A ran \in done : ran.job = j => ran = of(j)
          BY <1>6, <4>1
        <4> HIDE DEF of
        <4> QED  BY <3>1, <4>1, <4>2 DEF completed
      <3>2. CASE j \notin over
        BY <1>3, <3>2 DEF completed
      <3> QED  BY <3>1, <3>2
    <2>2. completed(m, done) \subseteq DOMAIN m
      BY DEF completed
    <2> QED  BY <1>5, <2>1, <2>2
  <1> HIDE DEF of, over, kept
  <1>7. DOMAIN n = kept
    BY <1>1
  <1>8. ASSUME NEW j \in kept
        PROVE  n[j] \in JobState /\ n[j].at = m[j].at /\ (j \notin over => n[j] = m[j])
    <2>1. j \in DOMAIN m /\ j \in Job /\ m[j] \in JobState
      BY <1>4, <1>5
    <2>2. CASE j \in over
      <3>1. n[j] = applyJobResult(j, m[j], of(j), force)
        BY <1>1, <2>2
      <3>2. of(j) \in Run /\ of(j).out # "going" /\ of(j).end \in Time
        BY <1>2, <2>2 DEF Ended
      <3> QED  BY <2>1, <2>2, <3>1, <3>2, ResultApplied
    <2>3. CASE j \notin over
      BY <1>1, <2>1, <2>3
    <2> QED  BY <2>2, <2>3
  <1>9. n \in [kept -> JobState] /\ kept \in SUBSET Job
    BY <1>1, <1>4, <1>5, <1>8
  <1>10. n \in Store
    BY <1>9, StoreShape
  <1>11. \A j \in DOMAIN m : (\A ran \in done : ran.job # j) => j \in DOMAIN n /\ n[j] = m[j]
    BY <1>3, <1>5, <1>7, <1>8
  <1> QED  BY <1>5, <1>6, <1>7, <1>8, <1>10, <1>11 DEF Applied

\* The time of a job that is deferred by one Stagger for each job of a part of
\* the plan.
LEMMA StaggeredTime ==
    ASSUME NEW t \in Time, NEW later \in Seq(Job), Len(later) <= Cardinality(Job),
           NEW c \in SUBSET DOMAIN later
    PROVE  t + Stagger * Cardinality(c) \in NextTime
PROOF
  <1>1. DOMAIN later = 1 .. Len(later) /\ Len(later) \in Nat
    OBVIOUS
  <1>2. IsFiniteSet(1 .. Len(later)) /\ Cardinality(1 .. Len(later)) = Len(later)
    <2> DEFINE len == Len(later)
    <2>1. len \in Int /\ 1 \in Int /\ len >= 0 /\ len - 1 + 1 = len
      BY <1>1
    <2> HIDE DEF len
    <2>2. IsFiniteSet(1 .. len)
      BY <2>1, FS_Interval
    <2>3. Cardinality(1 .. len) = IF 1 > len THEN 0 ELSE len - 1 + 1
      BY <2>1, FS_Interval
    <2>4. Cardinality(1 .. len) = len
      BY <2>1, <2>3
    <2> QED  BY <2>2, <2>4 DEF len
  <1>3. c \subseteq 1 .. Len(later)
    BY <1>1
  <1>4. Cardinality(c) <= Len(later) /\ Cardinality(c) \in Nat
    BY <1>2, <1>3, FS_Subset, FS_CardinalityType
  <1>5. Cardinality(c) <= Cardinality(Job)
    BY <1>1, <1>4, Numbers
  <1>6. Stagger * Cardinality(c) \in 0 .. Stagger * Cardinality(Job)
    BY <1>4, <1>5, StaggerGrows
  <1> DEFINE x == Stagger * Cardinality(c)
             y == Stagger * Cardinality(Job)
  <1>7. x \in 0 .. y /\ y \in Nat
    BY <1>6, Numbers
  <1> HIDE DEF x
  <1>8. t + x \in Nat /\ t + x <= MaxNow + y
    <2> HIDE DEF y
    <2> QED  BY <1>7, Numbers DEF Time
  <1>9. t + x \in NextTime
    BY <1>8, NextTimes
  <1> QED  BY <1>9 DEF x

\* The file with the state a manual run left in memory: the other jobs of the
\* file stay as they are, and the job keeps the time the file gives it.
Merged(n, f, j, m) ==
    /\ n \in Store /\ DOMAIN n = {k \in DOMAIN f : k = j => j \in DOMAIN m}
    /\ \A k \in DOMAIN n : n[k].at = f[k].at /\ (k # j => n[k] = f[k])

\* That is what the merge does.
LEMMA SnapshotMerged ==
    ASSUME NEW f \in Store, NEW m \in Store, NEW j \in Job
    PROVE  Merged(mergeManualRunSnapshotAfterReload(f, j, m), f, j, m)
PROOF
  <1> DEFINE n == mergeManualRunSnapshotAfterReload(f, j, m)
  <1> DEFINE kept == DOMAIN f \ (IF j \in DOMAIN m THEN {} ELSE {j})
  <1>1. n = [k \in kept |-> IF k = j THEN [m[j] EXCEPT !.at = f[j].at] ELSE f[k]]
    BY DEF mergeManualRunSnapshotAfterReload
  <1> HIDE DEF n
  <1>2. /\ DOMAIN f \subseteq Job /\ \A k \in DOMAIN f : f[k] \in JobState
        /\ \A k \in DOMAIN m : m[k] \in JobState
    BY StoreShape
  <1>3. kept \subseteq DOMAIN f /\ (j \in kept => j \in DOMAIN m)
    OBVIOUS
  <1> HIDE DEF kept
  <1>4. DOMAIN n = kept
    BY <1>1
  <1>5. ASSUME NEW k \in kept
        PROVE  n[k] \in JobState /\ n[k].at = f[k].at /\ (k # j => n[k] = f[k])
    <2>1. CASE k = j
      <3> DEFINE r == m[j]
      <3>1. r \in JobState /\ f[j] \in JobState /\ f[j].at \in At
        BY <1>2, <1>3, <2>1 DEF JobState
      <3>2. n[k] = [r EXCEPT !.at = f[j].at]
        BY <1>1, <2>1
      <3> HIDE DEF r
      <3> QED  BY <2>1, <3>1, <3>2 DEF JobState
    <2>2. CASE k # j
      BY <1>1, <1>2, <1>3, <2>2
    <2> QED  BY <2>1, <2>2
  <1>6. n \in [kept -> JobState] /\ kept \in SUBSET Job
    BY <1>1, <1>2, <1>3, <1>5
  <1>7. n \in Store
    BY <1>6, StoreShape
  <1>8. kept = {k \in DOMAIN f : k = j => j \in DOMAIN m}
    BY DEF kept
  <1> QED  BY <1>4, <1>5, <1>7, <1>8 DEF Merged, n

-----------------------------------------------------------------------------
(* The steps that leave the stores alone.                                  *)

\* The record of a new job.
LEMMA FreshJob ==
    ASSUME NEW j \in Job, NEW time \in At, NEW on \in BOOLEAN, NEW t \in Time
    PROVE  /\ Fresh(j, time, on, t) \in JobState /\ Fresh(j, time, on, t).at = time
           /\ Fresh(j, time, on, t).mark = None
PROOF
  <1> DEFINE r == [on |-> on, at |-> time, next |-> None, mark |-> None, last |-> None,
                   st |-> "none", errs |-> 0]
  <1>1. r \in JobState /\ r.at = time /\ r.mark = None
    BY Numbers, NextTimes DEF JobState
  <1>2. computeNext(j, r, t) \in NextTime
    BY <1>1, NextComputed
  <1>3. Fresh(j, time, on, t) = [r EXCEPT !.next = computeNext(j, r, t)]
    BY DEF Fresh
  <1> HIDE DEF r
  <1> QED  BY <1>1, <1>2, <1>3, NextWritten

\* The sequences of the catch-up's plan are sequences of jobs.
LEMMA BootShape ==
    ASSUME Types, NEW s \in Service
    PROVE  /\ boot[s] \in Boot /\ boot[s].phase \in Phase /\ boot[s].skip \in SUBSET Job
           /\ boot[s].todo \in Seq(Job) /\ ToSet(boot[s].todo) \subseteq Job
           /\ boot[s].later \in Seq(Job) /\ ToSet(boot[s].later) \subseteq Job
           /\ Len(boot[s].later) <= Cardinality(Job)
PROOF
  <1>1. boot[s] \in Boot
    BY DEF Types
  <1>2. boot[s].todo \in Seq(Job) /\ boot[s].later \in Seq(Job)
    BY <1>1 DEF Boot
  <1>3. \A q \in Seq(Job) : ToSet(q) \subseteq Job
    BY DEF ToSet
  <1> QED  BY <1>1, <1>2, <1>3 DEF Boot

\* Moving on to another step of a tick.
LEMMA StepTaken ==
    ASSUME NEW b \in Tick, NEW p \in Step, NEW w, w = [b EXCEPT !.pc = p]
    PROVE  w \in Tick /\ w.pc = p /\ w.todo = b.todo /\ w.held = b.held
PROOF
  BY DEF Tick

\* Moving on to another phase of start().
LEMMA PhaseTaken ==
    ASSUME NEW b \in Boot, NEW p \in Phase, NEW w, w = [b EXCEPT !.phase = p]
    PROVE  /\ w \in Boot /\ w.phase = p /\ w.skip = b.skip
           /\ w.todo = b.todo /\ w.later = b.later
PROOF
  BY DEF Boot

\* The records of a service that is idle, and of one that starts or is up.
LEMMA Idle ==
    /\ NoTick \in Tick /\ NoTick.pc = "idle" /\ NoTick.todo = {}
    /\ NoManual \in Manual /\ NoManual.pc = "idle"
    /\ NoBoot \in Boot /\ NoBoot.phase = "off" /\ NoBoot.todo = <<>>
    /\ \A p \in Phase : /\ [NoBoot EXCEPT !.phase = p] \in Boot
                       /\ [NoBoot EXCEPT !.phase = p].phase = p
                       /\ [NoBoot EXCEPT !.phase = p].todo = <<>>
    /\ ToSet(<<>>) = {} /\ IsInjective(<<>>)
PROOF
  <1>1. /\ NoTick \in Tick /\ NoTick.pc = "idle" /\ NoTick.todo = {}
        /\ NoManual \in Manual /\ NoManual.pc = "idle"
    BY DEF NoTick, Tick, NoManual, Manual, Step
  <1>2. NoBoot \in Boot /\ NoBoot.phase = "off" /\ NoBoot.todo = <<>>
    BY Numbers DEF NoBoot, Boot, Phase
  <1>3. ASSUME NEW p \in Phase
        PROVE  /\ [NoBoot EXCEPT !.phase = p] \in Boot
               /\ [NoBoot EXCEPT !.phase = p].phase = p
               /\ [NoBoot EXCEPT !.phase = p].todo = <<>>
    <2> DEFINE w == [NoBoot EXCEPT !.phase = p]
    <2>1. w \in Boot /\ w.phase = p /\ w.todo = NoBoot.todo
      BY <1>2, PhaseTaken
    <2> QED  BY <1>2, <2>1
  <1>4. ToSet(<<>>) = {} /\ IsInjective(<<>>)
    BY DEF ToSet, IsInjective
  <1> QED  BY <1>1, <1>2, <1>3, <1>4

\* Initially one service has been started, and has done nothing.
LEMMA InitIInv == Init => IInv
PROOF
  <1> SUFFICES ASSUME Init PROVE IInv
    OBVIOUS
  <1> USE DEF Init
  <1>1. PICK S \in Stored : \E time \in [S -> At] :
            /\ \A j \in S : time[j] \in times(j)
            /\ disk = [j \in S |-> Fresh(j, time[j], TRUE, now)]
            /\ known = time
    OBVIOUS
  <1>2. PICK time \in [S -> At] :
            /\ disk = [j \in S |-> Fresh(j, time[j], TRUE, now)]
            /\ known = time
    BY <1>1
  <1>3. S \in SUBSET Job /\ 0 \in Time /\ 1 \in Service
    BY CronAssumption, Numbers DEF Time, Service
  <1>4. ASSUME NEW j \in S
        PROVE  disk[j] \in JobState /\ disk[j].at = known[j] /\ known[j] \in At
    <2>1. disk[j] = Fresh(j, known[j], TRUE, now) /\ j \in Job /\ known[j] \in At
          /\ now \in Time
      BY <1>2, <1>3, <1>4
    <2> HIDE DEF Init
    <2>2. \A on \in BOOLEAN : /\ Fresh(j, known[j], on, now) \in JobState
                              /\ Fresh(j, known[j], on, now).at = known[j]
      BY <2>1, FreshJob
    <2>3. /\ Fresh(j, known[j], TRUE, now) \in JobState
          /\ Fresh(j, known[j], TRUE, now).at = known[j]
      BY <2>2
    <2> QED  BY <2>1, <2>3
  <1>5. disk \in [S -> JobState] /\ known \in [S -> At \cup {Gone}]
    BY <1>2, <1>4
  <1>6. disk \in Store /\ DOMAIN disk = S /\ known \in History /\ DOMAIN known = S
    <2> HIDE DEF Init
    <2>1. disk \in Store /\ DOMAIN disk = S
      BY <1>3, <1>5, StoreShape
    <2>2. known \in History /\ DOMAIN known = S
      BY <1>3, <1>5 DEF History
    <2> QED  BY <2>1, <2>2
  <1> DEFINE new == [NoBoot EXCEPT !.phase = "new"]
  <1>7. new \in Boot /\ new.phase = "new" /\ new.todo = <<>>
    BY Idle DEF Phase
  <1>8. /\ boot = [t \in Service |-> IF t = 1 THEN new ELSE NoBoot]
        /\ mem = [t \in Service |-> NoStore] /\ tick = [t \in Service |-> NoTick]
        /\ manual = [t \in Service |-> NoManual] /\ timer = [t \in Service |-> "off"]
        /\ now = 0 /\ latest = 1 /\ alive = {1} /\ runs = {} /\ ops = 0 /\ freed = {}
        /\ shared = FALSE
    OBVIOUS
  <1> HIDE DEF new, Init
  <1>9. Types
    <2>1. NoTick \in Tick /\ NoManual \in Manual /\ NoManual.pc = "idle" /\ NoBoot \in Boot
      BY Idle
    <2>2. tick \in [Service -> Tick] /\ boot \in [Service -> Boot]
          /\ manual \in [Service -> Manual] /\ \A s \in Service : manual[s].pc = "idle"
      BY <1>7, <1>8, <2>1
    <2>3. 0 \in 0 .. MaxOps
      BY Numbers
    <2> QED  BY <1>3, <1>6, <1>8, <2>2, <2>3 DEF Types
  <1>10. Services
    BY <1>3, <1>7, <1>8, Numbers DEF Services, Service, loaded
  <1>11. Recorded
    BY <1>3, <1>6, <1>7, <1>8 DEF Recorded, loaded
  <1>12. Kept
    <2>1. \A j \in S : known[j] # Gone
      BY <1>4, NotGone
    <2> QED  BY <1>3, <1>4, <1>6, <1>7, <1>8, <2>1 DEF Kept, loaded
  <1>13. ToSet(boot[latest].todo) = {} /\ IsInjective(boot[latest].todo)
    BY <1>3, <1>7, <1>8, Idle
  <1>14. Planned /\ Marked
    BY <1>3, <1>7, <1>8, <1>13, Idle DEF Planned, Marked, busy
  <1> QED  BY <1>9, <1>10, <1>11, <1>12, <1>14 DEF IInv

\* The clock ticks.
LEMMA ClockKeeps == ASSUME IInv, Clock PROVE IInv'
PROOF
  <1> USE DEF Clock, store, control
  <1>1. Types'
    BY Numbers DEF IInv, Types, Time
  <1>2. Services' /\ Recorded'
    BY DEF IInv, Services, Recorded, loaded
  <1>3. ASSUME ~shared PROVE Kept' /\ Planned' /\ Marked'
    BY <1>3 DEF IInv, Kept, Planned, Marked, busy, loaded
  <1> QED  BY <1>1, <1>2, <1>3 DEF IInv

\* The timer fires.
LEMMA OnTimerKeeps == ASSUME IInv, NEW s \in alive, onTimer(s) PROVE IInv'
PROOF
  <1> USE DEF onTimer, store, control
  <1>0. s \in Service /\ loaded(s)
    BY DEF IInv, Types, Services
  <1>1. tick[s] \in Tick /\ tick'[s] \in Tick /\ tick'[s].todo = tick[s].todo
        /\ (tick[s].pc = "run" <=> tick'[s].pc = "run")
        /\ \A t \in Service \ {s} : tick'[t] = tick[t]
        /\ tick' \in [Service -> Tick]
    <2>1. tick[s] \in Tick
      BY <1>0 DEF IInv, Types
    <2>2. CASE tick[s].pc # "idle"
      BY <2>1, <2>2 DEF IInv, Types
    <2>3. CASE tick[s].pc = "idle"
      <3> DEFINE w == [tick[s] EXCEPT !.pc = "due"]
      <3>1. w \in Tick /\ w.pc = "due" /\ w.todo = tick[s].todo
        BY <2>1, StepTaken DEF Step
      <3>2. tick' = [tick EXCEPT ![s] = w]
        BY <2>3
      <3> HIDE DEF w
      <3> QED  BY <1>0, <2>1, <2>3, <3>1, <3>2 DEF IInv, Types
    <2> QED  BY <2>2, <2>3
  <1>2. Types'
    BY <1>0, <1>1 DEF IInv, Types
  <1>3. Services' /\ Recorded'
    BY <1>0, <1>1 DEF IInv, Types, Services, Recorded, loaded
  <1>4. ASSUME ~shared PROVE Kept' /\ Planned' /\ Marked'
    <2>1. s = latest
      BY <1>4 DEF IInv, Kept
    <2> QED  BY <1>0, <1>1, <1>4, <2>1 DEF IInv, Kept, Planned, Marked, busy, loaded
  <1> QED  BY <1>2, <1>3, <1>4 DEF IInv

-----------------------------------------------------------------------------
(* What the steps of one service have in common.                           *)

\* A step of a service: the others stay as they are.
OnlyOf(s) ==
    /\ latest' = latest /\ alive' = alive /\ shared' = shared
    /\ \A t \in Service \ {s} :
        /\ boot'[t] = boot[t] /\ tick'[t] = tick[t] /\ manual'[t] = manual[t]
        /\ mem'[t] = mem[t] /\ timer'[t] = timer[t]

\* A service that has its store after its step is as it should be.
LEMMA SectionServices ==
    ASSUME Types, Services, NEW s \in alive, OnlyOf(s), loaded(s)', mem'[s] \in Store
    PROVE  Services'
PROOF
  <1>1. s \in Service /\ latest \in Service /\ alive \subseteq Service /\ s <= latest
    BY DEF Types, Services
  <1>2. latest' = latest /\ alive' = alive
    BY DEF OnlyOf
  <1>3. ASSUME NEW t \in Service, t > latest
        PROVE  /\ tick'[t] = NoTick /\ boot'[t] = NoBoot /\ manual'[t] = NoManual
               /\ mem'[t] = NoStore /\ timer'[t] = "off"
    <2>1. t # s
      BY <1>1, <1>3 DEF Service
    <2> QED  BY <1>3, <2>1 DEF Services, OnlyOf
  <1>4. ASSUME NEW t \in alive
        PROVE  /\ boot'[t].phase # "off"
               /\ loaded(t)' => mem'[t] \in Store
               /\ ~loaded(t)' => /\ tick'[t] = NoTick /\ manual'[t] = NoManual
                                 /\ mem'[t] = NoStore /\ timer'[t] = "off"
    <2>1. CASE t = s
      BY <2>1 DEF loaded
    <2>2. CASE t # s
      <3>1. t \in Service \ {s}
        BY <1>1, <2>2
      <3> QED  BY <3>1, <1>4 DEF Services, OnlyOf, loaded
    <2> QED  BY <2>1, <2>2
  <1> QED  BY <1>1, <1>2, <1>3, <1>4 DEF Services

\* What a service stores, of jobs the history knows, is recorded.
LEMMA SectionRecorded ==
    ASSUME Types, Recorded, NEW s \in alive, OnlyOf(s),
           DOMAIN known \subseteq DOMAIN known',
           DOMAIN disk' \subseteq DOMAIN known', DOMAIN mem'[s] \subseteq DOMAIN known'
    PROVE  Recorded'
PROOF
  <1>1. alive \subseteq Service /\ alive' = alive
    BY DEF Types, OnlyOf
  <1>2. ASSUME NEW t \in alive, loaded(t)'
        PROVE  DOMAIN mem'[t] \subseteq DOMAIN known'
    <2>1. CASE t = s
      BY <2>1
    <2>2. CASE t # s
      <3>1. t \in Service \ {s}
        BY <1>1, <2>2
      <3>2. mem'[t] = mem[t] /\ loaded(t)
        BY <1>2, <3>1 DEF OnlyOf, loaded
      <3> QED  BY <1>2, <3>2 DEF Recorded
    <2> QED  BY <2>1, <2>2
  <1> QED  BY <1>1, <1>2 DEF Recorded

\* persist writes the copy in memory and the file.
LEMMA Persisted ==
    ASSUME Types, NEW s \in Service, NEW m \in Store, persist(s, m)
    PROVE  /\ disk' = m /\ disk' \in Store /\ mem'[s] = m
           /\ mem' \in [Service -> Store \cup {NoStore}]
           /\ \A t \in Service \ {s} : mem'[t] = mem[t]
PROOF
  BY DEF Types, persist

\* armTimer sets the timer of its service.
LEMMA Armed ==
    ASSUME Types, NEW s \in Service, NEW m, armTimer(s, m)
    PROVE  /\ timer' \in [Service -> {"off", "job", "recheck"}]
           /\ \A t \in Service \ {s} : timer'[t] = timer[t]
PROOF
  BY DEF Types, armTimer

\* A copy of a copy is filed as the copy is.
LEMMA AsFiledTwice ==
    ASSUME NEW n, NEW m, NEW f, AsFiled(n, m), AsFiled(m, f)
    PROVE  AsFiled(n, f)
PROOF
  BY DEF AsFiled, SameJobs

\* The jobs of the history that are not gone, with their times.
Listed(m, h) ==
    DOMAIN m = {j \in DOMAIN h : h[j] # Gone} /\ \A j \in DOMAIN m : m[j].at = h[j]

\* A store that differs from another in marks and next runs has the same jobs.
LEMMA SameListed ==
    ASSUME NEW n, NEW m, NEW h, SameJobs(n, m), Listed(m, h)
    PROVE  Listed(n, h)
PROOF
  BY DEF SameJobs, Listed

\* The service that is alone has the jobs of the history in memory too.
LEMMA KeptListed ==
    ASSUME Kept
    PROVE  Listed(disk, known) /\ (loaded(latest) => Listed(mem[latest], known))
PROOF
  <1>1. Listed(disk, known)
    BY DEF Kept, Listed
  <1>2. loaded(latest) => SameJobs(mem[latest], disk)
    BY DEF Kept, AsFiled
  <1> QED  BY <1>1, <1>2, SameListed

\* A service that is alone and stores the jobs of the history keeps them.
LEMMA PersistKept ==
    ASSUME Types, Kept, NEW m \in Store, persist(latest, m), Listed(m, known'),
           latest' = latest, alive' = alive
    PROVE  Kept'
PROOF
  <1>1. disk' = m /\ mem'[latest] = m
    BY Persisted DEF Types
  <1>2. AsFiled(m, m)
    BY DEF AsFiled, SameJobs
  <1> QED  BY <1>1, <1>2 DEF Kept, Listed

\* The marks a step takes away, of the jobs in S, are accounted for: the runs
\* and plans only get fewer, and a job that is still busy keeps its mark.
LEMMA MarkedAfter ==
    ASSUME Types, Marked, latest' = latest, runs' \subseteq runs,
           tick'[latest].todo \subseteq tick[latest].todo,
           ToSet(boot'[latest].todo) \subseteq ToSet(boot[latest].todo),
           NEW S, freeing(S),
           \A j \in Job \ (freed \cup S) : busy(j)' =>
              /\ j \in DOMAIN disk' => disk'[j].mark # None
              /\ loaded(latest)' /\ j \in DOMAIN mem'[latest] => mem'[latest][j].mark # None
    PROVE  Marked'
PROOF
  <1> DEFINE todo == tick[latest].todo
             plan == ToSet(boot[latest].todo)
             todoN == tick'[latest].todo
             planN == ToSet(boot'[latest].todo)
  <1>1. \A j \in Job \ freed :
          /\ \A q, r \in runs : q.job = j /\ r.job = j => q = r
          /\ \A r \in runs : r.job = j => j \notin todo /\ j \notin plan
          /\ j \in todo => j \notin plan
    BY DEF Marked
  <1>2. todoN \subseteq todo /\ planN \subseteq plan /\ latest \in Service
    BY DEF Types
  <1>3. \A j : busy(j)' <=> (\E r \in runs' : r.job = j) \/ j \in todoN \/ j \in planN
    BY DEF busy
  <1>4. \A j \in freed \cup S : j \notin freed' => ~busy(j)'
    <2>1. \A j \in freed \cup S : j \notin freed' => ~inProgress(j)'
      BY DEF freeing
    <2>2. \A j : busy(j)' => inProgress(j)'
      BY <1>2 DEF busy, inProgress
    <2> QED  BY <2>1, <2>2
  <1> HIDE DEF todo, plan, todoN, planN
  <1>5. ASSUME NEW j \in Job \ freed', busy(j)'
        PROVE  j \in Job \ (freed \cup S)
    BY <1>4, <1>5
  <1>6. ASSUME NEW j \in Job \ freed'
        PROVE  /\ \A q, r \in runs' : q.job = j /\ r.job = j => q = r
               /\ \A r \in runs' : r.job = j => j \notin todoN /\ j \notin planN
               /\ j \in todoN => j \notin planN
    <2>1. CASE busy(j)'
      BY <1>1, <1>2, <1>5, <2>1
    <2>2. CASE ~busy(j)'
      BY <1>3, <2>2
    <2> QED  BY <2>1, <2>2
  <1>7. ASSUME NEW j \in Job \ freed', busy(j)'
        PROVE  /\ j \in DOMAIN disk' => disk'[j].mark # None
               /\ loaded(latest)' /\ j \in DOMAIN mem'[latest] => mem'[latest][j].mark # None
    BY <1>5, <1>7
  <1> QED  BY <1>6, <1>7 DEF Marked, todoN, planN

\* The jobs of a history that is told of jobs that are gone.
LEMMA Forgotten ==
    ASSUME NEW S, known \in History
    PROVE  /\ forget(S) \in History /\ DOMAIN forget(S) = DOMAIN known
           /\ \A j \in DOMAIN known : forget(S)[j] = IF j \in S THEN Gone ELSE known[j]
PROOF
  <1>1. PICK D \in SUBSET Job : known \in [D -> At \cup {Gone}]
    BY DEF History
  <1>2. forget(S) \in [D -> At \cup {Gone}] /\ DOMAIN known = D
    BY <1>1 DEF forget
  <1> QED  BY <1>1, <1>2 DEF History, forget

-----------------------------------------------------------------------------
(* Steps that start, end and wind up runs.                                 *)

\* The end of a tick arms the timer.
LEMMA EndTickKeeps == ASSUME IInv, NEW s \in alive, endTick(s) PROVE IInv'
PROOF
  <1> USE DEF endTick, store
  <1>0. Types /\ Services /\ Recorded /\ s \in Service
    BY DEF IInv, Types
  <1>1. tick[s].pc = "end" /\ loaded(s) /\ mem[s] \in Store
    BY <1>0, Idle DEF Services
  <1>2. /\ timer' \in [Service -> {"off", "job", "recheck"}]
        /\ \A t \in Service \ {s} : timer'[t] = timer[t]
    BY <1>0, Armed
  <1>3. /\ tick' \in [Service -> Tick] /\ tick'[s].pc = "idle" /\ tick'[s].todo = {}
        /\ \A t \in Service \ {s} : tick'[t] = tick[t]
    BY <1>0, Idle DEF Types
  <1>4. Types'
    BY <1>0, <1>2, <1>3 DEF Types
  <1>5. OnlyOf(s)
    BY <1>2, <1>3 DEF OnlyOf
  <1>6. Services' /\ Recorded'
    <2>1. loaded(s)' /\ mem'[s] \in Store
      BY <1>1 DEF loaded
    <2>2. DOMAIN mem'[s] \subseteq DOMAIN known'
      BY <1>0, <1>1 DEF Recorded
    <2>3. DOMAIN disk' \subseteq DOMAIN known'
      BY <1>0 DEF Recorded
    <2> QED  BY <1>0, <1>5, <2>1, <2>2, <2>3, SectionServices, SectionRecorded
  <1>7. ASSUME ~shared PROVE Kept' /\ Planned' /\ Marked'
    <2>0. Kept /\ Planned /\ Marked /\ s = latest
      BY <1>7 DEF IInv, Kept
    <2>1. Kept'
      BY <2>0 DEF Kept, loaded
    <2>2. \A r \in runs : r.by # "tick"
      BY <1>1, <2>0 DEF Planned
    <2>3. tick[s].todo = {}
      BY <1>1, <2>0 DEF Planned
    <2>4. Planned'
      BY <1>3, <2>0, <2>2 DEF Planned
    <2>5. Marked'
      BY <1>3, <2>0, <2>3 DEF Marked, busy, loaded
    <2> QED  BY <2>1, <2>4, <2>5
  <1> QED  BY <1>4, <1>6, <1>7 DEF IInv

\* The run that a plan starts.
LEMMA Begun ==
    ASSUME NEW s \in Service, NEW by \in {"tick", "start", "manual"}, NEW j \in Job,
           NEW t \in Time
    PROVE  /\ begin(s, by, j, t) \in Run /\ begin(s, by, j, t).svc = s
           /\ begin(s, by, j, t).by = by /\ begin(s, by, j, t).job = j
           /\ begin(s, by, j, t).out = "going"
PROOF
  BY DEF begin, Run

\* A worker of the tick starts a job.
LEMMA RunDueJobKeeps == ASSUME IInv, NEW s \in alive, runDueJob(s) PROVE IInv'
PROOF
  <1>0. Types /\ Services /\ Recorded /\ s \in Service
    BY DEF IInv, Types
  <1>1. PICK j \in tick[s].todo :
            /\ tick' = [tick EXCEPT ![s].todo = @ \ {j}]
            /\ runs' = runs \cup {begin(s, "tick", j, now)}
            /\ mem' = IF tick[s].held /\ j \in DOMAIN mem[s] THEN [mem EXCEPT ![s][j].mark = now]
                      ELSE mem
            /\ UNCHANGED <<now, disk, latest, alive, timer, boot, manual, ops, known, freed, shared>>
    BY DEF runDueJob
  <1> DEFINE b == tick[s]
             w == [b EXCEPT !.todo = b.todo \ {j}]
             new == begin(s, "tick", j, now)
  <1>2. b \in Tick /\ j \in Job /\ now \in Time
    BY <1>0 DEF Types, Tick
  <1>3. loaded(s) /\ mem[s] \in Store
    BY <1>0, <1>1, Idle DEF Services
  <1>4. w \in Tick /\ w.pc = b.pc /\ w.todo = b.todo \ {j}
    <2> HIDE DEF b
    <2> QED  BY <1>2 DEF Tick
  <1>5. tick' = [tick EXCEPT ![s] = w]
    BY <1>1
  <1>6. new \in Run /\ new.svc = s /\ new.by = "tick" /\ new.job = j /\ new.out = "going"
    BY <1>0, <1>2, Begun
  <1> HIDE DEF w, new
  <1>7. /\ tick' \in [Service -> Tick] /\ tick'[s].pc = tick[s].pc
        /\ tick'[s].todo = tick[s].todo \ {j}
        /\ \A t \in Service \ {s} : tick'[t] = tick[t]
    BY <1>0, <1>4, <1>5 DEF Types
  <1>8. /\ mem' \in [Service -> Store \cup {NoStore}] /\ mem'[s] \in Store
        /\ \A t \in Service \ {s} : mem'[t] = mem[t]
        /\ AsFiled(mem'[s], mem[s])
        /\ \A k \in DOMAIN mem[s] : mem[s][k].mark # None => mem'[s][k].mark # None
    <2>1. CASE tick[s].held /\ j \in DOMAIN mem[s]
      <3> DEFINE m == mem[s]
                 r == [m[j] EXCEPT !.mark = now]
                 n == [m EXCEPT ![j] = r]
      <3>1. m \in Store /\ m[j] \in JobState
        BY <1>3, <2>1, StoreShape
      <3>2. /\ r \in JobState /\ r.next = m[j].next /\ r.mark = now /\ r.on = m[j].on
            /\ r.at = m[j].at /\ r.last = m[j].last /\ r.st = m[j].st /\ r.errs = m[j].errs
        BY <1>2, <3>1, MarkWritten
      <3>3. mem' = [mem EXCEPT ![s] = n]
        BY <1>1, <2>1
      <3> HIDE DEF r
      <3>4. /\ n \in Store /\ DOMAIN n = DOMAIN m /\ n[j] = r
            /\ \A k \in DOMAIN m \ {j} : n[k] = m[k]
        BY <2>1, <3>1, <3>2, JobReplaced
      <3> HIDE DEF n
      <3>5. AsFiled(n, m)
        <4>1. SameJobs(n, m)
          <5> HIDE DEF m
          <5> QED  BY <3>2, <3>4 DEF SameJobs
        <4> HIDE DEF m
        <4> QED  BY <3>2, <3>4, <4>1 DEF AsFiled
      <3>6. \A k \in DOMAIN m : m[k].mark # None => n[k].mark # None
        <4> HIDE DEF m
        <4> QED  BY <1>2, <3>2, <3>4, Numbers DEF Time, None
      <3>7. mem'[s] = n /\ \A t \in Service \ {s} : mem'[t] = mem[t]
        BY <1>0, <3>3 DEF Types
      <3> QED  BY <1>0, <3>3, <3>4, <3>5, <3>6, <3>7 DEF Types
    <2>2. CASE ~(tick[s].held /\ j \in DOMAIN mem[s])
      <3>1. mem' = mem
        BY <1>1, <2>2
      <3>2. AsFiled(mem[s], mem[s])
        BY DEF AsFiled, SameJobs
      <3> QED  BY <1>0, <1>3, <3>1, <3>2 DEF Types
    <2> QED  BY <2>1, <2>2
  <1>9. Types'
    <2>1. runs' \in SUBSET Run /\ \A r \in runs' : r.out # "going" => r.end \in Time
      BY <1>0, <1>1, <1>6 DEF Types, new
    <2> QED  BY <1>0, <1>1, <1>7, <1>8, <2>1 DEF Types
  <1>10. OnlyOf(s)
    BY <1>1, <1>7, <1>8 DEF OnlyOf
  <1>11. Services' /\ Recorded'
    <2>1. loaded(s)'
      BY <1>1, <1>3 DEF loaded
    <2>2. DOMAIN mem'[s] \subseteq DOMAIN known'
      BY <1>0, <1>1, <1>3, <1>8 DEF Recorded, AsFiled, SameJobs
    <2>3. DOMAIN disk' \subseteq DOMAIN known'
      BY <1>0, <1>1 DEF Recorded
    <2> QED  BY <1>0, <1>1, <1>8, <1>10, <2>1, <2>2, <2>3, SectionServices, SectionRecorded
  <1>12. ASSUME ~shared PROVE Kept' /\ Planned' /\ Marked'
    <2>0. Kept /\ Planned /\ Marked /\ s = latest
      BY <1>12 DEF IInv, Kept
    <2>1. Kept'
      <3>1. AsFiled(mem[s], disk)
        BY <1>3, <2>0 DEF Kept
      <3>2. AsFiled(mem'[s], disk)
        BY <1>8, <3>1, AsFiledTwice
      <3> QED  BY <1>1, <2>0, <3>2 DEF Kept
    <2>2. tick[s].pc = "run" /\ j \in DOMAIN known
      BY <1>1, <2>0 DEF Planned
    <2>3. \A r \in runs : r.by = "tick" => r.job # j
      BY <1>1, <2>0 DEF Planned
    <2>4. Planned'
      <3>1. \A r \in runs' :
              /\ r.svc = latest' /\ r.job \in DOMAIN known'
              /\ r.by = "tick" => tick'[latest].pc = "run" /\ r.job \notin tick'[latest].todo
              /\ r.by = "start" => boot[latest].phase = "catchup"
                                   /\ r.job \notin ToSet(boot[latest].todo)
              /\ r.by = "manual" => manual[latest].pc = "run" /\ manual[latest].job = r.job
        BY <1>1, <1>6, <1>7, <2>0, <2>2 DEF Planned, new
      <3>2. \A q, r \in runs' : q.by = r.by /\ q.job = r.job => q = r
        BY <1>1, <1>6, <2>0, <2>3 DEF Planned, new
      <3> QED  BY <1>1, <1>7, <2>0, <2>2, <3>1, <3>2 DEF Planned
    <2>5. Marked'
      <3>1. ASSUME NEW k \in Job \ freed
            PROVE  /\ \A q, r \in runs' : q.job = k /\ r.job = k => q = r
                   /\ \A r \in runs' : r.job = k =>
                        k \notin tick'[latest].todo /\ k \notin ToSet(boot[latest].todo)
                   /\ k \in tick'[latest].todo => k \notin ToSet(boot[latest].todo)
                   /\ busy(k)' => busy(k)
        <4>1. k = j => \A r \in runs : r.job # k
          BY <1>1, <2>0, <3>1 DEF Marked
        <4>2. k = j => k \notin ToSet(boot[latest].todo)
          BY <1>1, <2>0, <3>1 DEF Marked
        <4>3. \A r \in runs' : r = new \/ r \in runs
          BY <1>1 DEF new
        <4>4. busy(k)' => busy(k)
          BY <1>1, <1>6, <1>7, <2>0, <4>3 DEF busy
        <4> QED  BY <1>6, <1>7, <2>0, <3>1, <4>1, <4>2, <4>3, <4>4 DEF Marked
      <3>2. ASSUME NEW k \in Job \ freed, busy(k)
            PROVE  /\ k \in DOMAIN disk => disk[k].mark # None
                   /\ loaded(latest) /\ k \in DOMAIN mem'[latest] => mem'[latest][k].mark # None
        BY <1>8, <2>0, <3>2 DEF Marked, AsFiled, SameJobs
      <3> QED  BY <1>1, <3>1, <3>2 DEF Marked, loaded
    <2> QED  BY <2>1, <2>4, <2>5
  <1> QED  BY <1>1, <1>9, <1>11, <1>12 DEF IInv

\* The catch-up starts the next job of its plan.
LEMMA RunStartupCatchupCandidateKeeps ==
    ASSUME IInv, NEW s \in alive, runStartupCatchupCandidate(s) PROVE IInv'
PROOF
  <1>0. Types /\ Services /\ Recorded /\ s \in Service
    BY DEF IInv, Types
  <1> DEFINE b == boot[s]
             q == b.todo
             w == [b EXCEPT !.todo = Tail(q)]
             j == Head(q)
             new == begin(s, "start", j, now)
  <1>1. /\ b.phase = "catchup" /\ q # <<>>
        /\ runs' = runs \cup {new}
        /\ boot' = [boot EXCEPT ![s] = w]
        /\ UNCHANGED <<now, disk, mem, latest, alive, timer, tick, manual, ops, known, freed, shared>>
    BY DEF runStartupCatchupCandidate, store
  <1>2. b \in Boot /\ q \in Seq(Job) /\ now \in Time
    BY <1>0 DEF Types, Boot
  <1>3. /\ j \in Job /\ Tail(q) \in Seq(Job) /\ j \in ToSet(q)
        /\ ToSet(Tail(q)) \subseteq ToSet(q)
        /\ IsInjective(q) => j \notin ToSet(Tail(q)) /\ IsInjective(Tail(q))
    <2> HIDE DEF q
    <2>1. Len(q) \in Nat /\ Len(q) > 0 /\ DOMAIN q = 1 .. Len(q) /\ j = q[1]
      BY <1>1, <1>2
    <2>2. /\ Tail(q) \in Seq(Job) /\ DOMAIN Tail(q) = 1 .. (Len(q) - 1)
          /\ \A i \in 1 .. (Len(q) - 1) : Tail(q)[i] = q[i + 1] /\ i + 1 \in 1 .. Len(q) /\ i + 1 # 1
      BY <1>1, <1>2, <2>1
    <2>3. j \in Job /\ j \in ToSet(q)
      BY <1>2, <2>1 DEF ToSet
    <2>4. ToSet(Tail(q)) \subseteq ToSet(q)
      BY <2>1, <2>2 DEF ToSet
    <2>5. ASSUME IsInjective(q)
          PROVE  j \notin ToSet(Tail(q)) /\ IsInjective(Tail(q))
      <3>1. \A i \in 1 .. (Len(q) - 1) : Tail(q)[i] # q[1]
        BY <2>1, <2>2, <2>5 DEF IsInjective
      <3>2. ASSUME NEW i \in 1 .. (Len(q) - 1), NEW k \in 1 .. (Len(q) - 1), Tail(q)[i] = Tail(q)[k]
            PROVE  i = k
        <4>1. q[i + 1] = q[k + 1] /\ i + 1 \in DOMAIN q /\ k + 1 \in DOMAIN q
          BY <2>1, <2>2, <3>2
        <4>2. i + 1 = k + 1
          BY <2>5, <4>1 DEF IsInjective
        <4> QED  BY <2>1, <4>2
      <3> QED  BY <2>1, <2>2, <3>1, <3>2 DEF ToSet, IsInjective
    <2> QED  BY <2>2, <2>3, <2>4, <2>5
  <1>4. w \in Boot /\ w.phase = "catchup" /\ w.todo = Tail(q)
    <2> HIDE DEF b
    <2> QED  BY <1>1, <1>2, <1>3 DEF Boot
  <1>5. new \in Run /\ new.svc = s /\ new.by = "start" /\ new.job = j /\ new.out = "going"
    BY <1>0, <1>2, <1>3, Begun
  <1> HIDE DEF w, new, j
  <1>6. /\ boot' \in [Service -> Boot] /\ boot'[s].phase = "catchup" /\ boot'[s].todo = Tail(q)
        /\ \A t \in Service \ {s} : boot'[t] = boot[t]
    BY <1>0, <1>1, <1>4 DEF Types
  <1>7. loaded(s) /\ loaded(s)' /\ mem'[s] \in Store
    BY <1>0, <1>1, <1>6 DEF Services, loaded
  <1>8. Types'
    <2>1. runs' \in SUBSET Run /\ \A r \in runs' : r.out # "going" => r.end \in Time
      BY <1>0, <1>1, <1>5 DEF Types
    <2> QED  BY <1>0, <1>1, <1>6, <2>1 DEF Types
  <1>9. OnlyOf(s)
    BY <1>1, <1>6 DEF OnlyOf
  <1>10. Services' /\ Recorded'
    <2>1. DOMAIN mem'[s] \subseteq DOMAIN known' /\ DOMAIN disk' \subseteq DOMAIN known'
      BY <1>0, <1>1, <1>7 DEF Recorded
    <2> QED  BY <1>0, <1>1, <1>7, <1>9, <2>1, SectionServices, SectionRecorded
  <1>11. ASSUME ~shared PROVE Kept' /\ Planned' /\ Marked'
    <2>0. Kept /\ Planned /\ Marked /\ s = latest
      BY <1>11 DEF IInv, Kept
    <2>1. Kept'
      BY <1>1, <1>7, <2>0 DEF Kept, loaded
    <2> DEFINE plan == ToSet(boot[latest].todo)
               planN == ToSet(boot'[latest].todo)
    <2>2. planN \subseteq plan /\ j \in plan /\ j \notin planN /\ plan \subseteq DOMAIN known
          /\ IsInjective(boot'[latest].todo)
      BY <1>3, <1>6, <2>0 DEF Planned
    <2>3. \A r \in runs : r.by = "start" => r.job # j /\ r.job \notin planN
      BY <2>0, <2>2 DEF Planned
    <2>4. Planned'
      <3>1. \A r \in runs' :
              /\ r.svc = latest' /\ r.job \in DOMAIN known'
              /\ r.by = "tick" => tick'[latest].pc = "run" /\ r.job \notin tick'[latest].todo
              /\ r.by = "start" => boot'[latest].phase = "catchup" /\ r.job \notin planN
              /\ r.by = "manual" => manual[latest].pc = "run" /\ manual[latest].job = r.job
        <4> HIDE DEF planN
        <4> QED  BY <1>1, <1>5, <1>6, <2>0, <2>2, <2>3 DEF Planned
      <3>2. \A p, r \in runs' : p.by = r.by /\ p.job = r.job => p = r
        BY <1>1, <1>5, <2>0, <2>3 DEF Planned
      <3>3. ToSet(boot'[latest].todo) \subseteq DOMAIN known'
        BY <1>1, <2>2
      <3> QED  BY <1>1, <1>6, <2>0, <2>2, <3>1, <3>2, <3>3 DEF Planned
    <2>5. Marked'
      <3>1. ASSUME NEW k \in Job \ freed
            PROVE  /\ \A p, r \in runs' : p.job = k /\ r.job = k => p = r
                   /\ \A r \in runs' : r.job = k => k \notin tick'[latest].todo /\ k \notin planN
                   /\ k \in tick'[latest].todo => k \notin planN
                   /\ busy(k)' => busy(k)
        <4>0. busy(k) <=> (\E r \in runs : r.job = k) \/ k \in tick[latest].todo \/ k \in plan
          BY DEF busy
        <4>00. busy(k)' <=> (\E r \in runs' : r.job = k) \/ k \in tick[latest].todo \/ k \in planN
          BY <1>1 DEF busy
        <4>1. /\ \A p, r \in runs : p.job = k /\ r.job = k => p = r
              /\ \A r \in runs : r.job = k => k \notin tick[latest].todo /\ k \notin plan
              /\ k \in tick[latest].todo => k \notin plan
          BY <2>0, <3>1 DEF Marked
        <4> HIDE DEF plan, planN
        <4>2. k = j => k \notin tick[latest].todo /\ \A r \in runs : r.job # k
          BY <2>2, <4>1
        <4> QED  BY <1>1, <1>5, <2>2, <4>0, <4>00, <4>1, <4>2
      <3>2. ASSUME NEW k \in Job \ freed, busy(k)
            PROVE  /\ k \in DOMAIN disk => disk[k].mark # None
                   /\ loaded(latest) /\ k \in DOMAIN mem[latest] => mem[latest][k].mark # None
        BY <2>0, <3>2 DEF Marked
      <3> QED  BY <1>1, <1>7, <2>0, <3>1, <3>2 DEF Marked, loaded
    <2> QED  BY <2>1, <2>4, <2>5
  <1> QED  BY <1>1, <1>8, <1>10, <1>11 DEF IInv

\* A run ends.
LEMMA ExecuteJobCoreWithTimeoutKeeps == ASSUME IInv, executeJobCoreWithTimeout PROVE IInv'
PROOF
  <1> USE DEF store, control
  <1>1. PICK ran \in runs, out \in Outcome :
            /\ ran.out = "going"
            /\ runs' = (runs \ {ran}) \cup {[ran EXCEPT !.end = now, !.out = out]}
            /\ UNCHANGED <<now, store, control, ops, known, freed, shared>>
    BY DEF executeJobCoreWithTimeout
  <1> DEFINE new == [ran EXCEPT !.end = now, !.out = out]
  <1>2. ran \in Run /\ now \in Time /\ out \in Outcome
    BY <1>1 DEF IInv, Types
  <1>3. /\ new \in Run /\ new.end \in Time /\ new.svc = ran.svc /\ new.by = ran.by
        /\ new.job = ran.job
    BY <1>2 DEF Run
  <1>4. runs' = (runs \ {ran}) \cup {new}
    BY <1>1
  <1> HIDE DEF new
  <1>5. Types'
    <2>1. runs' \in SUBSET Run /\ \A r \in runs' : r.out # "going" => r.end \in Time
      BY <1>1, <1>3, <1>4 DEF IInv, Types
    <2> QED  BY <1>1, <2>1 DEF IInv, Types
  <1>6. Services' /\ Recorded'
    BY <1>1 DEF IInv, Services, Recorded, loaded
  <1>7. ASSUME ~shared PROVE Kept' /\ Planned' /\ Marked'
    <2>0. Kept /\ Planned /\ Marked
      BY <1>7 DEF IInv
    <2>1. Kept'
      BY <1>1, <2>0 DEF Kept, loaded
    <2>2. Planned'
      <3>1. \A r \in runs' : \E p \in runs : p.svc = r.svc /\ p.by = r.by /\ p.job = r.job
        BY <1>1, <1>3, <1>4
      <3>2. \A q, r \in runs' : q.by = r.by /\ q.job = r.job => q = r
        BY <1>1, <1>3, <1>4, <2>0 DEF Planned
      <3> QED  BY <1>1, <2>0, <3>1, <3>2 DEF Planned
    <2>3. Marked'
      <3>1. \A k : busy(k)' <=> busy(k)
        BY <1>1, <1>3, <1>4 DEF busy
      <3>2. ASSUME NEW k \in Job \ freed
            PROVE  /\ \A q, r \in runs' : q.job = k /\ r.job = k => q = r
                   /\ \A r \in runs' : r.job = k => \E p \in runs : p.job = k
        BY <1>1, <1>3, <1>4, <2>0 DEF Marked
      <3> QED  BY <1>1, <2>0, <3>1, <3>2 DEF Marked, loaded
    <2> QED  BY <2>1, <2>2, <2>3
  <1> QED  BY <1>1, <1>5, <1>6, <1>7 DEF IInv

\* The store that the results of runs leave, after the maintenance pass, has
\* the jobs of the history that forgets the completed ones.
LEMMA OutcomesListed ==
    ASSUME Types, NEW m \in Store, NEW done, Ended(done), NEW force,
           \A q, r \in done : q.job = r.job => q = r,
           Listed(m, known)
    PROVE  Listed(applyOutcomes(m, done, force), forget(completed(m, done)))
PROOF
  <1> DEFINE n == applyOutcomes(m, done, force)
             gone == completed(m, done)
             h == forget(gone)
  <1>1. DOMAIN n = DOMAIN m \ gone /\ \A j \in DOMAIN n : n[j].at = m[j].at
    <2>1. n = applyOutcomes(m, done, force)
      OBVIOUS
    <2> HIDE DEF n
    <2>2. Applied(n, m, done)
      BY <2>1, OutcomesApplied
    <2> QED  BY <2>2 DEF gone, Applied
  <1>2. /\ DOMAIN h = DOMAIN known
        /\ \A j \in DOMAIN known : h[j] = IF j \in gone THEN Gone ELSE known[j]
    BY Forgotten DEF Types
  <1> HIDE DEF n, gone, h
  <1>3. DOMAIN n = {j \in DOMAIN h : h[j] # Gone}
    BY <1>1, <1>2 DEF Listed
  <1>4. \A j \in DOMAIN n : n[j].at = h[j]
    BY <1>1, <1>2 DEF Listed
  <1> QED  BY <1>3, <1>4 DEF Listed, n, gone, h

\* A job that stays busy while results are applied has none of them.
LEMMA StillBusy ==
    ASSUME Types, Marked, NEW done \in SUBSET runs, runs' = runs \ done,
           latest' = latest,
           tick'[latest].todo \subseteq tick[latest].todo,
           ToSet(boot'[latest].todo) \subseteq ToSet(boot[latest].todo),
           NEW j \in Job \ freed, busy(j)'
    PROVE  busy(j) /\ \A ran \in done : ran.job # j
PROOF
  <1> DEFINE todo == tick[latest].todo
             plan == ToSet(boot[latest].todo)
             todoN == tick'[latest].todo
             planN == ToSet(boot'[latest].todo)
  <1>1. /\ \A q, r \in runs : q.job = j /\ r.job = j => q = r
        /\ \A r \in runs : r.job = j => j \notin todo /\ j \notin plan
    BY DEF Marked
  <1>2. todoN \subseteq todo /\ planN \subseteq plan
    OBVIOUS
  <1>3. (\E r \in runs' : r.job = j) \/ j \in todoN \/ j \in planN
    BY DEF busy
  <1>4. busy(j) <=> (\E r \in runs : r.job = j) \/ j \in todo \/ j \in plan
    BY DEF busy
  <1> HIDE DEF todo, plan, todoN, planN
  <1> QED  BY <1>1, <1>2, <1>3, <1>4

-----------------------------------------------------------------------------
(* start().                                                                *)

\* The marks found on file are cleared.
LEMMA ClearStaleMarksKeeps == ASSUME IInv, NEW s \in alive, clearStaleMarks(s) PROVE IInv'
PROOF
  <1>0. Types /\ Services /\ Recorded /\ s \in Service /\ disk \in Store
    BY DEF IInv, Types
  <1> DEFINE stale == {j \in DOMAIN disk : disk[j].mark # None}
             n == [j \in DOMAIN disk |-> [disk[j] EXCEPT !.mark = None]]
             b == boot[s]
             w == [[b EXCEPT !.phase = "plan"] EXCEPT !.skip = stale]
  <1>1. /\ b.phase = "new" /\ persist(s, n)
        /\ boot' = [boot EXCEPT ![s] = w]
        /\ freeing(stale)
        /\ UNCHANGED <<now, latest, alive, timer, tick, manual, runs, ops, known, shared>>
    <2>1. boot' = [boot EXCEPT ![s].phase = "plan", ![s].skip = stale]
      BY DEF clearStaleMarks
    <2>2. boot' = [boot EXCEPT ![s] = w]
      <3> HIDE DEF stale
      <3> QED  BY <2>1
    <2> QED  BY <2>2 DEF clearStaleMarks
  <1>2. n \in Store /\ AsFiled(n, disk)
    <2>1. n = [j \in DOMAIN disk |-> IF j \in DOMAIN disk THEN [disk[j] EXCEPT !.mark = None]
                                     ELSE disk[j]]
      OBVIOUS
    <2> HIDE DEF n
    <2> QED  BY <1>0, <2>1, MarksWritten
  <1>3. stale \subseteq Job
    BY <1>0, StoreShape
  <1>4. w \in Boot /\ w.phase = "plan" /\ w.todo = b.todo
    <2>1. b \in Boot
      BY <1>0 DEF Types
    <2> DEFINE v == [b EXCEPT !.phase = "plan"]
    <2>2. v \in Boot /\ v.phase = "plan" /\ v.todo = b.todo
      <3> HIDE DEF b
      <3> QED  BY <2>1, PhaseTaken DEF Phase
    <2>3. w = [v EXCEPT !.skip = stale]
      OBVIOUS
    <2> HIDE DEF v, stale, w
    <2> QED  BY <1>3, <2>2, <2>3 DEF Boot
  <1> HIDE DEF w, n, stale
  <1>5. /\ disk' = n /\ mem'[s] = n /\ mem' \in [Service -> Store \cup {NoStore}]
        /\ \A t \in Service \ {s} : mem'[t] = mem[t]
    BY <1>0, <1>1, <1>2, Persisted
  <1>6. /\ boot' \in [Service -> Boot] /\ boot'[s].phase = "plan" /\ boot'[s].todo = boot[s].todo
        /\ \A t \in Service \ {s} : boot'[t] = boot[t]
    BY <1>0, <1>1, <1>4 DEF Types
  <1>7. loaded(s)'
    BY <1>6 DEF loaded
  <1>8. Types'
    <2>1. freed' \in SUBSET Job
      BY <1>0, <1>1, <1>3 DEF Types, freeing
    <2> QED  BY <1>0, <1>1, <1>2, <1>5, <1>6, <2>1 DEF Types
  <1>9. OnlyOf(s)
    BY <1>1, <1>5, <1>6 DEF OnlyOf
  <1>10. Services' /\ Recorded'
    <2>1. DOMAIN n \subseteq DOMAIN known'
      BY <1>0, <1>1, <1>2 DEF Recorded, AsFiled, SameJobs
    <2>2. DOMAIN known \subseteq DOMAIN known'
      BY <1>1
    <2> QED  BY <1>0, <1>2, <1>5, <1>7, <1>9, <2>1, <2>2, SectionServices, SectionRecorded
  <1>11. ASSUME ~shared PROVE Kept' /\ Planned' /\ Marked'
    <2>0. Kept /\ Planned /\ Marked /\ s = latest
      BY <1>11 DEF IInv, Kept
    <2>1. tick[s] = NoTick /\ manual[s] = NoManual
      BY <1>0, <1>1 DEF Services, loaded
    <2>2. runs = {}
      BY <1>0, <1>1, <2>0, <2>1, Idle DEF Planned, Types, Run
    <2>3. tick[s].todo = {} /\ boot[s].todo = <<>>
      BY <1>1, <2>0, <2>1, Idle DEF Planned
    <2>4. Kept'
      <3>1. Listed(n, known')
        BY <1>1, <1>2, <2>0, KeptListed, SameListed DEF AsFiled
      <3> QED  BY <1>0, <1>1, <1>2, <2>0, <3>1, PersistKept
    <2>5. Planned'
      BY <1>1, <1>6, <2>0, <2>2, <2>3 DEF Planned
    <2>6. \A j : ~busy(j)'
      BY <1>1, <1>6, <2>0, <2>2, <2>3, Idle DEF busy
    <2>7. runs' \subseteq runs /\ tick'[latest].todo \subseteq tick[latest].todo
          /\ ToSet(boot'[latest].todo) \subseteq ToSet(boot[latest].todo)
      BY <1>1, <1>6, <2>0
    <2>8. Marked'
      BY <1>0, <1>1, <2>0, <2>6, <2>7, MarkedAfter
    <2> QED  BY <2>4, <2>5, <2>8
  <1> QED  BY <1>1, <1>8, <1>10, <1>11 DEF IInv

\* The plan of the catch-up: two parts of one sequence without repetitions.
LEMMA PlanCut ==
    ASSUME NEW S \in SUBSET Job, NEW q \in SetToSeqs(S), NEW n \in 0 .. Len(q)
    PROVE  /\ SubSeq(q, 1, n) \in Seq(Job) /\ IsInjective(SubSeq(q, 1, n))
           /\ ToSet(SubSeq(q, 1, n)) \subseteq S
           /\ SubSeq(q, n + 1, Len(q)) \in Seq(Job)
           /\ Len(SubSeq(q, n + 1, Len(q))) <= Cardinality(Job)
PROOF
  <1> DEFINE c == Cardinality(S)
  <1>1. IsFiniteSet(S) /\ c \in Nat /\ c <= Cardinality(Job)
    BY CronAssumption, FS_Subset, FS_CardinalityType
  <1>2. q \in [1 .. c -> S] /\ \A i, k \in 1 .. c : i # k => q[i] # q[k]
    BY DEF SetToSeqs
  <1> HIDE DEF c
  <1>3. q \in Seq(S) /\ q \in Seq(Job) /\ Len(q) = c /\ DOMAIN q = 1 .. c
    BY <1>1, <1>2
  <1> DEFINE front == SubSeq(q, 1, n)
             back == SubSeq(q, n + 1, Len(q))
  <1>4. front \in Seq(Job) /\ DOMAIN front = 1 .. n /\ \A i \in 1 .. n : front[i] = q[i] /\ i \in 1 .. c
    BY <1>1, <1>3
  <1>5. back \in Seq(Job) /\ Len(back) = c - n
    BY <1>1, <1>3
  <1> HIDE DEF front, back
  <1>6. IsInjective(front)
    BY <1>2, <1>4 DEF IsInjective
  <1>7. ToSet(front) \subseteq S
    BY <1>2, <1>4 DEF ToSet
  <1>8. Len(back) <= Cardinality(Job)
    BY <1>1, <1>3, <1>5, Numbers
  <1> QED  BY <1>4, <1>5, <1>6, <1>7, <1>8 DEF front, back

\* The plan of the catch-up.
LEMMA PlanStartupCatchupKeeps == ASSUME IInv, NEW s \in alive, planStartupCatchup(s) PROVE IInv'
PROOF
  <1>0. Types /\ Services /\ Recorded /\ s \in Service
    BY DEF IInv, Types
  <1> DEFINE b == boot[s]
             m == mem[s]
             missed == {j \in DOMAIN m \ b.skip : isMissed(j, m[j], now)}
             first(q) == IF Len(q) > MaxImmediate THEN MaxImmediate ELSE Len(q)
             todo(q) == SubSeq(q, 1, first(q))
             later(q) == SubSeq(q, first(q) + 1, Len(q))
             n(q) == [j \in DOMAIN m |-> IF j \in ToSet(todo(q)) THEN [m[j] EXCEPT !.mark = now] ELSE m[j]]
             w(q) == [[[b EXCEPT !.phase = "catchup"] EXCEPT !.todo = todo(q)] EXCEPT !.later = later(q)]
  <1>1. b.phase = "plan" /\ b \in Boot /\ m \in Store /\ loaded(s) /\ now \in Time
    BY <1>0 DEF planStartupCatchup, Types, Services, loaded
  <1>2. UNCHANGED <<now, latest, alive, timer, tick, manual, runs, ops, known, freed, shared>>
    BY DEF planStartupCatchup
  <1>3. CASE missed = {}
    <2> DEFINE v == [b EXCEPT !.phase = "final"]
    <2>1. boot' = [boot EXCEPT ![s] = v] /\ UNCHANGED <<disk, mem>>
      BY <1>3 DEF planStartupCatchup, store
    <2>2. v \in Boot /\ v.phase = "final" /\ v.todo = b.todo
      <3> HIDE DEF b
      <3> QED  BY <1>1, PhaseTaken DEF Phase
    <2> HIDE DEF v
    <2>3. /\ boot' \in [Service -> Boot] /\ boot'[s].phase = "final" /\ boot'[s].todo = boot[s].todo
          /\ \A t \in Service \ {s} : boot'[t] = boot[t]
      BY <1>0, <2>1, <2>2 DEF Types
    <2>4. Types'
      BY <1>0, <1>2, <2>1, <2>3 DEF Types
    <2>5. OnlyOf(s) /\ loaded(s)' /\ mem'[s] \in Store
      BY <1>1, <1>2, <2>1, <2>3 DEF OnlyOf, loaded
    <2>6. Services' /\ Recorded'
      <3>1. DOMAIN mem'[s] \subseteq DOMAIN known' /\ DOMAIN disk' \subseteq DOMAIN known'
        BY <1>0, <1>1, <1>2, <2>1 DEF Recorded
      <3> QED  BY <1>0, <1>2, <2>5, <3>1, SectionServices, SectionRecorded
    <2>7. ASSUME ~shared PROVE Kept' /\ Planned' /\ Marked'
      <3>0. Kept /\ Planned /\ Marked /\ s = latest
        BY <2>7 DEF IInv, Kept
      <3>1. Kept'
        BY <1>1, <1>2, <2>1, <3>0 DEF Kept, loaded
      <3>2. Planned'
        BY <1>1, <1>2, <2>3, <3>0 DEF Planned
      <3>3. Marked'
        BY <1>1, <1>2, <2>1, <2>3, <3>0 DEF Marked, busy, loaded
      <3> QED  BY <3>1, <3>2, <3>3
    <2> QED  BY <1>2, <2>4, <2>6, <2>7 DEF IInv
  <1>4. CASE missed # {}
    <2>1. PICK q \in SetToSeqs(missed) : persist(s, n(q))
             /\ boot' = [boot EXCEPT ![s].phase = "catchup", ![s].todo = todo(q), ![s].later = later(q)]
      BY <1>4 DEF planStartupCatchup
    <2>2. missed \in SUBSET Job /\ missed \subseteq DOMAIN m
      BY <1>1, StoreShape
    <2>3. first(q) \in 0 .. Len(q)
      <3>1. Cardinality(missed) \in Nat
        BY <2>2, CronAssumption, FS_Subset, FS_CardinalityType
      <3>2. Len(q) \in Nat
        <4> HIDE DEF missed
        <4> QED  BY <3>1, <2>1 DEF SetToSeqs
      <3> QED  BY <3>2, Numbers
    <2> DEFINE plan == ToSet(todo(q))
               td == todo(q)
               lt == later(q)
               nq == n(q)
               wq == w(q)
    <2>4. /\ td \in Seq(Job) /\ IsInjective(td) /\ plan \subseteq missed
          /\ lt \in Seq(Job) /\ Len(lt) <= Cardinality(Job)
      <3> HIDE DEF missed, first
      <3> QED  BY <2>1, <2>2, <2>3, PlanCut
    <2>5. boot' = [boot EXCEPT ![s] = wq] /\ persist(s, nq)
      <3> HIDE DEF todo, later
      <3> QED  BY <2>1
    <2>6. wq \in Boot /\ wq.phase = "catchup" /\ wq.todo = td
      <3> DEFINE v == [b EXCEPT !.phase = "catchup"]
                 u == [v EXCEPT !.todo = td]
      <3>1. v \in Boot
        <4> HIDE DEF b
        <4> QED  BY <1>1, PhaseTaken DEF Phase
      <3>2. v.phase = "catchup"
        <4> HIDE DEF b
        <4> QED  BY <1>1, PhaseTaken DEF Phase
      <3>3. wq = [u EXCEPT !.later = lt]
        OBVIOUS
      <3> HIDE DEF v, wq, td, lt
      <3>4. u \in Boot /\ u.phase = "catchup" /\ u.todo = td
        BY <2>4, <3>1, <3>2 DEF Boot
      <3> HIDE DEF u
      <3> QED  BY <2>4, <3>3, <3>4 DEF Boot
    <2>7. /\ nq \in Store /\ AsFiled(nq, m)
          /\ \A j \in DOMAIN m : nq[j].mark = IF j \in plan THEN now ELSE m[j].mark
      <3>1. nq = [j \in DOMAIN m |-> IF j \in plan THEN [m[j] EXCEPT !.mark = now] ELSE m[j]]
        OBVIOUS
      <3> HIDE DEF nq, plan, m
      <3> QED  BY <1>1, <3>1, MarksWritten
    <2>8. td = todo(q) /\ plan = ToSet(td)
      OBVIOUS
    <2>9. \A j \in missed : m[j].mark = None
      BY DEF isMissed
    <2> HIDE DEF wq, nq, td, lt, missed, plan
    <2>10. /\ disk' = nq /\ mem'[s] = nq /\ mem' \in [Service -> Store \cup {NoStore}]
           /\ \A t \in Service \ {s} : mem'[t] = mem[t]
      BY <1>0, <2>5, <2>7, Persisted
    <2>11. /\ boot' \in [Service -> Boot] /\ boot'[s].phase = "catchup" /\ boot'[s].todo = td
           /\ \A t \in Service \ {s} : boot'[t] = boot[t]
      BY <1>0, <2>5, <2>6 DEF Types
    <2>12. Types'
      BY <1>0, <1>2, <2>7, <2>10, <2>11 DEF Types
    <2>13. OnlyOf(s) /\ loaded(s)' /\ mem'[s] \in Store
      BY <1>2, <2>7, <2>10, <2>11 DEF OnlyOf, loaded
    <2>14. DOMAIN m \subseteq DOMAIN known /\ DOMAIN nq = DOMAIN m
      BY <1>0, <1>1, <2>7 DEF Recorded, AsFiled, SameJobs
    <2>15. Services' /\ Recorded'
      BY <1>0, <1>2, <2>10, <2>13, <2>14, SectionServices, SectionRecorded
    <2>16. ASSUME ~shared PROVE Kept' /\ Planned' /\ Marked'
      <3>0. Kept /\ Planned /\ Marked /\ s = latest
        BY <2>16 DEF IInv, Kept
      <3>1. Kept'
        <4>1. Listed(nq, known')
          BY <1>1, <1>2, <2>7, <3>0, KeptListed, SameListed DEF AsFiled
        <4> QED  BY <1>0, <1>2, <2>5, <2>7, <3>0, <4>1, PersistKept
      <3>2. Planned'
        <4>1. \A r \in runs : r.by # "start"
          BY <1>1, <3>0 DEF Planned
        <4>2. ToSet(boot'[latest].todo) \subseteq DOMAIN known'
          BY <1>2, <2>2, <2>4, <2>8, <2>11, <2>14, <3>0
        <4>3. IsInjective(boot'[latest].todo)
          BY <2>4, <2>11, <3>0
        <4> QED  BY <1>2, <2>11, <3>0, <4>1, <4>2, <4>3 DEF Planned
      <3>3. Marked'
        <4>1. ToSet(boot[latest].todo) = {}
          BY <1>1, <3>0, Idle DEF Planned
        <4>2. ToSet(boot'[latest].todo) = plan
          BY <2>8, <2>11, <3>0
        <4>3. ASSUME NEW j \in Job \ freed, j \in plan
              PROVE  ~busy(j)
          <5>1. j \in DOMAIN m /\ m[j].mark = None
            BY <2>2, <2>4, <2>9, <4>3
          <5> QED  BY <1>1, <3>0, <4>3, <5>1 DEF Marked
        <4>4. ASSUME NEW j \in Job \ freed
              PROVE  /\ \A p, r \in runs : p.job = j /\ r.job = j => p = r
                     /\ \A r \in runs : r.job = j => j \notin tick[latest].todo /\ j \notin plan
                     /\ j \in tick[latest].todo => j \notin plan
                     /\ busy(j)' => busy(j) \/ j \in plan
          BY <1>2, <3>0, <4>2, <4>3 DEF Marked, busy
        <4>5. ASSUME NEW j \in Job \ freed, busy(j) \/ j \in plan
              PROVE  j \in DOMAIN nq => nq[j].mark # None
          <5>1. CASE j \in plan
            BY <1>1, <2>7, <2>14, <5>1, Numbers DEF Time, None
          <5>2. CASE j \notin plan
            BY <1>1, <2>7, <2>14, <3>0, <4>5, <5>2 DEF Marked
          <5> QED  BY <5>1, <5>2
        <4> QED  BY <1>2, <2>10, <3>0, <4>2, <4>4, <4>5 DEF Marked
      <3> QED  BY <3>1, <3>2, <3>3
    <2> QED  BY <1>2, <2>12, <2>15, <2>16 DEF IInv
  <1> QED  BY <1>3, <1>4

\* The runs of a service that have ended, and that are its own.
LEMMA EndedRuns ==
    ASSUME Types, NEW s, NEW by
    PROVE  /\ Ended(ended(s, by)) /\ ended(s, by) \subseteq runs
           /\ \A r \in runs : r \notin ended(s, by) /\ r.svc = s /\ r.by = by => r \in going(s, by)
           /\ \A r \in ended(s, by) : r.svc = s /\ r.by = by
PROOF
  BY DEF Types, Ended, ended, going

\* The results of the catch-up are applied to the copy in memory.
LEMMA ApplyStartupCatchupOutcomesKeeps ==
    ASSUME IInv, NEW s \in alive, applyStartupCatchupOutcomes(s) PROVE IInv'
PROOF
  <1>0. Types /\ Services /\ Recorded /\ s \in Service
    BY DEF IInv, Types
  <1> DEFINE b == boot[s]
             done == ended(s, "start")
             m == applyOutcomes(mem[s], done, FALSE)
             later == b.later
             valid == {i \in DOMAIN later : later[i] \in DOMAIN m /\ m[later[i]].on}
             n == [j \in DOMAIN m |->
                     IF \E k \in valid : later[k] = j
                     THEN [m[j] EXCEPT !.next = now + Stagger *
                              Cardinality({i \in valid : \E k \in valid : later[k] = j /\ i <= k})]
                     ELSE m[j]]
             final == recomputeNextRunsForMaintenance(n, now, FALSE)
             w == [[b EXCEPT !.phase = "caught"] EXCEPT !.later = <<>>]
  <1>1. /\ b.phase = "catchup" /\ b.todo = <<>> /\ going(s, "start") = {}
        /\ UNCHANGED <<now, latest, alive, timer, tick, manual, ops, shared>>
        /\ persist(s, final)
        /\ known' = forget(completed(mem[s], done))
        /\ runs' = runs \ done
        /\ boot' = [boot EXCEPT ![s].phase = "caught", ![s].later = <<>>]
        /\ freeing(losesMark(m, now))
    BY DEF applyStartupCatchupOutcomes
  <1>2. /\ b \in Boot /\ mem[s] \in Store /\ now \in Time /\ known \in History
        /\ later \in Seq(Job) /\ Len(later) <= Cardinality(Job)
    BY <1>0, <1>1 DEF Types, Services, loaded, Boot
  <1>3. /\ Ended(done) /\ done \subseteq runs
        /\ \A r \in runs : r \notin done /\ r.svc = s => r.by # "start"
        /\ \A r \in done : r.by = "start"
    BY <1>0, <1>1, EndedRuns
  <1>4. /\ m \in Store /\ DOMAIN m \subseteq DOMAIN mem[s]
        /\ \A j \in DOMAIN mem[s] : (\A ran \in done : ran.job # j) => j \in DOMAIN m /\ m[j] = mem[s][j]
    <2> DEFINE f == mem[s]
               x == m
    <2>1. x = applyOutcomes(f, done, FALSE)
      OBVIOUS
    <2>2. f \in Store
      BY <1>2
    <2> HIDE DEF done, x, m, f
    <2>3. Applied(x, f, done)
      BY <1>3, <2>1, <2>2, OutcomesApplied
    <2> QED  BY <2>3 DEF x, f, Applied
  <1>5. boot' = [boot EXCEPT ![s] = w]
    BY <1>1
  <1>6. w \in Boot /\ w.phase = "caught" /\ w.todo = b.todo
    <2> DEFINE v == [b EXCEPT !.phase = "caught"]
    <2>1. v \in Boot /\ v.phase = "caught" /\ v.todo = b.todo
      <3> HIDE DEF b
      <3> QED  BY <1>2, PhaseTaken DEF Phase
    <2>2. w = [v EXCEPT !.later = <<>>]
      OBVIOUS
    <2>3. <<>> \in {q \in Seq(Job) : Len(q) <= Cardinality(Job)}
      BY Numbers
    <2> HIDE DEF v, w
    <2> QED  BY <2>1, <2>2, <2>3 DEF Boot
  <1>7. n \in Store /\ SameJobs(n, m) /\ \A j \in DOMAIN m : n[j].mark = m[j].mark
    <2> DEFINE place(j) == {i \in valid : \E k \in valid : later[k] = j /\ i <= k}
               deferred(j) == \E k \in valid : later[k] = j
               x == n
    <2>1. x = [j \in DOMAIN m |-> IF deferred(j)
                                  THEN [m[j] EXCEPT !.next = now + Stagger * Cardinality(place(j))]
                                  ELSE m[j]]
      OBVIOUS
    <2>2. \A j : place(j) \in SUBSET DOMAIN later
      OBVIOUS
    <2> HIDE DEF x, m, place, deferred, later, n
    <2>3. DOMAIN x = DOMAIN m /\ DOMAIN m \subseteq Job /\ \A j \in DOMAIN m : m[j] \in JobState
      BY <1>4, <2>1, StoreShape
    <2>4. ASSUME NEW j \in DOMAIN m
          PROVE  /\ x[j] \in JobState /\ x[j].mark = m[j].mark
                 /\ x[j].on = m[j].on /\ x[j].at = m[j].at
                 /\ x[j].last = m[j].last /\ x[j].st = m[j].st /\ x[j].errs = m[j].errs
      <3>1. CASE deferred(j)
        <4> DEFINE time == now + Stagger * Cardinality(place(j))
        <4>1. x[j] = [m[j] EXCEPT !.next = time]
          BY <2>1, <3>1
        <4>2. time \in NextTime
          BY <1>2, <2>2, StaggeredTime
        <4> HIDE DEF time
        <4> QED  BY <2>3, <4>1, <4>2, NextWritten
      <3>2. CASE ~deferred(j)
        BY <2>1, <2>3, <3>2
      <3> QED  BY <3>1, <3>2
    <2>5. x \in [DOMAIN m -> JobState]
      BY <2>1, <2>3, <2>4
    <2>6. x \in Store
      BY <2>3, <2>5, StoreShape
    <2> QED  BY <2>3, <2>4, <2>6 DEF SameJobs, x
  <1> HIDE DEF n, w, later, valid
  <1>8. /\ final \in Store /\ SameJobs(final, n)
        /\ \A j \in DOMAIN n : final[j].mark = IF j \in losesMark(n, now) THEN None ELSE n[j].mark
    BY <1>2, <1>7, Maintained
  <1>9. DOMAIN final = DOMAIN m /\ SameJobs(final, m)
        /\ \A j \in DOMAIN m : j \notin losesMark(m, now) => final[j].mark = m[j].mark
    <2> HIDE DEF m, final
    <2>1. DOMAIN final = DOMAIN m /\ SameJobs(final, m)
      BY <1>7, <1>8 DEF SameJobs
    <2>2. losesMark(n, now) = losesMark(m, now)
      BY <1>7 DEF losesMark, SameJobs
    <2> QED  BY <1>7, <1>8, <2>1, <2>2 DEF SameJobs
  <1> HIDE DEF final
  <1>10. /\ disk' = final /\ mem'[s] = final /\ mem' \in [Service -> Store \cup {NoStore}]
         /\ \A t \in Service \ {s} : mem'[t] = mem[t]
    BY <1>0, <1>1, <1>8, Persisted
  <1>11. /\ boot' \in [Service -> Boot] /\ boot'[s].phase = "caught" /\ boot'[s].todo = <<>>
         /\ \A t \in Service \ {s} : boot'[t] = boot[t]
    BY <1>0, <1>1, <1>5, <1>6 DEF Types
  <1>12. known' \in History /\ DOMAIN known' = DOMAIN known
    BY <1>1, <1>2, Forgotten
  <1>13. Types'
    <2>1. losesMark(m, now) \subseteq Job
      BY <1>4, StoreShape DEF losesMark
    <2>2. freed' \in SUBSET Job
      BY <1>0, <1>1, <2>1 DEF Types, freeing
    <2>3. runs' \in SUBSET Run /\ \A r \in runs' : r.out # "going" => r.end \in Time
      BY <1>0, <1>1 DEF Types
    <2> QED  BY <1>0, <1>1, <1>8, <1>10, <1>11, <1>12, <2>2, <2>3 DEF Types
  <1>14. OnlyOf(s) /\ loaded(s)'
    BY <1>1, <1>10, <1>11 DEF OnlyOf, loaded
  <1>15. Services' /\ Recorded'
    <2>1. DOMAIN final \subseteq DOMAIN known
      BY <1>0, <1>1, <1>4, <1>9 DEF Recorded, loaded
    <2> QED  BY <1>0, <1>8, <1>10, <1>12, <1>14, <2>1, SectionServices, SectionRecorded
  <1>16. ASSUME ~shared PROVE Kept' /\ Planned' /\ Marked'
    <2>0. Kept /\ Planned /\ Marked /\ s = latest /\ loaded(s)
      BY <1>1, <1>16 DEF IInv, Kept, loaded
    <2>1. Kept'
      <3>1. \A q, r \in done : q.job = r.job => q = r
        BY <1>3, <2>0 DEF Planned
      <3>2. Listed(m, known')
        <4> DEFINE f == mem[s]
        <4>1. Listed(f, known)
          BY <2>0, KeptListed
        <4> HIDE DEF f, done
        <4>2. Listed(applyOutcomes(f, done, FALSE), forget(completed(f, done)))
          BY <1>0, <1>2, <1>3, <3>1, <4>1, OutcomesListed DEF f
        <4> QED  BY <1>1, <4>2 DEF f
      <3>3. Listed(final, known')
        BY <1>9, <3>2, SameListed
      <3> QED  BY <1>0, <1>1, <1>8, <2>0, <3>3, PersistKept
    <2>2. \A r \in runs' : r \in runs /\ r.by # "start"
      BY <1>1, <1>3, <2>0 DEF Planned
    <2>3. Planned'
      BY <1>1, <1>11, <1>12, <2>0, <2>2, Idle DEF Planned
    <2>4. /\ latest' = latest /\ runs' \subseteq runs
          /\ tick'[latest].todo \subseteq tick[latest].todo
          /\ ToSet(boot'[latest].todo) \subseteq ToSet(boot[latest].todo)
      BY <1>1, <1>11, <2>0
    <2>5. ASSUME NEW j \in Job \ (freed \cup losesMark(m, now)), busy(j)', j \in DOMAIN final
          PROVE  final[j].mark # None
      <3>1. busy(j) /\ \A ran \in done : ran.job # j
        BY <1>0, <1>1, <1>3, <2>0, <2>4, <2>5, StillBusy
      <3>2. j \in DOMAIN m /\ m[j] = mem[s][j] /\ j \in DOMAIN mem[s]
        BY <1>4, <1>9, <2>5, <3>1
      <3>3. mem[s][j].mark # None
        BY <2>0, <2>5, <3>1, <3>2 DEF Marked
      <3> QED  BY <1>9, <2>5, <3>2, <3>3
    <2>6. Marked'
      BY <1>0, <1>1, <1>10, <2>0, <2>4, <2>5, MarkedAfter
    <2> QED  BY <2>1, <2>3, <2>6
  <1> QED  BY <1>1, <1>13, <1>15, <1>16 DEF IInv

\* The full pass that ends start().
LEMMA FinishStartKeeps == ASSUME IInv, NEW s \in alive, finishStart(s) PROVE IInv'
PROOF
  <1>0. Types /\ Services /\ Recorded /\ s \in Service
    BY DEF IInv, Types
  <1> DEFINE f == mem[s]
             m == recomputeNextRuns(f, now)
             up == [NoBoot EXCEPT !.phase = "up"]
  <1>1. /\ boot[s].phase \in {"caught", "final"}
        /\ boot' = [boot EXCEPT ![s] = up]
        /\ UNCHANGED <<now, latest, alive, tick, manual, runs, ops, known, shared>>
        /\ IF m = f THEN UNCHANGED <<disk, mem>> ELSE persist(s, m)
        /\ armTimer(s, m)
        /\ freeing(losesMark(f, now))
    BY DEF finishStart, store
  <1>2. f \in Store /\ now \in Time /\ loaded(s)
    BY <1>0, <1>1 DEF Types, Services, loaded
  <1>3. up \in Boot /\ up.phase = "up" /\ up.todo = <<>>
    BY Idle DEF Phase
  <1> HIDE DEF up
  <1>4. /\ m \in Store /\ SameJobs(m, f)
        /\ \A j \in DOMAIN f : m[j].mark = IF j \in losesMark(f, now) THEN None ELSE f[j].mark
    BY <1>2, Recomputed
  <1>5. /\ disk' \in Store /\ mem'[s] = m /\ mem' \in [Service -> Store \cup {NoStore}]
        /\ \A t \in Service \ {s} : mem'[t] = mem[t]
        /\ disk' = disk \/ disk' = m
    <2>1. CASE m = f
      BY <1>0, <1>1, <2>1 DEF Types
    <2>2. CASE m # f
      <3>1. persist(s, m)
        BY <1>1, <2>2
      <3> HIDE DEF m
      <3> QED  BY <1>0, <1>4, <3>1, Persisted
    <2> QED  BY <2>1, <2>2
  <1>6. m = f => disk' = disk /\ mem' = mem
    BY <1>1
  <1>7. m # f => persist(s, m)
    BY <1>1
  <1> HIDE DEF m
  <1>8. /\ timer' \in [Service -> {"off", "job", "recheck"}]
        /\ \A t \in Service \ {s} : timer'[t] = timer[t]
    BY <1>0, <1>1, Armed
  <1>9. /\ boot' \in [Service -> Boot] /\ boot'[s].phase = "up" /\ boot'[s].todo = <<>>
        /\ \A t \in Service \ {s} : boot'[t] = boot[t]
    BY <1>0, <1>1, <1>3 DEF Types
  <1>10. Types'
    <2>1. losesMark(f, now) \subseteq Job
      BY <1>2, StoreShape DEF losesMark
    <2>2. freed' \in SUBSET Job
      BY <1>0, <1>1, <2>1 DEF Types, freeing
    <2> QED  BY <1>0, <1>1, <1>5, <1>8, <1>9, <2>2 DEF Types
  <1>11. OnlyOf(s) /\ loaded(s)'
    BY <1>1, <1>5, <1>8, <1>9 DEF OnlyOf, loaded
  <1>12. Services' /\ Recorded'
    <2>1. DOMAIN m \subseteq DOMAIN known /\ DOMAIN disk \subseteq DOMAIN known
      BY <1>0, <1>2, <1>4 DEF Recorded, SameJobs
    <2> QED  BY <1>0, <1>1, <1>4, <1>5, <1>11, <2>1, SectionServices, SectionRecorded
  <1>13. ASSUME ~shared PROVE Kept' /\ Planned' /\ Marked'
    <2>0. Kept /\ Planned /\ Marked /\ s = latest
      BY <1>13 DEF IInv, Kept
    <2>1. Kept'
      <3>1. CASE m = f
        BY <1>1, <1>2, <1>6, <2>0, <3>1 DEF Kept
      <3>2. CASE m # f
        <4>1. Listed(m, known')
          BY <1>1, <1>2, <1>4, <2>0, KeptListed, SameListed
        <4> QED  BY <1>0, <1>1, <1>4, <1>7, <2>0, <3>2, <4>1, PersistKept
      <3> QED  BY <3>1, <3>2
    <2>2. \A r \in runs : r.by # "start"
      BY <1>1, <2>0 DEF Planned
    <2>3. Planned'
      BY <1>1, <1>9, <2>0, <2>2, Idle DEF Planned
    <2>4. /\ latest' = latest /\ runs' \subseteq runs
          /\ tick'[latest].todo \subseteq tick[latest].todo
          /\ ToSet(boot'[latest].todo) \subseteq ToSet(boot[latest].todo)
      BY <1>1, <1>9, <2>0, Idle
    <2>5. ASSUME NEW j \in Job \ (freed \cup losesMark(f, now)), busy(j)'
          PROVE  /\ j \in DOMAIN m => m[j].mark # None
                 /\ j \in DOMAIN disk => disk[j].mark # None
      <3>1. busy(j)
        BY <1>1, <2>4, <2>5 DEF busy
      <3>2. /\ j \in DOMAIN f => f[j].mark # None
            /\ j \in DOMAIN disk => disk[j].mark # None
        BY <1>2, <2>0, <2>5, <3>1 DEF Marked
      <3> QED  BY <1>4, <2>5, <3>2 DEF SameJobs
    <2>6. Marked'
      BY <1>0, <1>1, <1>5, <2>0, <2>4, <2>5, MarkedAfter
    <2> QED  BY <2>1, <2>3, <2>6
  <1> QED  BY <1>1, <1>10, <1>12, <1>13 DEF IInv

-----------------------------------------------------------------------------
(* The sections of a tick.                                                 *)

\* A tick reads the file, and either marks what is due or maintains the rest.
LEMMA CollectDueKeeps == ASSUME IInv, NEW s \in alive, collectDue(s) PROVE IInv'
PROOF
  <1>0. Types /\ Services /\ Recorded /\ s \in Service /\ disk \in Store /\ now \in Time
    BY DEF IInv, Types
  <1> DEFINE due == {j \in DOMAIN disk : IsDue(disk[j], now)}
             b == tick[s]
             m == recomputeNextRunsForMaintenance(disk, now, TRUE)
             n == [j \in DOMAIN disk |-> IF j \in due THEN [disk[j] EXCEPT !.mark = now] ELSE disk[j]]
  <1>1. /\ b.pc = "due" /\ b \in Tick /\ loaded(s)
        /\ UNCHANGED <<now, latest, alive, timer, boot, manual, runs, ops, known, shared>>
    BY <1>0, Idle DEF collectDue, Types, Services
  <1>2. /\ due = {} => /\ persist(s, m) /\ tick' = [tick EXCEPT ![s].pc = "end"]
                       /\ freeing(losesMark(disk, now))
        /\ due # {} => /\ persist(s, n) /\ freed' = freed
                       /\ tick' = [tick EXCEPT ![s] = [pc |-> "run", todo |-> due, held |-> TRUE]]
    BY DEF collectDue
  <1>3. due \in SUBSET Job /\ due \subseteq DOMAIN disk /\ \A j \in due : disk[j].mark = None
    BY <1>0, StoreShape DEF IsDue
  <1>4. DOMAIN disk \subseteq DOMAIN known
    BY <1>0 DEF Recorded
  <1> HIDE DEF due
  <1>5. CASE due = {}
    <2> DEFINE w == [b EXCEPT !.pc = "end"]
    <2>1. w \in Tick /\ w.pc = "end" /\ w.todo = b.todo
      <3> HIDE DEF b
      <3> QED  BY <1>1, StepTaken DEF Step
    <2>2. tick' = [tick EXCEPT ![s] = w] /\ persist(s, m) /\ freeing(losesMark(disk, now))
      BY <1>2, <1>5
    <2>3. /\ m \in Store /\ SameJobs(m, disk)
          /\ \A j \in DOMAIN disk : m[j].mark = IF j \in losesMark(disk, now) THEN None ELSE disk[j].mark
      BY <1>0, Maintained
    <2> HIDE DEF w, m
    <2>4. /\ tick' \in [Service -> Tick] /\ tick'[s].pc = "end" /\ tick'[s].todo = tick[s].todo
          /\ \A t \in Service \ {s} : tick'[t] = tick[t]
      BY <1>0, <2>1, <2>2 DEF Types
    <2>5. /\ disk' = m /\ mem'[s] = m /\ mem' \in [Service -> Store \cup {NoStore}]
          /\ \A t \in Service \ {s} : mem'[t] = mem[t]
      BY <1>0, <2>2, <2>3, Persisted
    <2>6. Types'
      <3>1. losesMark(disk, now) \subseteq Job
        BY <1>0, StoreShape DEF losesMark
      <3>2. freed' \in SUBSET Job
        BY <1>0, <2>2, <3>1 DEF Types, freeing
      <3> QED  BY <1>0, <1>1, <2>3, <2>4, <2>5, <3>2 DEF Types
    <2>7. OnlyOf(s) /\ loaded(s)'
      BY <1>1, <2>4, <2>5 DEF OnlyOf, loaded
    <2>8. Services' /\ Recorded'
      <3>1. DOMAIN m \subseteq DOMAIN known
        BY <1>4, <2>3 DEF SameJobs
      <3> QED  BY <1>0, <1>1, <2>3, <2>5, <2>7, <3>1, SectionServices, SectionRecorded
    <2>9. ASSUME ~shared PROVE Kept' /\ Planned' /\ Marked'
      <3>0. Kept /\ Planned /\ Marked /\ s = latest
        BY <2>9 DEF IInv, Kept
      <3>1. Kept'
        <4>1. Listed(m, known')
          BY <1>1, <2>3, <3>0, KeptListed, SameListed
        <4> QED  BY <1>0, <1>1, <2>2, <2>3, <3>0, <4>1, PersistKept
      <3>2. Planned'
        BY <1>1, <2>4, <3>0 DEF Planned
      <3>3. /\ latest' = latest /\ runs' \subseteq runs
            /\ tick'[latest].todo \subseteq tick[latest].todo
            /\ ToSet(boot'[latest].todo) \subseteq ToSet(boot[latest].todo)
        BY <1>1, <2>4, <3>0
      <3>4. ASSUME NEW j \in Job \ (freed \cup losesMark(disk, now)), busy(j)', j \in DOMAIN m
            PROVE  m[j].mark # None
        <4>1. busy(j)
          BY <1>1, <3>3, <3>4 DEF busy
        <4> QED  BY <2>3, <3>0, <3>4, <4>1 DEF Marked, SameJobs
      <3>5. Marked'
        BY <1>0, <2>2, <2>5, <3>0, <3>3, <3>4, MarkedAfter
      <3> QED  BY <3>1, <3>2, <3>5
    <2> QED  BY <1>1, <2>6, <2>8, <2>9 DEF IInv
  <1>6. CASE due # {}
    <2> DEFINE w == [pc |-> "run", todo |-> due, held |-> TRUE]
    <2>1. w \in Tick /\ w.pc = "run" /\ w.todo = due
      BY <1>3 DEF Tick, Step
    <2>2. tick' = [tick EXCEPT ![s] = w] /\ persist(s, n) /\ freed' = freed
      BY <1>2, <1>6
    <2>3. /\ n \in Store /\ AsFiled(n, disk)
          /\ \A j \in DOMAIN disk : n[j].mark = IF j \in due THEN now ELSE disk[j].mark
      <3> DEFINE x == n
      <3>1. x = [j \in DOMAIN disk |-> IF j \in due THEN [disk[j] EXCEPT !.mark = now] ELSE disk[j]]
        OBVIOUS
      <3> HIDE DEF x, n
      <3> QED  BY <1>0, <3>1, MarksWritten DEF x
    <2> HIDE DEF w, n
    <2>4. /\ tick' \in [Service -> Tick] /\ tick'[s].pc = "run" /\ tick'[s].todo = due
          /\ \A t \in Service \ {s} : tick'[t] = tick[t]
      BY <1>0, <2>1, <2>2 DEF Types
    <2>5. /\ disk' = n /\ mem'[s] = n /\ mem' \in [Service -> Store \cup {NoStore}]
          /\ \A t \in Service \ {s} : mem'[t] = mem[t]
      BY <1>0, <2>2, <2>3, Persisted
    <2>6. Types'
      BY <1>0, <1>1, <2>2, <2>3, <2>4, <2>5 DEF Types
    <2>7. OnlyOf(s) /\ loaded(s)'
      BY <1>1, <2>4, <2>5 DEF OnlyOf, loaded
    <2>8. DOMAIN n = DOMAIN disk
      BY <2>3 DEF AsFiled, SameJobs
    <2>9. Services' /\ Recorded'
      BY <1>0, <1>1, <1>4, <2>3, <2>5, <2>7, <2>8, SectionServices, SectionRecorded
    <2>10. ASSUME ~shared PROVE Kept' /\ Planned' /\ Marked'
      <3>0. Kept /\ Planned /\ Marked /\ s = latest
        BY <2>10 DEF IInv, Kept
      <3>1. Kept'
        <4>1. Listed(n, known')
          BY <1>1, <2>3, <3>0, KeptListed, SameListed DEF AsFiled
        <4> QED  BY <1>0, <1>1, <2>2, <2>3, <3>0, <4>1, PersistKept
      <3>2. (\A r \in runs : r.by # "tick") /\ tick[s].todo = {}
        BY <1>1, <3>0 DEF Planned
      <3>3. Planned'
        BY <1>1, <1>3, <1>4, <2>4, <3>0, <3>2 DEF Planned
      <3>4. ASSUME NEW j \in Job \ freed, j \in due
            PROVE  ~busy(j)
        BY <1>3, <3>0, <3>4 DEF Marked
      <3>5. ASSUME NEW j \in Job \ freed
            PROVE  /\ \A q, r \in runs : q.job = j /\ r.job = j => q = r
                   /\ \A r \in runs : r.job = j => j \notin due /\ j \notin ToSet(boot[latest].todo)
                   /\ j \in due => j \notin ToSet(boot[latest].todo)
                   /\ busy(j)' => busy(j) \/ j \in due
        BY <1>1, <2>4, <3>0, <3>4, <3>5 DEF Marked, busy
      <3>6. ASSUME NEW j \in Job \ freed, busy(j) \/ j \in due, j \in DOMAIN n
            PROVE  n[j].mark # None
        <4>1. CASE j \in due
          BY <1>0, <2>3, <2>8, <3>6, <4>1, Numbers DEF Time, None
        <4>2. CASE j \notin due
          BY <2>3, <2>8, <3>0, <3>6, <4>2 DEF Marked
        <4> QED  BY <4>1, <4>2
      <3>7. Marked'
        BY <1>1, <2>2, <2>4, <2>5, <3>0, <3>5, <3>6 DEF Marked
      <3> QED  BY <3>1, <3>3, <3>7
    <2> QED  BY <1>1, <2>6, <2>9, <2>10 DEF IInv
  <1> QED  BY <1>5, <1>6

\* The results of a tick are applied to the file.
LEMMA ApplyResultsKeeps == ASSUME IInv, NEW s \in alive, applyResults(s) PROVE IInv'
PROOF
  <1>0. Types /\ Services /\ Recorded /\ s \in Service
    BY DEF IInv, Types
  <1> DEFINE done == ended(s, "tick")
             m == applyOutcomes(disk, done, FALSE)
             final == recomputeNextRunsForMaintenance(m, now, FALSE)
             w == [NoTick EXCEPT !.pc = "end"]
  <1>1. /\ tick[s].pc = "run" /\ tick[s].todo = {} /\ going(s, "tick") = {}
        /\ UNCHANGED <<now, latest, alive, timer, boot, manual, ops, shared>>
        /\ persist(s, final)
        /\ known' = forget(completed(disk, done))
        /\ runs' = runs \ done
        /\ tick' = [tick EXCEPT ![s] = w]
        /\ freeing(losesMark(m, now))
    BY DEF applyResults
  <1>2. disk \in Store /\ now \in Time /\ known \in History /\ loaded(s)
    BY <1>0, <1>1, Idle DEF Types, Services
  <1>3. /\ Ended(done) /\ done \subseteq runs
        /\ \A r \in runs : r \notin done /\ r.svc = s => r.by # "tick"
        /\ \A r \in done : r.by = "tick"
    BY <1>0, <1>1, EndedRuns
  <1>4. Applied(m, disk, done)
    <2> DEFINE x == m
    <2>1. x = applyOutcomes(disk, done, FALSE)
      OBVIOUS
    <2> HIDE DEF done, x, m
    <2> QED  BY <1>2, <1>3, <2>1, OutcomesApplied DEF x
  <1>5. w \in Tick /\ w.pc = "end" /\ w.todo = {}
    BY Idle, StepTaken DEF Step
  <1>6. m \in Store
    BY <1>4 DEF Applied
  <1> HIDE DEF m, w
  <1>7. /\ final \in Store /\ SameJobs(final, m)
        /\ \A j \in DOMAIN m : final[j].mark = IF j \in losesMark(m, now) THEN None ELSE m[j].mark
    BY <1>2, <1>6, Maintained
  <1> HIDE DEF final
  <1>8. /\ disk' = final /\ mem'[s] = final /\ mem' \in [Service -> Store \cup {NoStore}]
        /\ \A t \in Service \ {s} : mem'[t] = mem[t]
    BY <1>0, <1>1, <1>7, Persisted
  <1>9. /\ tick' \in [Service -> Tick] /\ tick'[s].pc = "end" /\ tick'[s].todo = {}
        /\ \A t \in Service \ {s} : tick'[t] = tick[t]
    BY <1>0, <1>1, <1>5 DEF Types
  <1>10. known' \in History /\ DOMAIN known' = DOMAIN known
    BY <1>1, <1>2, Forgotten
  <1>11. Types'
    <2>1. losesMark(m, now) \subseteq Job
      BY <1>6, StoreShape DEF losesMark
    <2>2. freed' \in SUBSET Job
      BY <1>0, <1>1, <2>1 DEF Types, freeing
    <2>3. runs' \in SUBSET Run /\ \A r \in runs' : r.out # "going" => r.end \in Time
      BY <1>0, <1>1 DEF Types
    <2> QED  BY <1>0, <1>1, <1>7, <1>8, <1>9, <1>10, <2>2, <2>3 DEF Types
  <1>12. OnlyOf(s) /\ loaded(s)'
    BY <1>1, <1>2, <1>8, <1>9 DEF OnlyOf, loaded
  <1>13. Services' /\ Recorded'
    <2>1. DOMAIN final \subseteq DOMAIN known
      BY <1>0, <1>4, <1>7 DEF Recorded, SameJobs, Applied
    <2> QED  BY <1>0, <1>7, <1>8, <1>10, <1>12, <2>1, SectionServices, SectionRecorded
  <1>14. ASSUME ~shared PROVE Kept' /\ Planned' /\ Marked'
    <2>0. Kept /\ Planned /\ Marked /\ s = latest
      BY <1>14 DEF IInv, Kept
    <2>1. Kept'
      <3>1. \A q, r \in done : q.job = r.job => q = r
        BY <1>3, <2>0 DEF Planned
      <3>2. Listed(disk, known)
        BY <2>0, KeptListed
      <3>3. Listed(m, known')
        <4> HIDE DEF done
        <4> QED  BY <1>0, <1>1, <1>2, <1>3, <3>1, <3>2, OutcomesListed DEF m
      <3>4. Listed(final, known')
        BY <1>7, <3>3, SameListed
      <3> QED  BY <1>0, <1>1, <1>7, <2>0, <3>4, PersistKept
    <2>2. \A r \in runs' : r \in runs /\ r.by # "tick"
      BY <1>1, <1>3, <2>0 DEF Planned
    <2>3. Planned'
      BY <1>1, <1>9, <1>10, <2>0, <2>2 DEF Planned
    <2>4. /\ latest' = latest /\ runs' \subseteq runs
          /\ tick'[latest].todo \subseteq tick[latest].todo
          /\ ToSet(boot'[latest].todo) \subseteq ToSet(boot[latest].todo)
      BY <1>1, <1>9, <2>0
    <2>5. ASSUME NEW j \in Job \ (freed \cup losesMark(m, now)), busy(j)', j \in DOMAIN final
          PROVE  final[j].mark # None
      <3>1. busy(j) /\ \A ran \in done : ran.job # j
        BY <1>0, <1>1, <1>3, <2>0, <2>4, <2>5, StillBusy
      <3>2. j \in DOMAIN m /\ m[j] = disk[j] /\ j \in DOMAIN disk
        BY <1>4, <1>7, <2>5, <3>1 DEF SameJobs, Applied
      <3>3. disk[j].mark # None
        BY <2>0, <2>5, <3>1, <3>2 DEF Marked
      <3> QED  BY <1>7, <2>5, <3>2, <3>3
    <2>6. Marked'
      BY <1>0, <1>1, <1>8, <2>0, <2>4, <2>5, MarkedAfter
    <2> QED  BY <2>1, <2>3, <2>6
  <1> QED  BY <1>1, <1>11, <1>13, <1>14 DEF IInv

-----------------------------------------------------------------------------
(* The user's operations.                                                  *)

\* A service that serves the user has its store.
LEMMA Serves ==
    ASSUME IInv, NEW s \in alive, serving(s)
    PROVE  s \in Service /\ s = latest /\ loaded(s) /\ mem[s] \in Store /\ mem[s] # NoStore
PROOF
  BY DEF IInv, Types, Services, serving

\* An operation takes marks away, or it does not look at them.
Frees(S) == freeing(S) \/ (S = {} /\ freed' = freed)

\* What an operation that only writes the store keeps: n is the store it writes,
\* h the history it leaves and S the jobs that lose their marks.
LEMMA StoreWritten ==
    ASSUME IInv, NEW s \in alive, s = latest, loaded(s), NEW n \in Store, persist(s, n),
           UNCHANGED <<now, latest, alive, tick, boot, manual, runs, shared>>,
           timer' \in [Service -> {"off", "job", "recheck"}],
           \A t \in Service \ {s} : timer'[t] = timer[t],
           ops' \in 0 .. MaxOps, known' \in History, DOMAIN known \subseteq DOMAIN known',
           DOMAIN n \subseteq DOMAIN known',
           ~shared => Listed(n, known'),
           NEW S \in SUBSET Job, Frees(S),
           \A j \in DOMAIN n \ S :
              n[j].mark = None => j \notin DOMAIN known
                                  \/ (j \in DOMAIN mem[s] /\ mem[s][j].mark = None)
    PROVE  IInv'
PROOF
  <1>0. Types /\ Services /\ Recorded /\ s \in Service
    BY DEF IInv, Types
  <1>1. /\ disk' = n /\ mem'[s] = n /\ mem' \in [Service -> Store \cup {NoStore}]
        /\ \A t \in Service \ {s} : mem'[t] = mem[t]
    BY <1>0, Persisted
  <1>2. Types'
    <2>1. freed' \in SUBSET Job
      BY <1>0 DEF Types, freeing, Frees
    <2> QED  BY <1>0, <1>1, <2>1 DEF Types
  <1>3. OnlyOf(s) /\ loaded(s)'
    BY <1>1 DEF OnlyOf, loaded
  <1>4. Services' /\ Recorded'
    BY <1>0, <1>1, <1>3, SectionServices, SectionRecorded
  <1>5. ASSUME ~shared PROVE Kept' /\ Planned' /\ Marked'
    <2>0. Kept /\ Planned /\ Marked
      BY <1>5 DEF IInv
    <2>1. Kept'
      BY <1>0, <1>5, <2>0, PersistKept
    <2>2. Planned'
      BY <2>0 DEF Planned
    <2>3. \A j : busy(j)' => busy(j)
      BY DEF busy
    <2>4. \A j \in Job : busy(j) => j \in DOMAIN known
      BY <2>0 DEF busy, Planned
    <2>5. ASSUME NEW j \in Job \ (freed \cup S), busy(j)', j \in DOMAIN n
          PROVE  n[j].mark # None
      <3>1. busy(j) /\ j \in DOMAIN known
        BY <2>3, <2>4, <2>5
      <3>2. j \in DOMAIN mem[s] => mem[s][j].mark # None
        BY <2>0, <2>5, <3>1 DEF Marked
      <3> QED  BY <2>5, <3>1, <3>2
    <2>6. Marked'
      <3>1. /\ latest' = latest /\ runs' \subseteq runs
            /\ tick'[latest].todo \subseteq tick[latest].todo
            /\ ToSet(boot'[latest].todo) \subseteq ToSet(boot[latest].todo)
        OBVIOUS
      <3>2. CASE freeing(S)
        BY <1>0, <1>1, <2>0, <2>5, <3>1, <3>2, MarkedAfter
      <3>3. CASE S = {} /\ freed' = freed
        BY <1>1, <2>0, <2>3, <2>5, <3>3 DEF Marked, busy
      <3> QED  BY <3>2, <3>3 DEF Frees
    <2> QED  BY <2>1, <2>2, <2>6
  <1> QED  BY <1>2, <1>4, <1>5 DEF IInv

\* The jobs of a service are in the history, and in it alone when it is alone.
LEMMA MemListed ==
    ASSUME IInv, NEW s \in alive, s = latest, loaded(s)
    PROVE  DOMAIN mem[s] \subseteq DOMAIN known /\ (~shared => Listed(mem[s], known))
PROOF
  BY KeptListed DEF IInv, Recorded

\* A job is added.
LEMMA AddKeeps == ASSUME IInv, NEW s \in alive, add(s) PROVE IInv'
PROOF
  <1> DEFINE f == mem[s]
             x(j, time, on) == [k \in DOMAIN f \cup {j} |->
                                   IF k = j THEN Fresh(j, time, on, now) ELSE f[k]]
             h(j, time) == [k \in DOMAIN known \cup {j} |-> IF k = j THEN time ELSE known[k]]
  <1>0. PICK j \in Job \ DOMAIN known : \E time \in times(j), on \in BOOLEAN :
            /\ userOp(s)
            /\ UNCHANGED <<now, latest, alive, tick, boot, manual, runs, shared>>
            /\ persist(s, recomputeNextRuns(x(j, time, on), now))
            /\ armTimer(s, recomputeNextRuns(x(j, time, on), now))
            /\ known' = h(j, time)
            /\ freeing(losesMark(f, now))
    BY DEF add
  <1>1. PICK time \in times(j), on \in BOOLEAN :
            /\ userOp(s)
            /\ UNCHANGED <<now, latest, alive, tick, boot, manual, runs, shared>>
            /\ persist(s, recomputeNextRuns(x(j, time, on), now))
            /\ armTimer(s, recomputeNextRuns(x(j, time, on), now))
            /\ known' = h(j, time)
            /\ freeing(losesMark(f, now))
    BY <1>0
  <1>2. /\ s \in Service /\ s = latest /\ loaded(s) /\ f \in Store /\ now \in Time
        /\ ops' \in 0 .. MaxOps /\ DOMAIN f \subseteq DOMAIN known /\ known \in History
        /\ ~shared => Listed(f, known)
    <2>1. serving(s) /\ ops < MaxOps /\ ops' = ops + 1
      BY <1>1 DEF userOp
    <2>2. ops' \in 0 .. MaxOps
      BY <2>1, Numbers DEF IInv, Types
    <2> QED  BY <2>1, <2>2, Serves, MemListed DEF IInv, Types
  <1> DEFINE g == Fresh(j, time, on, now)
             w == x(j, time, on)
             n == recomputeNextRuns(w, now)
  <1>3. g \in JobState /\ g.at = time /\ g.mark = None /\ time \in At
    <2>1. time \in At
      BY <1>2, TimesAre
    <2> QED  BY <1>2, <2>1, FreshJob
  <1>4. w = [k \in DOMAIN f \cup {j} |-> IF k = j THEN g ELSE f[k]]
    OBVIOUS
  <1>5. known' = h(j, time)
    BY <1>1
  <1>6. persist(s, n) /\ armTimer(s, n)
    BY <1>1
  <1> HIDE DEF g, w, x
  <1>7. /\ w \in Store /\ DOMAIN w = DOMAIN f \cup {j} /\ w[j] = g
        /\ \A k \in DOMAIN f : w[k] = f[k]
    <2>1. DOMAIN f \subseteq Job /\ \A k \in DOMAIN f : f[k] \in JobState
      BY <1>2, StoreShape
    <2>2. j \notin DOMAIN f
      BY <1>2
    <2>3. w \in [DOMAIN f \cup {j} -> JobState] /\ DOMAIN f \cup {j} \in SUBSET Job
      BY <1>3, <1>4, <2>1
    <2>4. w \in Store
      BY <2>3, StoreShape
    <2> QED  BY <1>4, <2>2, <2>4
  <1>8. /\ n \in Store /\ SameJobs(n, w)
        /\ \A k \in DOMAIN w : n[k].mark = IF k \in losesMark(w, now) THEN None ELSE w[k].mark
    BY <1>2, <1>7, Recomputed
  <1> HIDE DEF n
  <1>9. /\ known' \in History /\ DOMAIN known' = DOMAIN known \cup {j} /\ known'[j] = time
        /\ \A k \in DOMAIN known : known'[k] = known[k]
    <2>1. PICK D \in SUBSET Job : known \in [D -> At \cup {Gone}]
      BY <1>2 DEF History
    <2>2. known' \in [D \cup {j} -> At \cup {Gone}] /\ D \cup {j} \in SUBSET Job
      BY <1>3, <1>5, <2>1
    <2>3. known' \in History
      BY <2>2 DEF History
    <2> QED  BY <1>5, <2>3
  <1>10. ASSUME ~shared PROVE Listed(n, known')
    <2>1. time # Gone
      BY <1>3, NotGone
    <2>2. Listed(f, known)
      BY <1>2, <1>10
    <2>3. Listed(w, known')
      BY <1>3, <1>7, <1>9, <2>1, <2>2 DEF Listed
    <2> QED  BY <1>8, <2>3, SameListed
  <1>11. losesMark(f, now) \in SUBSET Job
    BY <1>2, StoreShape DEF losesMark
  <1>12. DOMAIN n = DOMAIN f \cup {j} /\ DOMAIN n \subseteq DOMAIN known'
    BY <1>2, <1>7, <1>8, <1>9 DEF SameJobs
  <1>13. ASSUME NEW k \in DOMAIN n \ losesMark(f, now), n[k].mark = None
         PROVE  k \notin DOMAIN known \/ (k \in DOMAIN f /\ f[k].mark = None)
    <2>1. k # j => k \in DOMAIN f /\ w[k] = f[k] /\ k \notin losesMark(w, now)
      BY <1>7, <1>12, <1>13 DEF losesMark
    <2> QED  BY <1>7, <1>8, <1>12, <1>13, <2>1
  <1>14. /\ timer' \in [Service -> {"off", "job", "recheck"}]
         /\ \A t \in Service \ {s} : timer'[t] = timer[t]
    BY <1>2, <1>6, Armed DEF IInv
  <1>15. /\ UNCHANGED <<now, latest, alive, tick, boot, manual, runs, shared>>
         /\ Frees(losesMark(f, now))
    BY <1>1 DEF Frees
  <1> QED  BY <1>2, <1>6, <1>8, <1>9, <1>10, <1>11, <1>12, <1>13, <1>14, <1>15, StoreWritten

\* The record of a job that is edited.
LEMMA UpdatedJob ==
    ASSUME NEW j \in Job, NEW old \in JobState, NEW on \in BOOLEAN, NEW scheduling \in BOOLEAN,
           NEW time \in At, now \in Time
    PROVE  LET g == updated(j, old, on, time, scheduling) IN
           /\ g \in JobState /\ g.at = time /\ g.on = on
           /\ g.last = old.last /\ g.st = old.st /\ g.errs = old.errs
           /\ g.mark = IF scheduling /\ ~on THEN None ELSE old.mark
PROOF
  <1> DEFINE g == updated(j, old, on, time, scheduling)
             q == [old EXCEPT !.on = on, !.at = time]
  <1>1. /\ q \in JobState /\ q.at = time /\ q.on = on /\ q.mark = old.mark
        /\ q.last = old.last /\ q.st = old.st /\ q.errs = old.errs
    BY DEF JobState
  <1>2. g = IF scheduling /\ ~on THEN [q EXCEPT !.next = None, !.mark = None]
            ELSE IF scheduling \/ (on /\ old.next = None)
            THEN [q EXCEPT !.next = computeNext(j, q, now)] ELSE q
    BY DEF updated
  <1> HIDE DEF q, g
  <1>3. /\ g \in JobState /\ g.at = time /\ g.on = on
        /\ g.last = old.last /\ g.st = old.st /\ g.errs = old.errs
        /\ g.mark = IF scheduling /\ ~on THEN None ELSE old.mark
    <2>1. CASE scheduling /\ ~on
      <3>1. g = [q EXCEPT !.next = None, !.mark = None]
        BY <1>2, <2>1
      <3>2. /\ g \in JobState /\ g.at = q.at /\ g.mark = None /\ g.on = q.on
            /\ g.last = q.last /\ g.st = q.st /\ g.errs = q.errs
        BY <1>1, <3>1, NextTimes DEF JobState
      <3> QED  BY <1>1, <2>1, <3>2
    <2>2. CASE ~(scheduling /\ ~on) /\ (scheduling \/ (on /\ old.next = None))
      <3>1. g = [q EXCEPT !.next = computeNext(j, q, now)]
        BY <1>2, <2>2
      <3>2. computeNext(j, q, now) \in NextTime
        BY <1>1, NextComputed
      <3>3. /\ g \in JobState /\ g.mark = q.mark /\ g.on = q.on /\ g.at = q.at
            /\ g.last = q.last /\ g.st = q.st /\ g.errs = q.errs
        BY <1>1, <3>1, <3>2, NextWritten
      <3> QED  BY <1>1, <2>2, <3>3
    <2>3. CASE ~(scheduling /\ ~on) /\ ~(scheduling \/ (on /\ old.next = None))
      <3>1. g = q
        BY <1>2, <2>3
      <3> QED  BY <1>1, <2>3, <3>1
    <2> QED  BY <2>1, <2>2, <2>3
  <1> QED  BY <1>3 DEF g

\* The user edits a job.
LEMMA UpdateKeeps == ASSUME IInv, NEW s \in alive, update(s) PROVE IInv'
PROOF
  <1> DEFINE f == mem[s]
  <1>0. PICK j \in userJobs(s) : updateJob(s, j)
    BY DEF update
  <1>1. PICK on \in BOOLEAN, scheduling \in BOOLEAN, time \in times(j) \cup {f[j].at} :
            /\ userOp(s)
            /\ scheduling \/ (on = f[j].on /\ time = f[j].at)
            /\ edit(s, f, j, updated(j, f[j], on, time, scheduling))
            /\ known' = [known EXCEPT ![j] = time]
            /\ UNCHANGED <<now, latest, alive, tick, boot, manual, runs, shared>>
            /\ freeing(IF scheduling /\ ~on /\ f[j].mark # None THEN {j} ELSE {})
    BY <1>0 DEF updateJob
  <1>2. /\ s \in Service /\ s = latest /\ loaded(s) /\ f \in Store /\ now \in Time
        /\ ops' \in 0 .. MaxOps /\ DOMAIN f \subseteq DOMAIN known /\ known \in History
        /\ ~shared => Listed(f, known)
        /\ j \in DOMAIN f
    <2>1. serving(s) /\ ops < MaxOps /\ ops' = ops + 1
      BY <1>1 DEF userOp
    <2>2. ops' \in 0 .. MaxOps
      BY <2>1, Numbers DEF IInv, Types
    <2>3. j \in DOMAIN f
      BY <1>0, <2>1 DEF userJobs
    <2> QED  BY <2>1, <2>2, <2>3, Serves, MemListed DEF IInv, Types
  <1> DEFINE old == f[j]
             g == updated(j, old, on, time, scheduling)
             S == IF scheduling /\ ~on /\ old.mark # None THEN {j} ELSE {}
             n == [f EXCEPT ![j] = g]
  <1>3. old \in JobState /\ j \in Job
    BY <1>2, StoreShape
  <1>4. time \in At
    BY <1>2, <1>3, TimesAre DEF JobState
  <1>6. persist(s, n) /\ armTimer(s, n) /\ freeing(S)
    BY <1>1 DEF edit
  <1>7. g \in JobState /\ g.at = time /\ (j \notin S => g.mark = old.mark)
    <2> HIDE DEF old
    <2>1. g \in JobState /\ g.at = time /\ (g.mark = IF scheduling /\ ~on THEN None ELSE old.mark)
      BY <1>1, <1>2, <1>3, <1>4, UpdatedJob
    <2> HIDE DEF g
    <2> QED  BY <2>1
  <1> HIDE DEF g, old
  <1>8. S \in SUBSET Job
    BY <1>3
  <1> HIDE DEF S
  <1>9. /\ n \in Store /\ DOMAIN n = DOMAIN f /\ n[j] = g
        /\ \A k \in DOMAIN f \ {j} : n[k] = f[k]
    BY <1>2, <1>7, JobReplaced
  <1> HIDE DEF n
  <1>10. /\ known' \in History /\ DOMAIN known' = DOMAIN known /\ known'[j] = time
         /\ \A k \in DOMAIN known \ {j} : known'[k] = known[k]
    <2>1. PICK D \in SUBSET Job : known \in [D -> At \cup {Gone}]
      BY <1>2 DEF History
    <2>2. known' \in [D -> At \cup {Gone}] /\ j \in D
      BY <1>1, <1>2, <1>4, <2>1
    <2>3. known' \in History
      BY <2>2 DEF History
    <2> QED  BY <1>1, <2>1, <2>2, <2>3
  <1>11. ASSUME ~shared PROVE Listed(n, known')
    <2>1. time # Gone
      BY <1>4, NotGone
    <2>2. Listed(f, known)
      BY <1>2, <1>11
    <2> QED  BY <1>2, <1>7, <1>9, <1>10, <2>1, <2>2 DEF Listed
  <1>12. ASSUME NEW k \in DOMAIN n \ S, n[k].mark = None
         PROVE  k \in DOMAIN f /\ f[k].mark = None
    BY <1>7, <1>9, <1>12 DEF old
  <1>13. /\ timer' \in [Service -> {"off", "job", "recheck"}]
         /\ \A t \in Service \ {s} : timer'[t] = timer[t]
    BY <1>2, <1>6, Armed DEF IInv
  <1>14. UNCHANGED <<now, latest, alive, tick, boot, manual, runs, shared>> /\ Frees(S)
    BY <1>1, <1>6 DEF Frees
  <1> QED  BY <1>2, <1>6, <1>8, <1>9, <1>10, <1>11, <1>12, <1>13, <1>14, StoreWritten

\* The user removes a job: its run, if it has one, goes on.
LEMMA RemoveKeeps == ASSUME IInv, NEW s \in alive, remove(s) PROVE IInv'
PROOF
  <1> DEFINE f == mem[s]
  <1>1. PICK j \in userJobs(s) :
            /\ userOp(s)
            /\ persist(s, [k \in DOMAIN f \ {j} |-> f[k]])
            /\ armTimer(s, [k \in DOMAIN f \ {j} |-> f[k]])
            /\ known' = [known EXCEPT ![j] = Gone]
            /\ UNCHANGED <<now, latest, alive, tick, boot, manual, runs, freed, shared>>
    BY DEF remove
  <1> DEFINE n == [k \in DOMAIN f \ {j} |-> f[k]]
  <1>2. /\ s \in Service /\ s = latest /\ loaded(s) /\ f \in Store
        /\ ops' \in 0 .. MaxOps /\ DOMAIN f \subseteq DOMAIN known /\ known \in History
        /\ ~shared => Listed(f, known)
        /\ j \in DOMAIN f
    <2>1. serving(s) /\ ops < MaxOps /\ ops' = ops + 1
      BY <1>1 DEF userOp
    <2>2. ops' \in 0 .. MaxOps
      BY <2>1, Numbers DEF IInv, Types
    <2>3. j \in DOMAIN f
      BY <1>1, <2>1 DEF userJobs
    <2> QED  BY <2>1, <2>2, <2>3, Serves, MemListed DEF IInv, Types
  <1>3. n \in Store /\ DOMAIN n = DOMAIN f \ {j} /\ \A k \in DOMAIN n : n[k] = f[k]
    <2>1. DOMAIN f \subseteq Job /\ \A k \in DOMAIN f : f[k] \in JobState
      BY <1>2, StoreShape
    <2>2. n \in [DOMAIN f \ {j} -> JobState] /\ DOMAIN f \ {j} \in SUBSET Job
      BY <2>1
    <2>3. n \in Store
      BY <2>2, StoreShape
    <2> QED  BY <2>3
  <1>4. persist(s, n) /\ armTimer(s, n)
    BY <1>1
  <1> HIDE DEF n
  <1>5. /\ known' \in History /\ DOMAIN known' = DOMAIN known /\ known'[j] = Gone
        /\ \A k \in DOMAIN known \ {j} : known'[k] = known[k]
    <2>1. PICK D \in SUBSET Job : known \in [D -> At \cup {Gone}]
      BY <1>2 DEF History
    <2>2. known' \in [D -> At \cup {Gone}] /\ j \in D
      BY <1>1, <1>2, <2>1
    <2>3. known' \in History
      BY <2>2 DEF History
    <2> QED  BY <1>1, <2>1, <2>2, <2>3
  <1>6. ASSUME ~shared PROVE Listed(n, known')
    <2>1. Listed(f, known)
      BY <1>2, <1>6
    <2> QED  BY <1>2, <1>3, <1>5, <2>1 DEF Listed
  <1>7. ASSUME NEW k \in DOMAIN n \ {}, n[k].mark = None
        PROVE  k \in DOMAIN f /\ f[k].mark = None
    BY <1>3, <1>7
  <1>8. /\ timer' \in [Service -> {"off", "job", "recheck"}]
        /\ \A t \in Service \ {s} : timer'[t] = timer[t]
    BY <1>2, <1>4, Armed DEF IInv
  <1>9. /\ UNCHANGED <<now, latest, alive, tick, boot, manual, runs, shared>>
        /\ Frees({}) /\ {} \in SUBSET Job
    BY <1>1 DEF Frees
  <1>10. DOMAIN n \subseteq DOMAIN known'
    BY <1>2, <1>3, <1>5
  <1> QED  BY <1>2, <1>3, <1>4, <1>5, <1>6, <1>7, <1>8, <1>9, <1>10, StoreWritten

\* A read repairs the store.
LEMMA EnsureLoadedForReadKeeps ==
    ASSUME IInv, NEW s \in alive, ensureLoadedForRead(s) PROVE IInv'
PROOF
  <1> DEFINE f == mem[s]
             n == recomputeNextRunsForMaintenance(f, now, FALSE)
             S == losesMark(f, now)
  <1>1. /\ serving(s) /\ persist(s, n) /\ freeing(S)
        /\ UNCHANGED <<now, latest, alive, timer, tick, boot, manual, runs, ops, known, shared>>
    BY DEF ensureLoadedForRead, control
  <1>2. /\ s \in Service /\ s = latest /\ loaded(s) /\ f \in Store /\ now \in Time
        /\ DOMAIN f \subseteq DOMAIN known /\ known \in History
        /\ ~shared => Listed(f, known)
    BY <1>1, Serves, MemListed DEF IInv, Types
  <1>3. /\ n \in Store /\ SameJobs(n, f)
        /\ \A j \in DOMAIN f : n[j].mark = IF j \in S THEN None ELSE f[j].mark
    <2>1. f \in Store /\ now \in Time
      BY <1>2
    <2> HIDE DEF f
    <2> QED  BY <2>1, Maintained
  <1>4. S \in SUBSET Job
    BY <1>2, StoreShape DEF losesMark
  <1> HIDE DEF n, S
  <1>5. ASSUME ~shared PROVE Listed(n, known')
    BY <1>1, <1>2, <1>3, <1>5, SameListed
  <1>6. DOMAIN n = DOMAIN f /\ DOMAIN n \subseteq DOMAIN known' /\ DOMAIN known \subseteq DOMAIN known'
    BY <1>1, <1>2, <1>3 DEF SameJobs
  <1>7. ASSUME NEW k \in DOMAIN n \ S, n[k].mark = None
        PROVE  k \in DOMAIN f /\ f[k].mark = None
    BY <1>3, <1>6, <1>7
  <1>8. /\ timer' \in [Service -> {"off", "job", "recheck"}] /\ timer' = timer
        /\ ops' \in 0 .. MaxOps /\ known' \in History /\ Frees(S)
    BY <1>1, <1>2 DEF IInv, Types, Frees
  <1> QED  BY <1>1, <1>2, <1>3, <1>4, <1>5, <1>6, <1>7, <1>8, StoreWritten

-----------------------------------------------------------------------------
(* Manual runs.                                                            *)

\* The check that precedes the queue and the run repairs the copy in memory,
\* and leaves the file as it is.
LEMMA PreflightKeeps ==
    ASSUME IInv, NEW s \in alive, loaded(s), manual[s].pc # "run",
           NEW j \in Job, NEW force \in BOOLEAN, NEW queue \in {"queued", "prepare"},
           inspectManualRunPreflight(s, j, force, queue), ops' \in 0 .. MaxOps
    PROVE  IInv'
PROOF
  <1>0. Types /\ Services /\ Recorded /\ s \in Service
    BY DEF IInv, Types
  <1> DEFINE f == mem[s]
             m == recomputeNextRunsForMaintenance(f, now, FALSE)
             S == losesMark(f, now)
             q == [pc |-> queue, job |-> j, force |-> force, at |-> now]
             w == manual'[s]
  <1>1. /\ mem' = [mem EXCEPT ![s] = m] /\ freeing(S)
        /\ manual' = [manual EXCEPT ![s] = q] \/ manual' = [manual EXCEPT ![s] = NoManual]
        /\ UNCHANGED <<now, disk, latest, alive, timer, tick, boot, runs, known, shared>>
    BY DEF inspectManualRunPreflight
  <1>2. f \in Store /\ now \in Time
    BY <1>0 DEF Services, Types
  <1>3. /\ m \in Store /\ AsFiled(m, f)
        /\ \A k \in DOMAIN f : m[k].mark = IF k \in S THEN None ELSE f[k].mark
    <2>1. /\ SameJobs(m, f) /\ m \in Store
          /\ \A k \in DOMAIN f :
               /\ m[k].mark = IF k \in S THEN None ELSE f[k].mark
               /\ f[k].on /\ f[k].next # None => m[k].next = f[k].next
      BY <1>2, Maintained
    <2> HIDE DEF m, f, S
    <2> QED  BY <2>1 DEF AsFiled
  <1>4. S \in SUBSET Job
    BY <1>2, StoreShape DEF losesMark
  <1>5. q \in Manual /\ q.pc = queue /\ q.job = j /\ q.at = now
    BY <1>2 DEF Manual
  <1> HIDE DEF m, S, q
  <1>6. /\ manual' \in [Service -> Manual]
        /\ w.pc # "run" /\ (w.pc # "idle" => w.job \in Job /\ w.at \in Time)
        /\ \A t \in Service \ {s} : manual'[t] = manual[t]
    BY <1>0, <1>1, <1>2, <1>5, Idle DEF Types
  <1>7. /\ mem' \in [Service -> Store \cup {NoStore}] /\ mem'[s] = m
        /\ \A t \in Service \ {s} : mem'[t] = mem[t]
    BY <1>0, <1>1, <1>3 DEF Types
  <1>8. Types'
    <2>1. freed' \in SUBSET Job
      BY <1>0, <1>1, <1>4 DEF Types, freeing
    <2>2. \A t \in Service : manual'[t].pc # "idle" => manual'[t].job \in Job /\ manual'[t].at \in Time
      BY <1>0, <1>6 DEF Types
    <2> QED  BY <1>0, <1>1, <1>6, <1>7, <2>1, <2>2 DEF Types
  <1>9. OnlyOf(s) /\ loaded(s)'
    BY <1>1, <1>6, <1>7 DEF OnlyOf, loaded
  <1>10. Services' /\ Recorded'
    <2>1. DOMAIN m \subseteq DOMAIN known /\ DOMAIN disk \subseteq DOMAIN known
      BY <1>0, <1>3 DEF AsFiled, SameJobs, Recorded
    <2> QED  BY <1>0, <1>1, <1>3, <1>7, <1>9, <2>1, SectionServices, SectionRecorded
  <1>11. ASSUME ~shared PROVE Kept' /\ Planned' /\ Marked'
    <2>0. Kept /\ Planned /\ Marked /\ s = latest
      BY <1>11 DEF IInv, Kept
    <2>1. Kept'
      <3>1. AsFiled(m, disk)
        BY <1>3, <2>0, AsFiledTwice DEF Kept
      <3> QED  BY <1>1, <1>7, <2>0, <3>1 DEF Kept
    <2>2. \A r \in runs : r.by # "manual"
      BY <2>0 DEF Planned
    <2>3. Planned'
      BY <1>1, <2>0, <2>2 DEF Planned
    <2>4. /\ latest' = latest /\ runs' \subseteq runs
          /\ tick'[latest].todo \subseteq tick[latest].todo
          /\ ToSet(boot'[latest].todo) \subseteq ToSet(boot[latest].todo)
      BY <1>1
    <2>5. ASSUME NEW k \in Job \ (freed \cup S), busy(k)'
          PROVE  /\ k \in DOMAIN disk => disk[k].mark # None
                 /\ k \in DOMAIN m => m[k].mark # None
      <3>1. busy(k)
        BY <1>1, <2>5 DEF busy
      <3>2. /\ k \in DOMAIN disk => disk[k].mark # None
            /\ k \in DOMAIN f => f[k].mark # None
        BY <2>0, <2>5, <3>1 DEF Marked
      <3> QED  BY <1>3, <2>5, <3>2 DEF AsFiled, SameJobs
    <2>6. Marked'
      BY <1>0, <1>1, <1>7, <2>0, <2>4, <2>5, MarkedAfter
    <2> QED  BY <2>1, <2>3, <2>6
  <1> QED  BY <1>1, <1>8, <1>10, <1>11 DEF IInv

\* The user asks for a run.
LEMMA EnqueueRunKeeps == ASSUME IInv, NEW s \in alive, enqueueRun(s) PROVE IInv'
PROOF
  <1>1. PICK j \in userJobs(s), force \in BOOLEAN :
            /\ userOp(s) /\ manual[s].pc = "idle"
            /\ inspectManualRunPreflight(s, j, force, "queued")
    BY DEF enqueueRun
  <1>2. serving(s) /\ ops < MaxOps /\ ops' = ops + 1
    BY <1>1 DEF userOp
  <1>3. ops' \in 0 .. MaxOps
    BY <1>2, Numbers DEF IInv, Types
  <1>4. loaded(s) /\ mem[s] \in Store
    BY <1>2, Serves
  <1>5. j \in Job
    BY <1>1, <1>2, <1>4, StoreShape DEF userJobs
  <1> QED  BY <1>1, <1>3, <1>4, <1>5, PreflightKeeps

\* The command queue starts the run the user asked for.
LEMMA RunKeeps == ASSUME IInv, NEW s \in alive, run(s) PROVE IInv'
PROOF
  <1>1. /\ manual[s].pc = "queued" /\ ops' = ops
        /\ inspectManualRunPreflight(s, manual[s].job, manual[s].force, "prepare")
    BY DEF run
  <1>2. s \in Service /\ loaded(s)
    BY <1>1, Idle DEF IInv, Types, Services
  <1>3. manual[s].job \in Job /\ manual[s].force \in BOOLEAN
    BY <1>1, <1>2 DEF IInv, Types, Manual
  <1>4. ops' \in 0 .. MaxOps
    BY <1>1 DEF IInv, Types
  <1> QED  BY <1>1, <1>2, <1>3, <1>4, PreflightKeeps

\* The section that reserves the job of a manual run.
LEMMA PrepareManualRunKeeps == ASSUME IInv, NEW s \in alive, prepareManualRun(s) PROVE IInv'
PROOF
  <1>0. Types /\ Services /\ Recorded /\ s \in Service
    BY DEF IInv, Types
  <1> DEFINE f == mem[s]
             p == manual[s]
             j == p.job
             q == [p EXCEPT !.pc = "run"]
             g == [f[j] EXCEPT !.mark = p.at]
             n == [f EXCEPT ![j] = g]
             r == begin(s, "manual", j, p.at)
  <1>1. /\ p.pc = "prepare"
        /\ UNCHANGED <<now, latest, alive, timer, tick, boot, ops, known, freed, shared>>
    BY DEF prepareManualRun
  <1>2. \/ manual' = [manual EXCEPT ![s] = NoManual] /\ disk' = disk /\ mem' = mem /\ runs' = runs
        \/ /\ j \in DOMAIN f /\ f[j].mark = None
           /\ persist(s, [f EXCEPT ![j].mark = p.at])
           /\ runs' = runs \cup {r}
           /\ manual' = [manual EXCEPT ![s].pc = "run"]
    BY DEF prepareManualRun, store
  <1>3. /\ loaded(s) /\ f \in Store /\ p \in Manual /\ j \in Job /\ p.at \in Time
    BY <1>0, <1>1, Idle DEF Services, Types
  <1>4. CASE manual' = [manual EXCEPT ![s] = NoManual] /\ disk' = disk /\ mem' = mem /\ runs' = runs
    <2>1. /\ manual' \in [Service -> Manual] /\ manual'[s].pc = "idle"
          /\ \A t \in Service \ {s} : manual'[t] = manual[t]
      BY <1>0, <1>4, Idle DEF Types
    <2>2. Types'
      BY <1>0, <1>1, <1>4, <2>1 DEF Types
    <2>3. OnlyOf(s) /\ loaded(s)'
      BY <1>1, <1>3, <1>4, <2>1 DEF OnlyOf, loaded
    <2>4. Services' /\ Recorded'
      <3>1. DOMAIN f \subseteq DOMAIN known /\ DOMAIN disk \subseteq DOMAIN known
        BY <1>0, <1>3 DEF Recorded
      <3> QED  BY <1>0, <1>1, <1>3, <1>4, <2>3, <3>1, SectionServices, SectionRecorded
    <2>5. ASSUME ~shared PROVE Kept' /\ Planned' /\ Marked'
      <3>0. Kept /\ Planned /\ Marked /\ s = latest
        BY <2>5 DEF IInv, Kept
      <3>1. Kept'
        BY <1>1, <1>4, <3>0 DEF Kept, loaded
      <3>2. \A x \in runs : x.by # "manual"
        BY <1>1, <3>0 DEF Planned
      <3>3. Planned'
        BY <1>1, <1>4, <3>0, <3>2 DEF Planned
      <3>4. Marked'
        BY <1>1, <1>4, <3>0 DEF Marked, busy, loaded
      <3> QED  BY <3>1, <3>3, <3>4
    <2> QED  BY <1>1, <2>2, <2>4, <2>5 DEF IInv
  <1>5. CASE /\ j \in DOMAIN f /\ f[j].mark = None
             /\ persist(s, [f EXCEPT ![j].mark = p.at])
             /\ runs' = runs \cup {r}
             /\ manual' = [manual EXCEPT ![s].pc = "run"]
    <2>1. g \in JobState /\ g.mark = p.at /\ g.mark # None /\ g.at = f[j].at
      <3> DEFINE old == f[j]
                 t == p.at
      <3>1. old \in JobState /\ t \in Time \cup {None} /\ t # None
        BY <1>3, <1>5, StoreShape, Numbers DEF Time, None
      <3>2. g = [old EXCEPT !.mark = t]
        OBVIOUS
      <3> HIDE DEF old, t, g
      <3>3. g \in JobState /\ g.mark = t /\ g.at = old.at
        BY <3>1, <3>2, MarkWritten
      <3> QED  BY <3>1, <3>3 DEF old, t
    <2>2. persist(s, n)
      BY <1>5
    <2> HIDE DEF g
    <2>3. n \in Store /\ DOMAIN n = DOMAIN f /\ n[j] = g /\ \A k \in DOMAIN f \ {j} : n[k] = f[k]
      BY <1>3, <1>5, <2>1, JobReplaced
    <2> HIDE DEF n
    <2>4. /\ r \in Run /\ r.svc = s /\ r.by = "manual" /\ r.job = j /\ r.out = "going"
      BY <1>0, <1>3, Begun
    <2> HIDE DEF r
    <2>5. /\ disk' = n /\ mem'[s] = n /\ mem' \in [Service -> Store \cup {NoStore}]
          /\ \A t \in Service \ {s} : mem'[t] = mem[t]
      BY <1>0, <2>2, <2>3, Persisted
    <2>6. q \in Manual /\ q.pc = "run" /\ q.job = j /\ q.at = p.at
      <3> HIDE DEF p
      <3> QED  BY <1>3 DEF Manual
    <2>7. manual' = [manual EXCEPT ![s] = q]
      BY <1>5
    <2> HIDE DEF q
    <2>8. /\ manual' \in [Service -> Manual] /\ manual'[s] = q
          /\ \A t \in Service \ {s} : manual'[t] = manual[t]
      BY <1>0, <2>6, <2>7 DEF Types
    <2>9. Types'
      <3>1. \A t \in Service : manual'[t].pc # "idle" => manual'[t].job \in Job /\ manual'[t].at \in Time
        BY <1>0, <1>3, <2>6, <2>8 DEF Types
      <3>2. runs' \in SUBSET Run /\ \A x \in runs' : x.out # "going" => x.end \in Time
        BY <1>0, <1>5, <2>4 DEF Types
      <3> QED  BY <1>0, <1>1, <2>3, <2>5, <2>8, <3>1, <3>2 DEF Types
    <2>10. OnlyOf(s) /\ loaded(s)'
      BY <1>1, <1>3, <2>5, <2>8 DEF OnlyOf, loaded
    <2>11. DOMAIN n \subseteq DOMAIN known /\ j \in DOMAIN known
      BY <1>0, <1>3, <1>5, <2>3 DEF Recorded
    <2>12. Services' /\ Recorded'
      BY <1>0, <1>1, <2>3, <2>5, <2>10, <2>11, SectionServices, SectionRecorded
    <2>13. ASSUME ~shared PROVE Kept' /\ Planned' /\ Marked'
      <3>0. Kept /\ Planned /\ Marked /\ s = latest
        BY <2>13 DEF IInv, Kept
      <3>1. Kept'
        <4>1. Listed(f, known)
          BY <1>3, <3>0, KeptListed
        <4>2. Listed(n, known')
          BY <1>1, <1>5, <2>1, <2>3, <4>1 DEF Listed
        <4> QED  BY <1>0, <1>1, <2>2, <2>3, <3>0, <4>2, PersistKept
      <3>2. \A x \in runs : x.by # "manual"
        BY <1>1, <3>0 DEF Planned
      <3>3. Planned'
        BY <1>1, <1>5, <2>4, <2>6, <2>8, <2>11, <3>0, <3>2 DEF Planned
      <3>4. ASSUME NEW k \in Job \ freed, k = j
            PROVE  ~busy(k)
        BY <1>3, <1>5, <3>0, <3>4 DEF Marked
      <3>5. ASSUME NEW k \in Job \ freed
            PROVE  /\ \A x, y \in runs' : x.job = k /\ y.job = k => x = y
                   /\ \A x \in runs' : x.job = k =>
                         k \notin tick[latest].todo /\ k \notin ToSet(boot[latest].todo)
                   /\ k \in tick[latest].todo => k \notin ToSet(boot[latest].todo)
                   /\ busy(k)' => busy(k) \/ k = j
        <4>1. CASE k = j
          BY <1>1, <1>5, <2>4, <3>4, <4>1 DEF busy
        <4>2. CASE k # j
          BY <1>1, <1>5, <2>4, <3>0, <4>2 DEF Marked, busy
        <4> QED  BY <4>1, <4>2
      <3>6. ASSUME NEW k \in Job \ freed, busy(k) \/ k = j, k \in DOMAIN n
            PROVE  n[k].mark # None
        <4>1. CASE k = j
          BY <2>1, <2>3, <4>1
        <4>2. CASE k # j
          BY <1>3, <2>3, <3>0, <3>6, <4>2 DEF Marked
        <4> QED  BY <4>1, <4>2
      <3>7. Marked'
        BY <1>1, <2>5, <3>0, <3>5, <3>6 DEF Marked
      <3> QED  BY <3>1, <3>3, <3>7
    <2> QED  BY <1>1, <2>9, <2>12, <2>13 DEF IInv
  <1> QED  BY <1>2, <1>4, <1>5

\* The result of a manual run is applied in memory, and merged into the file.
LEMMA FinishPreparedManualRunKeeps ==
    ASSUME IInv, NEW s \in alive, finishPreparedManualRun(s) PROVE IInv'
PROOF
  <1>0. Types /\ Services /\ Recorded /\ s \in Service
    BY DEF IInv, Types
  <1> DEFINE f == mem[s]
             j == manual[s].job
             m(done) == applyOutcomes(f, {done}, manual[s].force)
             merged(done) == mergeManualRunSnapshotAfterReload(disk, j, m(done))
             final(done) == recomputeNextRunsForMaintenance(merged(done), now, TRUE)
  <1>1. PICK ran \in ended(s, "manual") :
            /\ manual[s].pc = "run"
            /\ runs' = runs \ {ran}
            /\ manual' = [manual EXCEPT ![s] = NoManual]
            /\ UNCHANGED <<now, latest, alive, boot, ops, shared>>
            /\ IF j \notin DOMAIN f
               THEN UNCHANGED <<disk, mem, timer, tick, known, freed>>
               ELSE /\ persist(s, final(ran))
                    /\ armTimer(s, final(ran))
                    /\ tick' = [tick EXCEPT ![s].held = FALSE]
                    /\ known' = forget(completed(f, {ran}))
                    /\ freeing(losesMark(merged(ran), now))
    BY DEF finishPreparedManualRun, store
  <1> DEFINE done == {ran}
             n == m(ran)
             x == merged(ran)
             y == final(ran)
  <1>2. /\ loaded(s) /\ f \in Store /\ disk \in Store /\ now \in Time /\ j \in Job
        /\ known \in History
    BY <1>0, <1>1, Idle DEF Services, Types
  <1>3. /\ Ended(done) /\ done \subseteq runs /\ ran \in runs
        /\ ran.svc = s /\ ran.by = "manual"
    BY <1>0, <1>1, EndedRuns DEF Ended
  <1>4. /\ manual' \in [Service -> Manual] /\ manual'[s].pc = "idle"
        /\ \A t \in Service \ {s} : manual'[t] = manual[t]
    BY <1>0, <1>1, Idle DEF Types
  <1>5. /\ runs' \in SUBSET Run /\ \A r \in runs' : r.out # "going" => r.end \in Time
        /\ runs' \subseteq runs
    BY <1>0, <1>1 DEF Types
  <1>6. ASSUME ~shared
        PROVE  /\ Kept /\ Planned /\ Marked /\ s = latest /\ ran.job = j
               /\ \A r \in runs' : r.by # "manual"
    <2>1. Kept /\ Planned /\ Marked /\ s = latest
      BY <1>6 DEF IInv, Kept
    <2>2. ran.job = j
      BY <1>3, <2>1 DEF Planned
    <2>3. \A r \in runs : r.by = "manual" => r.job = j
      BY <2>1 DEF Planned
    <2>4. \A r \in runs : r.by = "manual" => r = ran
      BY <1>3, <2>1, <2>2, <2>3 DEF Planned
    <2> QED  BY <1>1, <2>1, <2>2, <2>4
  <1>7. CASE j \notin DOMAIN f
    <2>1. UNCHANGED <<disk, mem, timer, tick, known, freed>>
      BY <1>1, <1>7
    <2>2. Types'
      BY <1>0, <1>1, <1>4, <1>5, <2>1 DEF Types
    <2>3. OnlyOf(s) /\ loaded(s)'
      BY <1>1, <1>2, <1>4, <2>1 DEF OnlyOf, loaded
    <2>4. Services' /\ Recorded'
      <3>1. DOMAIN f \subseteq DOMAIN known /\ DOMAIN disk \subseteq DOMAIN known
        BY <1>0, <1>2 DEF Recorded
      <3> QED  BY <1>0, <1>2, <2>1, <2>3, <3>1, SectionServices, SectionRecorded
    <2>5. ASSUME ~shared PROVE Kept' /\ Planned' /\ Marked'
      <3>0. Kept /\ Planned /\ Marked /\ s = latest /\ \A r \in runs' : r.by # "manual"
        BY <1>6, <2>5
      <3>1. Kept'
        BY <1>1, <2>1, <3>0 DEF Kept, loaded
      <3>2. Planned'
        BY <1>1, <1>5, <2>1, <3>0 DEF Planned
      <3>3. Marked'
        BY <1>1, <1>5, <2>1, <3>0 DEF Marked, busy, loaded
      <3> QED  BY <3>1, <3>2, <3>3
    <2> QED  BY <1>1, <2>2, <2>4, <2>5 DEF IInv
  <1>8. CASE j \in DOMAIN f
    <2>1. /\ persist(s, y) /\ armTimer(s, y)
          /\ tick' = [tick EXCEPT ![s].held = FALSE]
          /\ known' = forget(completed(f, done))
          /\ freeing(losesMark(x, now))
      BY <1>1, <1>8
    <2>2. Applied(n, f, done)
      <3> DEFINE z == n
      <3>1. z = applyOutcomes(f, done, manual[s].force)
        OBVIOUS
      <3> HIDE DEF done, f, z, n, m
      <3> QED  BY <1>2, <1>3, <3>1, OutcomesApplied DEF z
    <2>3. n \in Store
      BY <2>2 DEF Applied
    <2> HIDE DEF n, m, done
    <2>4. /\ x \in Store /\ DOMAIN x = {a \in DOMAIN disk : a = j => j \in DOMAIN n}
          /\ \A k \in DOMAIN x : x[k].at = disk[k].at /\ (k # j => x[k] = disk[k])
      <3> DEFINE z == mergeManualRunSnapshotAfterReload(disk, j, n)
      <3>1. x = z
        BY DEF n
      <3>2. Merged(z, disk, j, n)
        <4> HIDE DEF j, x, merged
        <4> QED  BY <1>2, <2>3, SnapshotMerged
      <3> HIDE DEF x, z, merged
      <3> QED  BY <3>1, <3>2 DEF Merged
    <2> HIDE DEF x, merged
    <2>7. /\ y \in Store /\ SameJobs(y, x)
          /\ \A k \in DOMAIN x : y[k].mark = IF k \in losesMark(x, now) THEN None ELSE x[k].mark
      <3> DEFINE z == recomputeNextRunsForMaintenance(x, now, TRUE)
      <3>1. y = z
        BY DEF x
      <3>2. /\ z \in Store /\ SameJobs(z, x)
            /\ \A k \in DOMAIN x : z[k].mark = IF k \in losesMark(x, now) THEN None ELSE x[k].mark
        <4>1. x \in Store /\ now \in Time /\ TRUE \in BOOLEAN
          BY <1>2, <2>4
        <4> HIDE DEF y, final, f, j
        <4> QED  BY <4>1, Maintained
      <3> HIDE DEF y, z, final
      <3> QED  BY <3>1, <3>2
    <2> HIDE DEF y, final
    <2>8. /\ disk' = y /\ mem'[s] = y /\ mem' \in [Service -> Store \cup {NoStore}]
          /\ \A t \in Service \ {s} : mem'[t] = mem[t]
      BY <1>0, <2>1, <2>7, Persisted
    <2>9. /\ timer' \in [Service -> {"off", "job", "recheck"}]
          /\ \A t \in Service \ {s} : timer'[t] = timer[t]
      BY <1>0, <2>1, Armed
    <2>10. /\ tick' \in [Service -> Tick] /\ tick'[s].pc = tick[s].pc /\ tick'[s].todo = tick[s].todo
           /\ \A t \in Service \ {s} : tick'[t] = tick[t]
      <3> DEFINE b == tick[s]
                 w == [b EXCEPT !.held = FALSE]
      <3>1. b \in Tick
        BY <1>0 DEF Types
      <3>2. tick' = [tick EXCEPT ![s] = w]
        BY <2>1
      <3> HIDE DEF b
      <3>3. w \in Tick /\ w.pc = b.pc /\ w.todo = b.todo
        BY <3>1 DEF Tick
      <3> HIDE DEF w
      <3> QED  BY <1>0, <3>2, <3>3 DEF Types, b
    <2>11. known' \in History /\ DOMAIN known' = DOMAIN known
      BY <1>2, <2>1, Forgotten
    <2>12. Types'
      <3>1. losesMark(x, now) \subseteq Job
        BY <2>4, StoreShape DEF losesMark
      <3>2. freed' \in SUBSET Job
        BY <1>0, <2>1, <3>1 DEF Types, freeing
      <3>3. \A t \in Service : manual'[t].pc # "idle" => manual'[t].job \in Job /\ manual'[t].at \in Time
        BY <1>0, <1>4 DEF Types
      <3> QED  BY <1>0, <1>1, <1>4, <1>5, <2>7, <2>8, <2>9, <2>10, <2>11, <3>2, <3>3 DEF Types
    <2>13. OnlyOf(s) /\ loaded(s)'
      BY <1>1, <1>2, <1>4, <2>8, <2>9, <2>10 DEF OnlyOf, loaded
    <2>14. Services' /\ Recorded'
      <3>1. DOMAIN y \subseteq DOMAIN known
        BY <1>0, <2>4, <2>7 DEF Recorded, SameJobs
      <3> QED  BY <1>0, <2>7, <2>8, <2>11, <2>13, <3>1, SectionServices, SectionRecorded
    <2>15. ASSUME ~shared PROVE Kept' /\ Planned' /\ Marked'
      <3>0. /\ Kept /\ Planned /\ Marked /\ s = latest /\ ran.job = j
            /\ \A r \in runs' : r.by # "manual"
        BY <1>6, <2>15
      <3>1. Kept'
        <4>1. Listed(f, known) /\ Listed(disk, known)
          BY <1>2, <3>0, KeptListed
        <4> DEFINE gone == completed(f, done)
        <4>2. DOMAIN n = DOMAIN f \ gone
          BY <2>2 DEF Applied, done
        <4>3. gone \subseteq {j}
          BY <3>0 DEF completed, done
        <4>4. /\ DOMAIN known' = DOMAIN known
              /\ \A k \in DOMAIN known : known'[k] = IF k \in gone THEN Gone ELSE known[k]
          BY <1>2, <2>1, Forgotten
        <4> HIDE DEF gone, f, j
        <4>5. DOMAIN f = DOMAIN disk
          BY <4>1 DEF Listed
        <4>6. DOMAIN x = DOMAIN disk \ gone
          BY <1>8, <2>4, <4>2, <4>3, <4>5
        <4>7. Listed(x, known')
          BY <2>4, <4>1, <4>4, <4>6 DEF Listed
        <4>8. Listed(y, known')
          BY <2>7, <4>7, SameListed
        <4> QED  BY <1>0, <1>1, <2>1, <2>7, <3>0, <4>8, PersistKept
      <3>2. Planned'
        BY <1>1, <1>5, <2>10, <2>11, <3>0 DEF Planned
      <3>3. /\ latest' = latest /\ runs' \subseteq runs
            /\ tick'[latest].todo \subseteq tick[latest].todo
            /\ ToSet(boot'[latest].todo) \subseteq ToSet(boot[latest].todo)
        BY <1>1, <1>5, <2>10, <3>0
      <3>4. ASSUME NEW k \in Job \ (freed \cup losesMark(x, now)), busy(k)', k \in DOMAIN y
            PROVE  y[k].mark # None
        <4>1. done \in SUBSET runs /\ runs' = runs \ done
          BY <1>1, <1>3 DEF done
        <4>2. busy(k) /\ \A r \in done : r.job # k
          BY <1>0, <3>0, <3>3, <3>4, <4>1, StillBusy
        <4>3. k # j
          BY <3>0, <4>2 DEF done
        <4>4. k \in DOMAIN x /\ x[k] = disk[k] /\ k \in DOMAIN disk
          BY <2>4, <2>7, <3>4, <4>3 DEF SameJobs
        <4>5. disk[k].mark # None
          BY <3>0, <3>4, <4>2, <4>4 DEF Marked
        <4> QED  BY <2>7, <3>4, <4>4, <4>5
      <3>5. Marked'
        BY <1>0, <2>1, <2>8, <3>0, <3>3, <3>4, MarkedAfter
      <3> QED  BY <3>1, <3>2, <3>5
    <2> QED  BY <1>1, <2>12, <2>14, <2>15 DEF IInv
  <1> QED  BY <1>7, <1>8

-----------------------------------------------------------------------------
(* A new service.                                                          *)

\* A hot reload of the configuration.  When no service is at work, there are no
\* runs, and the new service is alone.
LEMMA ReloadKeeps == ASSUME IInv, reload PROVE IInv'
PROOF
  <1>0. Types /\ Services /\ Recorded
    BY DEF IInv
  <1> DEFINE new == latest + 1
  <1>1. /\ latest < MaxService /\ latest' = new
        /\ alive' = {s \in alive : atWork(s)} \cup {new}
        /\ shared' = (shared \/ \E s \in alive : atWork(s))
        /\ timer' = [timer EXCEPT ![latest] = "off"]
        /\ boot' = [boot EXCEPT ![new].phase = "new"]
        /\ mem' = [mem EXCEPT ![latest] = IF atWork(latest) THEN mem[latest] ELSE NoStore]
        /\ UNCHANGED <<now, disk, tick, manual, runs, ops, known, freed>>
    BY DEF reload
  <1>2. /\ new \in Service /\ latest \in Service /\ latest # new /\ alive \subseteq Service
        /\ \A s \in alive : s <= latest /\ s # new
        /\ \A s \in Service : s > new => s > latest /\ s # latest
        /\ new > latest /\ latest <= new /\ \A s \in alive : s <= new
    <2>1. latest \in 1 .. MaxService /\ latest < MaxService /\ MaxService \in Nat
      BY <1>0, <1>1, Numbers DEF Types, Service
    <2>2. /\ alive \subseteq 1 .. MaxService /\ \A s \in alive : s <= latest
      BY <1>0 DEF Types, Services, Service
    <2> QED  BY <2>1, <2>2 DEF Service
  <1>3. /\ tick[new] = NoTick /\ boot[new] = NoBoot /\ manual[new] = NoManual
        /\ mem[new] = NoStore /\ timer[new] = "off"
    BY <1>0, <1>2 DEF Services
  <1> DEFINE w == [NoBoot EXCEPT !.phase = "new"]
  <1>4. boot' = [boot EXCEPT ![new] = w] /\ w \in Boot /\ w.phase = "new" /\ w.todo = <<>>
    <2>1. boot' = [boot EXCEPT ![new] = w]
      BY <1>1, <1>3
    <2> QED  BY <2>1, Idle DEF Phase
  <1> HIDE DEF w
  <1>5. /\ boot' \in [Service -> Boot] /\ boot'[new] = w
        /\ \A t \in Service \ {new} : boot'[t] = boot[t]
    BY <1>0, <1>2, <1>4 DEF Types
  <1>6. /\ timer' \in [Service -> {"off", "job", "recheck"}] /\ timer'[latest] = "off"
        /\ \A t \in Service \ {latest} : timer'[t] = timer[t]
    BY <1>0, <1>1, <1>2 DEF Types
  <1>7. /\ mem' \in [Service -> Store \cup {NoStore}]
        /\ mem'[latest] = mem[latest] \/ (mem'[latest] = NoStore /\ ~atWork(latest))
        /\ \A t \in Service \ {latest} : mem'[t] = mem[t]
    BY <1>0, <1>1, <1>2 DEF Types
  <1>8. alive' \in SUBSET Service /\ shared' \in BOOLEAN
    BY <1>0, <1>1, <1>2 DEF Types
  <1>9. Types'
    BY <1>0, <1>1, <1>2, <1>5, <1>6, <1>7, <1>8 DEF Types
  <1>10. \A t \in alive' \ {new} :
            t \in alive /\ t \in Service /\ t # new /\ boot'[t] = boot[t] /\ mem'[t] = mem[t]
    BY <1>1, <1>2, <1>5, <1>7
  <1>11. Services'
    <2>1. latest' \in alive' /\ \A s \in alive' : s <= latest'
      <3>1. alive' \subseteq alive \cup {new} /\ new \in alive' /\ latest' = new
        BY <1>1
      <3>2. new <= new
        BY <1>2 DEF Service
      <3> HIDE DEF new
      <3> QED  BY <1>2, <3>1, <3>2
    <2>2. ASSUME NEW t \in Service, t > latest'
          PROVE  /\ tick'[t] = NoTick /\ boot'[t] = NoBoot /\ manual'[t] = NoManual
                 /\ mem'[t] = NoStore /\ timer'[t] = "off"
      <3>1. t > latest /\ t # latest /\ t # new
        BY <1>1, <1>2, <2>2 DEF Service
      <3> QED  BY <1>0, <1>1, <1>5, <1>6, <1>7, <3>1 DEF Services
    <2>3. ASSUME NEW t \in alive'
          PROVE  /\ boot'[t].phase # "off"
                 /\ loaded(t)' => mem'[t] \in Store
                 /\ ~loaded(t)' => /\ tick'[t] = NoTick /\ manual'[t] = NoManual
                                   /\ mem'[t] = NoStore /\ timer'[t] = "off"
      <3>1. CASE t = new
        BY <1>1, <1>2, <1>3, <1>4, <1>5, <1>6, <1>7, <3>1 DEF loaded
      <3>2. CASE t # new
        <4>1. t \in alive /\ t \in Service /\ boot'[t] = boot[t] /\ mem'[t] = mem[t]
          BY <1>10, <2>3, <3>2
        <4>2. timer[t] = "off" => timer'[t] = "off"
          BY <1>6, <4>1
        <4> QED  BY <1>0, <1>1, <4>1, <4>2 DEF Services, loaded
      <3> QED  BY <3>1, <3>2
    <2> QED  BY <2>1, <2>2, <2>3 DEF Services
  <1>12. Recorded'
    <2>1. ASSUME NEW t \in alive', loaded(t)'
          PROVE  DOMAIN mem'[t] \subseteq DOMAIN known'
      <3>1. t # new
        BY <1>4, <1>5, <2>1 DEF loaded
      <3>2. t \in alive /\ boot'[t] = boot[t] /\ mem'[t] = mem[t]
        BY <1>10, <2>1, <3>1
      <3> QED  BY <1>0, <1>1, <2>1, <3>2 DEF Recorded, loaded
    <2> QED  BY <1>0, <1>1, <2>1 DEF Recorded
  <1>13. ASSUME ~shared' PROVE Kept' /\ Planned' /\ Marked'
    <2>0. /\ Kept /\ Planned /\ Marked
          /\ tick[latest].pc = "idle" /\ manual[latest].pc = "idle" /\ boot[latest].phase = "up"
          /\ alive' = {new}
      <3>1. ~shared /\ \A s \in alive : ~atWork(s)
        BY <1>0, <1>1, <1>13 DEF Types
      <3>2. latest \in alive
        BY <1>0 DEF Services
      <3> QED  BY <1>1, <3>1, <3>2 DEF IInv, atWork
    <2>1. runs = {}
      <3>1. \A r \in runs : r.by \in {"tick", "start", "manual"}
        BY <1>0 DEF Types, Run
      <3> QED  BY <2>0, <3>1 DEF Planned
    <2>2. ~loaded(latest)'
      BY <1>1, <1>4, <1>5 DEF loaded
    <2>3. Kept'
      BY <1>1, <2>0, <2>2 DEF Kept
    <2>4. /\ tick'[latest'] = NoTick /\ boot'[latest'].todo = <<>> /\ runs' = {}
      BY <1>1, <1>3, <1>4, <1>5, <2>1
    <2>5. Planned'
      BY <2>4, Idle DEF Planned
    <2>6. \A j : ~busy(j)'
      BY <2>4, Idle DEF busy
    <2>7. Marked'
      BY <2>4, <2>6, Idle DEF Marked
    <2> QED  BY <2>3, <2>5, <2>7
  <1> QED  BY <1>9, <1>11, <1>12, <1>13 DEF IInv

\* The process dies: what is on file is what the history knows from then on.
LEMMA CrashKeeps == ASSUME IInv, crash PROVE IInv'
PROOF
  <1>0. Types /\ Services /\ Recorded
    BY DEF IInv
  <1> DEFINE new == latest + 1
             w == [NoBoot EXCEPT !.phase = "new"]
  <1>1. /\ latest < MaxService /\ latest' = new /\ alive' = {new} /\ shared' = FALSE
        /\ mem' = [s \in Service |-> NoStore]
        /\ timer' = [s \in Service |-> "off"]
        /\ tick' = [s \in Service |-> NoTick]
        /\ manual' = [s \in Service |-> NoManual]
        /\ boot' = [s \in Service |-> IF s = new THEN w ELSE NoBoot]
        /\ runs' = {} /\ freed' = {}
        /\ known' = [j \in DOMAIN known |-> IF j \in DOMAIN disk THEN disk[j].at ELSE Gone]
        /\ UNCHANGED <<now, disk, ops>>
    BY DEF crash
  <1>2. new \in Service /\ \A s \in Service : s > new => s # new
    <2>1. latest \in 1 .. MaxService /\ MaxService \in Nat
      BY <1>0, Numbers DEF Types, Service
    <2> QED  BY <1>1, <2>1 DEF Service
  <1>3. w \in Boot /\ w.phase = "new" /\ w.todo = <<>>
    BY Idle DEF Phase
  <1> HIDE DEF w
  <1>4. DOMAIN disk \subseteq DOMAIN known /\ \A j \in DOMAIN disk : disk[j].at \in At
    <2>1. \A j \in DOMAIN disk : disk[j] \in JobState
      BY <1>0, StoreShape DEF Types
    <2> QED  BY <1>0, <2>1 DEF Recorded, JobState
  <1>5. known' \in History /\ DOMAIN known' = DOMAIN known
    <2>1. PICK D \in SUBSET Job : known \in [D -> At \cup {Gone}]
      BY <1>0 DEF Types, History
    <2>2. known' \in [D -> At \cup {Gone}] /\ DOMAIN known = D
      BY <1>1, <1>4, <2>1
    <2> QED  BY <1>1, <2>2 DEF History
  <1>6. Types'
    BY <1>0, <1>1, <1>2, <1>3, <1>5, Idle DEF Types
  <1>7. /\ boot'[new] = w /\ \A t \in Service \ {new} : boot'[t] = NoBoot
    BY <1>1, <1>2
  <1>8. ~loaded(latest)'
    BY <1>1, <1>3, <1>7 DEF loaded
  <1>9. Services'
    <2>1. ASSUME NEW t \in Service
          PROVE  /\ tick'[t] = NoTick /\ manual'[t] = NoManual
                 /\ mem'[t] = NoStore /\ timer'[t] = "off"
      BY <1>1
    <2>2. latest' \in alive' /\ (\A s \in alive' : s = latest' /\ s <= latest') /\ latest' = new
      BY <1>1, <1>2 DEF Service
    <2>3. ASSUME NEW t \in Service, t > latest'
          PROVE  boot'[t] = NoBoot
      BY <1>2, <1>7, <2>2, <2>3
    <2>4. ASSUME NEW t \in alive'
          PROVE  /\ boot'[t].phase # "off" /\ ~loaded(t)' /\ t \in Service
      BY <1>2, <1>3, <1>7, <2>2, <2>4 DEF loaded
    <2> QED  BY <2>1, <2>2, <2>3, <2>4 DEF Services
  <1>10. Recorded'
    <2>1. \A t \in alive' : t = latest'
      BY <1>1
    <2> QED  BY <1>1, <1>4, <1>5, <1>8, <2>1 DEF Recorded
  <1>11. Kept'
    <2>1. Gone \notin At
      BY NotGone
    <2>2. /\ DOMAIN disk = {j \in DOMAIN known' : known'[j] # Gone}
          /\ \A j \in DOMAIN disk : disk[j].at = known'[j]
      BY <1>1, <1>4, <1>5, <2>1
    <2> QED  BY <1>1, <1>8, <2>2 DEF Kept
  <1>12. tick'[new] = NoTick /\ boot'[new].todo = <<>>
    BY <1>1, <1>2, <1>3, <1>7
  <1>13. Planned'
    BY <1>1, <1>12, Idle DEF Planned
  <1>14. Marked'
    <2>1. \A j : ~busy(j)'
      BY <1>1, <1>12, Idle DEF busy
    <2> QED  BY <1>1, <1>12, <2>1, Idle DEF Marked
  <1> QED  BY <1>6, <1>9, <1>10, <1>11, <1>13, <1>14 DEF IInv

-----------------------------------------------------------------------------
(* The invariants.                                                         *)

\* Every step keeps the inductive invariant.
LEMMA NextKeeps == ASSUME IInv, [Next]_vars PROVE IInv'
PROOF
  <1>1. CASE Clock
    BY <1>1, ClockKeeps
  <1>2. ASSUME NEW s \in alive, onTimer(s) PROVE IInv'
    BY <1>2, OnTimerKeeps
  <1>3. ASSUME NEW s \in alive, tickSection(s) PROVE IInv'
    BY <1>3, CollectDueKeeps, RunDueJobKeeps, ApplyResultsKeeps, EndTickKeeps DEF tickSection
  <1>4. ASSUME NEW s \in alive, Starting(s) PROVE IInv'
    BY <1>4, ClearStaleMarksKeeps, PlanStartupCatchupKeeps, RunStartupCatchupCandidateKeeps,
       ApplyStartupCatchupOutcomesKeeps, FinishStartKeeps DEF Starting
  <1>5. ASSUME NEW s \in alive, ManualRun(s) PROVE IInv'
    BY <1>5, RunKeeps, PrepareManualRunKeeps, FinishPreparedManualRunKeeps DEF ManualRun
  <1>6. ASSUME NEW s \in alive, UserOperation(s) PROVE IInv'
    BY <1>6, AddKeeps, UpdateKeeps, RemoveKeeps, EnsureLoadedForReadKeeps, EnqueueRunKeeps
       DEF UserOperation
  <1>7. CASE executeJobCoreWithTimeout
    BY <1>7, ExecuteJobCoreWithTimeoutKeeps
  <1>8. CASE reload
    BY <1>8, ReloadKeeps
  <1>9. CASE crash
    BY <1>9, CrashKeeps
  <1>10. CASE UNCHANGED vars
    BY <1>10 DEF IInv, Types, Services, Recorded, Kept, Planned, Marked, busy, loaded,
                 vars, store, control
  <1> QED  BY <1>1, <1>2, <1>3, <1>4, <1>5, <1>6, <1>7, <1>8, <1>9, <1>10 DEF Next

\* The inductive invariant of the scheduler: the services, the history of the
\* jobs, and the runs and plans with the marks that keep them apart.
THEOREM Invariance == Spec => []IInv
PROOF
  <1>1. Init => IInv
    BY InitIInv
  <1>2. IInv /\ [Next]_vars => IInv'
    BY NextKeeps
  <1> QED  BY <1>1, <1>2, PTL DEF Spec

\* The values the scheduler's state takes (its type invariant), of any number
\* of jobs, services and operations.
THEOREM TypeCorrect == Spec => []TypeOK
PROOF
  <1>1. IInv => TypeOK
    <2> SUFFICES ASSUME IInv PROVE TypeOK
      OBVIOUS
    <2>0. Types
      BY DEF IInv
    <2>1. \A m \in Store : IsStore(m)
      BY StoreShape DEF IsStore
    <2>2. IsStore(disk) /\ \A s \in Service : mem[s] = NoStore \/ IsStore(mem[s])
      BY <2>0, <2>1 DEF Types
    <2>3. tick \in [Service -> [pc : Step, todo : SUBSET Job, held : BOOLEAN]]
      BY <2>0 DEF Types, Tick
    <2>4. ASSUME NEW s \in Service
          PROVE  /\ boot[s].phase \in Phase /\ boot[s].skip \subseteq Job
                 /\ ToSet(boot[s].todo) \cup ToSet(boot[s].later) \subseteq Job
                 /\ manual[s].pc \in {"idle", "queued", "prepare", "run"}
      <3>1. manual[s] \in Manual
        BY <2>0 DEF Types
      <3> QED  BY <2>0, <3>1, BootShape DEF Manual
    <2> QED  BY <2>0, <2>2, <2>3, <2>4 DEF Types, TypeOK
  <1> QED  BY <1>1, Invariance, PTL

\* One job never has two runs under way, whoever starts them (a tick, the
\* catch-up of start(), the user), unless its mark was taken away or a service
\* was replaced at work.
THEOREM RunsApart == Spec => []OneRunAtATime
PROOF
  <1>1. IInv => OneRunAtATime
    <2> SUFFICES ASSUME IInv, NEW j \in Job \ freed, ~shared
                 PROVE  Cardinality({r \in runs : r.job = j /\ r.out = "going"}) <= 1
      BY DEF OneRunAtATime, IInv, Types
    <2> DEFINE S == {r \in runs : r.job = j /\ r.out = "going"}
    <2>1. \A q, r \in S : q = r
      BY DEF IInv, Marked
    <2> HIDE DEF S
    <2>2. Cardinality(S) <= 1
      <3>1. CASE S = {}
        BY <3>1, FS_EmptySet
      <3>2. CASE S # {}
        <4>1. PICK r : S = {r}
          BY <2>1, <3>2
        <4>2. Cardinality(S) = 1
          BY <4>1, FS_Singleton
        <4> QED  BY <4>2
      <3> QED  BY <3>1, <3>2
    <2> QED  BY <2>2 DEF S
  <1> QED  BY <1>1, Invariance, PTL

\* No write of a tick, of the catch-up or of a manual run brings a job back that
\* the user removed, loses one that was added or undoes an edit of its time.
THEOREM JobsStay == Spec => []JobsKept
PROOF
  <1>1. IInv => JobsKept
    BY DEF IInv, Types, Kept, JobsKept
  <1> QED  BY <1>1, Invariance, PTL

-----------------------------------------------------------------------------
(* The slots that passed.                                                  *)

\* A job that waits is in memory as it is on file, with the same next run.
LEMMA WaitsInMemory ==
    ASSUME IInv, ~shared, NEW s \in alive, loaded(s), NEW j \in Job, Waits(j)
    PROVE  /\ s \in Service /\ s = latest /\ mem[s] \in Store /\ disk \in Store /\ now \in Time
           /\ SameJobs(mem[s], disk)
           /\ j \in DOMAIN disk /\ disk[j].on /\ disk[j].mark = None /\ disk[j].next # None
           /\ disk[j].next <= now
           /\ j \in DOMAIN mem[s] /\ mem[s][j].on /\ mem[s][j].next = disk[j].next
           /\ mem[s][j].last = disk[j].last
PROOF
  <1>1. s \in Service /\ s = latest /\ mem[s] \in Store /\ disk \in Store /\ now \in Time
    BY DEF IInv, Types, Services, Kept
  <1>2. AsFiled(mem[s], disk)
    BY <1>1 DEF IInv, Kept
  <1>3. /\ j \in DOMAIN disk /\ disk[j].on /\ disk[j].mark = None /\ disk[j].next # None
        /\ disk[j].next <= now
    BY DEF Waits, IsDue
  <1> QED  BY <1>1, <1>2, <1>3 DEF AsFiled, SameJobs

\* A step that stores the copy in memory, with the maintenance pass or with
\* other marks, moves no slot that a job waits for.
LEMMA StoredUnmoved ==
    ASSUME IInv, NEW s \in alive, loaded(s), NEW j \in Job, Moved(j),
           NEW n \in Store, persist(s, n), j \in DOMAIN n => n[j].next = mem[s][j].next
    PROVE  FALSE
PROOF
  <1>1. /\ s \in Service /\ mem[s][j].next = disk[j].next
    BY WaitsInMemory DEF Moved
  <1>2. disk' = n
    BY <1>1, Persisted DEF IInv
  <1> QED  BY <1>1, <1>2 DEF Moved

\* A tick that finds a job that waits marks it; when it applies its results, it
\* moves the slots of the jobs that ran.
LEMMA TickMoves ==
    ASSUME IInv, NEW s \in alive, tickSection(s), NEW j \in Job, Moved(j)
    PROVE  Excused(j)
PROOF
  <1>0. /\ ~shared /\ Waits(j) /\ disk \in Store /\ now \in Time /\ s \in Service
        /\ j \in DOMAIN disk /\ disk[j].on /\ disk[j].next # None /\ IsDue(disk[j], now)
    BY DEF Moved, Waits, IsDue, IInv, Types
  <1>1. CASE collectDue(s)
    <2> DEFINE due == {k \in DOMAIN disk : IsDue(disk[k], now)}
               n == [k \in DOMAIN disk |-> IF k \in due THEN [disk[k] EXCEPT !.mark = now] ELSE disk[k]]
    <2>1. due # {}
      BY <1>0
    <2>2. persist(s, n)
      BY <1>1, <2>1 DEF collectDue
    <2>3. n \in Store /\ n[j].next = disk[j].next
      <3> DEFINE x == n
      <3>1. x = [k \in DOMAIN disk |-> IF k \in due THEN [disk[k] EXCEPT !.mark = now] ELSE disk[k]]
        OBVIOUS
      <3> HIDE DEF x, n, due
      <3> QED  BY <1>0, <3>1, MarksWritten DEF x
    <2> HIDE DEF n
    <2>4. disk' = n
      BY <1>0, <2>2, <2>3, Persisted DEF IInv
    <2> QED  BY <2>3, <2>4 DEF Moved
  <1>2. CASE runDueJob(s)
    <2>1. disk' = disk
      BY <1>2 DEF runDueJob
    <2> QED  BY <2>1 DEF Moved
  <1>3. CASE applyResults(s)
    <2> DEFINE done == ended(s, "tick")
               m == applyOutcomes(disk, done, FALSE)
               final == recomputeNextRunsForMaintenance(m, now, FALSE)
    <2>1. persist(s, final) /\ runs' = runs \ done
      BY <1>3 DEF applyResults
    <2>2. Ended(done) /\ done \subseteq runs
      BY EndedRuns DEF IInv
    <2>3. Applied(m, disk, done)
      <3> DEFINE x == m
      <3>1. x = applyOutcomes(disk, done, FALSE)
        OBVIOUS
      <3> HIDE DEF done, x, m
      <3> QED  BY <1>0, <2>2, <3>1, OutcomesApplied DEF x
    <2> HIDE DEF m, done
    <2>4. CASE \E r \in done : r.job = j
      <3>1. PICK r \in done : r.job = j
        BY <2>4
      <3>2. r \in runs \ runs' /\ r.out # "going"
        BY <2>1, <2>2, <3>1 DEF Ended
      <3> QED  BY <3>1, <3>2 DEF Excused
    <2>5. CASE \A r \in done : r.job # j
      <3>1. m \in Store /\ j \in DOMAIN m /\ m[j] = disk[j]
        BY <1>0, <2>3, <2>5 DEF Applied
      <3>2. /\ final \in Store
            /\ \A k \in DOMAIN m : m[k].on /\ m[k].next # None => final[k].next = m[k].next
        BY <1>0, <3>1, Repaired
      <3> HIDE DEF final
      <3>3. final \in Store /\ final[j].next = m[j].next
        BY <1>0, <3>1, <3>2
      <3>4. disk' = final
        BY <1>0, <2>1, <3>3, Persisted DEF IInv
      <3> QED  BY <3>1, <3>3, <3>4 DEF Moved
    <2> QED  BY <2>4, <2>5
  <1>4. CASE endTick(s)
    <2>1. disk' = disk
      BY <1>4 DEF endTick, store
    <2> QED  BY <2>1 DEF Moved
  <1> QED  BY <1>1, <1>2, <1>3, <1>4 DEF tickSection

\* Of start(), only the sections that end the catch-up and the start move a slot.
LEMMA StartMoves ==
    ASSUME IInv, NEW s \in alive, Starting(s), NEW j \in Job, Moved(j)
    PROVE  Excused(j)
PROOF
  <1>0. Types /\ s \in Service /\ boot[s] \in Boot /\ ~shared /\ Waits(j) /\ disk \in Store
    BY DEF Moved, IInv, Types
  <1>1. CASE clearStaleMarks(s)
    <2> DEFINE n == [k \in DOMAIN disk |-> [disk[k] EXCEPT !.mark = None]]
    <2>1. disk' = n
      BY <1>1 DEF clearStaleMarks, persist
    <2>2. disk'[j].next = disk[j].next
      <3> DEFINE r == disk[j]
      <3>1. j \in DOMAIN disk /\ r \in JobState
        BY <1>0, StoreShape DEF Waits
      <3>2. n[j] = [r EXCEPT !.mark = None]
        BY <3>1
      <3> HIDE DEF r, n
      <3>3. n[j].next = r.next
        BY <3>1, <3>2, MarkWritten
      <3> QED  BY <2>1, <3>3 DEF r
    <2> QED  BY <2>2 DEF Moved
  <1>2. CASE planStartupCatchup(s)
    <2> DEFINE m == mem[s]
               n(todo) == [k \in DOMAIN m |-> IF k \in ToSet(todo) THEN [m[k] EXCEPT !.mark = now] ELSE m[k]]
    <2>1. \/ disk' = disk
          \/ \E todo : persist(s, n(todo))
      BY <1>2 DEF planStartupCatchup, store
    <2>2. loaded(s)
      BY <1>2 DEF planStartupCatchup, loaded
    <2>3. m \in Store /\ now \in Time /\ j \in DOMAIN m
      BY <1>0, <2>2, WaitsInMemory
    <2>4. ASSUME NEW todo, persist(s, n(todo)) PROVE FALSE
      <3> DEFINE S == ToSet(todo)
                 x == n(todo)
      <3>1. x = [k \in DOMAIN m |-> IF k \in S THEN [m[k] EXCEPT !.mark = now] ELSE m[k]]
        OBVIOUS
      <3>2. persist(s, x)
        BY <2>4
      <3> HIDE DEF S, x, n
      <3>3. x \in Store /\ x[j].next = m[j].next
        BY <2>3, <3>1, MarksWritten
      <3> QED  BY <2>2, <3>2, <3>3, StoredUnmoved
    <2>5. CASE disk' = disk
      BY <2>5 DEF Moved
    <2> HIDE DEF n
    <2> QED  BY <2>1, <2>4, <2>5
  <1>3. CASE runStartupCatchupCandidate(s)
    <2>1. disk' = disk
      BY <1>3 DEF runStartupCatchupCandidate, store
    <2> QED  BY <2>1 DEF Moved
  <1>4. CASE applyStartupCatchupOutcomes(s)
    <2> DEFINE b == boot[s]
               w == [[b EXCEPT !.phase = "caught"] EXCEPT !.later = <<>>]
    <2>1. b.phase = "catchup" /\ boot' = [boot EXCEPT ![s].phase = "caught", ![s].later = <<>>]
      BY <1>4 DEF applyStartupCatchupOutcomes
    <2>2. boot'[s] = w
      BY <1>0, <2>1 DEF Types
    <2> HIDE DEF b
    <2>3. w.phase = "caught"
      BY <1>0 DEF Boot, b
    <2>4. endsStart(s)
      BY <2>1, <2>2, <2>3 DEF endsStart, b
    <2> QED  BY <2>4 DEF Excused, MayMove
  <1>5. CASE finishStart(s)
    <2> DEFINE w == [NoBoot EXCEPT !.phase = "up"]
    <2>1. boot[s].phase \in {"caught", "final"} /\ boot' = [boot EXCEPT ![s] = w]
      BY <1>5 DEF finishStart
    <2>2. w.phase = "up"
      BY Idle DEF Phase
    <2> HIDE DEF w
    <2>3. boot'[s] = w
      BY <1>0, <2>1 DEF Types
    <2>4. endsStart(s)
      BY <2>1, <2>2, <2>3 DEF endsStart
    <2> QED  BY <2>4 DEF Excused, MayMove
  <1> QED  BY <1>1, <1>2, <1>3, <1>4, <1>5 DEF Starting

\* Of a manual run, only the section that applies its result moves a slot, of
\* that job or of one that was served.
LEMMA ManualRunMoves ==
    ASSUME IInv, NEW s \in alive, ManualRun(s), NEW j \in Job, Moved(j)
    PROVE  Excused(j)
PROOF
  <1>0. Types /\ s \in Service /\ ~shared /\ Waits(j)
    BY DEF Moved, IInv, Types
  <1>1. CASE run(s)
    <2>1. disk' = disk
      BY <1>1 DEF run, inspectManualRunPreflight
    <2> QED  BY <2>1 DEF Moved
  <1>2. CASE prepareManualRun(s)
    <2> DEFINE f == mem[s]
               p == manual[s]
               k == p.job
               t == p.at
               old == f[k]
               g == [old EXCEPT !.mark = t]
               n == [f EXCEPT ![k] = g]
    <2>1. /\ p.pc = "prepare"
          /\ \/ disk' = disk
             \/ k \in DOMAIN f /\ persist(s, [f EXCEPT ![k].mark = t])
      BY <1>2 DEF prepareManualRun, store
    <2>2. loaded(s)
      BY <1>0, <2>1, Idle DEF IInv, Services
    <2>3. f \in Store /\ j \in DOMAIN f
      BY <1>0, <2>2, WaitsInMemory
    <2>4. t \in Time \cup {None}
      BY <1>0, <2>1 DEF Types
    <2>5. CASE k \in DOMAIN f /\ persist(s, [f EXCEPT ![k].mark = t])
      <3>1. persist(s, n)
        BY <2>5
      <3>2. old \in JobState
        BY <2>3, <2>5, StoreShape
      <3>3. g \in JobState /\ g.next = old.next
        <4> HIDE DEF old, t
        <4> QED  BY <2>4, <3>2, MarkWritten
      <3> HIDE DEF g
      <3>4. n \in Store /\ n[k] = g /\ \A i \in DOMAIN f \ {k} : n[i] = f[i]
        BY <2>3, <2>5, <3>3, JobReplaced
      <3> HIDE DEF n
      <3>5. n[j].next = f[j].next
        BY <2>3, <3>3, <3>4
      <3> QED  BY <2>2, <3>1, <3>4, <3>5, StoredUnmoved
    <2> QED  BY <2>1, <2>5 DEF Moved
  <1>3. CASE finishPreparedManualRun(s)
    <2> DEFINE f == mem[s]
               k == manual[s].job
               n(done) == applyOutcomes(f, {done}, manual[s].force)
               x(done) == mergeManualRunSnapshotAfterReload(disk, k, n(done))
               y(done) == recomputeNextRunsForMaintenance(x(done), now, TRUE)
    <2>1. PICK ran \in ended(s, "manual") :
              /\ manual[s].pc = "run" /\ runs' = runs \ {ran}
              /\ disk' = disk \/ persist(s, y(ran))
      BY <1>3 DEF finishPreparedManualRun, store
    <2>2. /\ Ended({ran}) /\ ran \in runs \ runs' /\ ran.out # "going" /\ ran.job = k
      <3>1. ran \in runs /\ ran.out # "going" /\ ran.by = "manual"
        BY <2>1 DEF ended
      <3>2. ran.job = manual[latest].job /\ s = latest
        BY <1>0, <3>1 DEF IInv, Planned, Kept
      <3> QED  BY <1>0, <2>1, <3>1, <3>2 DEF Ended, Types
    <2>3. CASE k = j
      BY <2>2, <2>3 DEF Excused
    <2>4. CASE k # j /\ persist(s, y(ran))
      <3>1. loaded(s)
        BY <1>0, <2>1, Idle DEF IInv, Services
      <3>2. /\ f \in Store /\ disk \in Store /\ now \in Time /\ j \in DOMAIN disk
            /\ disk[j].on /\ disk[j].next # None
        BY <1>0, <3>1, WaitsInMemory
      <3>3. k \in Job
        BY <1>0, <2>1 DEF Types
      <3> DEFINE m == n(ran)
      <3>4. m \in Store
        <4> DEFINE done == {ran}
                   z == m
        <4>1. z = applyOutcomes(f, done, manual[s].force)
          OBVIOUS
        <4>2. Ended(done)
          BY <2>2
        <4> HIDE DEF done, f, z, m, n
        <4>3. Applied(z, f, done)
          BY <3>2, <4>1, <4>2, OutcomesApplied
        <4> QED  BY <4>3 DEF Applied, z
      <3> DEFINE merged == x(ran)
                 final == y(ran)
      <3>5. merged = mergeManualRunSnapshotAfterReload(disk, k, m)
        OBVIOUS
      <3>6. persist(s, final)
        BY <2>4
      <3>7. final = recomputeNextRunsForMaintenance(merged, now, TRUE)
        OBVIOUS
      <3> HIDE DEF m, n, merged, x, final, y, k, f
      <3>8. merged \in Store /\ j \in DOMAIN merged /\ merged[j] = disk[j]
        <4> DEFINE z == mergeManualRunSnapshotAfterReload(disk, k, m)
        <4>1. m \in Store /\ disk \in Store /\ k \in Job
          BY <3>2, <3>3, <3>4
        <4>2. Merged(z, disk, k, m)
          BY <4>1, SnapshotMerged
        <4> HIDE DEF z
        <4> QED  BY <2>4, <3>2, <3>5, <4>2 DEF z, Merged
      <3>9. /\ final \in Store
            /\ \/ final[j].next = merged[j].next
               \/ merged[j].last # None /\ merged[j].last >= merged[j].next
        <4> DEFINE z == recomputeNextRunsForMaintenance(merged, now, TRUE)
        <4>1. merged \in Store /\ now \in Time /\ TRUE \in BOOLEAN
          BY <3>2, <3>8
        <4>2. /\ z \in Store
              /\ \A i \in DOMAIN merged : merged[i].on /\ merged[i].next # None =>
                    \/ z[i].next = merged[i].next
                    \/ TRUE /\ merged[i].last # None /\ merged[i].last >= merged[i].next
          BY <4>1, Maintained
        <4> HIDE DEF z
        <4> QED  BY <3>2, <3>7, <3>8, <4>2 DEF z
      <3>10. disk' = final
        BY <1>0, <3>6, <3>9, Persisted
      <3> QED  BY <3>8, <3>9, <3>10 DEF Moved, Excused
    <2> QED  BY <2>1, <2>3, <2>4 DEF Moved
  <1> QED  BY <1>1, <1>2, <1>3 DEF ManualRun

\* Of the user's operations, add and the edit of the job itself may move a slot;
\* the edit of another job leaves it alone, and so do remove and a read.
LEMMA UserOperationMoves ==
    ASSUME IInv, NEW s \in alive, UserOperation(s), NEW j \in Job, Moved(j)
    PROVE  Excused(j)
PROOF
  <1> DEFINE f == mem[s]
  <1>0. Types /\ s \in Service /\ ~shared /\ Waits(j)
    BY DEF Moved, IInv, Types
  <1>1. serving(s) => loaded(s)
    BY Serves
  <1>2. loaded(s) => /\ f \in Store /\ disk \in Store /\ now \in Time /\ SameJobs(f, disk)
                     /\ AsFiled(f, disk) /\ j \in DOMAIN f /\ f[j].on /\ f[j].next # None
    <2> SUFFICES ASSUME loaded(s)
                 PROVE  /\ f \in Store /\ disk \in Store /\ now \in Time /\ SameJobs(f, disk)
                        /\ AsFiled(f, disk) /\ j \in DOMAIN f /\ f[j].on /\ f[j].next # None
      OBVIOUS
    <2>1. /\ s = latest /\ f \in Store /\ disk \in Store /\ now \in Time /\ SameJobs(f, disk)
          /\ j \in DOMAIN f /\ f[j].on /\ f[j].next = disk[j].next /\ disk[j].next # None
      BY <1>0, WaitsInMemory
    <2>2. AsFiled(f, disk)
      BY <1>0, <2>1 DEF IInv, Kept
    <2> QED  BY <2>1, <2>2
  <1>3. CASE add(s)
    BY <1>3 DEF Excused, MayMove
  <1>4. CASE update(s)
    <2>0. PICK k \in userJobs(s) : updateJob(s, k)
      BY <1>4 DEF update
    <2>1. PICK on \in BOOLEAN, scheduling \in BOOLEAN, time \in times(k) \cup {f[k].at} :
              userOp(s) /\ edit(s, f, k, updated(k, f[k], on, time, scheduling))
      BY <2>0 DEF updateJob
    <2>2. /\ loaded(s) /\ f \in Store /\ disk \in Store /\ now \in Time /\ AsFiled(f, disk)
          /\ k \in DOMAIN f /\ k \in Job
      <3>1. serving(s) /\ k \in DOMAIN f
        BY <2>0, <2>1 DEF userOp, userJobs
      <3> QED  BY <1>1, <1>2, <3>1, StoreShape
    <2> DEFINE old == f[k]
               g == updated(k, old, on, time, scheduling)
               n == [f EXCEPT ![k] = g]
    <2>3. g \in JobState
      <3>1. old \in JobState /\ old.at = f[k].at
        BY <2>2, StoreShape
      <3>2. time \in At
        BY <2>1, <2>2, <3>1, TimesAre DEF JobState
      <3> HIDE DEF old
      <3> QED  BY <2>1, <2>2, <3>1, <3>2, UpdatedJob
    <2>4. persist(s, n)
      BY <2>1 DEF edit
    <2> HIDE DEF g
    <2>5. n \in Store /\ DOMAIN n = DOMAIN f /\ \A i \in DOMAIN f \ {k} : n[i] = f[i]
      BY <2>2, <2>3, JobReplaced
    <2> HIDE DEF n
    <2>6. CASE k # j
      <3>1. n[j].next = f[j].next
        BY <1>2, <2>2, <2>5, <2>6
      <3> QED  BY <2>2, <2>4, <2>5, <3>1, StoredUnmoved
    <2>7. CASE k = j
      BY <2>0, <2>7 DEF Excused, MayMove
    <2> QED  BY <2>6, <2>7
  <1>5. CASE remove(s)
    <2>1. PICK k \in userJobs(s) : userOp(s) /\ persist(s, [i \in DOMAIN f \ {k} |-> f[i]])
      BY <1>5 DEF remove
    <2> DEFINE n == [i \in DOMAIN f \ {k} |-> f[i]]
    <2>2. loaded(s) /\ f \in Store
      BY <1>1, <1>2, <2>1 DEF userOp
    <2>3. n \in Store
      <3>1. DOMAIN f \subseteq Job /\ \A i \in DOMAIN f : f[i] \in JobState
        BY <2>2, StoreShape
      <3>2. n \in [DOMAIN f \ {k} -> JobState] /\ DOMAIN f \ {k} \in SUBSET Job
        BY <3>1
      <3> QED  BY <3>2, StoreShape
    <2>4. j \in DOMAIN n => n[j].next = f[j].next
      OBVIOUS
    <2>5. persist(s, n)
      BY <2>1
    <2> HIDE DEF n
    <2> QED  BY <2>2, <2>3, <2>4, <2>5, StoredUnmoved
  <1>6. CASE ensureLoadedForRead(s)
    <2> DEFINE n == recomputeNextRunsForMaintenance(f, now, FALSE)
    <2>1. serving(s) /\ persist(s, n)
      BY <1>6 DEF ensureLoadedForRead
    <2>2. loaded(s) /\ f \in Store /\ now \in Time /\ j \in DOMAIN f /\ f[j].on /\ f[j].next # None
      BY <1>1, <1>2, <2>1
    <2>3. /\ n \in Store
          /\ \A k \in DOMAIN f : f[k].on /\ f[k].next # None => n[k].next = f[k].next
      <3> HIDE DEF f
      <3> QED  BY <2>2, Repaired
    <2> HIDE DEF n
    <2> QED  BY <2>1, <2>2, <2>3, StoredUnmoved
  <1>7. CASE enqueueRun(s)
    <2>1. disk' = disk
      BY <1>7 DEF enqueueRun, inspectManualRunPreflight
    <2> QED  BY <2>1 DEF Moved
  <1> QED  BY <1>3, <1>4, <1>5, <1>6, <1>7 DEF UserOperation

\* A slot that has passed is not given up without a run: neither reads, nor
\* ticks, nor manual runs of other jobs move it.
THEOREM SlotsKept == Spec => PassedSlotKept
PROOF
  <1>1. IInv /\ [Next]_vars => [\A j \in Job : Moved(j) => Excused(j)]_vars
    <2> SUFFICES ASSUME IInv, Next, NEW j \in Job, Moved(j)
                 PROVE  Excused(j)
      OBVIOUS
    <2>1. CASE disk' = disk
      BY <2>1 DEF Moved
    <2>2. Clock \/ executeJobCoreWithTimeout \/ reload \/ crash => disk' = disk
      BY DEF Clock, executeJobCoreWithTimeout, reload, crash, store
    <2>3. ASSUME NEW s \in alive, onTimer(s) PROVE disk' = disk
      BY <2>3 DEF onTimer, store
    <2> QED  BY <2>1, <2>2, <2>3, TickMoves, StartMoves, ManualRunMoves, UserOperationMoves DEF Next
  <1> QED  BY <1>1, Invariance, PTL DEF Spec, PassedSlotKept

=============================================================================
