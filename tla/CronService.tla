---------------------------- MODULE CronService ----------------------------
(***************************************************************************)
(* The cron scheduler (src/src/cron/service: ops.ts, timer.ts, jobs.ts,    *)
(* locked.ts, store.ts).  A service keeps the jobs in memory and on disk.  *)
(* Everything that reads and writes them runs under a lock on the store's  *)
(* path and is one action here; runs execute outside the lock, so a timer  *)
(* tick, a manual run, the catch-up of start() and the user's edits        *)
(* interleave between the section that marks a job (runningAtMs) and the   *)
(* one that applies its result.                                            *)
(*                                                                         *)
(* A hot reload of the configuration stops the service and starts another  *)
(* one on the same store; a crash loses the memory and keeps the disk.     *)
(* Services are numbered as they are created; `latest` serves the user.    *)
(*                                                                         *)
(* Time is a bounded counter whose unit is longer than the timer's clamp   *)
(* and its minimal gap: an armed timer may fire at any moment.  Schedules  *)
(* are a one-shot time ("at"), a cadence ("every", from an anchor) or a    *)
(* grid ("cron"), both of the one period Period.                           *)
(***************************************************************************)
EXTENDS Integers, Sequences, FiniteSets, SequencesExt

CONSTANTS
    Job,            \* job ids
    Kind,           \* Kind[j]: "at", "every" or "cron"
    NoStore,        \* state.store = null
    KeepAfterRun,   \* the one-shot jobs with deleteAfterRun = false
    Stored,         \* the sets of jobs that may be on disk at first
    FirstAt,        \* the one-shot times and anchors a caller may give
    Outcome,        \* how a run may end
    Period,         \* everyMs and the distance of the cron slots
    Backoff,        \* the delay after an error
    MaxAttempts,    \* retry.maxAttempts of a one-shot job
    Stuck,          \* STUCK_RUN_MS
    MaxImmediate,   \* maxMissedJobsPerRestart
    Stagger,        \* missedJobStaggerMs
    Concurrency,    \* maxConcurrentRuns
    MaxNow,         \* bound on the clock
    MaxService,     \* bound on the services created
    MaxOps          \* bound on the user's operations

ASSUME CronAssumption ==
    /\ IsFiniteSet(Job)
    /\ Kind \in [Job -> {"at", "every", "cron"}]
    /\ KeepAfterRun \subseteq Job /\ Stored \subseteq SUBSET Job /\ FirstAt \subseteq Nat
    /\ Outcome \subseteq {"ok", "skipped", "error", "fatal"} /\ Outcome # {}
    /\ {Period, Backoff, Stagger, Concurrency, MaxService} \subseteq Nat \ {0}
    /\ {MaxAttempts, Stuck, MaxImmediate, MaxNow, MaxOps} \subseteq Nat

VARIABLES
    now,        \* nowMs()
    disk,       \* the store file
    mem,        \* state.store of each service, NoStore before it is loaded
    latest,     \* the service the gateway calls
    alive,      \* the services that still have a timer, a tick or a run
    timer,      \* state.timer: "off", "job" or "recheck"
    tick,       \* onTimer of each service: its step and the jobs still to start
    boot,       \* start() of each service
    manual,     \* the manual run of each service
    runs,       \* the runs under way, and the outcomes not applied yet
    ops,        \* operations of the user so far
    known,      \* history: the jobs there ever were, with their times or Gone
    freed,      \* history: jobs that lost their mark during a run
    shared      \* history: a service was replaced while it was at work

store == <<disk, mem>>
control == <<latest, alive, timer, tick, boot, manual>>
vars == <<now, store, control, runs, ops, known, freed, shared>>

None == -1
Gone == -2
Time == 0 .. MaxNow
Service == 1 .. MaxService
Step == {"idle", "due", "run", "end"}
Phase == {"off", "new", "plan", "catchup", "caught", "final", "up"}

\* Times a job's next run may have: beyond the clock by a period or a backoff.
NextTime == {None} \cup 0 .. (MaxNow + Period + Backoff + Stagger * Cardinality(Job))
                   \cup FirstAt

\* The time of a one-shot job, the anchor of a cadence, or none.
At == FirstAt \cup Time \cup {None}

JobState == [on : BOOLEAN, at : At, next : NextTime,
             mark : Time \cup {None}, last : Time \cup {None},
             st : {"none", "ok", "skipped", "error"}, errs : 0 .. (MaxAttempts + 1)]

IsStore(m) == DOMAIN m \subseteq Job /\ \A j \in DOMAIN m : m[j] \in JobState

Run == [svc : Service, by : {"tick", "start", "manual"}, job : Job,
        start : Time, end : Time \cup {None}, out : Outcome \cup {"going"}]

-----------------------------------------------------------------------------
(* Schedules.                                                              *)

\* computeNextRunAtMs for "every": the first slot after the anchor that is not
\* over, or the anchor when it is still to come.
anchored(a, t) ==
    IF t < a THEN a
    ELSE a + (IF t = a THEN 1 ELSE (t - a + Period - 1) \div Period) * Period

\* computeJobNextRunAtMs.  An interval counts from the last run while that is
\* in the future, and from the anchor when it is not; a slot of the anchor's
\* grid that is now counts, a cron slot does not.
computeNext(j, r, t) ==
    CASE ~r.on -> None
      [] r.on /\ Kind[j] = "at" ->
            IF r.st = "ok" /\ r.last # None /\ r.at <= r.last THEN None ELSE r.at
      [] r.on /\ Kind[j] = "every" ->
            IF r.last # None /\ r.last + Period > t THEN r.last + Period
            ELSE anchored(r.at, t)
      [] r.on /\ Kind[j] = "cron" -> (t \div Period + 1) * Period

\* computeJobPreviousRunAtMs: the latest cron slot before t.
previousSlot(t) == IF t = 0 THEN None ELSE ((t - 1) \div Period) * Period

IsDue(r, t) == r.on /\ r.mark = None /\ r.next # None /\ r.next <= t

\* isErrorBackoffPending.
backoffPending(r, t) == r.st = "error" /\ r.last # None /\ t < r.last + Backoff

\* isRunnableJob with the options of start(): a one-shot job that ended is
\* only due as a retry, a cron job also when a slot passed since its last run.
isMissed(j, r, t) ==
    /\ r.on /\ r.mark = None
    /\ IF Kind[j] = "at" /\ r.st # "none"
       THEN r.st = "error" /\ r.next # None /\ r.last # None /\ r.last < r.next /\ r.next <= t
       ELSE \/ r.next # None /\ r.next <= t
            \/ /\ Kind[j] = "cron" /\ r.last # None
               /\ ~(r.next # None /\ r.next > t /\ backoffPending(r, t))
               /\ previousSlot(t) > r.last

-----------------------------------------------------------------------------
(* The passes over the whole store.                                        *)

\* The jobs whose mark normalizeJobTickState clears: a job that is disabled,
\* and a run that is older than STUCK_RUN_MS.
losesMark(m, t) ==
    {j \in DOMAIN m : m[j].mark # None /\ (~m[j].on \/ t - m[j].mark > Stuck)}

normalizeJobTickState(m, t) ==
    [j \in DOMAIN m |->
        [m[j] EXCEPT !.next = IF m[j].on THEN @ ELSE None,
                     !.mark = IF j \in losesMark(m, t) THEN None ELSE @]]

\* recomputeNextRuns: a slot that has passed is given up for the next one.
recomputeNextRuns(m, t) ==
    LET n == normalizeJobTickState(m, t) IN
    [j \in DOMAIN m |->
        [n[j] EXCEPT !.next = IF @ = None \/ @ <= t THEN computeNext(j, n[j], t) ELSE @]]

\* Mutant of recomputeNextRunsForMaintenance: it gives passed slots up.
recomputeNextRunsForMaintenance_Full(m, t, expired) ==
    LET n == normalizeJobTickState(m, t) IN
    [j \in DOMAIN m |->
        [n[j] EXCEPT !.next = IF @ = None \/ (@ <= t /\ n[j].mark = None)
                              THEN computeNext(j, n[j], t) ELSE @]]

\* recomputeNextRunsForMaintenance: only a missing slot is computed and, with
\* recomputeExpired, one that a run has already served.
recomputeNextRunsForMaintenance(m, t, expired) ==
    LET n == normalizeJobTickState(m, t)
        served(r) == r.mark = None /\ r.last # None /\ r.last >= r.next IN
    [j \in DOMAIN m |->
        [n[j] EXCEPT !.next = IF @ = None \/ (expired /\ @ <= t /\ served(n[j]))
                              THEN computeNext(j, n[j], t) ELSE @]]

\* Mutant of applyJobResult: the mark is left to the next pass.
applyJobResult_KeepMark(j, r, run, force) == [r EXCEPT !.last = run.start]

\* applyJobResult for a job that is not deleted.  force is preserveSchedule:
\* a cadence is not counted from a run the user forced.
applyJobResult(j, r, run, force) ==
    LET failed == run.out \in {"error", "fatal"}
        errs == IF ~failed THEN 0
                ELSE IF r.errs > MaxAttempts THEN r.errs ELSE r.errs + 1
        done == [r EXCEPT !.mark = None, !.last = run.start, !.errs = errs,
                          !.st = IF failed THEN "error" ELSE run.out]
        natural == computeNext(j, IF force THEN [done EXCEPT !.last = r.last] ELSE done,
                               run.end)
    IN CASE Kind[j] = "at" /\ run.out = "error" /\ errs <= MaxAttempts ->
                [done EXCEPT !.next = run.end + Backoff]
         [] Kind[j] = "at" /\ ~(run.out = "error" /\ errs <= MaxAttempts) ->
                [done EXCEPT !.on = FALSE, !.next = None]
         [] Kind[j] # "at" /\ failed /\ r.on ->
                [done EXCEPT !.next = IF natural > run.end + Backoff THEN natural
                                      ELSE run.end + Backoff]
         [] OTHER -> [done EXCEPT !.next = natural]

\* shouldDelete of applyJobResult.
deletes(j, run) == Kind[j] = "at" /\ j \notin KeepAfterRun /\ run.out = "ok"

\* applyOutcomeToStoredJob for each outcome of a set; the result of a job that
\* is gone is dropped.
applyOutcomes(m, done, force) ==
    LET of(j) == CHOOSE run \in done : run.job = j
        ended == {run.job : run \in done}
        kept == {j \in DOMAIN m : ~(j \in ended /\ deletes(j, of(j)))} IN
    [j \in kept |-> IF j \in ended THEN applyJobResult(j, m[j], of(j), force) ELSE m[j]]

\* The jobs with a one-shot result that removes them.
completed(m, done) == {j \in DOMAIN m : \E run \in done : run.job = j /\ deletes(j, run)}

-----------------------------------------------------------------------------
(* The state of a service, and what every section does.                    *)

NoTick == [pc |-> "idle", todo |-> {}, held |-> FALSE]
NoBoot == [phase |-> "off", skip |-> {}, todo |-> <<>>, later |-> <<>>]
NoManual == [pc |-> "idle", job |-> None, force |-> FALSE, at |-> None]

\* createJob.
Fresh(j, time, on, t) ==
    LET r == [on |-> on, at |-> time, next |-> None, mark |-> None, last |-> None,
              st |-> "none", errs |-> 0]
    IN [r EXCEPT !.next = computeNext(j, r, t)]

\* The times a new or edited job may have: a cadence is anchored now, unless
\* the caller says otherwise.
times(j) == CASE Kind[j] = "at" -> FirstAt
              [] Kind[j] = "every" -> FirstAt \cup {now}
              [] Kind[j] = "cron" -> {None}

going(s, by) == {run \in runs : run.svc = s /\ run.by = by /\ run.out = "going"}
ended(s, by) == {run \in runs : run.svc = s /\ run.by = by /\ run.out # "going"}

begin(s, by, j, t) ==
    [svc |-> s, by |-> by, job |-> j, start |-> t, end |-> None, out |-> "going"]

\* armTimer: a timer whenever some enabled job has a next run.
armTimer(s, m) ==
    timer' = [timer EXCEPT ![s] =
        IF \E j \in DOMAIN m : m[j].on /\ m[j].next # None THEN "job" ELSE "off"]

\* persist: the service's copy becomes the file.
persist(s, m) == mem' = [mem EXCEPT ![s] = m] /\ disk' = m

\* A job has a run under way, a result on its way, or waits in a plan.
inProgress(j) ==
    \/ \E run \in runs : run.job = j
    \/ \E s \in Service : j \in tick[s].todo \/ j \in ToSet(boot[s].todo)

\* The jobs in S are gone from the history.
forget(S) == [j \in DOMAIN known |-> IF j \in S THEN Gone ELSE known[j]]

\* The marks in S are taken away; a job is forgotten when its work is over.
freeing(S) == freed' = {j \in freed \cup S : inProgress(j)'}

-----------------------------------------------------------------------------
Init ==
    /\ now = 0
    /\ \E S \in Stored : \E time \in [S -> At] :
        /\ \A j \in S : time[j] \in times(j)
        /\ disk = [j \in S |-> Fresh(j, time[j], TRUE, now)]
        /\ known = time
    /\ mem = [s \in Service |-> NoStore]
    /\ latest = 1 /\ alive = {1}
    /\ timer = [s \in Service |-> "off"]
    /\ tick = [s \in Service |-> NoTick]
    /\ boot = [s \in Service |-> IF s = 1 THEN [NoBoot EXCEPT !.phase = "new"] ELSE NoBoot]
    /\ manual = [s \in Service |-> NoManual]
    /\ runs = {} /\ ops = 0 /\ freed = {} /\ shared = FALSE

Clock ==
    /\ now < MaxNow
    /\ now' = now + 1
    /\ UNCHANGED <<store, control, runs, ops, known, freed, shared>>

-----------------------------------------------------------------------------
(* start().                                                                *)

\* The first section: the marks on disk are those of runs a crash cut short
\* (or of a service that still runs them, after a hot reload).
clearStaleMarks(s) ==
    /\ boot[s].phase = "new"
    /\ UNCHANGED <<now, latest, alive, timer, tick, manual, runs, ops, known, shared>>
    /\ LET stale == {j \in DOMAIN disk : disk[j].mark # None} IN
        /\ persist(s, [j \in DOMAIN disk |-> [disk[j] EXCEPT !.mark = None]])
        /\ boot' = [boot EXCEPT ![s].phase = "plan", ![s].skip = stale]
        /\ freeing(stale)

\* The order of the jobs missed: no slot comes first, equal ones in any order.
slot(r) == IF r.next = None THEN 0 ELSE r.next

\* planStartupCatchup: the missed jobs in the order of their slots, the first
\* MaxImmediate marked to run now, the others deferred.
planStartupCatchup(s) ==
    /\ boot[s].phase = "plan"
    /\ LET m == mem[s]
           missed == {j \in DOMAIN m \ boot[s].skip : isMissed(j, m[j], now)}
           first(q) == IF Len(q) > MaxImmediate THEN MaxImmediate ELSE Len(q) IN
        IF missed = {}
        THEN /\ boot' = [boot EXCEPT ![s].phase = "final"]
             /\ UNCHANGED store
        ELSE \E sorted \in SetToSeqs(missed) :
             /\ \A i, k \in DOMAIN sorted : i < k => slot(m[sorted[i]]) <= slot(m[sorted[k]])
             /\ LET todo == SubSeq(sorted, 1, first(sorted))
                    later == SubSeq(sorted, first(sorted) + 1, Len(sorted)) IN
                 /\ boot' = [boot EXCEPT ![s].phase = "catchup", ![s].todo = todo,
                                         ![s].later = later]
                 /\ persist(s, [j \in DOMAIN m |->
                        IF j \in ToSet(todo) THEN [m[j] EXCEPT !.mark = now] ELSE m[j]])
    /\ UNCHANGED <<now, latest, alive, timer, tick, manual, runs, ops, known, freed, shared>>

\* runStartupCatchupCandidate: one after the other.
runStartupCatchupCandidate(s) ==
    /\ boot[s].phase = "catchup" /\ boot[s].todo # <<>> /\ going(s, "start") = {}
    /\ runs' = runs \cup {begin(s, "start", Head(boot[s].todo), now)}
    /\ boot' = [boot EXCEPT ![s].todo = Tail(@)]
    /\ UNCHANGED <<now, store, latest, alive, timer, tick, manual, ops, known, freed, shared>>

\* applyStartupCatchupOutcomes, on the copy in memory: the deferred jobs get
\* times of their own, one Stagger apart.
applyStartupCatchupOutcomes(s) ==
    /\ boot[s].phase = "catchup" /\ boot[s].todo = <<>> /\ going(s, "start") = {}
    /\ UNCHANGED <<now, latest, alive, timer, tick, manual, ops, shared>>
    /\ LET m == applyOutcomes(mem[s], ended(s, "start"), FALSE)
           later == boot[s].later
           valid == {i \in DOMAIN later : later[i] \in DOMAIN m /\ m[later[i]].on}
           place(j) == Cardinality({i \in valid : \E k \in valid : later[k] = j /\ i <= k})
           staggered == [j \in DOMAIN m |->
               IF \E k \in valid : later[k] = j
               THEN [m[j] EXCEPT !.next = now + Stagger * place(j)] ELSE m[j]] IN
        /\ persist(s, recomputeNextRunsForMaintenance(staggered, now, FALSE))
        /\ known' = forget(completed(mem[s], ended(s, "start")))
        /\ runs' = runs \ ended(s, "start")
        /\ boot' = [boot EXCEPT ![s].phase = "caught", ![s].later = <<>>]
        /\ freeing(losesMark(m, now))

\* The last section: a full pass, and the first timer.
finishStart(s) ==
    /\ boot[s].phase \in {"caught", "final"}
    /\ boot' = [boot EXCEPT ![s] = [NoBoot EXCEPT !.phase = "up"]]
    /\ UNCHANGED <<now, latest, alive, tick, manual, runs, ops, known, shared>>
    /\ LET m == recomputeNextRuns(mem[s], now) IN
        /\ IF m = mem[s] THEN UNCHANGED store ELSE persist(s, m)
        /\ armTimer(s, m)
        /\ freeing(losesMark(mem[s], now))

-----------------------------------------------------------------------------
(* onTimer.                                                                *)

\* The timer fires.  During a tick it only sets the recheck timer again.
onTimer(s) ==
    /\ timer[s] # "off"
    /\ timer' = [timer EXCEPT ![s] = "recheck"]
    /\ IF tick[s].pc # "idle" THEN UNCHANGED tick
       ELSE tick' = [tick EXCEPT ![s].pc = "due"]
    /\ UNCHANGED <<now, store, latest, alive, boot, manual, runs, ops, known, freed, shared>>

\* The first section of a tick: reload, and mark what is due.  With nothing
\* due, only the slots already served move.
collectDue(s) ==
    /\ tick[s].pc = "due"
    /\ UNCHANGED <<now, latest, alive, timer, boot, manual, runs, ops, known, shared>>
    /\ LET due == {j \in DOMAIN disk : IsDue(disk[j], now)} IN
        IF due = {}
        THEN /\ persist(s, recomputeNextRunsForMaintenance(disk, now, TRUE))
             /\ tick' = [tick EXCEPT ![s].pc = "end"]
             /\ freeing(losesMark(disk, now))
        ELSE /\ persist(s, [j \in DOMAIN disk |->
                    IF j \in due THEN [disk[j] EXCEPT !.mark = now] ELSE disk[j]])
             /\ tick' = [tick EXCEPT ![s] = [pc |-> "run", todo |-> due, held |-> TRUE]]
             /\ UNCHANGED freed

\* A worker takes a job of the plan, whatever became of it since.  The mark it
\* renews is on the object of the plan, which a reload may have replaced.
runDueJob(s) == \E j \in tick[s].todo :
    /\ Cardinality(going(s, "tick")) < Concurrency
    /\ tick' = [tick EXCEPT ![s].todo = @ \ {j}]
    /\ runs' = runs \cup {begin(s, "tick", j, now)}
    /\ mem' = IF tick[s].held /\ j \in DOMAIN mem[s] THEN [mem EXCEPT ![s][j].mark = now]
              ELSE mem
    /\ UNCHANGED <<now, disk, latest, alive, timer, boot, manual, ops, known, freed, shared>>

\* A run ends: its own result, an error it throws, or the timeout's.
executeJobCoreWithTimeout == \E run \in runs, out \in Outcome :
    /\ run.out = "going"
    /\ runs' = (runs \ {run}) \cup {[run EXCEPT !.end = now, !.out = out]}
    /\ UNCHANGED <<now, store, control, ops, known, freed, shared>>

\* The second section of a tick, once every job of the plan has ended.
applyResults(s) ==
    /\ tick[s].pc = "run" /\ tick[s].todo = {} /\ going(s, "tick") = {}
    /\ known' = forget(completed(disk, ended(s, "tick")))
    /\ runs' = runs \ ended(s, "tick")
    /\ tick' = [tick EXCEPT ![s] = [NoTick EXCEPT !.pc = "end"]]
    /\ UNCHANGED <<now, latest, alive, timer, boot, manual, ops, shared>>
    /\ LET m == applyOutcomes(disk, ended(s, "tick"), FALSE) IN
        /\ persist(s, recomputeNextRunsForMaintenance(m, now, FALSE))
        /\ freeing(losesMark(m, now))

\* The finally clause, also of a service that was stopped meanwhile.
endTick(s) ==
    /\ tick[s].pc = "end"
    /\ tick' = [tick EXCEPT ![s] = NoTick]
    /\ armTimer(s, mem[s])
    /\ UNCHANGED <<now, store, latest, alive, boot, manual, runs, ops, known, freed, shared>>

-----------------------------------------------------------------------------
(* The user's operations, on the latest service once it has its store.     *)

serving(s) == s = latest /\ mem[s] # NoStore

userOp(s) == serving(s) /\ ops < MaxOps /\ ops' = ops + 1

userJobs(s) == IF serving(s) THEN DOMAIN mem[s] ELSE {}

\* add: a new job (ids are never used again); the full pass that follows is
\* over every job.
add(s) == \E j \in Job \ DOMAIN known : \E time \in times(j), on \in BOOLEAN :
    /\ userOp(s)
    /\ UNCHANGED <<now, latest, alive, tick, boot, manual, runs, shared>>
    /\ LET m == recomputeNextRuns(
                    [k \in DOMAIN mem[s] \cup {j} |->
                        IF k = j THEN Fresh(j, time, on, now) ELSE mem[s][k]], now) IN
        /\ persist(s, m)
        /\ armTimer(s, m)
        /\ known' = [k \in DOMAIN known \cup {j} |-> IF k = j THEN time ELSE known[k]]
        /\ freeing(losesMark(mem[s], now))

\* The end of update: the job's record is stored, and nothing else changes.
edit(s, m, j, r) ==
    LET n == [m EXCEPT ![j] = r] IN
    persist(s, n) /\ armTimer(s, n)

\* Mutant of updated: a new schedule takes the mark away, too.
updated_ClearMark(j, old, on, time, scheduling) ==
    LET r == [old EXCEPT !.on = on, !.at = time] IN
    IF scheduling THEN [r EXCEPT !.next = computeNext(j, r, now), !.mark = None]
    ELSE IF on /\ old.next = None THEN [r EXCEPT !.next = computeNext(j, r, now)]
    ELSE r

\* The job after an edit.  With a new schedule or flag it is recomputed, and a
\* disabled one loses its next run and its mark; any other edit only repairs a
\* missing next run.
updated(j, old, on, time, scheduling) ==
    LET r == [old EXCEPT !.on = on, !.at = time] IN
    IF scheduling /\ ~on THEN [r EXCEPT !.next = None, !.mark = None]
    ELSE IF scheduling \/ (on /\ old.next = None)
    THEN [r EXCEPT !.next = computeNext(j, r, now)]
    ELSE r

\* update: the whole copy in memory is stored, whatever the edit.  A patch
\* with an interval and no anchor anchors the job anew.
updateJob(s, j) == \E on, scheduling \in BOOLEAN, time \in times(j) \cup {mem[s][j].at} :
    /\ userOp(s)
    /\ scheduling \/ (on = mem[s][j].on /\ time = mem[s][j].at)
    /\ edit(s, mem[s], j, updated(j, mem[s][j], on, time, scheduling))
    /\ known' = [known EXCEPT ![j] = time]
    /\ UNCHANGED <<now, latest, alive, tick, boot, manual, runs, shared>>
    /\ freeing(IF scheduling /\ ~on /\ mem[s][j].mark # None THEN {j} ELSE {})

update(s) == \E j \in userJobs(s) : updateJob(s, j)

\* Mutant of remove: the copy in memory keeps the job.
remove_DiskOnly(s) == \E j \in userJobs(s) :
    /\ userOp(s)
    /\ LET m == [k \in DOMAIN mem[s] \ {j} |-> mem[s][k]] IN
        disk' = m /\ mem' = mem /\ armTimer(s, m)
    /\ known' = [known EXCEPT ![j] = Gone]
    /\ UNCHANGED <<now, latest, alive, tick, boot, manual, runs, freed, shared>>

\* remove: runs under way go on, and their result is dropped.
remove(s) == \E j \in userJobs(s) :
    /\ userOp(s)
    /\ LET m == [k \in DOMAIN mem[s] \ {j} |-> mem[s][k]] IN
        persist(s, m) /\ armTimer(s, m)
    /\ known' = [known EXCEPT ![j] = Gone]
    /\ UNCHANGED <<now, latest, alive, tick, boot, manual, runs, freed, shared>>

\* list, listPage and status: a read that repairs and does not arm.
ensureLoadedForRead(s) ==
    /\ serving(s)
    /\ UNCHANGED <<now, control, runs, ops, known, shared>>
    /\ LET m == recomputeNextRunsForMaintenance(mem[s], now, FALSE) IN
        /\ m # mem[s]
        /\ persist(s, m)
        /\ freeing(losesMark(mem[s], now))

-----------------------------------------------------------------------------
(* Manual runs: one at a time, in the cron lane of the command queue.      *)

\* Mutant of inspectManualRunPreflight: its time is lost on the way.
inspectManualRunPreflight_NoTime(s, j, force, queue) ==
    LET m == recomputeNextRunsForMaintenance(mem[s], now, FALSE)
        runnable == j \in DOMAIN m /\ m[j].mark = None /\ (force \/ IsDue(m[j], now)) IN
    /\ mem' = [mem EXCEPT ![s] = m]
    /\ manual' = [manual EXCEPT ![s] = IF runnable
            THEN [NoManual EXCEPT !.pc = queue, !.job = j, !.force = force] ELSE NoManual]
    /\ UNCHANGED <<now, disk, latest, alive, timer, tick, boot, runs, known, shared>>
    /\ freeing(losesMark(mem[s], now))

\* The check that precedes the queue and, once more, the run: it repairs the
\* store in memory.  queue is the next step of the run when the job is free.
inspectManualRunPreflight(s, j, force, queue) ==
    LET m == recomputeNextRunsForMaintenance(mem[s], now, FALSE)
        runnable == j \in DOMAIN m /\ m[j].mark = None /\ (force \/ IsDue(m[j], now)) IN
    /\ mem' = [mem EXCEPT ![s] = m]
    /\ manual' = [manual EXCEPT ![s] = IF runnable
            THEN [pc |-> queue, job |-> j, force |-> force, at |-> now] ELSE NoManual]
    /\ UNCHANGED <<now, disk, latest, alive, timer, tick, boot, runs, known, shared>>
    /\ freeing(losesMark(mem[s], now))

enqueueRun(s) == \E j \in userJobs(s), force \in BOOLEAN :
    /\ userOp(s) /\ manual[s].pc = "idle"
    /\ inspectManualRunPreflight(s, j, force, "queued")

run(s) ==
    /\ manual[s].pc = "queued"
    /\ inspectManualRunPreflight(s, manual[s].job, manual[s].force, "prepare")
    /\ UNCHANGED ops

\* Mutant of prepareManualRun: the mark is not looked at again.
prepareManualRun_NoRecheck(s) ==
    /\ manual[s].pc = "prepare"
    /\ LET j == manual[s].job IN
        IF j \notin DOMAIN mem[s]
        THEN /\ manual' = [manual EXCEPT ![s] = NoManual]
             /\ UNCHANGED <<store, runs>>
        ELSE /\ persist(s, [mem[s] EXCEPT ![j].mark = manual[s].at])
             /\ runs' = runs \cup {begin(s, "manual", j, manual[s].at)}
             /\ manual' = [manual EXCEPT ![s].pc = "run"]
    /\ UNCHANGED <<now, latest, alive, timer, tick, boot, ops, known, freed, shared>>

\* The section that reserves the job: the mark is looked at again, whether the
\* job is due is not.
prepareManualRun(s) ==
    /\ manual[s].pc = "prepare"
    /\ LET j == manual[s].job IN
        IF j \notin DOMAIN mem[s] \/ (j \in DOMAIN mem[s] /\ mem[s][j].mark # None)
        THEN /\ manual' = [manual EXCEPT ![s] = NoManual]
             /\ UNCHANGED <<store, runs>>
        ELSE /\ persist(s, [mem[s] EXCEPT ![j].mark = manual[s].at])
             /\ runs' = runs \cup {begin(s, "manual", j, manual[s].at)}
             /\ manual' = [manual EXCEPT ![s].pc = "run"]
    /\ UNCHANGED <<now, latest, alive, timer, tick, boot, ops, known, freed, shared>>

\* Mutant of mergeManualRunSnapshotAfterReload: a deleted job is left there.
mergeManualRunSnapshotAfterReload_KeepRemoved(onDisk, j, m) ==
    [k \in DOMAIN onDisk |->
        IF k = j /\ j \in DOMAIN m THEN [m[j] EXCEPT !.at = onDisk[j].at] ELSE onDisk[k]]

\* The file with the state the run left in memory; its other fields stay.
mergeManualRunSnapshotAfterReload(onDisk, j, m) ==
    [k \in DOMAIN onDisk \ (IF j \in DOMAIN m THEN {} ELSE {j}) |->
        IF k = j THEN [m[j] EXCEPT !.at = onDisk[j].at] ELSE onDisk[k]]

\* finishPreparedManualRun, after the run: its result goes to the copy in
\* memory, the file is read again and the job's state merged into it.  The
\* objects of a tick's plan are no longer those of the store.
finishPreparedManualRun(s) == \E done \in ended(s, "manual") :
    /\ manual[s].pc = "run"
    /\ runs' = runs \ {done}
    /\ manual' = [manual EXCEPT ![s] = NoManual]
    /\ UNCHANGED <<now, latest, alive, boot, ops, shared>>
    /\ LET j == manual[s].job
           m == applyOutcomes(mem[s], {done}, manual[s].force)
           merged == mergeManualRunSnapshotAfterReload(disk, j, m)
           final == recomputeNextRunsForMaintenance(merged, now, TRUE) IN
        IF j \notin DOMAIN mem[s]
        THEN UNCHANGED <<store, timer, tick, known, freed>>
        ELSE /\ persist(s, final)
             /\ armTimer(s, final)
             /\ tick' = [tick EXCEPT ![s].held = FALSE]
             /\ known' = forget(completed(mem[s], {done}))
             /\ freeing(losesMark(merged, now))

-----------------------------------------------------------------------------
(* A new service.                                                          *)

atWork(s) == tick[s].pc # "idle" \/ manual[s].pc # "idle" \/ boot[s].phase # "up"

\* A reload of the configuration: stop clears the timer and nothing else.  A
\* service that is not at work is gone with its copy of the store.
reload ==
    /\ latest < MaxService
    /\ latest' = latest + 1
    /\ alive' = {s \in alive : atWork(s)} \cup {latest'}
    /\ shared' = (shared \/ \E s \in alive : atWork(s))
    /\ timer' = [timer EXCEPT ![latest] = "off"]
    /\ boot' = [boot EXCEPT ![latest'].phase = "new"]
    /\ mem' = [mem EXCEPT ![latest] = IF atWork(latest) THEN @ ELSE NoStore]
    /\ UNCHANGED <<now, disk, tick, manual, runs, ops, known, freed>>

\* The process dies and is started again.
crash ==
    /\ latest < MaxService
    /\ latest' = latest + 1
    /\ alive' = {latest'}
    /\ shared' = FALSE
    /\ mem' = [s \in Service |-> NoStore]
    /\ timer' = [s \in Service |-> "off"]
    /\ tick' = [s \in Service |-> NoTick]
    /\ manual' = [s \in Service |-> NoManual]
    /\ boot' = [s \in Service |-> IF s = latest' THEN [NoBoot EXCEPT !.phase = "new"]
                                  ELSE NoBoot]
    /\ runs' = {} /\ freed' = {}
    /\ known' = [j \in DOMAIN known |-> IF j \in DOMAIN disk THEN disk[j].at ELSE Gone]
    /\ UNCHANGED <<now, disk, ops>>

-----------------------------------------------------------------------------
tickSection(s) == collectDue(s) \/ runDueJob(s) \/ applyResults(s) \/ endTick(s)

Starting(s) ==
    \/ clearStaleMarks(s) \/ planStartupCatchup(s) \/ runStartupCatchupCandidate(s)
    \/ applyStartupCatchupOutcomes(s) \/ finishStart(s)

ManualRun(s) == run(s) \/ prepareManualRun(s) \/ finishPreparedManualRun(s)

UserOperation(s) ==
    \/ add(s) \/ update(s) \/ remove(s) \/ ensureLoadedForRead(s) \/ enqueueRun(s)

Next ==
    \/ Clock
    \/ \E s \in alive : onTimer(s) \/ tickSection(s) \/ Starting(s) \/ ManualRun(s)
    \/ \E s \in alive : UserOperation(s)
    \/ executeJobCoreWithTimeout
    \/ reload
    \/ crash

Spec == Init /\ [][Next]_vars

\* Timers fire; a section that waits for the lock gets it, as the lock is a
\* chain of promises; runs end, as they race with a timeout.
Fairness ==
    /\ WF_vars(\E s \in alive : onTimer(s))
    /\ WF_vars(\E s \in alive : tickSection(s))
    /\ WF_vars(\E s \in alive : Starting(s))
    /\ WF_vars(\E s \in alive : ManualRun(s))
    /\ WF_vars(executeJobCoreWithTimeout)

FairSpec == Spec /\ Fairness

-----------------------------------------------------------------------------
(* Properties.                                                             *)

TypeOK ==
    /\ now \in Time /\ IsStore(disk)
    /\ \A s \in Service : mem[s] = NoStore \/ IsStore(mem[s])
    /\ latest \in Service /\ alive \subseteq Service
    /\ timer \in [Service -> {"off", "job", "recheck"}]
    /\ tick \in [Service -> [pc : Step, todo : SUBSET Job, held : BOOLEAN]]
    /\ \A s \in Service :
        /\ boot[s].phase \in Phase /\ boot[s].skip \subseteq Job
        /\ ToSet(boot[s].todo) \cup ToSet(boot[s].later) \subseteq Job
        /\ manual[s].pc \in {"idle", "queued", "prepare", "run"}
    /\ runs \subseteq Run
    /\ ops \in 0 .. MaxOps /\ freed \subseteq Job /\ shared \in BOOLEAN

\* Two runs of one job never overlap (the tick's, the catch-up's and the
\* manual one are all kept apart by runningAtMs and by reloading it, ops.ts:534),
\* unless the job's mark was taken away during the run: it was disabled, it is
\* a disabled job run by force, the run is older than STUCK_RUN_MS; or a reload
\* replaced a service at work.
OneRunAtATime ==
    \A j \in Job \ freed :
        shared \/ Cardinality({r \in runs : r.job = j /\ r.out = "going"}) <= 1

\* The store has exactly the jobs the user added and did not remove, less the
\* one-shot jobs that are done, with the times the user gave them: the copies
\* a tick, the catch-up and a manual run write back (timer.ts:812, ops.ts:635)
\* bring no job back and undo no edit.
JobsKept ==
    \/ shared
    \/ /\ DOMAIN disk = {j \in DOMAIN known : known[j] # Gone}
       /\ \A j \in DOMAIN disk : disk[j].at = known[j]

Waits(j) == j \in DOMAIN disk /\ IsDue(disk[j], now)

endsStart(s) == boot'[s].phase # boot[s].phase /\ boot'[s].phase \in {"caught", "up"}

\* The step moves the slot that the job waits for, and marks no run of it.
Moved(j) ==
    /\ ~shared /\ Waits(j) /\ j \in DOMAIN disk'
    /\ disk'[j].on /\ disk'[j].mark = None /\ disk'[j].next # disk[j].next

\* The full passes of add and of the end of start(), and an edit of j.
MayMove(j) == \E s \in alive :
    add(s) \/ endsStart(s) \/ (j \in userJobs(s) /\ updateJob(s, j))

\* The slot was served, a run of the job has just ended, or the step may move it.
Excused(j) ==
    \/ disk[j].last # None /\ disk[j].last >= disk[j].next
    \/ \E r \in runs \ runs' : r.job = j /\ r.out # "going"
    \/ MayMove(j)

\* A slot that has passed is never given up without a run, except by the full
\* pass of add, by start() and by an edit of that very job (#13992, #16156,
\* #17852): neither reads, nor ticks, nor manual runs of other jobs move it.
PassedSlotKept == [][\A j \in Job : Moved(j) => Excused(j)]_vars

=============================================================================
