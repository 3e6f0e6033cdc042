# A TLA+ model of the gateway's queues, timers and locks

This directory holds TLA+ specifications of the parts of OpenClaw whose
correctness depends on the order in which things happen: the queues that agent
runs and messages wait in, the durable queue of outbound messages, the wake-up
layer of the heartbeat, the lock of a session file, the cron scheduler and the
approvals of shell commands.  Each specification is
translated from the TypeScript source; TLC checks it on small instances, and
TLAPS proves their safety for every instance: of the command queue alone and in
use by the sessions' runs, the approvals, the heartbeat's wake-up layer, the
delivery queue, the write lock, the follow-up queue and the cron scheduler.

`PROJECT.json` maps every definition to the lines it models, and lists the
components, the runs, the hazards with the properties that guard against them,
and the theorems.  Paths below are relative to `src/src/`.

    tlc -workers 2 -config MCCommandQueue.cfg MCCommandQueue    # one run
    tlapm CommandQueueProofs.tla                                # one module of proofs

## 1. The system

OpenClaw is a gateway process that takes messages from chat channels, clients,
cron jobs and heartbeats, runs a language-model agent on them, one run per
session at a time, and sends the replies out.  It is one Node.js process: code
between two `await`s is atomic, and everything that spans an `await`, a timer
or the file system interleaves with everything else.  The unit of atomicity of
every model here is therefore *what runs between two awaits*; file operations
are steps of their own.

    channels, clients      cron service (disk)     ^ answers
       |            |        |                     |
       v            v        v                 outbound delivery queue (disk)
    follow-up     heartbeat  cron lane             ^
    queue         wake layer |                     | replies
       |            |        |                     |
       v            v        v                     |
    session lane -> global lane -> agent run -- session write lock (disk)
       \______ command queue ______/   |
                    ^                  v
                    | drain, reset   exec approvals <- operators
               restart run loop

### Components

| Component | State it keeps | Operations | What makes it correct | Here |
|---|---|---|---|---|
| Command queue (`process/command-queue.ts`) | lanes (queue, active task ids, cap, generation), draining flag, drain waiters | enqueue, pump, settle, set cap, clear, mark draining, reset, wait | no lost command, no lost wake-up, FIFO start, cap, waiters told in time and truthfully | `CommandQueue`, proved |
| Session lanes and in-process restart (`agents/pi-embedded-runner/lanes.ts`, `cli/gateway-cli/run-loop.ts`, ...) | nested commands, the run loop's step | nested enqueue, drain, close, next iteration | no deadlock among lanes, one run per session, a drain that finished means quiet | `SessionLanes`, partly |
| Follow-up queue (`auto-reply/reply/queue/*`) | queue objects in a map, drains, recent message ids | enqueue, dedupe, drop policies, drain, collect, summary, clear | answered once, in order, not lost, never left idle with work | `FollowupQueue`, `Mailbox`, partly; proved |
| Outbound delivery queue (`infra/outbound/*`) | entry files, `.delivered` markers, `failed/`, calls in memory | enqueue, ack in two phases, fail, move, recover | nothing lost over crashes; at most one send per life; final means final | `DeliveryQueue`, partly; proved |
| Heartbeat wake layer (`infra/heartbeat-wake.ts`) | pending wakes, timer, running flag, handler and its generation | request, register, dispose, fire, retry | no lost wake, the retry delay, one batch at a time | `HeartbeatWake`, proved |
| Session write lock (`agents/session-write-lock.ts`) | lock file, per-process map of held locks, watchdog | acquire, share, release, reclaim, sweep, watchdog, signals | one writer; a dead owner's lock is reclaimed, a live one's is not | `SessionWriteLock`, proved |
| Cron service (`cron/service/*`) | jobs in memory and on disk, timer, running marks, tick and manual run under way | timer tick, manual run, add, update, remove, reads, start with catch-up, hot reload | one run of a job at a time; passed slots are run, not given up; no write brings back what another removed | `CronService`, partly |
| Exec approvals (`gateway/exec-approval-manager.ts` and its callers) | pending records, expiry and grace timers, waiting calls | request, wait, resolve, expire, consume | a decision stands; allow-once runs once; every call is answered | `ExecApproval`, partly; proved |
| Restart coordination (`infra/restart.ts`) | pending restart, authorisation, deferral polls | request, coalesce, defer, emit | one restart per request wave; a deferral ends | planned |
| Subagent announce queue (`agents/subagent-announce-queue.ts`) | as the follow-up queue, with a backoff | enqueue, drain | as the follow-up queue | planned |
| Task, task-flow and subagent registries (`tasks/*`, `agents/subagent-registry*`) | records, their status, on disk | transitions, reconciliation | terminal states are final; announced once | planned |
| Embedded runs (`agents/pi-embedded-runner/runs.ts`), ACP actors, process supervisor, node registry | active runs and their waiters | start, abort, wait, end | a waiter is answered; an abort reaches its run | planned |
| File locks (`infra/gateway-lock.ts`, `plugin-sdk/file-lock.ts`) and the session store | other lock files; queued writers | acquire, reclaim, release; write under the lock | as the session write lock | planned |
| Reply dispatch, keyed async queue, inbound debounce, dedupe on disk | chains of promises, buffers | send, flush, idle | order, one flush | planned |
| Orchestrator, mailbox, persistence, scheduler, workflow | queues of tasks, checkpoints | assign, retry, recover | a task is assigned once | planned, last: nothing in the gateway starts them yet |
| Gateway server and methods, channels, plugins, config, CLI, media, evolution | | | | not modelled: wiring, adapters of external services, parsing and presentation |

### How they interact

* An agent run is a command of its session's lane; its function enqueues a
  second command in a global lane (`main`, `nested`, ...) and awaits it, so one
  run holds a slot of two lanes; a cron run started by hand holds a third.
* The restart loop marks the queue as draining (new commands are refused),
  waits for a snapshot of the active tasks, closes the server, and resets the
  lanes in the next iteration, raising their generation, so that tasks of the
  previous life that settle late are recognised.
* A message that finds its session busy goes to the follow-up queue.  The end
  of a reply run schedules the queue's drain, an asynchronous loop that hands
  one message, a collected batch or a summary of dropped ones to the agent.
* A reply is written to the delivery queue before it is sent and acknowledged
  after; the next start of the gateway sends what is left.
* A heartbeat request is a pending wake per target under one timer.  A handler
  that finds requests in flight gives the wake back, to be retried after a
  delay.
* A run writes its session file under the write lock, which other programs
  (CLI, another gateway) respect too.

* A cron job runs an agent turn, from the timer's tick or by hand through the
  cron lane.  The service writes a mark into the job before and a result after
  the run, and reads its file again in between.
* An agent that wants to run a command on a node asks for an approval and
  waits; the node's run is let through when the record says so.

### What is hard

Restarts that keep old tasks running; queues that change between the read of
their head and its removal; two-phase file protocols cut by a crash; timers
that are replaced, cleared or fire late; cleanup code of one owner that runs
after the next has begun; locks judged stale by a process that is slow to act
on it; copies of a file that several sections edit, each at its own time;
decisions that are read long after they were made.  `PROJECT.json` lists these as hazards, at the line where each bites.

## 2. The modules

Every module names the source's functions and variables where it can.  The
operators called `X_Something` are mutated forms of `X`, the bugs one would
plausibly write; each property of a passing run is violated when the mutated
form that `PROJECT.json` names for it takes the place of `X`.  They are no part
of any specification.

### CommandQueue

`lanes[l]` is the lane's state record (queue, active ids, `maxConcurrent`,
`generation`); `executing` and `startGen` are the functions under way and the
generation captured when they started; `outcome` is the promise of each call of
`enqueueCommandInLane`.  The drain of a lane (`drainLane`/`pump`) runs to
completion inside the call that made it necessary, so enqueue, settle, set-cap
and reset each contain it.  `resetAllLanes` resets every lane, then drains all,
then notifies the waiters.  `arrivals` is history: what each lane accepted.
`draining` (the lane's re-entrance flag) is not a variable: it is false between
two actions.

### SessionLanes

Composes `CommandQueue` (as an `INSTANCE` whose commands are pairs of a run and
the level it stands at: `cron`, `session`, `global`) with the nesting of
`runEmbeddedPiAgent` and the restart loop `runGatewayLoop`.  A session command
enqueues its global command in the turn in which it starts; no other command
step comes between.  A command settles after the one it awaits.

### FollowupQueue and Mailbox

The queue objects of one session key (an object survives the deletion of its
map entry while a drain holds it), the drain loop of each, the cache of recent
message ids and the reply runs around them.  A drain step picks a run
(`NextRun`: collect, item or summary), awaits it, and only then removes what is
at the head.  `Mailbox` is the abstract promise: a FIFO mailbox that accepts a
message once and delivers prefixes; `ImplementsMailbox` states that the queue
refines it, with its liveness, when no policy or command may remove messages.

### DeliveryQueue

Files: `entry`, `markers`, `failed`.  `deliverOutboundPayloads` runs in `live`,
`recoverPendingDeliveries` in `recovery`, and the storage calls they make are
`jobs`, one step per file operation that takes effect.  `crash` drops all
memory and starts the next life.  `sends` counts how often the whole message
reached the channel in the present life, `sent` has the messages that did in
any; `overlapped` has those whose entry recovery loaded, in the present life,
while their live send or the call that closes it was under way.  A crash sets
the first to zero and empties the last.  A live send without best effort may be
`aborted`: by its caller, or by an adapter whose own time limit throws an error
of that name, as the code looks at the name only.

### HeartbeatWake

Time is in ticks, and a due timer fires before time goes on.  A batch in flight
is a record of who runs it, what is left of it and the delay its closure
captured; more than one may exist, as in the code after a second registration.

### SessionWriteLock

One session file and its lock file, processes with pids that the system may use
again, and calls of `acquireSessionWriteLock` that stand before or after each
awaited file operation: `Prepare` starts the watchdog and goes to the awaited
resolution of the path, `Acquire` looks at the locks the process holds by then.
The sweep lists the directory, reads a file and removes it in three steps; a
file that is gone when it is read is judged stale, as one without a pid, and
removed by its path.  A lock is named by the call that created it, which
plays the part of the inode.  Reading a lock file and judging it are one step;
removing it is another, by path, whatever is there by then.  `platform` says
whether start times of processes are known (`/proc` on Linux).  A call whose
lock the watchdog or a signal took is `ousted`: it goes on and releases late.
`careless` is history: one of the four races named at `LiveLockKept` happened.

### CronService

Every section of the code that runs under the lock on the store's path
(`locked.ts`) is one action; a tick is `onTimer`, `collectDue`, `runDueJob` for
each job, `applyResults` and `endTick`, a manual run is `enqueueRun`, `run`,
`prepareManualRun` and `finishPreparedManualRun`, and `start` has the five
actions of `Starting`.  `mem` and `disk` are the two copies of the jobs; which
sections trust the first and which read the second again is the code's.  A job
has its flag, its one-shot time or the anchor of its interval, and the state the
scheduler reads: next run, mark, last run and status, errors in a row.  An
interval is anchored where the caller says, or when the job is created or given
an interval anew; a job may be created disabled.  Runs under way (`runs`) end at any
time and in any of the outcomes.  `reload` is the hot reload that stops one
service and starts another, even while the first is at work; `crash` loses the
memory.  `known`, `freed` and `shared` are history.  The catch-up takes the missed
jobs in the order of their slots, and those with equal slots in any order.

One unit of time is longer than the minute to which the timer is clamped and
than the minimal gap between two runs of a cron job, so an armed timer may fire
at any moment, and the gap is not seen.  Backoffs have one length.

`CronDue` adds the history that the liveness of the scheduler needs: `moved` has
the jobs whose passed slot the last step exchanged for a later one without a
run, which only the full pass of `add`, `start()` and an edit of the job do.

### ExecApproval

A record keeps its place in `records` for ever and is in the manager's map
(`pending`) until its grace period ends; ids may be used again after that.
`promises` is what the promise of each record was resolved with, `calls` are
the handlers that wait on one, `forwards` counts the runs let through.  The
request handler is cut at its two awaits, on the forwarder and on the decision.

## 3. The runs

| Run | Instance | What it shows |
|---|---|---|
| `command_queue` | 3 commands, 1 lane, caps 1 and 2 (0 is clamped), 1 drain call, 2 generations | the safety properties, and that every accepted command and every drain call is answered |
| `session_lanes` | 2 sessions, 3 runs (one by cron), every cap 1, up to 2 restarts | the draining flag and the run loop agree; a drain that finished means no agent turn of this life is running; one agent turn per session; nobody waits for ever |
| `followup_queue` | 3 messages (two with one id), both modes, the policies `old` and `summarize`, caps 1 and 2, 1 clear, 1 failure, foreign runs | answered once, no twin queued |
| `followup_mailbox` | 4 messages, both modes, caps 1 and 2 with the policy `new` (a full queue refuses), 1 failure | refinement of `Mailbox`; never idle with work |
| `delivery_queue` | 2 messages, one best effort, 3 crashes, 2 retries | nothing lost; one send in each life; acknowledged and failed are final |
| `heartbeat_wake` | 2 targets, 2 priorities, 3 requests, 2 registrations, 2 retries | no lost wake-up, no cooldown cut short, every wake answered |
| `session_write_lock` | 2 processes, 3 calls, 2 pids, both platforms | a live lock is not lost or shared, references are counted, stale locks are reclaimed |
| `cron_service` | 3 jobs (cron, one-shot, interval), 3 points of time with a period of 2, 1 operation of the user, 1 crash or reload, runs that end well or fail | one run of a job at a time, jobs and edits kept, passed slots kept; due jobs run, unless removed, disabled, edited or passed over by a full pass |
| `exec_approval` | 2 ids and a common prefix, 2 requests, 2 waiting calls, a timeout of 2 and a grace period of 1 | decisions stand, runs are let through as decided, every call answered |
| `followup_drop_old` | | finding 1 |
| `delivery_best_effort` | | finding 2 |
| `session_preserved` | | finding 3 |

### Bounds, and why they are enough

* *Command queue.*  Three commands in one lane is the least that has one active
  and two queued, so that order matters; two generations give a task that
  settles one and two resets late.  The safety properties are proved for any
  number of commands, lanes, waiters and generations; several lanes, with
  waiters and resets, are also exercised by `session_lanes`.
* *Session lanes.*  Caps of one are the tightest.  Two runs of one session and
  one of another make both kinds of contention; the second restart meets the
  commands that the first one kept.
  The instance is too small for a third run to be queued behind two in one lane
  across a restart (section 3); the theorems cover every number of runs.
* *Follow-up queue.*  With three messages a cap of one or two overflows, a
  drain has one in flight and one behind it, and a duplicate id is possible;
  three queue objects allow a cleared object, its successor and one more.
* *Delivery queue.*  Two entries are enough for one to be recovered while the
  other is sent; three crashes give each of the two phases of an
  acknowledgement and the retry limit a life of their own.
* *Heartbeat.*  The retry delay (3 ticks) is longer than the default coalesce
  delay (1), as in the code.  Two registrations make one handover, which is
  where generations matter.
* *Write lock.*  Two calls of one process share or contend; the call of the
  second process meets a lock that is live, dead, or dead with its pid reused.

* *Cron.*  A period of two with a clock to two lets the slot of each kind of job
  pass unrun, beside a run, a start or a manual run of another; one error is
  retried, the second gives up.  Marks older than one are stuck.  With one
  immediate catch-up run the second missed job is deferred.  The store holds one
  job at first, of any kind, so that the one operation meets every step of its
  ticks, runs and starts, and the other jobs come by `add`.  An edit beside a
  manual run takes two operations, and is left to the proofs: without liveness
  TLC manages two operations, or a clock to three, with it neither.  States after a reload has replaced a service at
  work are reached and not explored further (the constraint `NotShared`):
  nothing is claimed of them.
* *Approvals.*  The second request may use the id of the first, whose timer is
  due between the two deadlines.

Deadlock is not checked: each instance is finite work, and the system stops
when it is done.

### Properties with a proviso

Some properties are false without a condition that the code does not enforce.
The condition is in the formula, so that the rest is still checked:

* `SentOncePerLife` and `EndIsFinal` except the messages in `overlapped`: those
  whose entry recovery loaded while their live send, or the storage call that
  closes it, was under way.  The gateway starts both at once; such a message may
  be sent twice in that life, and its entry may come back after the
  acknowledgement by `failDelivery`'s late write.  The exception is of that
  message and that life: the next life counts it again, and an end is excepted
  only when it was met in a life of overlap.  `NothingLost` needs no proviso.
* That a handler has one batch at a time (in `HeartbeatWake!TypeOK`) holds until
  a second runner registers: the `finally` of the old batch clears the running
  flag of the new one.
* `OneRunPerSession` holds until the first restart, after which a preserved
  global command may execute beside a new run of its session.
* `DrainedMeansQuiet` speaks of the runs whose session command started in the
  present life.  A run carried over an earlier restart is not in the snapshot
  while its global command is queued, as its session command is in no active set
  any more: with three runs in one lane, a first drain that timed out and a
  second restart, the second drain reports that all has drained while the last
  of the three begins its turn.
* `LiveLockKept` and `OneWriter` hold unless one of these happened: a file was
  removed that is not the one that was judged stale (another contender was
  faster, or the sweep found the file it had listed gone); a lock became older than `staleMs` in live hands; the sweep at
  startup met a file between its creation and its payload (the sweep has no
  grace period for these, contenders have); on a platform without start times
  a process took a lock of its own that was being recorded or released for an
  orphan.

* `OneRunAtATime` holds of jobs whose mark was not taken away during a run.  Four
  things take it away: the job is disabled (and enabled again), it is a
  disabled job run by force, its run is older than `STUCK_RUN_MS`, or a new
  service clears the marks of one that still works.
* `PassedSlotKept` excepts the full passes of `add` and of the end of `start()`,
  which give up the slots that other jobs have not run yet, and an edit of the
  job itself.  The catch-up of `start()` is among them where it defers the jobs
  over its limit.
* `DueJobsRun` promises a run, and names what may become of a due job instead:
  it was removed, disabled or edited, or it is in `moved`, passed over by the
  full pass of `add` or by `start()`.  Its slot was then given up although
  nobody ran it, which `cron/service/timer.ts:1091` says should not be.
* The properties of the cron service end when a hot reload replaces a service
  at work: the two then write one file, each from a copy of its own, and the
  older arms its timer again when its tick ends.

### Fairness

Liveness needs that what has been started goes on, and no more.

* *Commands and runs end* (`settleTask`, `settle`, `runSucceeds \/ runFails`,
  `answer`): each agent run has its own timeout.
* *Timers fire, and awaited steps continue* (`drainStep`, `tick`, `startBatch`,
  `enqueueInner`, the steps of the restart loop): the event loop's promise.
* *Sections of the cron service that wait for its lock get it* (`tickSection`,
  `Starting`, `ManualRun`): the lock is a chain of promises, and every section
  ends.  Its runs end, as they race with their timeout.
* *The clock of the approvals goes on, due timers fire, the forwarder answers*
  (`Clock`, `Timer`, `Answer`).
* *A waiting call of the lock goes round its loop, and time passes* (`Age`).

New requests, clears, restarts, registrations, releases, kills, and what users
and operators do are never fair.  Fairness is always weak; drain waiters in `CommandQueue` are answered
without their timer.

## 4. The proofs

`CommandQueueProofs` proves, for all sets of tasks, lanes and waiters, that the
specification's reachable states satisfy each of its safety invariants, and
that every step respects the cap:

| Theorem | Property |
|---|---|
| `TypeCorrect` | `TypeOK` |
| `NoLostWakeup` | `NoIdleSlot` |
| `NothingLost` | `NoCommandLost` |
| `SlotsAreCurrent` | `ActiveIsCurrent` |
| `WaitersServed` | `WaitersTold` |
| `Fifo` | `FifoOrder` |
| `CapHolds` | `CapRespected` |

They assume only `CommandQueueAssumption`, which types the constants.

*The invariant.*  The properties are not inductive one by one: that a slot is
freed when a task settles needs that active sets hold tasks of the current
generation, which needs that a queued task is not executing, which needs that
promises and queues agree and that nothing is queued twice.  `IInv` joins
these: types; `Sound`, by which active sets are finite and are the executing
tasks of the lane's generation, no entry is queued twice and none that is queued
is executing; `PendingIsHeld`, by which the pending promises are those of queued
or executing tasks; `Busy`, no free slot beside queued work; and waiters whose
snapshots were started, that name active tasks or were told the truth.  The
order of the queues, `FifoOrder`, is an invariant of its own on top of it
(`QueueIsTail`).

*The argument.*  Every action that matters edits the lanes and then drains some
of them.  Lemmas about `drainLane` on one lane (what it starts, what it leaves,
how many) are lifted to `pump`: if the edited lanes are `Sound` for the tasks
alive, then the pumped ones are, and no drained lane has an idle slot.  Each
action has then only to be shown to edit soundly.  The finiteness of the active
set, which `Cardinality` needs, is part of the invariant.

`ExecApprovalProofs` proves, for all sets of ids, inputs, policies and timeouts
(`ExecApprovalAssumption` types them), the safety of the approvals:

| Theorem | Property |
|---|---|
| `TypeCorrect` | `TypeOK` |
| `DecisionsRule` | `RunsAsDecided` |
| `Verdicts` | `VerdictStands` |

*The invariant.*  That runs follow decisions is not inductive: a run reads the
record, and the property speaks of the promise and of how often a run was let
through.  `Tied` relates them: a record with an expiry timer is open, one with a
grace timer is not; a decision in the record is what its promise was resolved
with, and came from an operator; while an allow-once is still in the record, no
run has used it.  `IInv` is `TypeOK`, `Tied` and `RunsAsDecided`.

*The argument.*  Every timer and every handler names an approval by its id, and
ids are used again.  By `TypeOK` an open record is the one the map has under its
id, and by `Tied` a set timer belongs to an open record, so whoever acts on what
is open under an id acts on the record meant (`OpenEntry`, `ExpireStep`).  What
`register` and `settle` do, place by place, is stated once (`RegisterEffect`,
`SettleEffect`); the invariant and `VerdictStands` both follow from that.

`HeartbeatWakeProofs` proves, for all sets of targets and priorities, all delays
and any number of registrations and retries (`HeartbeatWakeAssumption`):

| Theorem | Property |
|---|---|
| `TypeCorrect` | `TypeOK` |
| `NoLostWakeup` | `PendingIsArmed` |
| `NothingForgotten` | `AskedIsPending` |
| `CooldownHolds` | `CooldownNotPreempted` |

*The invariant.*  That one batch runs at a time before a second registration is
part of `TypeOK`, and is not inductive: a batch starts when the running flag is
down, so the flag must be up whenever a batch is under way (`OneBatch`), and a
disposer that comes late must not clear the handler of a later registration, so
generations must follow the registrations (`Generations`).

*The argument.*  `schedule` always leaves a timer, and a cooldown is kept by it
(`Scheduled`); every step that adds to the pending wakes or puts a handler in
charge of some calls it, and the one that takes the timer away takes the pending
wakes with it.

`DeliveryQueueProofs` proves, for any number of messages, retries and crashes
(`DeliveryQueueAssumption`):

| Theorem | Property |
|---|---|
| `TypeCorrect` | `TypeOK` |
| `Durable` | `NothingLost` |
| `OncePerLife` | `SentOncePerLife` |
| `EndsAreFinal` | `EndIsFinal` |

*The invariant.*  `NothingLost` needs to know of every acknowledgement under way
that its message was sent or dropped (`Paid`); it holds however recovery and
live sends overlap.  The other two need that a message that is not `overlapped`
in this life has one owner at a time (`Owned`): its live send, recovery, or one
storage call.  `Owned` also says that such a message was sent at most once since
the last crash and, if it was, that it is being acknowledged or has been
(`Closing`), so that neither recovery nor a retry can send it again in this
life.  `Ended` says that what was acknowledged or has failed has no owner but the
end of the acknowledgement.  `WellFormed` says where
recovery stands, so that a step that crashes or reads can be split by it.

*The argument.*  Each action is shown to hand ownership on or to keep it: a live
send that ends gives way to one storage call, recovery takes from its list what
it sends, and what it loads while another owner is at work is overlapped; a crash
ends every owner, sets the counts to zero and lets recovery begin with what the
entries say.  What is an owner is finite data, so each case is a fact about at
most one message.

`SessionWriteLockProofs` proves, for any number of processes, pids and calls
(`SessionWriteLockAssumption`: the calls are finitely many, as references are
counted, and the names do not overlap):

| Theorem | Property |
|---|---|
| `TypeCorrect` | `TypeOK` |
| `LiveLocksKept` | `LiveLockKept` |
| `MutualExclusion` | `OneWriter` |
| `References` | `RefsCounted` |

*The invariant.*  `Live` says which locks a process answers for: those being
written or cleaned up, those in `HELD_LOCKS` and those being released.  `Kept`
says that each of these has its file at the path, so there is one at most.  For
this, whoever removes a file that is not his own must have judged one whose
process is gone: `StaleIsDead`.  `Counted` and `Found` relate a lock's entry to
the callers that were given it, and `Places` says where calls, entries and files
can be at all.  `Kept`, `StaleIsDead` and `Found` have the proviso of section 3.

*The argument.*  A removal goes by path, some time after the judgement, so the
danger is a live file that has taken the place of the judged one.  A call creates
a file once, so a file with the judged name is the judged file, its process is
still gone, and any other file at the path makes the removal careless, the first
of the four races.  Every other removal is by the owner of a live lock, and the
file there is his own.

`FollowupQueueProofs` proves, for any number of messages, queue objects, reply
runs, clears and failures, and all settings (`FollowupQueueAssumption`):

| Theorem | Property |
|---|---|
| `TypeCorrect` | `TypeOK` |
| `Once` | `AnsweredOnce` |
| `NoTwin` | `NoTwinQueued` |

*The invariant.*  A message may be among the items of a queue object and in the
batch that its drain has in flight, and a drop or a clear may shift the items in
between.  What keeps it from being run again is `Straight`: an item of the batch
stands no further back than the batch is long, so the shift by that length, after
the run, removes it whatever went before.  `Apart` adds that no two objects have a
message in common, the drains of cleared objects included, and that what they
have was accepted and not answered.  Nothing is claimed of items that are not in
the batch: they may be shifted unanswered, which is finding 1.

The module goes on where sessions are not cleared and only reply runs use them
(`Orderly`):

| Theorem | Property |
|---|---|
| `NeverIdle` | `NoIdleQueue` |
| `IsMailbox` | `Inbox!Spec`, the safety of `ImplementsMailbox` |

*The invariant.*  `Sole`: an object that has work or a drain is the one in the
map, and if it has work it has a drain, or a reply run that will schedule one.
So the `finally` clause of a drain deletes or schedules the object it means.
Where, besides, a full queue refuses (`Keeping`), `Ahead` says that a batch in
flight is the head of the items and no prompt holds a summary.

*The argument.*  Whatever schedules or ends a drain leaves the object served or
deletes it empty (`Settled`), and so leaves the waiting messages as they were; an
arrival that is accepted adds one at the end; a run that succeeds delivers the
head of the items that the shift then removes.  These are the steps of
`Mailbox`.

`SessionLanesProofs` proves, for any number of runs, sessions, lanes and
restarts and any caps (`SessionLanesAssumption`):

| Theorem | Property |
|---|---|
| `TypeCorrect` | `TypeOK` |
| `SessionsSerialised` | `OneRunPerSession` |
| `QuietAfterDrain` | `DrainedMeansQuiet` |
| `QueueInUse` | `NoIdleSlot`, `NoCommandLost`, `ActiveIsCurrent` and `WaitersTold` of the queue it uses |

*The invariant.*  That of `CommandQueue`, which is not proved again: every step
here is a step of the queue (`QueueStep`), so `CommandQueueProofs`, instantiated,
shows that it is kept (`QueueKept`).  `Nested`: a run whose global command is
pending is inside its session command.  `OneSlot`: a session's lane has a cap of
one and at most one active command.  `FirstLife`: generations are zero until a
restart.  `Counted`: the snapshot of a drain that is not cut short has the
session command of every run of this life whose turn is queued or under way.

*The argument.*  Two runs of a session that are both in their turns have both
their session commands active in a lane with one slot.  A drain snapshot has
every turn that was under way or queued under an active session command, what
starts later is refused before its turn, and a waiter that was told that all has
drained was told the truth.

`CronServiceProofs` proves, for any finite set of jobs, any kinds, times, stores
at first, outcomes, periods, delays and limits, and any number of services
(`CronAssumption`: the jobs are finitely many, as the staggering of the catch-up
counts them):

| Theorem | Property |
|---|---|
| `TypeCorrect` | `TypeOK` |
| `RunsApart` | `OneRunAtATime` |
| `JobsStay` | `JobsKept` |
| `SlotsKept` | `PassedSlotKept` |

*The invariant.*  `Types` and `Services` say that a service that has not passed
the first section of `start()` has no store, no tick and no manual run, so every
section works on a copy that is there; `Recorded`, that the history knows every
job of a copy.  The rest holds until a service is replaced at work.  `Kept`: the
file has the jobs and times of the history, and the copy in memory those of the
file; the two may differ in marks, and in a next run only where the file has none
or the job is disabled (`AsFiled`), as reads before a manual run repair memory
alone.  Without this, a section that stores its copy could undo what the file
has.  `Planned`: a run belongs to the tick, the catch-up or the manual run that
started it, and the plans hold what their runs have not taken.  `Marked`: a job
whose mark was never taken away is in one plan or has one run, not both, and has
a mark in both copies all that time; this is what makes the mark a lock although
each section looks at one copy only.

*The argument.*  The passes over the store and the application of results are
lemmas of their own: which jobs, times, next runs and marks they leave
(`Maintained`, `Recomputed`, `OutcomesApplied`, `SnapshotMerged`).  An action
writes one such store; `PersistKept` and `MarkedAfter` say what is left to show of
it: that it lists the jobs of the history, and that a job still under way keeps
its mark or is among those freed.  `PassedSlotKept` follows step by step: by
`AsFiled` a job that waits has the same next run in memory, the maintenance pass
moves a slot only if it was served, and the results of runs are those of the runs
that end in the step.

What TLC alone checks is liveness, which is out of this prover's reach (that the
mailbox delivers in the end, too, and that due cron jobs are run, `CronDue`).

## 5. Findings

Each is a run that expects a violation; the counterexample is the story.

1. `followup_drop_old`: the drop policy `old` removes the message whose run is
   in flight; the shift after the run then removes its successor, which was
   never run (`utils/queue-helpers.ts:156`).
2. `delivery_best_effort`: recovery sends best-effort messages without
   `onError`, so a failed payload is not seen and the entry is acknowledged
   (`infra/outbound/delivery-queue-recovery.ts:196`).
3. `session_preserved`: while the gateway drains, a run queued in its session's
   lane still starts, and its global command is refused; the message fails
   instead of waiting for the restart (`process/command-queue.ts:237`).

Other behaviour seen in the models, noted as hazards and claimed by no property:
the overflow summary is run in the place of the head message, which is shifted
although its prompt was not run; a follow-up queue with no items and a positive
drop counter may be scheduled for ever; a change of policy can produce a
collect run that carries nothing; a run that is not a reply run leaves the
queue idle until the next message; the drain of a cleared queue object deletes
the map entry of its successor; a crash between the send and the
acknowledgement sends again, as the order of the two implies; a sooner normal
timer, armed by a request during a heartbeat batch, is kept where the retry
delay should apply (`infra/heartbeat-wake.ts:129`, against its comment); the
watchdog of the write lock stops when the last lock is released, although a
call that had started it is waiting, and the lock that call takes is not
watched (`agents/session-write-lock.ts:169`); slots that pass during the
catch-up of `start()` are kept by the catch-up (`cron/service/timer.ts:1091`)
and given up by the section after it (`cron/service/ops.ts:130`); a one-shot job
that a crash interrupted is left out of the catch-up, and run by the first
tick, as its next run is still past; a request for an approval that finds
nobody to ask answers none even if an operator decided during the await, and
expires whatever has its id by then.

## 6. What is not modelled

* Text: prompts, previews, formatting, log lines.  A message is a value with an
  id class and a route class.
* `refreshQueuedFollowupSession` and the prompt dedupe mode of the follow-up
  queue; the migration of old delivery entries; errors of the file system other
  than a missing file and a failed write; the abort of embedded runs during a
  restart's drain, and a respawned process.
* The order of targets within a heartbeat batch, which the code takes from the
  map; the model lets any come first.
* In `FollowupQueue`, the two ways in which the code compares thread ids: the
  cache of recent ids compares their text, the queue compares them as they are.
  They are taken to come in one form.
* In `SessionWriteLock`, how paths and symbolic links are resolved (the awaits
  are there), and other sessions of the same process.
* In `CronService`, what a run does and how its result is delivered, failure
  alerts, a patch that turns a schedule of one kind into one of another, schedules that cannot be computed, the session reaper, time zones and
  the per-job offset of cron slots, and a store that cannot be read or written.
  A manual run is one at a time, as in a cron lane with a cap of one; more than
  one waiting in the lane is not modelled.
* In `ExecApproval`, how an approval is bound to a node, a device and a command,
  a decision without the name of an operator (a client names itself or has an id,
  which the handshake demands), the forwarder that asks in chats, the fallback of hosts without a gateway, and
  the approvals of plugins, which use the same manager with other ids.
* The components marked *planned* above.

## 7. The plan

Done: `CommandQueue`, `ExecApproval`, `HeartbeatWake`, `DeliveryQueue`,
`SessionWriteLock`, `FollowupQueue`, `SessionLanes` and `CronService` with their
proofs, `Mailbox` with the refinement of its steps.

1. Abstract specifications: a lane as a bounded server of a FIFO queue, which
   `CommandQueue` implements; the delivery queue as at-least-once delivery; the
   write lock as a mutex with failures.
2. More of the system, in this order: `RestartCoordination` (requests, deferral
   and the run loop, composed with `SessionLanes`); the announce queue of
   subagents as a second refinement of `Mailbox`; the task and subagent
   registries with their reconciliation after a restart; the embedded run
   registry, which closes the loop between `SessionLanes` and `FollowupQueue`.
