---------------------------- MODULE CommandQueue ----------------------------
(***************************************************************************)
(* The in-process command queue of the gateway (src/process/command-queue  *)
(* .ts): named lanes, each a FIFO queue with a concurrency cap, a snapshot *)
(* wait used before a restart, and the reset done after an in-process      *)
(* restart, when tasks of the previous life may still be running.          *)
(*                                                                         *)
(* JavaScript runs each call to completion, so an operation of the module  *)
(* is one action here: enqueueCommandInLane with the pump it ends in, the  *)
(* settling of a task with completeTask, the waiters' notification and the *)
(* pump, and so on.  The flag LaneState.draining is true only inside such  *)
(* a call and has no value between calls to record.                        *)
(*                                                                         *)
(* A Task is one queue entry: a command enqueued once.  It stands for the  *)
(* taskId too, which the code draws afresh when the entry starts.          *)
(***************************************************************************)
EXTENDS Integers, Sequences, FiniteSets, Functions

CONSTANTS
    Task,               \* queue entries that may be enqueued
    Lane,               \* lane names, after normalizeLane
    LaneOf,             \* the lane each task is enqueued in
    Waiter,             \* calls of waitForActiveTasks
    ConcurrencyValues,  \* arguments of setCommandLaneConcurrency
    MaxGeneration       \* bound: how many in-process restarts happen

ASSUME CommandQueueAssumption ==
    /\ LaneOf \in [Task -> Lane]
    /\ ConcurrencyValues \subseteq Int
    /\ MaxGeneration \in Nat

VARIABLES
    lanes,           \* queueState.lanes: the LaneState of every lane
    gatewayDraining, \* queueState.gatewayDraining
    executing,       \* tasks whose function was called and has not settled
    startGen,        \* taskGeneration captured when the task was started
    outcome,         \* the promise enqueueCommandInLane returned
    waiters,         \* queueState.activeTaskWaiters, and what each was told
    arrivals         \* history: entries accepted by each lane, in order

vars == <<lanes, gatewayDraining, executing, startGen, outcome, waiters, arrivals>>

-----------------------------------------------------------------------------
(* The state of one lane and the operations on it.                         *)

LaneState ==
    [queue: Seq(Task), active: SUBSET Task, maxConcurrent: Nat \ {0}, generation: Nat]

InitLane == [queue |-> <<>>, active |-> {}, maxConcurrent |-> 1, generation |-> 0]

\* Mutant of Starts: "<=" for "<" in its condition.
Starts_OneTooMany(lane) ==
    LET free == lane.maxConcurrent + 1 - Cardinality(lane.active)
    IN  IF free <= 0 THEN 0
        ELSE IF free < Len(lane.queue) THEN free ELSE Len(lane.queue)

\* How many entries the while loop of pump() starts before it stops: it runs
\* while activeTaskIds.size < maxConcurrent and the queue is not empty.
Starts(lane) ==
    LET free == lane.maxConcurrent - Cardinality(lane.active)
    IN  IF free <= 0 THEN 0
        ELSE IF free < Len(lane.queue) THEN free ELSE Len(lane.queue)

Started(lane) == {lane.queue[i] : i \in 1..Starts(lane)}

\* drainLane: start entries from the head of the queue up to the cap.
drainLane(lane) ==
    [lane EXCEPT !.queue  = SubSeq(lane.queue, Starts(lane) + 1, Len(lane.queue)),
                 !.active = lane.active \cup Started(lane)]

\* Mutant of push: unshift.
push_Front(lane, t) == [lane EXCEPT !.queue = <<t>> \o @]

push(lane, t) == [lane EXCEPT !.queue = Append(@, t)]

\* Mutant of resetLane: the active ids of the old life are kept.
resetLane_KeepActive(lane) == [lane EXCEPT !.generation = @ + 1]

\* resetAllLanes' first pass over one lane.
resetLane(lane) == [lane EXCEPT !.generation = @ + 1, !.active = {}]

\* Mutant of Clamp: no lower limit.
Clamp_None(n) == n

Clamp(n) == IF n < 1 THEN 1 ELSE n

Active(ls) == UNION {ls[l].active : l \in Lane}

-----------------------------------------------------------------------------
(* Effects shared by the operations.                                       *)

\* Given the lanes ls and the tasks alive, run the pump of each lane in L:
\* the entries it shifts are called at once, in the lane's generation.
pump(ls, L, alive) ==
    LET new == UNION {Started(ls[l]) : l \in L}
    IN  /\ lanes' = [l \in Lane |-> IF l \in L THEN drainLane(ls[l]) ELSE ls[l]]
        /\ executing' = alive \cup new
        /\ startGen' = [t \in Task |-> IF t \in new THEN ls[LaneOf[t]].generation
                                                    ELSE startGen[t]]

\* Mutant of notifyActiveTaskWaiters: one task of the snapshot is enough.
notifyActiveTaskWaiters_OneDone(ls) ==
    waiters' = [w \in Waiter |->
        IF waiters[w].state = "waiting" /\ ~(waiters[w].ids \subseteq Active(ls))
        THEN [waiters[w] EXCEPT !.state = "drained"]
        ELSE waiters[w]]

\* notifyActiveTaskWaiters, against the lanes ls.
notifyActiveTaskWaiters(ls) ==
    waiters' = [w \in Waiter |->
        IF waiters[w].state = "waiting" /\ waiters[w].ids \cap Active(ls) = {}
        THEN [waiters[w] EXCEPT !.state = "drained"]
        ELSE waiters[w]]

-----------------------------------------------------------------------------
(* The operations.                                                         *)

Init ==
    /\ lanes = [l \in Lane |-> InitLane]
    /\ gatewayDraining = FALSE
    /\ executing = {}
    /\ startGen = [t \in Task |-> 0]
    /\ outcome = [t \in Task |-> "none"]
    /\ waiters = [w \in Waiter |-> [state |-> "none", ids |-> {}]]
    /\ arrivals = [l \in Lane |-> <<>>]

\* enqueueCommandInLane while the gateway drains: GatewayDrainingError.
refuseCommand(t) ==
    /\ outcome[t] = "none"
    /\ gatewayDraining
    /\ outcome' = [outcome EXCEPT ![t] = "refused"]
    /\ UNCHANGED <<lanes, gatewayDraining, executing, startGen, waiters, arrivals>>

\* enqueueCommandInLane: push the entry and drain the lane.
enqueueCommandInLane(t) ==
    LET l == LaneOf[t]
    IN  /\ outcome[t] = "none"
        /\ ~gatewayDraining
        /\ outcome' = [outcome EXCEPT ![t] = "pending"]
        /\ arrivals' = [arrivals EXCEPT ![l] = Append(@, t)]
        /\ pump([lanes EXCEPT ![l] = push(@, t)], {l}, executing)
        /\ UNCHANGED <<gatewayDraining, waiters>>

\* The task function settles, with a value or an error.  In the generation
\* it started in, completeTask frees its slot, the waiters are told and the
\* lane pumped; otherwise the lane is left alone.  Its promise settles.
settleTask(t) ==
    LET l    == LaneOf[t]
        done == [lanes EXCEPT ![l].active = @ \ {t}]
    IN  /\ t \in executing
        /\ outcome' = [outcome EXCEPT ![t] = "settled"]
        /\ \/ /\ startGen[t] = lanes[l].generation
              /\ notifyActiveTaskWaiters(done)
              /\ pump(done, {l}, executing \ {t})
           \/ /\ startGen[t] # lanes[l].generation
              /\ executing' = executing \ {t}
              /\ UNCHANGED <<lanes, startGen, waiters>>
        /\ UNCHANGED <<gatewayDraining, arrivals>>

\* Mutant of setCommandLaneConcurrency: no drainLane after the cap changes.
setCommandLaneConcurrency_NoDrain(l, n) ==
    /\ lanes' = [lanes EXCEPT ![l].maxConcurrent = Clamp(n)]
    /\ UNCHANGED <<gatewayDraining, executing, startGen, outcome, waiters, arrivals>>

setCommandLaneConcurrency(l, n) ==
    /\ pump([lanes EXCEPT ![l].maxConcurrent = Clamp(n)], {l}, executing)
    /\ UNCHANGED <<gatewayDraining, outcome, waiters, arrivals>>

\* Mutant of clearCommandLane: the entries are dropped, not rejected.
clearCommandLane_Silent(l) ==
    /\ lanes' = [lanes EXCEPT ![l].queue = <<>>]
    /\ UNCHANGED <<gatewayDraining, executing, startGen, outcome, waiters, arrivals>>

\* clearCommandLane: reject what is queued, leave what is running.
clearCommandLane(l) ==
    /\ lanes' = [lanes EXCEPT ![l].queue = <<>>]
    /\ outcome' = [t \in Task |-> IF t \in Range(lanes[l].queue) THEN "cleared"
                                                                 ELSE outcome[t]]
    /\ UNCHANGED <<gatewayDraining, executing, startGen, waiters, arrivals>>

markGatewayDraining ==
    /\ gatewayDraining' = TRUE
    /\ UNCHANGED <<lanes, executing, startGen, outcome, waiters, arrivals>>

\* resetAllLanes: after an in-process restart.  Every lane is reset before
\* any is drained; the tasks of the old generation keep executing.
resetAllLanes ==
    LET ls == [l \in Lane |-> resetLane(lanes[l])]
    IN  /\ \A l \in Lane : lanes[l].generation < MaxGeneration
        /\ gatewayDraining' = FALSE
        /\ pump(ls, Lane, executing)
        /\ notifyActiveTaskWaiters(lanes')
        /\ UNCHANGED <<outcome, arrivals>>

\* waitForActiveTasks: snapshot the active tasks.  With none, the call
\* answers drained at once; a timeout of zero or less, not drained at once.
waitForActiveTasks(w) ==
    /\ waiters[w].state = "none"
    /\ LET ids == Active(lanes)
       IN  \E state \in IF ids = {} THEN {"drained"} ELSE {"timedOut", "waiting"} :
               waiters' = [waiters EXCEPT ![w] = [state |-> state, ids |-> ids]]
    /\ UNCHANGED <<lanes, gatewayDraining, executing, startGen, outcome, arrivals>>

\* The timer of a waiter fires.
waiterTimeout(w) ==
    /\ waiters[w].state = "waiting"
    /\ waiters' = [waiters EXCEPT ![w].state = "timedOut"]
    /\ UNCHANGED <<lanes, gatewayDraining, executing, startGen, outcome, arrivals>>

Next ==
    \/ \E t \in Task : refuseCommand(t) \/ enqueueCommandInLane(t) \/ settleTask(t)
    \/ \E l \in Lane : \/ clearCommandLane(l)
                       \/ \E n \in ConcurrencyValues : setCommandLaneConcurrency(l, n)
    \/ \E w \in Waiter : waitForActiveTasks(w) \/ waiterTimeout(w)
    \/ markGatewayDraining
    \/ resetAllLanes

\* Commands end: each agent run has its own timeout.  Nothing else is fair,
\* not even the timers of the waiters.
Fairness == \A t \in Task : WF_vars(settleTask(t))

Spec == Init /\ [][Next]_vars
FairSpec == Spec /\ Fairness

-----------------------------------------------------------------------------
(* Properties.                                                             *)

TypeOK ==
    /\ lanes \in [Lane -> LaneState]
    /\ gatewayDraining \in BOOLEAN
    /\ executing \in SUBSET Task
    /\ startGen \in [Task -> Nat]
    /\ outcome \in [Task -> {"none", "pending", "settled", "cleared", "refused"}]
    /\ waiters \in [Waiter -> [state: {"none", "waiting", "drained", "timedOut"},
                               ids: SUBSET Task]]
    /\ arrivals \in [Lane -> Seq(Task)]

\* No wakeup is lost: a lane never holds queued work beside a free slot, not
\* after a task settles, a cap is raised, or an in-process restart forgets
\* the active tasks (drainLane is called by each of them).
NoIdleSlot ==
    \A l \in Lane : lanes[l].queue # <<>> =>
        Cardinality(lanes[l].active) >= lanes[l].maxConcurrent

\* No command is lost: a caller whose promise is pending has an entry that is
\* queued, or a task that runs, through clears and restarts (entry.resolve and
\* entry.reject are each call's only answer).
NoCommandLost ==
    \A t \in Task : outcome[t] = "pending" <=>
        \/ t \in Range(lanes[LaneOf[t]].queue)
        \/ t \in executing

\* The active set of a lane is the running tasks of the current generation:
\* a task of an earlier life neither holds a slot nor is freed twice
\* (completeTask's generation check).
ActiveIsCurrent ==
    \A l \in Lane : lanes[l].active =
        {t \in executing : LaneOf[t] = l /\ startGen[t] = lanes[l].generation}

\* Entries of a lane start in the order they were enqueued: what is still
\* queued is a suffix of what was ever accepted (queue.shift, and the reset
\* that preserves queued entries).
FifoOrder ==
    \A l \in Lane : \E k \in 0..Len(arrivals[l]) :
        lanes[l].queue = SubSeq(arrivals[l], k + 1, Len(arrivals[l]))

\* A waiter is told as soon as its snapshot is over: one that still waits
\* names a task that is active (notifyActiveTaskWaiters in every path that
\* empties an active set).
WaiterNotForgotten ==
    \A w \in Waiter : waiters[w].state = "waiting" =>
        waiters[w].ids \cap Active(lanes) # {}

\* A waiter told that its snapshot drained was told the truth for good: each
\* of the tasks has settled or belongs to a life a restart has ended.
WaiterNotMisled ==
    \A w \in Waiter : waiters[w].state = "drained" =>
        \A t \in waiters[w].ids :
            \/ outcome[t] = "settled"
            \/ startGen[t] < lanes[LaneOf[t]].generation

\* A waiter hears in time and hears the truth.
WaitersTold == WaiterNotForgotten /\ WaiterNotMisled

\* A step that starts tasks in a lane respects the cap then in force, even if
\* a lower cap was set while more tasks were running.
CapRespected ==
    [][\A l \in Lane : ~(lanes'[l].active \subseteq lanes[l].active) =>
            Cardinality(lanes'[l].active) <= lanes'[l].maxConcurrent]_lanes

\* A command that was accepted gets an answer: it settles or is cleared.  And a
\* call of waitForActiveTasks is answered because its tasks end or a restart
\* forgets them, whether or not its timer ever fires.
EveryoneAnswered ==
    /\ \A t \in Task : outcome[t] = "pending" ~> outcome[t] # "pending"
    /\ \A w \in Waiter : waiters[w].state = "waiting" ~> waiters[w].state # "waiting"

=============================================================================
