---------------------------- MODULE HeartbeatWake ----------------------------
(***************************************************************************)
(* The wake layer of the heartbeat (src/infra/heartbeat-wake.ts): requests *)
(* are coalesced per target under one timer, and a timer that fires hands  *)
(* all of them, one after the other, to the registered handler.            *)
(*                                                                         *)
(* An action is what runs between two awaits.  Delays are in ticks; a due  *)
(* timer fires before time goes on.  A wake is its target and the priority *)
(* of its reason; of two with one priority the later wins, which makes no  *)
(* difference here.  The handlers of a batch are called in any order,      *)
(* where the code follows the order of the first requests.                 *)
(***************************************************************************)
EXTENDS Integers, Sequences, FiniteSets, SequencesExt

CONSTANTS
    Target,           \* agent and session a wake is for
    Priority,         \* priorities of the reasons used
    Coalesce,         \* values of coalesceMs in use
    DefaultCoalesce,  \* DEFAULT_COALESCE_MS
    RetryDelay,       \* DEFAULT_RETRY_MS
    MaxRequests,      \* bound: calls of requestHeartbeatNow
    MaxRegistrations, \* bound: calls of setHeartbeatWakeHandler
    MaxTroubles       \* bound: wakes answered "requests-in-flight" or by a throw

NoWake == -1
NoHandler == 0
NoTimer == [left |-> 0, kind |-> "none", delay |-> 0]

ASSUME HeartbeatWakeAssumption ==
    /\ Priority \subseteq Nat /\ Coalesce \subseteq Nat
    /\ {DefaultCoalesce, RetryDelay, MaxRequests, MaxRegistrations, MaxTroubles} \subseteq Nat

VARIABLES
    handler,    \* the registration in charge, or NoHandler
    generation, \* handlerGeneration
    runners,    \* registrations whose disposer was not called yet
    pending,    \* pendingWakes: the priority queued for a target
    scheduled, running,
    timer,      \* what is left of the delay, timerKind, and the closure's delay
    batches,    \* the callbacks under way: by, rest, all and delay
    requests, registrations, troubles,  \* counters of the bounds
    asked       \* history: priorities asked of a target since it was last taken

bounds == <<requests, registrations, troubles>>
vars == <<handler, generation, runners, pending, scheduled, running, timer, batches,
          bounds, asked>>

Wakes == [Target -> Priority \cup {NoWake}]
Queued(wakes) == {t \in Target : wakes[t] # NoWake}
NoWakes == [t \in Target |-> NoWake]

Init ==
    /\ handler = NoHandler /\ generation = 0 /\ runners = {}
    /\ pending = NoWakes
    /\ scheduled = FALSE /\ running = FALSE
    /\ timer = NoTimer /\ batches = <<>>
    /\ requests = 0 /\ registrations = 0 /\ troubles = 0
    /\ asked = [t \in Target |-> {}]

-----------------------------------------------------------------------------
(* The two helpers of the module.                                          *)

\* The pending wakes with one more: the reason of higher priority stays.
queuePendingWakeReason(wakes, t, priority) ==
    [wakes EXCEPT ![t] = IF priority >= @ THEN priority ELSE @]

\* Mutant of schedule: a retry timer gives way like any other.
schedule_Preempt(armed, delay, kind) ==
    IF armed # NoTimer /\ armed.left <= delay THEN armed
    ELSE [left |-> delay, kind |-> kind, delay |-> delay]

\* The timer after a call of schedule: one that is a retry, or is due no
\* later, stays.
schedule(armed, delay, kind) ==
    IF armed # NoTimer /\ (armed.kind = "retry" \/ armed.left <= delay) THEN armed
    ELSE [left |-> delay, kind |-> kind, delay |-> delay]

-----------------------------------------------------------------------------
(* Requests, registrations and disposers.                                  *)

requestHeartbeatNow ==
    /\ requests < MaxRequests
    /\ requests' = requests + 1
    /\ \E t \in Target, priority \in Priority, coalesceMs \in Coalesce :
        /\ pending' = queuePendingWakeReason(pending, t, priority)
        /\ timer' = schedule(timer, coalesceMs, "normal")
        /\ asked' = [asked EXCEPT ![t] = @ \cup {priority}]
    /\ UNCHANGED <<handler, generation, runners, scheduled, running, batches,
                   registrations, troubles>>

\* Mutant of setHeartbeatWakeHandler: what is pending is not scheduled.
setHeartbeatWakeHandler_NoSchedule ==
    /\ registrations < MaxRegistrations
    /\ registrations' = registrations + 1
    /\ generation' = generation + 1
    /\ handler' = generation'
    /\ runners' = runners \cup {generation'}
    /\ running' = FALSE /\ scheduled' = FALSE
    /\ timer' = NoTimer
    /\ UNCHANGED <<pending, batches, requests, troubles, asked>>

\* A runner starts.  Its handler is known by the generation it got; the
\* production code never registers null.
setHeartbeatWakeHandler ==
    /\ registrations < MaxRegistrations
    /\ registrations' = registrations + 1
    /\ generation' = generation + 1
    /\ handler' = generation'
    /\ runners' = runners \cup {generation'}
    /\ running' = FALSE /\ scheduled' = FALSE
    /\ timer' = IF Queued(pending) = {} THEN NoTimer
                ELSE schedule(NoTimer, DefaultCoalesce, "normal")
    /\ UNCHANGED <<pending, batches, requests, troubles, asked>>

\* Mutant of dispose: the generation goes up before the early return.
dispose_BumpFirst(g) ==
    /\ g \in runners
    /\ runners' = runners \ {g}
    /\ generation' = generation + 1
    /\ handler' = IF generation = g THEN NoHandler ELSE handler
    /\ UNCHANGED <<pending, scheduled, running, timer, batches, bounds, asked>>

\* The runner of registration g stops.
dispose(g) ==
    /\ g \in runners
    /\ runners' = runners \ {g}
    /\ IF generation = g /\ handler = g
       THEN handler' = NoHandler /\ generation' = generation + 1
       ELSE UNCHANGED <<handler, generation>>
    /\ UNCHANGED <<pending, scheduled, running, timer, batches, bounds, asked>>

-----------------------------------------------------------------------------
(* The timer and the batch it starts.                                      *)

due == timer # NoTimer /\ timer.left = 0

fireWithoutHandler ==
    /\ due /\ handler = NoHandler
    /\ timer' = NoTimer /\ scheduled' = FALSE
    /\ UNCHANGED <<handler, generation, runners, pending, running, batches, bounds, asked>>

fireWhileRunning ==
    /\ due /\ handler # NoHandler /\ running
    /\ timer' = schedule(NoTimer, timer.delay, timer.kind)
    /\ scheduled' = TRUE
    /\ UNCHANGED <<handler, generation, runners, pending, running, batches, bounds, asked>>

\* All that is pending goes to the handler; with nothing pending the callback
\* is over at once.
startBatch ==
    /\ due /\ handler # NoHandler /\ ~running
    /\ timer' = NoTimer /\ scheduled' = FALSE
    /\ pending' = NoWakes
    /\ running' = (Queued(pending) # {})
    /\ batches' = IF Queued(pending) = {} THEN batches
                  ELSE Append(batches, [by |-> handler, rest |-> Queued(pending),
                                        all |-> pending, delay |-> timer.delay])
    /\ asked' = [t \in Target |-> {}]
    /\ UNCHANGED <<handler, generation, runners, bounds>>

\* Mutant of requeued: the wake of a busy handler is not queued again.
requeued_Dropped(b, t, outcome) ==
    IF outcome = "threw"
    THEN [u \in Target |-> queuePendingWakeReason(pending, u, b.all[u])[u]]
    ELSE pending

\* What is pending after the handler of batch b answered for t: a busy
\* handler gets t again, and after a throw all of the batch, the wakes it had
\* answered included.
requeued(b, t, outcome) ==
    CASE outcome = "ran"   -> pending
      [] outcome = "busy"  -> queuePendingWakeReason(pending, t, b.all[t])
      [] outcome = "threw" ->
            [u \in Target |-> queuePendingWakeReason(pending, u, b.all[u])[u]]

\* The end of the callback, armed being the timer the loop left.
finally(b, armed) ==
    /\ running' = FALSE
    /\ timer' = IF Queued(pending') # {} \/ scheduled
                THEN schedule(armed, b.delay, "normal") ELSE armed

\* The handler answers for one wake of batch i; after the last one the
\* callback ends in the same turn.
handlerAnswers(i, t, outcome) ==
    LET b == batches[i]
        trouble == outcome # "ran"
        rest == IF outcome = "threw" THEN {} ELSE b.rest \ {t}
        armed == IF trouble THEN schedule(timer, RetryDelay, "retry") ELSE timer
        again == CASE outcome = "ran" -> {} [] outcome = "busy" -> {t} [] outcome = "threw" -> Queued(b.all)
    IN  /\ trouble => troubles < MaxTroubles
        /\ troubles' = IF trouble THEN troubles + 1 ELSE troubles
        /\ pending' = requeued(b, t, outcome)
        /\ IF rest = {}
           THEN /\ batches' = RemoveAt(batches, i)
                /\ finally(b, armed)
           ELSE /\ batches' = [batches EXCEPT ![i].rest = rest]
                /\ timer' = armed /\ UNCHANGED running
        /\ asked' = [u \in Target |-> asked[u] \cup IF u \in again THEN {b.all[u]} ELSE {}]
        /\ UNCHANGED <<handler, generation, runners, scheduled, requests, registrations>>

answer == \E i \in DOMAIN batches : \E t \in batches[i].rest, outcome \in {"ran", "busy", "threw"} :
    handlerAnswers(i, t, outcome)

tick ==
    /\ ~due
    /\ timer # NoTimer
    /\ timer' = [timer EXCEPT !.left = @ - 1]
    /\ UNCHANGED <<handler, generation, runners, pending, scheduled, running, batches,
                   bounds, asked>>

Next ==
    \/ requestHeartbeatNow \/ setHeartbeatWakeHandler
    \/ \E g \in runners : dispose(g)
    \/ fireWithoutHandler \/ fireWhileRunning \/ startBatch
    \/ answer \/ tick

Spec == Init /\ [][Next]_vars

\* Time passes, due timers fire, and handlers answer: a heartbeat run has a timeout.
FairSpec == Spec /\ WF_vars(tick) /\ WF_vars(fireWithoutHandler) /\ WF_vars(startBatch) /\ WF_vars(answer)

-----------------------------------------------------------------------------
(* Properties.                                                             *)

Batch == [by: 1..(2 * MaxRegistrations), rest: SUBSET Target, all: Wakes, delay: Nat]

\* Types; and before a second runner registers, no two batches run at a time
\* (the running flag), whatever timers fire while a handler has not answered.
TypeOK ==
    /\ generation \in 0..(2 * MaxRegistrations) /\ handler \in {NoHandler, generation}
    /\ runners \in SUBSET (1..generation)
    /\ pending \in Wakes
    /\ scheduled \in BOOLEAN /\ running \in BOOLEAN
    /\ timer = NoTimer \/ timer \in [left: Nat, kind: {"normal", "retry"}, delay: Nat]
    /\ batches \in Seq(Batch) /\ \A i \in DOMAIN batches : batches[i].rest # {}
    /\ requests \in 0..MaxRequests /\ registrations \in 0..MaxRegistrations
    /\ troubles \in 0..MaxTroubles
    /\ asked \in [Target -> SUBSET Priority]
    /\ registrations <= 1 => Len(batches) <= 1

\* No lost wake-up: while a handler is registered, what is pending has a timer
\* that will hand it over, across every handover and retry.
PendingIsArmed == handler # NoHandler /\ Queued(pending) # {} => timer # NoTimer

\* What was asked of a target, and what a busy or throwing handler gave back,
\* stays pending at no lower a priority until a handler takes it, be the
\* requests coalesced, retried, or made while there is no handler.
AskedIsPending == \A t \in Target, priority \in Priority :
    priority \in asked[t] => pending[t] >= priority

\* A retry cooldown that runs is not cut short by a request, by the end of
\* another batch or by a timer: only time and a new registration end it.
CooldownNotPreempted ==
    [][timer.kind = "retry" /\ timer.left > 0 /\ registrations' = registrations
         => timer' \in {timer, [timer EXCEPT !.left = @ - 1]}]_vars

\* While a handler stays registered, every wake is taken and answered.
EveryWakeAnswered ==
    <>[](handler # NoHandler) => <>[](Queued(pending) = {} /\ batches = <<>>)

=============================================================================
