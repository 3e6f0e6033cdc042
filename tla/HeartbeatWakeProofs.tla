------------------------- MODULE HeartbeatWakeProofs -------------------------
(* Proofs, for every set of targets and priorities and every delay, of the  *)
(* safety of HeartbeatWake: no lost wake-up, over any number of handlers    *)
(* that come and go, and a cooldown that nothing cuts short.                *)
(*                                                                          *)
(* The argument.  schedule always leaves a timer, and every step that adds  *)
(* to pendingWakes, or puts a handler in charge of some, calls it; the step *)
(* that takes the timer away takes what is pending with it.                 *)
EXTENDS HeartbeatWake, SequenceTheorems, TLAPS

Timers == [left : Nat, kind : {"normal", "retry"}, delay : Nat]

\* A batch under way has work left, and all of it is in what it took.
GoodBatch == {b \in Batch : b.rest # {} /\ b.rest \subseteq Queued(b.all)}

-----------------------------------------------------------------------------
(* The invariant.                                                          *)

\* The generation goes up at most twice per registration, and it has not yet
\* done so for the one in charge.
Generations ==
    /\ generation <= 2 * registrations
    /\ handler # NoHandler => generation < 2 * registrations

\* Before a second registration the running flag tells of every batch.
OneBatch ==
    /\ batches \in Seq(GoodBatch)
    /\ registrations = 0 => handler = NoHandler /\ batches = <<>>
    /\ registrations <= 1 /\ batches # <<>> => running

IInv == TypeOK /\ Generations /\ OneBatch /\ PendingIsArmed /\ AskedIsPending

-----------------------------------------------------------------------------
(* The helpers.                                                            *)

\* There is a timer after schedule, and a cooldown is the one that was.
LEMMA Scheduled ==
    ASSUME NEW armed \in Timers \cup {NoTimer}, NEW delay \in Nat,
           NEW kind \in {"normal", "retry"}
    PROVE  /\ schedule(armed, delay, kind) \in Timers
           /\ schedule(armed, delay, kind) # NoTimer
           /\ armed.kind = "retry" => schedule(armed, delay, kind) = armed
  <1>1. \A t \in Timers : t # NoTimer
    BY DEF Timers, NoTimer
  <1>2. schedule(armed, delay, kind) \in Timers
    BY DEF schedule, Timers, NoTimer
  <1>3. armed.kind = "retry" => armed # NoTimer
    BY DEF NoTimer
  <1>4. QED
    BY <1>1, <1>2, <1>3 DEF schedule

\* Priorities are numbers, and no wake is less than any.
LEMMA Priorities ==
    ASSUME NEW priority \in Priority \cup {NoWake}
    PROVE  priority \in Int /\ (priority # NoWake => priority >= 0)
  <1>1. CASE priority = NoWake
    BY <1>1 DEF NoWake
  <1>2. CASE priority \in Priority
    <2>1. Priority \subseteq Nat
      BY HeartbeatWakeAssumption
    <2>2. priority \in Nat
      BY <1>2, <2>1
    <2>3. QED
      BY <2>2
  <1>3. QED
    BY <1>1, <1>2

\* queuePendingWakeReason keeps the higher of two priorities, and no target
\* loses by it.
LEMMA QueuedHigher ==
    ASSUME NEW wakes \in Wakes, NEW t \in Target, NEW priority \in Priority \cup {NoWake}
    PROVE  LET new == queuePendingWakeReason(wakes, t, priority) IN
           /\ new \in Wakes
           /\ new[t] >= priority
           /\ \A u \in Target : new[u] >= wakes[u]
           /\ priority # NoWake => t \in Queued(new)
  <1>1. \A u \in Target : wakes[u] \in Int
    BY Priorities DEF Wakes
  <1>2. priority \in Int /\ (priority # NoWake => priority >= 0)
    BY Priorities
  <1> DEFINE higher == IF priority >= wakes[t] THEN priority ELSE wakes[t]
             new == queuePendingWakeReason(wakes, t, priority)
  <1>3. new = [wakes EXCEPT ![t] = higher]
    BY DEF queuePendingWakeReason
  <1>4. new \in Wakes
    BY <1>3 DEF Wakes
  <1>5. \A u \in Target : new[u] = IF u = t THEN higher ELSE wakes[u]
    BY <1>3 DEF Wakes
  <1>6. priority # NoWake => new[t] # NoWake
    BY <1>1, <1>2, <1>5 DEF NoWake
  <1>7. QED
    BY <1>1, <1>2, <1>4, <1>5, <1>6 DEF Queued

\* What becomes of the sequence of batches when one of them ends.
LEMMA Removed ==
    ASSUME NEW i \in DOMAIN batches, batches \in Seq(GoodBatch)
    PROVE  /\ RemoveAt(batches, i) \in Seq(GoodBatch)
           /\ Len(RemoveAt(batches, i)) = Len(batches) - 1
  <1>1. /\ Len(batches) \in Nat /\ i \in 1 .. Len(batches)
        /\ \A k \in 1 .. Len(batches) : batches[k] \in GoodBatch
    BY LenProperties, ElementOfSeq
  <1>2. /\ SubSeq(batches, 1, i - 1) \in Seq(GoodBatch)
        /\ Len(SubSeq(batches, 1, i - 1)) = i - 1
    <2>1. \A k \in 1 .. i - 1 : batches[k] \in GoodBatch
      BY <1>1
    <2>2. 1 \in Int /\ i - 1 \in Int
      BY <1>1
    <2>3. Len(SubSeq(batches, 1, i - 1)) = IF 1 <= i - 1 THEN i - 1 - 1 + 1 ELSE 0
      BY <2>1, <2>2, SubSeqProperties
    <2>4. QED
      BY <1>1, <2>1, <2>2, <2>3, SubSeqProperties
  <1>3. /\ SubSeq(batches, i + 1, Len(batches)) \in Seq(GoodBatch)
        /\ Len(SubSeq(batches, i + 1, Len(batches))) = Len(batches) - i
    <2>1. \A k \in i + 1 .. Len(batches) : batches[k] \in GoodBatch
      BY <1>1
    <2>2. i + 1 \in Int /\ Len(batches) \in Int
      BY <1>1
    <2>3. Len(SubSeq(batches, i + 1, Len(batches)))
             = IF i + 1 <= Len(batches) THEN Len(batches) - (i + 1) + 1 ELSE 0
      BY <2>1, <2>2, SubSeqProperties
    <2>4. QED
      BY <1>1, <2>1, <2>2, <2>3, SubSeqProperties
  <1> DEFINE before == SubSeq(batches, 1, i - 1)
             after == SubSeq(batches, i + 1, Len(batches))
  <1>4. RemoveAt(batches, i) = before \o after
    BY DEF RemoveAt
  <1> HIDE DEF before, after
  <1>5. before \o after \in Seq(GoodBatch) /\ Len(before \o after) = Len(before) + Len(after)
    BY <1>2, <1>3, ConcatProperties DEF before, after
  <1>6. Len(before) + Len(after) = Len(batches) - 1
    <2>1. Len(before) = i - 1
      BY <1>2 DEF before
    <2>2. Len(after) = Len(batches) - i
      BY <1>3 DEF after
    <2>3. QED
      BY <1>1, <2>1, <2>2
  <1>7. QED
    BY <1>4, <1>5, <1>6

\* A sequence of good batches is one of batches with work left.
LEMMA GoodBatches ==
    ASSUME NEW s \in Seq(GoodBatch)
    PROVE  s \in Seq(Batch) /\ \A i \in DOMAIN s : s[i].rest # {}
  <1>1. GoodBatch \subseteq Batch
    BY DEF GoodBatch
  <1>2. s \in Seq(Batch)
    BY <1>1, SeqMonotonic
  <1>3. \A i \in DOMAIN s : s[i] \in GoodBatch
    BY LenProperties, ElementOfSeq
  <1>4. QED
    BY <1>2, <1>3 DEF GoodBatch

-----------------------------------------------------------------------------
(* The invariant is preserved.                                             *)

\* What the invariant says of the timer and of what is pending.
LEMMA Shape ==
    ASSUME IInv
    PROVE  /\ timer \in Timers \cup {NoTimer} /\ pending \in Wakes
           /\ batches \in Seq(GoodBatch)
           /\ generation \in Nat /\ registrations \in Nat
           /\ asked \in [Target -> SUBSET Priority]
           /\ \A t \in Target : \A priority \in asked[t] :
                 priority \in Nat /\ pending[t] >= priority
  <1>1. Priority \subseteq Nat
    BY HeartbeatWakeAssumption
  <1>2. \A t \in Target : asked[t] \subseteq Priority
    BY DEF IInv, TypeOK
  <1>3. MaxRegistrations \in Nat
    BY HeartbeatWakeAssumption
  <1>4. QED
    BY <1>1, <1>2, <1>3 DEF IInv, TypeOK, Timers, OneBatch, AskedIsPending

\* A request.
LEMMA RequestStep ==
    ASSUME IInv, requestHeartbeatNow
    PROVE  IInv'
  <1>1. PICK t \in Target, priority \in Priority, coalesceMs \in Coalesce :
           /\ pending' = queuePendingWakeReason(pending, t, priority)
           /\ timer' = schedule(timer, coalesceMs, "normal")
           /\ asked' = [asked EXCEPT ![t] = @ \cup {priority}]
    BY DEF requestHeartbeatNow
  <1>2. /\ UNCHANGED <<handler, generation, runners, scheduled, running, batches,
                       registrations, troubles>>
        /\ requests < MaxRequests /\ requests' = requests + 1
    BY DEF requestHeartbeatNow
  <1>3. timer' \in Timers /\ timer' # NoTimer
    BY <1>1, Shape, Scheduled, HeartbeatWakeAssumption
  <1>4. /\ pending' \in Wakes /\ pending'[t] >= priority
        /\ \A u \in Target : pending'[u] >= pending[u]
    BY <1>1, Shape, QueuedHigher
  <1>5. \A u \in Target : pending[u] \in Int /\ pending'[u] \in Int
    BY <1>4, Shape, Priorities DEF Wakes
  <1>6. requests' \in 0 .. MaxRequests
    BY <1>2, HeartbeatWakeAssumption DEF IInv, TypeOK
  <1>7. TypeOK'
    BY <1>1, <1>2, <1>3, <1>4, <1>6 DEF IInv, TypeOK, Timers
  <1>8. AskedIsPending'
    <2>1. SUFFICES ASSUME NEW u \in Target, NEW p \in Priority, p \in asked'[u]
                   PROVE  pending'[u] >= p
      BY DEF AskedIsPending
    <2>2. p \in Int
      BY Priorities
    <2>3. CASE p \in asked[u]
      BY <1>4, <1>5, <2>2, <2>3, Shape
    <2>4. CASE p \notin asked[u]
      BY <1>1, <1>4, <2>1, <2>4, Shape
    <2>5. QED
      BY <2>3, <2>4
  <1>9. Generations' /\ OneBatch' /\ PendingIsArmed'
    BY <1>2, <1>3 DEF IInv, Generations, OneBatch, PendingIsArmed
  <1>10. QED
    BY <1>7, <1>8, <1>9 DEF IInv

\* A runner starts.
LEMMA RegisterStep ==
    ASSUME IInv, setHeartbeatWakeHandler
    PROVE  IInv'
  <1>1. /\ registrations < MaxRegistrations /\ registrations' = registrations + 1
        /\ generation' = generation + 1 /\ handler' = generation'
        /\ runners' = runners \cup {generation'}
        /\ running' = FALSE /\ scheduled' = FALSE
        /\ timer' = IF Queued(pending) = {} THEN NoTimer
                    ELSE schedule(NoTimer, DefaultCoalesce, "normal")
        /\ UNCHANGED <<pending, batches, requests, troubles, asked>>
    BY DEF setHeartbeatWakeHandler
  <1>2. /\ schedule(NoTimer, DefaultCoalesce, "normal") \in Timers
        /\ schedule(NoTimer, DefaultCoalesce, "normal") # NoTimer
    BY Scheduled, HeartbeatWakeAssumption
  <1>3. generation \in Nat /\ registrations \in Nat /\ MaxRegistrations \in Nat
    BY Shape, HeartbeatWakeAssumption
  <1>4. Generations'
    BY <1>1, <1>3 DEF IInv, Generations
  <1>5. OneBatch'
    BY <1>1, <1>3 DEF IInv, OneBatch
  <1>6. PendingIsArmed'
    BY <1>1, <1>2 DEF PendingIsArmed
  <1>7. AskedIsPending'
    BY <1>1 DEF IInv, AskedIsPending
  <1>8. TypeOK'
    <2>1. generation' \in 0 .. (2 * MaxRegistrations)
      BY <1>1, <1>3 DEF IInv, Generations
    <2>2. runners' \in SUBSET (1 .. generation')
      BY <1>1, <1>3 DEF IInv, TypeOK
    <2>3. timer' = NoTimer \/ timer' \in Timers
      BY <1>1, <1>2
    <2>4. registrations' <= 1 => Len(batches') <= 1
      <3>1. registrations' <= 1 => batches = <<>>
        BY <1>1, <1>3 DEF IInv, OneBatch
      <3>2. QED
        BY <1>1, <3>1, EmptySeq
    <2>5. registrations' \in 0 .. MaxRegistrations
      BY <1>1, <1>3
    <2>6. handler' \in {NoHandler, generation'}
      BY <1>1
    <2>7. QED
      BY <1>1, <2>1, <2>2, <2>3, <2>4, <2>5, <2>6 DEF IInv, TypeOK, Timers
  <1>9. QED
    BY <1>4, <1>5, <1>6, <1>7, <1>8 DEF IInv

\* A runner stops: the generation goes up only for the one in charge.
LEMMA DisposeStep ==
    ASSUME IInv, NEW g \in runners, dispose(g)
    PROVE  IInv'
  <1>1. /\ runners' = runners \ {g}
        /\ UNCHANGED <<pending, scheduled, running, timer, batches, bounds, asked>>
    BY DEF dispose
  <1>2. \/ handler' = NoHandler /\ generation' = generation + 1 /\ handler = g
        \/ UNCHANGED <<handler, generation>>
    BY DEF dispose
  <1>3. /\ generation \in Nat /\ registrations \in Nat /\ MaxRegistrations \in Nat
        /\ registrations <= MaxRegistrations /\ registrations' = registrations
    BY <1>1, Shape, HeartbeatWakeAssumption DEF IInv, TypeOK, bounds
  <1>4. g # NoHandler
    BY <1>3 DEF IInv, TypeOK, NoHandler
  <1>5. Generations'
    BY <1>2, <1>3, <1>4 DEF IInv, Generations
  <1>6. OneBatch' /\ PendingIsArmed' /\ AskedIsPending'
    BY <1>1, <1>2, <1>3 DEF IInv, OneBatch, PendingIsArmed, AskedIsPending
  <1>7. TypeOK'
    <2>1. generation' \in 0 .. (2 * MaxRegistrations) /\ handler' \in {NoHandler, generation'}
      BY <1>2, <1>3, <1>5 DEF IInv, TypeOK, Generations
    <2>2. runners' \in SUBSET (1 .. generation')
      <3>1. runners' \subseteq 1 .. generation
        BY <1>1 DEF IInv, TypeOK
      <3>2. 1 .. generation \subseteq 1 .. generation'
        BY <1>2, <1>3
      <3>3. QED
        BY <3>1, <3>2
    <2>3. QED
      BY <1>1, <2>1, <2>2 DEF IInv, TypeOK, bounds
  <1>8. QED
    BY <1>5, <1>6, <1>7 DEF IInv

\* A timer fires with nobody to call, or during a batch.
LEMMA FireStep ==
    ASSUME IInv, fireWithoutHandler \/ fireWhileRunning
    PROVE  IInv'
  <1>1. timer \in Timers
    BY Shape DEF fireWithoutHandler, fireWhileRunning, due
  <1>2. schedule(NoTimer, timer.delay, timer.kind) \in Timers
        /\ schedule(NoTimer, timer.delay, timer.kind) # NoTimer
    <2>1. timer.delay \in Nat /\ timer.kind \in {"normal", "retry"}
      BY <1>1 DEF Timers
    <2>2. QED
      BY <2>1, Scheduled
  <1>3. UNCHANGED <<handler, generation, runners, pending, running, batches, bounds, asked>>
    BY DEF fireWithoutHandler, fireWhileRunning
  <1>4. /\ timer' \in Timers \cup {NoTimer} /\ scheduled' \in BOOLEAN
        /\ handler # NoHandler => timer' # NoTimer
    BY <1>2 DEF fireWithoutHandler, fireWhileRunning
  <1>5. TypeOK'
    BY <1>3, <1>4 DEF IInv, TypeOK, Timers, bounds
  <1>6. Generations' /\ OneBatch' /\ PendingIsArmed' /\ AskedIsPending'
    BY <1>3, <1>4
       DEF IInv, Generations, OneBatch, PendingIsArmed, AskedIsPending, bounds
  <1>7. QED
    BY <1>5, <1>6 DEF IInv

\* A timer fires, and all that is pending goes to the handler.
LEMMA StartStep ==
    ASSUME IInv, startBatch
    PROVE  IInv'
  <1> DEFINE b == [by |-> handler, rest |-> Queued(pending), all |-> pending,
                   delay |-> timer.delay]
  <1>1. /\ due /\ handler # NoHandler /\ ~running
        /\ timer' = NoTimer /\ scheduled' = FALSE /\ pending' = NoWakes
        /\ running' = (Queued(pending) # {})
        /\ batches' = IF Queued(pending) = {} THEN batches ELSE Append(batches, b)
        /\ asked' = [t \in Target |-> {}]
        /\ UNCHANGED <<handler, generation, runners, bounds>>
    BY DEF startBatch
  <1>2. timer.delay \in Nat
    BY <1>1, Shape DEF due, Timers
  <1>3. Queued(pending) # {} => b \in GoodBatch
    <2>1. handler \in 1 .. (2 * MaxRegistrations)
      BY <1>1, HeartbeatWakeAssumption DEF IInv, TypeOK, NoHandler
    <2>2. Queued(pending) \in SUBSET Target
      BY DEF Queued
    <2>3. b \in Batch
      BY <1>2, <2>1, <2>2, Shape DEF Batch
    <2>4. QED
      BY <2>3 DEF GoodBatch
  <1> HIDE DEF b
  <1>4. registrations <= 1 => batches = <<>>
    BY <1>1 DEF IInv, OneBatch
  <1>5. batches' \in Seq(GoodBatch) /\ (registrations <= 1 => Len(batches') <= 1)
    <2>1. CASE Queued(pending) = {}
      BY <1>1, <1>4, <2>1, Shape, EmptySeq
    <2>2. CASE Queued(pending) # {}
      BY <1>1, <1>3, <1>4, <2>2, Shape, EmptySeq, AppendProperties
    <2>3. QED
      BY <2>1, <2>2
  <1>6. OneBatch'
    <2>1. registrations # 0
      BY <1>1 DEF IInv, OneBatch
    <2>2. registrations <= 1 /\ batches' # <<>> => running'
      BY <1>1, <1>4
    <2>3. QED
      BY <1>1, <1>5, <2>1, <2>2 DEF OneBatch, bounds
  <1>7. pending' \in Wakes /\ Queued(pending') = {}
    BY <1>1 DEF NoWakes, Wakes, Queued
  <1>8. Generations' /\ PendingIsArmed' /\ AskedIsPending'
    BY <1>1, <1>7 DEF IInv, Generations, PendingIsArmed, AskedIsPending, bounds
  <1>9. TypeOK'
    <2>1. batches' \in Seq(Batch) /\ \A i \in DOMAIN batches' : batches'[i].rest # {}
      BY <1>5, GoodBatches
    <2>2. running' \in BOOLEAN
      BY <1>1
    <2>3. QED
      BY <1>1, <1>5, <1>7, <2>1, <2>2 DEF IInv, TypeOK, bounds
  <1>10. QED
    BY <1>6, <1>8, <1>9 DEF IInv

\* Time passes.
LEMMA TickStep ==
    ASSUME IInv, tick
    PROVE  IInv'
  <1>1. timer \in Timers /\ timer.left # 0
    BY Shape DEF tick, due
  <1>2. timer' \in Timers /\ timer' # NoTimer
    BY <1>1 DEF tick, Timers, NoTimer
  <1>3. UNCHANGED <<handler, generation, runners, pending, scheduled, running, batches,
                    bounds, asked>>
    BY DEF tick
  <1>4. TypeOK'
    BY <1>2, <1>3 DEF IInv, TypeOK, Timers, bounds
  <1>5. Generations' /\ OneBatch' /\ PendingIsArmed' /\ AskedIsPending'
    BY <1>2, <1>3
       DEF IInv, Generations, OneBatch, PendingIsArmed, AskedIsPending, bounds
  <1>6. QED
    BY <1>4, <1>5 DEF IInv

\* The targets that the answer of batch b for t gives back.
GivenBack(b, t, outcome) ==
    CASE outcome = "ran" -> {} [] outcome = "busy" -> {t} [] outcome = "threw" -> Queued(b.all)

\* What is given back is pending again, as it was or higher, and nothing else
\* loses by it.
LEMMA RequeuedHigher ==
    ASSUME IInv, NEW b \in GoodBatch, NEW t \in b.rest,
           NEW outcome \in {"ran", "busy", "threw"}
    PROVE  LET new == requeued(b, t, outcome) IN
           /\ new \in Wakes /\ \A u \in Target : new[u] >= pending[u]
           /\ t \in Target
           /\ GivenBack(b, t, outcome) \subseteq Queued(b.all)
           /\ \A u \in GivenBack(b, t, outcome) :
                 b.all[u] \in Priority /\ new[u] >= b.all[u]
  <1>1. pending \in Wakes /\ b.all \in Wakes /\ t \in Queued(b.all)
    BY Shape DEF GoodBatch, Batch
  <1>2. \A u \in Target : b.all[u] \in Priority \cup {NoWake} /\ pending[u] \in Int
    BY <1>1, Priorities DEF Wakes
  <1>3. \A u \in Queued(b.all) : u \in Target /\ b.all[u] \in Priority
    BY <1>2 DEF Queued
  <1>4. ASSUME NEW u \in Target
        PROVE  LET one == queuePendingWakeReason(pending, u, b.all[u]) IN
               /\ one \in Wakes /\ one[u] >= b.all[u]
               /\ \A v \in Target : one[v] >= pending[v]
    BY <1>1, <1>2, QueuedHigher
  <1>5. CASE outcome = "ran"
    <2>1. requeued(b, t, outcome) = pending /\ GivenBack(b, t, outcome) = {}
      BY <1>5 DEF requeued, GivenBack
    <2>2. \A u \in Target : pending[u] >= pending[u]
      BY <1>2
    <2>3. QED
      BY <1>1, <1>3, <2>1, <2>2
  <1>6. CASE outcome = "busy"
    <2>1. /\ requeued(b, t, outcome) = queuePendingWakeReason(pending, t, b.all[t])
          /\ GivenBack(b, t, outcome) = {t}
      BY <1>6 DEF requeued, GivenBack
    <2>2. QED
      BY <1>1, <1>3, <1>4, <2>1
  <1>7. CASE outcome = "threw"
    <2> DEFINE new == [u \in Target |-> queuePendingWakeReason(pending, u, b.all[u])[u]]
    <2>1. requeued(b, t, outcome) = new /\ GivenBack(b, t, outcome) = Queued(b.all)
      BY <1>7 DEF requeued, GivenBack
    <2>2. \A u \in Target : new[u] = queuePendingWakeReason(pending, u, b.all[u])[u]
      OBVIOUS
    <2>3. \A u \in Target : new[u] >= b.all[u] /\ new[u] >= pending[u]
      BY <1>4, <2>2
    <2>4. new \in Wakes
      BY <1>4 DEF Wakes
    <2> HIDE DEF new
    <2>5. QED
      BY <1>1, <1>3, <2>1, <2>3, <2>4
  <1>8. QED
    BY <1>5, <1>6, <1>7

\* A handler answers.
LEMMA AnswerStep ==
    ASSUME IInv, NEW i \in DOMAIN batches, NEW t \in batches[i].rest,
           NEW outcome \in {"ran", "busy", "threw"}, handlerAnswers(i, t, outcome)
    PROVE  /\ IInv'
           /\ timer.kind = "retry" => timer' = timer
  <1> DEFINE b == batches[i]
             rest == IF outcome = "threw" THEN {} ELSE b.rest \ {t}
             armed == IF outcome # "ran" THEN schedule(timer, RetryDelay, "retry") ELSE timer
             again == GivenBack(b, t, outcome)
  <1>1. /\ (outcome # "ran") => troubles < MaxTroubles
        /\ troubles' = IF outcome # "ran" THEN troubles + 1 ELSE troubles
        /\ pending' = requeued(b, t, outcome)
        /\ IF rest = {}
           THEN batches' = RemoveAt(batches, i) /\ finally(b, armed)
           ELSE /\ batches' = [batches EXCEPT ![i].rest = rest]
                /\ timer' = armed /\ UNCHANGED running
        /\ asked' = [u \in Target |-> asked[u] \cup IF u \in again THEN {b.all[u]} ELSE {}]
        /\ UNCHANGED <<handler, generation, runners, scheduled, requests, registrations>>
    BY DEF handlerAnswers, GivenBack
  <1>2. /\ i \in 1 .. Len(batches) /\ Len(batches) \in Nat
        /\ batches \in Seq(GoodBatch) /\ b \in GoodBatch
    BY Shape, LenProperties, ElementOfSeq
  <1> HIDE DEF b
  <1>3. /\ pending' \in Wakes /\ \A u \in Target : pending'[u] >= pending[u]
        /\ again \subseteq Target
        /\ \A u \in again : b.all[u] \in Priority /\ pending'[u] >= b.all[u]
    <2>1. t \in b.rest
      BY DEF b
    <2>2. QED
      BY <1>1, <1>2, <2>1, RequeuedHigher DEF Queued
  <1>4. /\ armed \in Timers \cup {NoTimer} /\ (timer # NoTimer => armed # NoTimer)
        /\ again # {} => armed # NoTimer
        /\ timer.kind = "retry" => armed = timer
    <2>1. timer \in Timers \cup {NoTimer} /\ RetryDelay \in Nat
      BY Shape, HeartbeatWakeAssumption
    <2>2. /\ schedule(timer, RetryDelay, "retry") \in Timers
          /\ schedule(timer, RetryDelay, "retry") # NoTimer
          /\ timer.kind = "retry" => schedule(timer, RetryDelay, "retry") = timer
      BY <2>1, Scheduled
    <2>3. QED
      BY <2>1, <2>2 DEF GivenBack
  <1>5. b.delay \in Nat /\ b.all \in Wakes /\ rest \subseteq Queued(b.all)
    BY <1>2 DEF GoodBatch, Batch
  <1> HIDE DEF armed, again, rest
  <1>6. /\ timer' \in Timers \cup {NoTimer} /\ (armed # NoTimer => timer' # NoTimer)
        /\ rest = {} /\ Queued(pending') # {} => timer' # NoTimer
        /\ rest # {} => timer' = armed
        /\ timer.kind = "retry" => timer' = timer
    <2>1. CASE rest = {}
      <3>1. timer' = IF Queued(pending') # {} \/ scheduled
                     THEN schedule(armed, b.delay, "normal") ELSE armed
        BY <1>1, <2>1 DEF finally
      <3>2. /\ schedule(armed, b.delay, "normal") \in Timers
            /\ schedule(armed, b.delay, "normal") # NoTimer
            /\ armed.kind = "retry" => schedule(armed, b.delay, "normal") = armed
        BY <1>4, <1>5, Scheduled
      <3>3. QED
        BY <1>4, <2>1, <3>1, <3>2
    <2>2. CASE rest # {}
      BY <1>1, <1>4, <2>2
    <2>3. QED
      BY <2>1, <2>2
  <1>7. /\ batches' \in Seq(GoodBatch)
        /\ Len(batches') = IF rest = {} THEN Len(batches) - 1 ELSE Len(batches)
        /\ running' = IF rest = {} THEN FALSE ELSE running
    <2>1. CASE rest = {}
      BY <1>1, <1>2, <2>1, Removed DEF finally
    <2>2. CASE rest # {}
      <3> DEFINE new == [b EXCEPT !.rest = rest]
      <3>1. new \in GoodBatch
        BY <1>2, <1>5, <2>2 DEF GoodBatch, Batch, Queued
      <3>2. batches' = [batches EXCEPT ![i] = new] /\ running' = running
        BY <1>1, <2>2 DEF b
      <3> HIDE DEF new
      <3>3. /\ [batches EXCEPT ![i] = new] \in Seq(GoodBatch)
            /\ Len([batches EXCEPT ![i] = new]) = Len(batches)
        BY <1>2, <3>1, ExceptSeq
      <3>4. QED
        BY <2>2, <3>2, <3>3
    <2>3. QED
      BY <2>1, <2>2
  <1>8. AskedIsPending'
    <2>1. SUFFICES ASSUME NEW u \in Target, NEW p \in Priority, p \in asked'[u]
                   PROVE  pending'[u] >= p
      BY DEF AskedIsPending
    <2>2. pending[u] \in Int /\ pending'[u] \in Int /\ p \in Int
      BY <1>3, Shape, Priorities DEF Wakes
    <2>3. CASE p \in asked[u]
      BY <1>3, <2>2, <2>3, Shape
    <2>4. CASE p \notin asked[u]
      BY <1>1, <1>3, <2>1, <2>4
    <2>5. QED
      BY <2>3, <2>4
  <1>9. PendingIsArmed'
    <2>1. SUFFICES ASSUME handler' # NoHandler, Queued(pending') # {}, rest # {}
                   PROVE  timer' # NoTimer
      BY <1>6 DEF PendingIsArmed
    <2>2. CASE again # {}
      BY <1>4, <1>6, <2>2
    <2>3. CASE again = {}
      <3>1. outcome = "ran"
        <4>1. outcome # "busy"
          BY <2>3 DEF again, GivenBack
        <4>2. outcome # "threw"
          BY <2>1 DEF rest
        <4>3. QED
          BY <4>1, <4>2
      <3>2. pending' = pending
        BY <1>1, <3>1 DEF requeued
      <3>3. timer # NoTimer
        BY <1>1, <2>1, <3>2 DEF IInv, PendingIsArmed
      <3>4. QED
        BY <1>4, <1>6, <3>3
    <2>4. QED
      BY <2>2, <2>3
  <1>10. Generations' /\ OneBatch'
    <2>1. batches # <<>> /\ registrations \in Nat
      BY <1>2, Shape, EmptySeq
    <2>2. registrations <= 1 => running /\ Len(batches) <= 1
      BY <2>1 DEF IInv, OneBatch, TypeOK
    <2>3. registrations <= 1 /\ batches' # <<>> => running'
      BY <1>2, <1>7, <2>2, EmptySeq
    <2>4. registrations # 0
      BY <2>1 DEF IInv, OneBatch
    <2>5. QED
      BY <1>1, <1>7, <2>3, <2>4 DEF IInv, Generations, OneBatch
  <1>11. TypeOK'
    <2>1. batches' \in Seq(Batch) /\ \A k \in DOMAIN batches' : batches'[k].rest # {}
      BY <1>7, GoodBatches
    <2>2. registrations' <= 1 => Len(batches') <= 1
      BY <1>1, <1>2, <1>7 DEF IInv, TypeOK
    <2>3. troubles' \in 0 .. MaxTroubles
      BY <1>1, HeartbeatWakeAssumption DEF IInv, TypeOK
    <2>4. asked' \in [Target -> SUBSET Priority]
      BY <1>1, <1>3, Shape
    <2>5. running' \in BOOLEAN
      BY <1>7 DEF IInv, TypeOK
    <2>6. QED
      BY <1>1, <1>3, <1>6, <2>1, <2>2, <2>3, <2>4, <2>5 DEF IInv, TypeOK, Timers
  <1>12. QED
    BY <1>6, <1>8, <1>9, <1>10, <1>11 DEF IInv

\* Every step of the specification.
LEMMA NextStep ==
    ASSUME IInv, [Next]_vars
    PROVE  IInv'
  <1>1. CASE UNCHANGED vars
    BY <1>1 DEF IInv, TypeOK, Generations, OneBatch, PendingIsArmed, AskedIsPending,
                vars, bounds
  <1>2. ASSUME NEW g \in runners, dispose(g)
        PROVE  IInv'
    BY <1>2, DisposeStep
  <1>3. CASE answer
    BY <1>3, AnswerStep DEF answer
  <1>4. QED
    BY <1>1, <1>2, <1>3, RequestStep, RegisterStep, FireStep, StartStep, TickStep DEF Next

\* What a step does to a retry timer that has time left.
LEMMA CooldownStep ==
    ASSUME IInv, [Next]_vars, timer.kind = "retry", timer.left > 0,
           registrations' = registrations
    PROVE  timer' \in {timer, [timer EXCEPT !.left = @ - 1]}
  <1>1. timer # NoTimer /\ timer \in Timers /\ ~due
    BY Shape DEF NoTimer, due, Timers
  <1>2. CASE UNCHANGED vars
    BY <1>2 DEF vars
  <1>3. CASE requestHeartbeatNow
    <2>1. PICK coalesceMs \in Coalesce : timer' = schedule(timer, coalesceMs, "normal")
      BY <1>3 DEF requestHeartbeatNow
    <2>2. QED
      BY <1>1, <2>1 DEF schedule
  <1>4. CASE setHeartbeatWakeHandler
    BY <1>4, Shape DEF setHeartbeatWakeHandler
  <1>5. ASSUME NEW g \in runners, dispose(g)
        PROVE  timer' = timer
    BY <1>5 DEF dispose
  <1>6. CASE fireWithoutHandler \/ fireWhileRunning \/ startBatch
    BY <1>1, <1>6 DEF fireWithoutHandler, fireWhileRunning, startBatch
  <1>7. CASE answer
    BY <1>7, AnswerStep DEF answer
  <1>8. CASE tick
    BY <1>8 DEF tick
  <1>9. QED
    BY <1>2, <1>3, <1>4, <1>5, <1>6, <1>7, <1>8 DEF Next

-----------------------------------------------------------------------------
(* The theorems.                                                           *)

\* In every reachable state pendingWakes, the timer and the batches under way
\* of heartbeat-wake.ts agree, whatever runners came and went.
THEOREM Invariance == Spec => []IInv
  <1>1. Init => IInv
    <2> SUFFICES ASSUME Init PROVE IInv
      OBVIOUS
    <2>1. batches \in Seq(GoodBatch) /\ batches \in Seq(Batch) /\ Len(batches) = 0
      BY EmptySeq DEF Init
    <2>2. pending \in Wakes
      BY DEF Init, NoWakes, Wakes
    <2>3. TypeOK
      <3>1. {MaxRequests, MaxRegistrations, MaxTroubles} \subseteq Nat
        BY HeartbeatWakeAssumption
      <3>2. /\ generation \in 0 .. (2 * MaxRegistrations) /\ handler \in {NoHandler, generation}
            /\ requests \in 0 .. MaxRequests /\ registrations \in 0 .. MaxRegistrations
            /\ troubles \in 0 .. MaxTroubles
        BY <3>1 DEF Init
      <3>3. /\ runners \in SUBSET (1 .. generation) /\ scheduled \in BOOLEAN
            /\ running \in BOOLEAN /\ timer = NoTimer
        BY DEF Init
      <3>4. asked \in [Target -> SUBSET Priority]
        BY DEF Init
      <3>5. \A i \in DOMAIN batches : batches[i].rest # {}
        BY <2>1, GoodBatches
      <3>6. QED
        BY <2>1, <2>2, <3>2, <3>3, <3>4, <3>5 DEF TypeOK
    <2>4. QED
      BY <2>1, <2>3
         DEF Init, IInv, Generations, OneBatch, PendingIsArmed, AskedIsPending
  <1>2. IInv /\ [Next]_vars => IInv'
    BY NextStep
  <1>3. QED
    BY <1>1, <1>2, PTL DEF Spec

\* The wake layer (heartbeat-wake.ts) is well typed, and with one registration
\* the running flag keeps batches apart.
THEOREM TypeCorrect == Spec => []TypeOK
  <1>1. IInv => TypeOK
    BY DEF IInv
  <1>2. QED
    BY <1>1, Invariance, PTL

\* While a handler is registered, what is in pendingWakes has a timer that will
\* hand it over.
THEOREM NoLostWakeup == Spec => []PendingIsArmed
  <1>1. IInv => PendingIsArmed
    BY DEF IInv
  <1>2. QED
    BY <1>1, Invariance, PTL

\* What was asked of a target, or given back by its handler, stays in
\* pendingWakes at no lower a priority until a handler takes it.
THEOREM NothingForgotten == Spec => []AskedIsPending
  <1>1. IInv => AskedIsPending
    BY DEF IInv
  <1>2. QED
    BY <1>1, Invariance, PTL

\* Neither requests nor the end of a batch cut a retry cooldown short
\* (schedule, heartbeat-wake.ts).
THEOREM CooldownHolds == Spec => CooldownNotPreempted
  <1>1. IInv /\ [Next]_vars
           => [timer.kind = "retry" /\ timer.left > 0 /\ registrations' = registrations
                  => timer' \in {timer, [timer EXCEPT !.left = @ - 1]}]_vars
    BY CooldownStep
  <1>2. QED
    BY <1>1, Invariance, PTL DEF Spec, CooldownNotPreempted

=============================================================================
