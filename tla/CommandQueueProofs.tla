------------------------- MODULE CommandQueueProofs -------------------------
(* Proofs, for every set of tasks, lanes and waiters, of the invariants and *)
(* of the action property of CommandQueue.                                  *)
(*                                                                          *)
(* The argument.  Each operation edits the lanes (push, complete, reset)    *)
(* and then pumps some of them.  Sound(ls, alive, gen) is what the edit must*)
(* leave for the pump to preserve; the lemmas on drainLane lift one lane's  *)
(* facts to all lanes, so that each action only has to be shown to edit     *)
(* soundly.                                                                 *)
EXTENDS CommandQueue, SequenceTheorems, FiniteSetTheorems, TLAPS

-----------------------------------------------------------------------------
(* One lane.                                                               *)

\* A lane whose bookkeeping arithmetic makes sense: finitely many active.
GoodLane(lane) == lane \in LaneState /\ IsFiniteSet(lane.active)

\* The pump's loop shifts between none and all of the queue.
LEMMA StartsBound ==
    ASSUME NEW lane, GoodLane(lane)
    PROVE  /\ Starts(lane) \in 0..Len(lane.queue)
           /\ Cardinality(lane.active) \in Nat
           /\ lane.maxConcurrent \in Nat \ {0}
           /\ Len(lane.queue) \in Nat
  <1>1. Cardinality(lane.active) \in Nat
    BY FS_CardinalityType DEF GoodLane
  <1>2. lane.maxConcurrent \in Nat \ {0} /\ Len(lane.queue) \in Nat
    BY LenProperties DEF GoodLane, LaneState
  <1>3. QED
    BY <1>1, <1>2 DEF Starts

\* What draining a lane does to its queue: the head part is started, the rest
\* is left, and together they are the queue.
LEMMA DrainQueue ==
    ASSUME NEW lane, GoodLane(lane)
    PROVE  LET rest == drainLane(lane).queue
               k    == Starts(lane)
           IN  /\ rest = SubSeq(lane.queue, k + 1, Len(lane.queue))
               /\ rest \in Seq(Task)
               /\ Len(rest) = Len(lane.queue) - k
               /\ DOMAIN rest = 1..Len(rest)
               /\ \A i \in 1..Len(rest) : rest[i] = lane.queue[k + i]
               /\ Started(lane) \subseteq Task
               /\ Range(lane.queue) = Started(lane) \cup Range(rest)
  <1> DEFINE q    == lane.queue
             k    == Starts(lane)
             rest == SubSeq(q, k + 1, Len(q))
  <1>1. /\ q \in Seq(Task) /\ Len(q) \in Nat /\ k \in 0..Len(q)
        /\ \A i \in 1..Len(q) : q[i] \in Task
        /\ DOMAIN q = 1..Len(q)
    BY StartsBound, LenProperties, ElementOfSeq DEF GoodLane, LaneState
  <1>2. drainLane(lane).queue = rest
    BY DEF drainLane, GoodLane, LaneState
  <1>3. /\ rest \in Seq(Task)
        /\ Len(rest) = IF k + 1 <= Len(q) THEN Len(q) - (k + 1) + 1 ELSE 0
        /\ \A i \in 1..(Len(q) - (k + 1) + 1) : rest[i] = q[(k + 1) + i - 1]
    <2>1. \A i \in (k + 1)..Len(q) : q[i] \in Task
      BY <1>1
    <2>2. k + 1 \in Int /\ Len(q) \in Int
      BY <1>1
    <2> HIDE DEF q, k
    <2>3. QED
      BY <2>1, <2>2, SubSeqProperties
  <1> HIDE DEF rest
  <1>4. Len(rest) = Len(q) - k
    BY <1>1, <1>3
  <1>5. DOMAIN rest = 1..Len(rest)
    BY <1>3, LenProperties
  <1>6. \A i \in 1..Len(rest) : rest[i] = q[k + i]
    <2> HIDE DEF q, k
    <2> TAKE i \in 1..Len(rest)
    <2>1. i \in 1..(Len(q) - (k + 1) + 1)
      BY <1>1, <1>4
    <2>2. rest[i] = q[(k + 1) + i - 1]
      BY <1>3, <2>1
    <2>3. (k + 1) + i - 1 = k + i
      BY <1>1, <2>1
    <2>4. QED
      BY <2>2, <2>3
  <1>7. Started(lane) \subseteq Task
    BY <1>1 DEF Started
  <1>8. Range(q) = Started(lane) \cup Range(rest)
    <2>1. ASSUME NEW x \in Range(q) PROVE x \in Started(lane) \cup Range(rest)
      <3>1. PICK i \in 1..Len(q) : x = q[i]
        BY <1>1, <2>1 DEF Range
      <3>2. CASE i <= k
        BY <1>1, <3>1, <3>2 DEF Started
      <3>3. CASE i > k
        <4> HIDE DEF q, k
        <4>1. i - k \in 1..Len(rest)
          BY <1>1, <1>4, <3>3
        <4>2. rest[i - k] = q[i]
          <5>1. rest[i - k] = q[k + (i - k)]
            BY <1>6, <4>1
          <5>2. k + (i - k) = i
            BY <1>1
          <5>3. QED
            BY <5>1, <5>2
        <4>3. QED
          BY <1>5, <3>1, <4>1, <4>2 DEF Range
      <3>4. QED
        BY <1>1, <3>2, <3>3
    <2>2. ASSUME NEW x \in Started(lane) PROVE x \in Range(q)
      BY <1>1 DEF Started, Range
    <2>3. ASSUME NEW x \in Range(rest) PROVE x \in Range(q)
      <3>1. PICK i \in 1..Len(rest) : x = rest[i]
        BY <1>5, <2>3 DEF Range
      <3>2. k + i \in 1..Len(q) /\ x = q[k + i]
        BY <1>1, <1>4, <1>6, <3>1
      <3>3. QED
        BY <1>1, <3>2 DEF Range
    <2>4. QED
      BY <2>1, <2>2, <2>3
  <1>9. QED
    BY <1>2, <1>3, <1>4, <1>5, <1>6, <1>7, <1>8 DEF rest

\* The entries started are finitely many and as many as Starts says, when no
\* entry is queued twice.
Distinct(q) == \A i, j \in DOMAIN q : q[i] = q[j] => i = j

LEMMA StartedCardinality ==
    ASSUME NEW lane, GoodLane(lane)
    PROVE  /\ IsFiniteSet(Started(lane))
           /\ Distinct(lane.queue) => Cardinality(Started(lane)) = Starts(lane)
  <1> DEFINE k == Starts(lane)
             f == [i \in 1..k |-> lane.queue[i]]
  <1>1. k \in Nat /\ k <= Len(lane.queue) /\ Len(lane.queue) \in Nat
    BY StartsBound
  <1>2. IsFiniteSet(1..k) /\ Cardinality(1..k) = k
    BY <1>1, FS_Interval
  <1>3. f \in Surjection(1..k, Started(lane))
    BY DEF Surjection, Started
  <1>4. IsFiniteSet(Started(lane))
    BY <1>2, <1>3, FS_Surjection
  <1>5. ASSUME Distinct(lane.queue) PROVE Cardinality(Started(lane)) = k
    <2>1. DOMAIN lane.queue = 1..Len(lane.queue)
      BY LenProperties DEF GoodLane, LaneState
    <2>2. \A i, j \in 1..k : f[i] = f[j] => i = j
      BY <1>1, <1>5, <2>1 DEF Distinct
    <2>3. f \in Injection(1..k, Started(lane))
      BY <1>3, <2>2 DEF Injection, Surjection, IsInjective
    <2>4. QED
      BY <1>2, <1>3, <2>3, FS_Surjection
  <1>6. QED
    BY <1>4, <1>5

\* The fields of a drained lane; it is a good lane again.
LEMMA DrainActive ==
    ASSUME NEW lane, GoodLane(lane)
    PROVE  LET d == drainLane(lane)
           IN  /\ GoodLane(d)
               /\ d.active = lane.active \cup Started(lane)
               /\ d.generation = lane.generation
               /\ d.maxConcurrent = lane.maxConcurrent
  <1>1. /\ drainLane(lane).active = lane.active \cup Started(lane)
        /\ drainLane(lane).generation = lane.generation
        /\ drainLane(lane).maxConcurrent = lane.maxConcurrent
    BY DEF drainLane, GoodLane, LaneState
  <1>2. drainLane(lane) \in LaneState
    BY DrainQueue DEF drainLane, GoodLane, LaneState
  <1>3. IsFiniteSet(drainLane(lane).active)
    BY <1>1, StartedCardinality, FS_Union DEF GoodLane
  <1>4. QED
    BY <1>1, <1>2, <1>3 DEF GoodLane

\* The two guarantees of the pump's loop condition: it leaves no work beside a
\* free slot, and it starts nothing above the cap.
LEMMA DrainCount ==
    ASSUME NEW lane, GoodLane(lane),
           Distinct(lane.queue), lane.active \cap Range(lane.queue) = {}
    PROVE  LET d == drainLane(lane)
           IN  /\ d.queue # <<>> => Cardinality(d.active) >= d.maxConcurrent
               /\ Started(lane) # {} => Cardinality(d.active) <= d.maxConcurrent
  <1> DEFINE d == drainLane(lane)
             k == Starts(lane)
             c == Cardinality(lane.active)
             m == lane.maxConcurrent
             n == Len(lane.queue)
  <1>1. k \in 0..n /\ c \in Nat /\ m \in Nat /\ n \in Nat
    BY StartsBound
  <1>2. k = IF m - c <= 0 THEN 0 ELSE IF m - c < n THEN m - c ELSE n
    BY DEF Starts
  <1>3. lane.active \cap Started(lane) = {}
    BY DrainQueue
  <1>4. Cardinality(d.active) = c + k
    <2>1. IsFiniteSet(Started(lane)) /\ Cardinality(Started(lane)) = k
      BY StartedCardinality
    <2>2. Cardinality(d.active) = c + k - Cardinality({})
      BY <1>3, <2>1, DrainActive, FS_Union DEF GoodLane
    <2>3. Cardinality({}) = 0
      BY FS_EmptySet
    <2>4. QED
      BY <1>1, <2>2, <2>3
  <1>5. d.queue # <<>> => k < n
    <2>1. d.queue \in Seq(Task) /\ Len(d.queue) = n - k
      BY DrainQueue
    <2>2. QED
      BY <1>1, <2>1, EmptySeq
  <1>6. Started(lane) # {} => k > 0
    BY <1>1 DEF Started
  <1>7. d.maxConcurrent = m
    BY DrainActive
  <1> HIDE DEF d, k, c, m, n
  <1>8. d.queue # <<>> => Cardinality(d.active) >= m
    BY <1>1, <1>2, <1>4, <1>5
  <1>9. Started(lane) # {} => Cardinality(d.active) <= m
    BY <1>1, <1>2, <1>4, <1>6
  <1>10. QED
    BY <1>7, <1>8, <1>9 DEF d
-----------------------------------------------------------------------------
(* All lanes, and what runs.                                               *)

\* The lanes ls, the tasks alive and their generations gen agree.
Sound(ls, alive, gen) ==
    /\ ls \in [Lane -> LaneState]
    /\ alive \subseteq Task
    /\ gen \in [Task -> Nat]
    /\ \A l \in Lane :
          /\ GoodLane(ls[l])
          /\ Distinct(ls[l].queue)
          /\ \A t \in Range(ls[l].queue) : LaneOf[t] = l /\ t \notin alive
          /\ ls[l].active = {t \in alive : LaneOf[t] = l /\ gen[t] = ls[l].generation}
    /\ \A t \in alive : gen[t] <= ls[LaneOf[t]].generation

\* What the callers wait for: the tasks that run and those still queued.
Held(ls, alive) == alive \cup UNION {Range(ls[l].queue) : l \in Lane}

\* No lane of ls has queued work beside a free slot.
Busy(lane) == lane.queue # <<>> => Cardinality(lane.active) >= lane.maxConcurrent

\* One lane before and after a pump of the lanes L.
LEMMA PumpLane ==
    ASSUME NEW ls, NEW alive, NEW L \in SUBSET Lane,
           Sound(ls, alive, startGen), pump(ls, L, alive),
           NEW l \in Lane
    PROVE  /\ lanes'[l] = IF l \in L THEN drainLane(ls[l]) ELSE ls[l]
           /\ lanes' \in [Lane -> LaneState]
           /\ GoodLane(lanes'[l])
           /\ Distinct(lanes'[l].queue)
           /\ lanes'[l].generation = ls[l].generation
           /\ Range(lanes'[l].queue) \subseteq Range(ls[l].queue)
           /\ ls[l].active \subseteq lanes'[l].active
           /\ l \in L => Range(lanes'[l].queue) \cap Started(ls[l]) = {}
           /\ l \in L => Started(ls[l]) \subseteq Range(ls[l].queue)
           /\ l \in L => Busy(lanes'[l])
  <1>1. \A m \in Lane : GoodLane(ls[m]) /\ GoodLane(drainLane(ls[m]))
    BY DrainActive DEF Sound
  <1>2. /\ lanes'[l] = IF l \in L THEN drainLane(ls[l]) ELSE ls[l]
        /\ lanes' \in [Lane -> LaneState]
    BY <1>1 DEF pump, GoodLane
  <1>3. Distinct(ls[l].queue) /\ ls[l].active \cap Range(ls[l].queue) = {}
    BY DEF Sound
  <1>4. CASE l \notin L
    BY <1>1, <1>2, <1>3, <1>4
  <1>5. CASE l \in L
    <2> DEFINE d == drainLane(ls[l])
               q == ls[l].queue
               k == Starts(ls[l])
    <2>1. /\ Range(q) = Started(ls[l]) \cup Range(d.queue)
          /\ Len(d.queue) = Len(q) - k
          /\ DOMAIN d.queue = 1..Len(d.queue)
          /\ \A i \in 1..Len(d.queue) : d.queue[i] = q[k + i]
      BY <1>1, DrainQueue
    <2>2. k \in 0..Len(q) /\ Len(q) \in Nat /\ DOMAIN q = 1..Len(q)
      BY <1>1, StartsBound, LenProperties DEF GoodLane, LaneState
    <2> HIDE DEF d, k, q
    <2>3. ASSUME NEW i \in DOMAIN d.queue
          PROVE  /\ i \in Nat /\ k \in Nat /\ k + i > k
                 /\ k + i \in DOMAIN q
                 /\ d.queue[i] = q[k + i]
      <3> DEFINE n == Len(q)
                 m == Len(d.queue)
      <3>1. i \in 1..m /\ m = n - k /\ k \in 0..n /\ n \in Nat
        BY <2>1, <2>2, <2>3
      <3> HIDE DEF n, m
      <3>2. i \in Nat /\ k \in Nat /\ k + i > k /\ k + i \in 1..n
        BY <3>1
      <3>3. QED
        BY <2>1, <2>2, <2>3, <3>2 DEF n
    <2>4. Distinct(d.queue)
      <3> SUFFICES ASSUME NEW i \in DOMAIN d.queue, NEW j \in DOMAIN d.queue,
                          d.queue[i] = d.queue[j]
                   PROVE  i = j
        BY DEF Distinct
      <3>1. q[k + i] = q[k + j] /\ k + i \in DOMAIN q /\ k + j \in DOMAIN q
        BY <2>3
      <3>2. k + i = k + j
        BY <1>3, <3>1 DEF Distinct, q
      <3>3. i \in Nat /\ j \in Nat /\ k \in Nat
        BY <2>3
      <3>4. QED
        BY <3>2, <3>3
    <2>5. Range(d.queue) \cap Started(ls[l]) = {}
      <3> SUFFICES ASSUME NEW i \in DOMAIN d.queue, NEW j \in 1..k,
                          d.queue[i] = q[j]
                   PROVE  FALSE
        BY DEF Range, Started, q, k
      <3>1. j \in DOMAIN q
        BY <2>2
      <3>2. q[k + i] = q[j] /\ k + i \in DOMAIN q /\ k + i > k /\ k \in Nat
        BY <2>3
      <3>3. k + i = j
        BY <1>3, <3>1, <3>2 DEF Distinct, q
      <3>4. QED
        BY <3>2, <3>3
    <2>6. /\ d.active = ls[l].active \cup Started(ls[l])
          /\ d.generation = ls[l].generation
      BY <1>1, DrainActive DEF d
    <2>7. Busy(d)
      BY <1>1, <1>3, DrainCount DEF Busy, d
    <2>8. lanes'[l] = d
      BY <1>2, <1>5 DEF d
    <2>9. GoodLane(d)
      BY <1>1 DEF d
    <2>10. QED
      BY <1>2, <2>1, <2>4, <2>5, <2>6, <2>7, <2>8, <2>9 DEF q
  <1>6. QED
    BY <1>4, <1>5

\* A pump preserves soundness, and moves work from the queues to the running
\* tasks without losing or inventing any.
LEMMA PumpSound ==
    ASSUME NEW ls, NEW alive, NEW L \in SUBSET Lane,
           Sound(ls, alive, startGen), pump(ls, L, alive)
    PROVE  /\ Sound(lanes', executing', startGen')
           /\ Held(lanes', executing') = Held(ls, alive)
           /\ \A t \in Task : t \in alive \/ t \notin Held(ls, alive) =>
                  startGen'[t] = startGen[t]
           /\ Active(ls) \subseteq Active(lanes')
           /\ executing' \subseteq Held(ls, alive)
           /\ alive \subseteq executing'
  <1> DEFINE new == UNION {Started(ls[l]) : l \in L}
  <1>1. \A t \in new : /\ LaneOf[t] \in L
                       /\ t \in Started(ls[LaneOf[t]])
                       /\ t \in Range(ls[LaneOf[t]].queue)
                       /\ t \notin alive
                       /\ t \in Task
    <2> SUFFICES ASSUME NEW l \in L, NEW t \in Started(ls[l])
                 PROVE  /\ LaneOf[t] = l /\ t \notin alive /\ t \in Task
                        /\ t \in Range(ls[l].queue)
      OBVIOUS
    <2>1. t \in Range(ls[l].queue)
      BY PumpLane
    <2>2. GoodLane(ls[l])
      BY DEF Sound
    <2>3. Started(ls[l]) \subseteq Task
      BY <2>2, DrainQueue
    <2>4. QED
      BY <2>1, <2>3 DEF Sound
  <1>2. /\ executing' = alive \cup new
        /\ startGen' = [t \in Task |-> IF t \in new THEN ls[LaneOf[t]].generation
                                                     ELSE startGen[t]]
    BY DEF pump
  <1>3. \A l \in Lane : ls[l].generation \in Nat
    BY DEF Sound, LaneState
  <1>4. \A t \in Task : LaneOf[t] \in Lane
    BY CommandQueueAssumption
  <1>5. \A t \in alive : t \in Task /\ t \notin new /\ startGen'[t] = startGen[t]
    BY <1>1, <1>2 DEF Sound
  <1>6. \A t \in new : startGen'[t] = ls[LaneOf[t]].generation
    BY <1>1, <1>2
  <1>7. \A l \in L : Started(ls[l]) \subseteq new
    OBVIOUS
  <1> HIDE DEF new
  <1>8. \A l \in Lane : lanes'[l].active =
            {t \in executing' : LaneOf[t] = l /\ startGen'[t] = lanes'[l].generation}
    <2> TAKE l \in Lane
    <2>1. /\ ls[l].active = {t \in alive : LaneOf[t] = l /\ startGen[t] = ls[l].generation}
          /\ lanes'[l].generation = ls[l].generation
      BY PumpLane DEF Sound
    <2>2. CASE l \in L
      <3>1. lanes'[l].active = ls[l].active \cup Started(ls[l])
        <4>1. GoodLane(ls[l])
          BY DEF Sound
        <4>2. QED
          BY <2>2, <4>1, PumpLane, DrainActive
      <3>2. \A t \in Started(ls[l]) : t \in new /\ LaneOf[t] = l
        <4>1. \A t \in Started(ls[l]) : t \in Range(ls[l].queue)
          BY <2>2, PumpLane
        <4>2. QED
          BY <1>7, <2>2, <4>1 DEF Sound
      <3>3. QED
        BY <1>1, <1>2, <1>5, <1>6, <2>1, <3>1, <3>2
    <2>3. CASE l \notin L
      <3>1. lanes'[l].active = ls[l].active
        BY <2>3, PumpLane
      <3>2. \A t \in new : LaneOf[t] # l
        BY <1>1, <2>3
      <3>3. QED
        BY <1>2, <1>5, <2>1, <3>1, <3>2
    <2>4. QED
      BY <2>2, <2>3
  <1>9. \A l \in Lane : \A t \in Range(lanes'[l].queue) :
            LaneOf[t] = l /\ t \notin executing'
    <2> SUFFICES ASSUME NEW l \in Lane, NEW t \in Range(lanes'[l].queue)
                 PROVE  LaneOf[t] = l /\ t \notin executing'
      OBVIOUS
    <2>1. t \in Range(ls[l].queue)
      BY PumpLane
    <2>2. LaneOf[t] = l /\ t \notin alive
      BY <2>1 DEF Sound
    <2>3. t \notin new
      <3>1. SUFFICES ASSUME t \in new PROVE FALSE
        OBVIOUS
      <3>2. l \in L /\ t \in Started(ls[l])
        BY <1>1, <2>2, <3>1
      <3>3. QED
        BY <3>2, PumpLane
    <2>4. QED
      BY <1>2, <2>2, <2>3
  <1>10. \A t \in executing' : startGen'[t] <= lanes'[LaneOf[t]].generation
    <2> SUFFICES ASSUME NEW t \in executing'
                 PROVE  startGen'[t] <= lanes'[LaneOf[t]].generation
      OBVIOUS
    <2>1. t \in Task /\ LaneOf[t] \in Lane
      BY <1>1, <1>2, <1>4, <1>5
    <2>2. lanes'[LaneOf[t]].generation = ls[LaneOf[t]].generation
      BY <2>1, PumpLane
    <2>3. CASE t \in new
      BY <1>3, <1>6, <2>1, <2>2, <2>3
    <2>4. CASE t \in alive
      BY <1>5, <2>2, <2>4 DEF Sound
    <2>5. QED
      BY <1>2, <2>3, <2>4
  <1>11. startGen' \in [Task -> Nat]
    BY <1>2, <1>3, <1>4 DEF Sound
  <1>12. executing' \subseteq Task
    BY <1>1, <1>2, <1>5
  <1>13. /\ lanes' \in [Lane -> LaneState]
         /\ \A l \in Lane : GoodLane(lanes'[l]) /\ Distinct(lanes'[l].queue)
    <2>1. \A l \in Lane : GoodLane(lanes'[l]) /\ Distinct(lanes'[l].queue)
      BY PumpLane
    <2>2. lanes' = [l \in Lane |-> lanes'[l]]
      BY DEF pump
    <2>3. QED
      BY <2>1, <2>2 DEF GoodLane
  <1>14. Sound(lanes', executing', startGen')
    BY <1>8, <1>9, <1>10, <1>11, <1>12, <1>13 DEF Sound
  <1>15. \A l \in Lane : Range(lanes'[l].queue) \subseteq Range(ls[l].queue)
    BY PumpLane
  <1>16. \A l \in Lane : Range(ls[l].queue) \subseteq new \cup Range(lanes'[l].queue)
    <2> TAKE l \in Lane
    <2>1. CASE l \in L
      <3>1. GoodLane(ls[l])
        BY DEF Sound
      <3>2. Range(ls[l].queue) = Started(ls[l]) \cup Range(lanes'[l].queue)
        <4>1. lanes'[l] = drainLane(ls[l])
          BY <2>1, PumpLane
        <4>2. QED
          BY <3>1, <4>1, DrainQueue
      <3>3. QED
        BY <1>7, <2>1, <3>2
    <2>2. CASE l \notin L
      BY <2>2, PumpLane
    <2>3. QED
      BY <2>1, <2>2
  <1>17. Held(lanes', executing') = Held(ls, alive)
    BY <1>1, <1>2, <1>15, <1>16 DEF Held
  <1>18. Active(ls) \subseteq Active(lanes')
    BY PumpLane DEF Active
  <1>19. \A t \in Task : t \notin Held(ls, alive) => t \notin new
    BY <1>1, <1>4 DEF Held
  <1>20. QED
    BY <1>2, <1>5, <1>14, <1>17, <1>18, <1>19 DEF Held
-----------------------------------------------------------------------------
(* The inductive invariant.                                                *)

\* A task of a snapshot was running then: it runs still or it has settled.
SnapshotStarted ==
    \A w \in Waiter : \A t \in waiters[w].ids : t \in executing \/ outcome[t] = "settled"

PendingIsHeld == \A t \in Task : outcome[t] = "pending" <=> t \in Held(lanes, executing)

IInv ==
    /\ TypeOK
    /\ Sound(lanes, executing, startGen)
    /\ PendingIsHeld
    /\ \A l \in Lane : Busy(lanes[l])
    /\ SnapshotStarted
    /\ WaiterNotForgotten
    /\ WaiterNotMisled

\* What CapRespected says of one step.
CapStep ==
    \A l \in Lane : ~(lanes'[l].active \subseteq lanes[l].active) =>
        Cardinality(lanes'[l].active) <= lanes'[l].maxConcurrent

LEMMA InitIInv == Init => IInv
  <1> SUFFICES ASSUME Init PROVE IInv
    OBVIOUS
  <1> USE DEF Init
  <1>1. InitLane \in LaneState
    BY EmptySeq DEF InitLane, LaneState
  <1>2. GoodLane(InitLane) /\ InitLane.queue = <<>> /\ InitLane.active = {}
    BY <1>1, FS_EmptySet DEF GoodLane, InitLane
  <1>3. DOMAIN (<<>>) = {} /\ Range(<<>>) = {}
    BY DEF Range
  <1>4. Sound(lanes, executing, startGen)
    BY <1>1, <1>2, <1>3 DEF Sound, Distinct
  <1>5. Held(lanes, executing) = {}
    BY <1>2, <1>3 DEF Held
  <1>6. \A l \in Lane : Busy(lanes[l])
    BY <1>2 DEF Busy
  <1>7. TypeOK
    BY <1>1, EmptySeq DEF TypeOK
  <1>8. QED
    BY <1>4, <1>5, <1>6, <1>7
       DEF IInv, PendingIsHeld, SnapshotStarted, WaiterNotForgotten, WaiterNotMisled

\* Every task belongs to one lane, so the queues are disjoint from what runs.
LEMMA HeldParts ==
    ASSUME NEW ls, NEW alive, NEW gen, Sound(ls, alive, gen)
    PROVE  /\ Held(ls, alive) \subseteq Task
           /\ \A t \in Task : t \in Held(ls, alive) <=>
                 t \in Range(ls[LaneOf[t]].queue) \/ t \in alive
           /\ Active(ls) \subseteq alive
           /\ \A t \in alive : t \notin Active(ls) =>
                 gen[t] < ls[LaneOf[t]].generation
  <1>1. \A l \in Lane : Range(ls[l].queue) \subseteq Task
    BY LenProperties DEF Sound, LaneState, Range
  <1>2. Held(ls, alive) \subseteq Task
    BY <1>1 DEF Held, Sound
  <1>3. \A t \in Task : t \in Held(ls, alive) <=>
            t \in Range(ls[LaneOf[t]].queue) \/ t \in alive
    BY CommandQueueAssumption DEF Held, Sound
  <1>4. Active(ls) \subseteq alive
    BY DEF Active, Sound
  <1>5. \A t \in alive : t \notin Active(ls) => gen[t] < ls[LaneOf[t]].generation
    <2> SUFFICES ASSUME NEW t \in alive, t \notin Active(ls)
                 PROVE  gen[t] < ls[LaneOf[t]].generation
      OBVIOUS
    <2>1. t \in Task /\ LaneOf[t] \in Lane
      BY CommandQueueAssumption DEF Sound
    <2>2. gen[t] # ls[LaneOf[t]].generation
      BY <2>1 DEF Active, Sound
    <2>3. gen[t] \in Nat /\ ls[LaneOf[t]].generation \in Nat
      BY <2>1 DEF Sound, LaneState
    <2>4. QED
      BY <2>2, <2>3 DEF Sound
  <1>6. QED
    BY <1>2, <1>3, <1>4, <1>5

\* A step that edits the lanes to ls and pumps L keeps the invariant if the
\* edit is sound, the lanes it does not pump are busy, the pending promises
\* are those held, no task of a snapshot disappears unsettled, and waiters
\* are told no more and no less than the lanes justify.
LEMMA AfterPump ==
    ASSUME IInv, TypeOK', NEW ls, NEW alive, NEW L \in SUBSET Lane,
           Sound(ls, alive, startGen), pump(ls, L, alive),
           \A l \in Lane \ L : Busy(ls[l]),
           \A l \in Lane : ls[l].generation >= lanes[l].generation,
           \A l \in Lane : ls[l].active \subseteq lanes[l].active,
           \A t \in Task : outcome'[t] = "pending" <=> t \in Held(ls, alive),
           alive \subseteq executing,
           \A t \in Task : t \in executing \/ outcome[t] = "settled" =>
                           t \in alive \/ outcome'[t] = "settled",
           \A w \in Waiter :
              /\ waiters'[w].ids = waiters[w].ids
              /\ waiters'[w].state = "waiting" =>
                    waiters'[w].ids \cap Active(lanes') # {}
              /\ waiters'[w].state = "drained" =>
                    waiters[w].state = "drained" \/ waiters[w].ids \cap Active(ls) = {}
    PROVE  IInv' /\ CapStep
  <1>1. /\ Sound(lanes', executing', startGen')
        /\ Held(lanes', executing') = Held(ls, alive)
        /\ \A t \in alive : startGen'[t] = startGen[t]
        /\ alive \subseteq executing'
    <2>1. alive \subseteq Task
      BY DEF Sound
    <2>2. QED
      BY <2>1, PumpSound
  <1>2. PendingIsHeld'
    BY <1>1 DEF PendingIsHeld
  <1>3. \A l \in Lane : Busy(lanes'[l])
    BY PumpLane
  <1>4. \A w \in Waiter : waiters[w].ids \subseteq Task
    BY DEF IInv, TypeOK
  <1>5. \A w \in Waiter : \A t \in waiters'[w].ids : t \in alive \/ outcome'[t] = "settled"
    BY <1>4 DEF IInv, SnapshotStarted
  <1>6. SnapshotStarted'
    BY <1>1, <1>5 DEF SnapshotStarted
  <1>7. WaiterNotForgotten'
    BY DEF WaiterNotForgotten
  <1>8. WaiterNotMisled'
    <2> SUFFICES ASSUME NEW w \in Waiter, waiters'[w].state = "drained",
                        NEW t \in waiters'[w].ids, outcome'[t] # "settled"
                 PROVE  startGen'[t] < lanes'[LaneOf[t]].generation
      BY DEF WaiterNotMisled
    <2>1. t \in Task /\ t \in alive /\ LaneOf[t] \in Lane /\ t \in waiters[w].ids
      BY <1>4, <1>5, CommandQueueAssumption
    <2>2. startGen'[t] = startGen[t] /\ lanes'[LaneOf[t]].generation = ls[LaneOf[t]].generation
      BY <1>1, <2>1, PumpLane
    <2>3. /\ startGen[t] \in Nat
          /\ lanes[LaneOf[t]].generation \in Nat
          /\ ls[LaneOf[t]].generation \in Nat
      BY <2>1 DEF IInv, TypeOK, LaneState, Sound
    <2>4. CASE waiters[w].state = "drained"
      <3>1. outcome[t] # "settled"
        <4>1. t \in Held(lanes, executing)
          BY <2>1 DEF Held
        <4>2. QED
          BY <2>1, <4>1 DEF IInv, PendingIsHeld
      <3>2. startGen[t] < lanes[LaneOf[t]].generation
        BY <2>1, <2>4, <3>1 DEF IInv, WaiterNotMisled
      <3>3. ls[LaneOf[t]].generation >= lanes[LaneOf[t]].generation
        BY <2>1
      <3>4. QED
        BY <2>2, <2>3, <3>2, <3>3
    <2>5. CASE waiters[w].ids \cap Active(ls) = {}
      BY <2>1, <2>2, <2>5, HeldParts
    <2>6. QED
      BY <2>4, <2>5
  <1>9. CapStep
    <2> SUFFICES ASSUME NEW l \in Lane, ~(lanes'[l].active \subseteq lanes[l].active)
                 PROVE  Cardinality(lanes'[l].active) <= lanes'[l].maxConcurrent
      BY DEF CapStep
    <2>1. /\ GoodLane(ls[l])
          /\ Distinct(ls[l].queue)
          /\ ls[l].active \cap Range(ls[l].queue) = {}
      BY DEF Sound
    <2>2. l \in L /\ lanes'[l] = drainLane(ls[l])
      BY PumpLane
    <2>3. Started(ls[l]) # {}
      BY <2>1, <2>2, DrainActive
    <2>4. QED
      BY <2>1, <2>2, <2>3, DrainCount
  <1>10. QED
    BY <1>1, <1>2, <1>3, <1>6, <1>7, <1>8, <1>9 DEF IInv
-----------------------------------------------------------------------------
(* The operations that end in a pump.                                      *)

\* Appending an entry that nobody holds keeps a queue free of duplicates.
LEMMA PushQueue ==
    ASSUME NEW q \in Seq(Task), NEW t \in Task, Distinct(q), t \notin Range(q)
    PROVE  /\ Append(q, t) \in Seq(Task)
           /\ Distinct(Append(q, t))
           /\ Range(Append(q, t)) = Range(q) \cup {t}
  <1> DEFINE a == Append(q, t)
             n == Len(q)
  <1>1. n \in Nat /\ DOMAIN q = 1..n
    BY LenProperties
  <1>2. /\ a \in Seq(Task) /\ DOMAIN a = 1..(n + 1)
        /\ \A i \in 1..n : a[i] = q[i]
        /\ a[n + 1] = t
    OBVIOUS
  <1> HIDE DEF a, n
  <1>3. ASSUME NEW i \in DOMAIN a PROVE i \in DOMAIN q \/ i = n + 1
    BY <1>1, <1>2
  <1>4. Distinct(a)
    <2> SUFFICES ASSUME NEW i \in DOMAIN a, NEW j \in DOMAIN a, a[i] = a[j]
                 PROVE  i = j
      BY DEF Distinct
    <2>1. CASE i \in DOMAIN q /\ j \in DOMAIN q
      BY <1>1, <1>2, <2>1 DEF Distinct
    <2>2. CASE i = n + 1 /\ j \in DOMAIN q
      BY <1>1, <1>2, <2>2 DEF Range
    <2>3. CASE i \in DOMAIN q /\ j = n + 1
      BY <1>1, <1>2, <2>3 DEF Range
    <2>4. QED
      BY <1>3, <2>1, <2>2, <2>3
  <1>5. Range(a) = Range(q) \cup {t}
    <2>1. \A x \in Range(a) : x \in Range(q) \cup {t}
      BY <1>1, <1>2, <1>3 DEF Range
    <2>2. \A x \in Range(q) : x \in Range(a)
      <3> SUFFICES ASSUME NEW i \in 1..n PROVE q[i] \in Range(a)
        BY <1>1 DEF Range
      <3>1. i \in DOMAIN a /\ a[i] = q[i]
        BY <1>1, <1>2
      <3>2. QED
        BY <3>1 DEF Range
    <2>3. n + 1 \in DOMAIN a
      BY <1>1, <1>2
    <2>4. t \in Range(a)
      BY <1>2, <2>3 DEF Range
    <2>5. QED
      BY <2>1, <2>2, <2>4
  <1>6. QED
    BY <1>2, <1>4, <1>5 DEF a

\* enqueueCommandInLane preserves the invariant.
LEMMA EnqueueIInv ==
    ASSUME IInv, NEW t \in Task, enqueueCommandInLane(t)
    PROVE  IInv' /\ CapStep
  <1> DEFINE l  == LaneOf[t]
             ls == [lanes EXCEPT ![l] = push(@, t)]
  <1>1. l \in Lane
    BY CommandQueueAssumption
  <1>2. /\ outcome[t] = "none" /\ outcome' = [outcome EXCEPT ![t] = "pending"]
        /\ arrivals' = [arrivals EXCEPT ![l] = Append(@, t)]
        /\ pump(ls, {l}, executing)
        /\ UNCHANGED <<gatewayDraining, waiters>>
    BY DEF enqueueCommandInLane
  <1>3. TypeOK /\ Sound(lanes, executing, startGen)
    BY DEF IInv
  <1>4. t \notin Held(lanes, executing)
    BY <1>2 DEF IInv, PendingIsHeld
  <1>5. t \notin Range(lanes[l].queue) /\ t \notin executing
    BY <1>1, <1>4 DEF Held
  <1>6. lanes[l] \in LaneState /\ Distinct(lanes[l].queue)
    BY <1>1, <1>3 DEF Sound
  <1>7. /\ push(lanes[l], t) \in LaneState
        /\ Distinct(push(lanes[l], t).queue)
        /\ Range(push(lanes[l], t).queue) = Range(lanes[l].queue) \cup {t}
        /\ push(lanes[l], t).active = lanes[l].active
        /\ push(lanes[l], t).generation = lanes[l].generation
    BY <1>5, <1>6, PushQueue DEF push, LaneState
  <1>8. /\ ls \in [Lane -> LaneState]
        /\ ls[l] = push(lanes[l], t)
        /\ \A m \in Lane : m # l => ls[m] = lanes[m]
    BY <1>1, <1>3, <1>7 DEF TypeOK
  <1>9. \A m \in Lane : /\ ls[m].active = lanes[m].active
                        /\ ls[m].generation = lanes[m].generation
    BY <1>7, <1>8
  <1> HIDE DEF ls, l
  <1>10. Sound(ls, executing, startGen)
    <2>1. \A m \in Lane : GoodLane(ls[m]) /\ Distinct(ls[m].queue)
      BY <1>3, <1>7, <1>8, <1>9 DEF Sound, GoodLane
    <2>2. \A m \in Lane : \A x \in Range(ls[m].queue) :
              LaneOf[x] = m /\ x \notin executing
      BY <1>3, <1>5, <1>7, <1>8 DEF Sound, l
    <2>3. \A x \in executing : startGen[x] <= ls[LaneOf[x]].generation
      BY <1>3, <1>9, CommandQueueAssumption DEF Sound
    <2>4. QED
      BY <1>3, <1>8, <1>9, <2>1, <2>2, <2>3 DEF Sound
  <1>11. Held(ls, executing) = Held(lanes, executing) \cup {t}
    BY <1>1, <1>7, <1>8 DEF Held
  <1>12. Active(ls) = Active(lanes)
    BY <1>9 DEF Active
  <1>13. \A x \in Task : outcome'[x] = "pending" <=> x \in Held(ls, executing)
    BY <1>2, <1>3, <1>11 DEF IInv, PendingIsHeld, TypeOK
  <1>14. \A x \in Task : x \in executing \/ outcome[x] = "settled" =>
                         x \in executing \/ outcome'[x] = "settled"
    BY <1>2, <1>3 DEF TypeOK
  <1>15. Sound(lanes', executing', startGen') /\ Active(ls) \subseteq Active(lanes')
    BY <1>1, <1>2, <1>10, PumpSound
  <1>16. TypeOK'
    <2>1. arrivals' \in [Lane -> Seq(Task)]
      BY <1>1, <1>2, <1>3 DEF TypeOK
    <2>2. QED
      BY <1>2, <1>3, <1>15, <2>1 DEF TypeOK, Sound
  <1>17. \A m \in Lane \ {l} : Busy(ls[m])
    BY <1>8 DEF IInv
  <1>18. \A m \in Lane : ls[m].generation >= lanes[m].generation
    BY <1>3, <1>9 DEF TypeOK, LaneState
  <1>19. \A w \in Waiter :
              /\ waiters'[w].ids = waiters[w].ids
              /\ waiters'[w].state = "waiting" =>
                    waiters'[w].ids \cap Active(lanes') # {}
              /\ waiters'[w].state = "drained" => waiters[w].state = "drained"
    BY <1>2, <1>12, <1>15 DEF IInv, WaiterNotForgotten
  <1>20. QED
    BY <1>1, <1>2, <1>9, <1>10, <1>13, <1>14, <1>16, <1>17, <1>18, <1>19, AfterPump

\* A lane with one task less among its active ones.
LEMMA FreedLane ==
    ASSUME NEW lane \in LaneState, NEW t
    PROVE  LET freed == [lane EXCEPT !.active = @ \ {t}]
           IN  /\ freed \in LaneState
               /\ freed.active = lane.active \ {t}
               /\ freed.queue = lane.queue
               /\ freed.generation = lane.generation
  BY DEF LaneState

\* A lane whose queue is emptied.
LEMMA EmptiedLane ==
    ASSUME NEW lane \in LaneState
    PROVE  LET emptied == [lane EXCEPT !.queue = <<>>]
           IN  /\ emptied \in LaneState
               /\ emptied.queue = <<>>
               /\ emptied.active = lane.active
               /\ emptied.generation = lane.generation
  BY EmptySeq DEF LaneState

\* settleTask in the task's own generation: completeTask frees the slot.
LEMMA SettleCurrentIInv ==
    ASSUME IInv, NEW t \in Task, settleTask(t),
           startGen[t] = lanes[LaneOf[t]].generation
    PROVE  IInv' /\ CapStep
  <1> DEFINE l     == LaneOf[t]
             done  == [lanes EXCEPT ![l].active = @ \ {t}]
             alive == executing \ {t}
  <1>1. l \in Lane
    BY CommandQueueAssumption
  <1>2. /\ t \in executing
        /\ outcome' = [outcome EXCEPT ![t] = "settled"]
        /\ notifyActiveTaskWaiters(done)
        /\ pump(done, {l}, alive)
        /\ UNCHANGED <<gatewayDraining, arrivals>>
    BY DEF settleTask
  <1>3. TypeOK /\ Sound(lanes, executing, startGen)
    BY DEF IInv
  <1>4. /\ done \in [Lane -> LaneState]
        /\ done[l].active = lanes[l].active \ {t}
        /\ done[l].queue = lanes[l].queue
        /\ done[l].generation = lanes[l].generation
        /\ \A m \in Lane : m # l => done[m] = lanes[m]
    <2> DEFINE freed == [lanes[l] EXCEPT !.active = @ \ {t}]
    <2>1. lanes \in [Lane -> LaneState] /\ lanes[l] \in LaneState
      BY <1>1, <1>3 DEF TypeOK
    <2>2. /\ freed \in LaneState
          /\ freed.active = lanes[l].active \ {t}
          /\ freed.queue = lanes[l].queue
          /\ freed.generation = lanes[l].generation
      BY <2>1, FreedLane
    <2> HIDE DEF freed
    <2>3. done = [lanes EXCEPT ![l] = freed]
      BY DEF freed
    <2>4. done[l] = freed /\ \A m \in Lane : m # l => done[m] = lanes[m]
      BY <1>1, <2>1, <2>3
    <2>5. done \in [Lane -> LaneState]
      BY <2>1, <2>2, <2>3
    <2>6. QED
      BY <2>2, <2>4, <2>5
  <1>5. \A m \in Lane : /\ done[m].queue = lanes[m].queue
                        /\ done[m].generation = lanes[m].generation
    BY <1>4
  <1> HIDE DEF done, l
  <1>6. Sound(done, alive, startGen)
    <2>1. \A m \in Lane : GoodLane(done[m]) /\ Distinct(done[m].queue)
      <3> TAKE m \in Lane
      <3>1. GoodLane(lanes[m]) /\ Distinct(lanes[m].queue)
        BY <1>3 DEF Sound
      <3>2. IsFiniteSet(lanes[m].active \ {t})
        BY <3>1, FS_RemoveElement DEF GoodLane
      <3>3. QED
        BY <1>4, <1>5, <3>1, <3>2 DEF GoodLane
    <2>2. \A m \in Lane : done[m].active =
              {x \in alive : LaneOf[x] = m /\ startGen[x] = done[m].generation}
      <3> TAKE m \in Lane
      <3>1. lanes[m].active =
                {x \in executing : LaneOf[x] = m /\ startGen[x] = lanes[m].generation}
        BY <1>3 DEF Sound
      <3>2. QED
        BY <1>4, <1>5, <3>1 DEF l
    <2>3. \A m \in Lane : \A x \in Range(done[m].queue) : LaneOf[x] = m /\ x \notin alive
      BY <1>3, <1>5 DEF Sound
    <2>4. \A x \in alive : startGen[x] <= done[LaneOf[x]].generation
      BY <1>3, <1>5, CommandQueueAssumption DEF Sound
    <2>5. QED
      BY <1>3, <1>4, <2>1, <2>2, <2>3, <2>4 DEF Sound
  <1>7. \A x \in Task : x \in Held(done, alive) <=> x \in Held(lanes, executing) /\ x # t
    <2>1. \A m \in Lane : t \notin Range(done[m].queue)
      BY <1>2, <1>3, <1>5 DEF Sound
    <2>2. QED
      BY <1>5, <2>1 DEF Held
  <1>8. \A x \in Task : outcome'[x] = "pending" <=> x \in Held(done, alive)
    BY <1>2, <1>3, <1>7 DEF IInv, PendingIsHeld, TypeOK
  <1>9. \A x \in Task : x \in executing \/ outcome[x] = "settled" =>
                        x \in alive \/ outcome'[x] = "settled"
    BY <1>2, <1>3 DEF TypeOK
  <1>10. Sound(lanes', executing', startGen') /\ Active(done) \subseteq Active(lanes')
    BY <1>1, <1>2, <1>6, PumpSound
  <1>11. \A w \in Waiter :
              /\ waiters'[w].ids = waiters[w].ids
              /\ waiters'[w].state \in {"none", "waiting", "drained", "timedOut"}
              /\ waiters'[w].state = "waiting" =>
                    waiters'[w].ids \cap Active(done) # {}
              /\ waiters'[w].state = "drained" =>
                    waiters[w].state = "drained" \/ waiters[w].ids \cap Active(done) = {}
    BY <1>2, <1>3 DEF notifyActiveTaskWaiters, TypeOK
  <1>12. waiters' \in [Waiter -> [state: {"none", "waiting", "drained", "timedOut"},
                                 ids: SUBSET Task]]
    BY <1>2, <1>3 DEF notifyActiveTaskWaiters, TypeOK
  <1>13. TypeOK'
    BY <1>2, <1>3, <1>10, <1>12 DEF TypeOK, Sound
  <1>14. \A m \in Lane \ {l} : Busy(done[m])
    BY <1>4 DEF IInv
  <1>15. \A m \in Lane : done[m].generation >= lanes[m].generation
    BY <1>3, <1>5 DEF TypeOK, LaneState
  <1>16. \A w \in Waiter : waiters'[w].state = "waiting" =>
                waiters'[w].ids \cap Active(lanes') # {}
    BY <1>10, <1>11
  <1>17. /\ alive \subseteq executing /\ {l} \in SUBSET Lane
         /\ \A m \in Lane : done[m].active \subseteq lanes[m].active
    BY <1>1, <1>4
  <1>18. pump(done, {l}, alive)
    BY <1>2
  <1>19. \A w \in Waiter :
              /\ waiters'[w].ids = waiters[w].ids
              /\ waiters'[w].state = "waiting" =>
                    waiters'[w].ids \cap Active(lanes') # {}
              /\ waiters'[w].state = "drained" =>
                    waiters[w].state = "drained" \/ waiters[w].ids \cap Active(done) = {}
    BY <1>11, <1>16
  <1> HIDE DEF alive
  <1>20. QED
    BY <1>6, <1>8, <1>9, <1>13, <1>14, <1>15, <1>17, <1>18, <1>19, AfterPump

\* settleTask of a task of an earlier life: only its promise settles.
LEMMA SettleStaleIInv ==
    ASSUME IInv, NEW t \in Task, settleTask(t),
           startGen[t] # lanes[LaneOf[t]].generation
    PROVE  IInv' /\ CapStep
  <1>1. /\ t \in executing
        /\ outcome' = [outcome EXCEPT ![t] = "settled"]
        /\ executing' = executing \ {t}
        /\ UNCHANGED <<lanes, startGen, waiters, gatewayDraining, arrivals>>
    BY DEF settleTask
  <1>2. TypeOK /\ Sound(lanes, executing, startGen)
    BY DEF IInv
  <1>3. Sound(lanes, executing', startGen)
    BY <1>1, <1>2 DEF Sound
  <1>4. \A l \in Lane : t \notin Range(lanes[l].queue)
    BY <1>1, <1>2 DEF Sound
  <1>5. PendingIsHeld'
    BY <1>1, <1>2, <1>4 DEF IInv, PendingIsHeld, Held, TypeOK
  <1>6. TypeOK'
    BY <1>1, <1>2 DEF TypeOK
  <1>7. SnapshotStarted' /\ WaiterNotMisled' /\ WaiterNotForgotten'
    BY <1>1, <1>2 DEF IInv, SnapshotStarted, WaiterNotMisled, WaiterNotForgotten,
                      TypeOK, Active
  <1>8. QED
    BY <1>1, <1>3, <1>5, <1>6, <1>7 DEF IInv, CapStep

\* A lane with another cap.
LEMMA CappedLane ==
    ASSUME NEW lane \in LaneState, NEW n \in Nat \ {0}
    PROVE  LET capped == [lane EXCEPT !.maxConcurrent = n]
           IN  /\ capped \in LaneState
               /\ capped.active = lane.active
               /\ capped.queue = lane.queue
               /\ capped.generation = lane.generation
  BY DEF LaneState

\* setCommandLaneConcurrency: the lane whose cap changes is the one pumped.
LEMMA ConcurrencyIInv ==
    ASSUME IInv, NEW l \in Lane, NEW n \in ConcurrencyValues,
           setCommandLaneConcurrency(l, n)
    PROVE  IInv' /\ CapStep
  <1> DEFINE ls == [lanes EXCEPT ![l].maxConcurrent = Clamp(n)]
  <1>1. /\ pump(ls, {l}, executing)
        /\ UNCHANGED <<gatewayDraining, outcome, waiters, arrivals>>
    BY DEF setCommandLaneConcurrency
  <1>2. TypeOK /\ Sound(lanes, executing, startGen)
    BY DEF IInv
  <1>3. Clamp(n) \in Nat \ {0}
    BY CommandQueueAssumption DEF Clamp
  <1> DEFINE capped == [lanes[l] EXCEPT !.maxConcurrent = Clamp(n)]
  <1>t. lanes \in [Lane -> LaneState] /\ lanes[l] \in LaneState
    BY <1>2 DEF TypeOK
  <1>c. /\ capped \in LaneState /\ capped.active = lanes[l].active
        /\ capped.queue = lanes[l].queue /\ capped.generation = lanes[l].generation
    BY <1>3, <1>t, CappedLane
  <1>u. ls = [lanes EXCEPT ![l] = capped]
    OBVIOUS
  <1> HIDE DEF ls, capped
  <1>4. /\ ls \in [Lane -> LaneState] /\ ls[l] = capped
        /\ \A m \in Lane : m # l => ls[m] = lanes[m]
    BY <1>t, <1>c, <1>u
  <1>5. \A m \in Lane : /\ ls[m].active = lanes[m].active
                        /\ ls[m].queue = lanes[m].queue
                        /\ ls[m].generation = lanes[m].generation
    BY <1>c, <1>4
  <1>6. Sound(ls, executing, startGen)
    <2>1. \A m \in Lane : GoodLane(ls[m])
      BY <1>2, <1>4, <1>5 DEF Sound, GoodLane
    <2>2. \A x \in executing : startGen[x] <= ls[LaneOf[x]].generation
      BY <1>2, <1>5, CommandQueueAssumption DEF Sound
    <2>3. QED
      BY <1>2, <1>4, <1>5, <2>1, <2>2 DEF Sound
  <1>7. Held(ls, executing) = Held(lanes, executing) /\ Active(ls) = Active(lanes)
    BY <1>5 DEF Held, Active
  <1>8. \A x \in Task : outcome'[x] = "pending" <=> x \in Held(ls, executing)
    BY <1>1, <1>7 DEF IInv, PendingIsHeld
  <1>9. Sound(lanes', executing', startGen') /\ Active(ls) \subseteq Active(lanes')
    BY <1>1, <1>6, PumpSound
  <1>10. TypeOK'
    BY <1>1, <1>2, <1>9 DEF TypeOK, Sound
  <1>11. \A w \in Waiter :
              /\ waiters'[w].ids = waiters[w].ids
              /\ waiters'[w].state = "waiting" =>
                    waiters'[w].ids \cap Active(lanes') # {}
              /\ waiters'[w].state = "drained" => waiters[w].state = "drained"
    BY <1>1, <1>7, <1>9 DEF IInv, WaiterNotForgotten
  <1>12. /\ \A m \in Lane \ {l} : Busy(ls[m])
         /\ \A m \in Lane : ls[m].generation >= lanes[m].generation
    BY <1>2, <1>4, <1>5 DEF IInv, TypeOK, LaneState
  <1>13. {l} \in SUBSET Lane /\ UNCHANGED outcome
    BY <1>1
  <1>14. QED
    BY <1>1, <1>5, <1>6, <1>8, <1>10, <1>11, <1>12, <1>13, AfterPump

LEMMA ResetLane ==
    ASSUME NEW lane \in LaneState
    PROVE  LET r == resetLane(lane)
           IN  /\ r \in LaneState
               /\ r.active = {}
               /\ r.queue = lane.queue
               /\ r.generation = lane.generation + 1
               /\ lane.generation \in Nat
  <1> DEFINE bumped == [lane EXCEPT !.generation = @ + 1]
  <1>1. bumped \in LaneState
    BY DEF LaneState
  <1>2. resetLane(lane) = [bumped EXCEPT !.active = {}]
    BY DEF resetLane, LaneState
  <1>3. /\ resetLane(lane).active = {}
        /\ resetLane(lane).queue = lane.queue
        /\ resetLane(lane).generation = lane.generation + 1
        /\ lane.generation \in Nat
    BY DEF resetLane, LaneState
  <1> HIDE DEF bumped
  <1>4. resetLane(lane) \in LaneState
    BY <1>1, <1>2 DEF LaneState
  <1>5. QED
    BY <1>3, <1>4

\* resetAllLanes: the running tasks fall a generation behind, all at once.
LEMMA ResetIInv ==
    ASSUME IInv, resetAllLanes
    PROVE  IInv' /\ CapStep
  <1> DEFINE ls == [l \in Lane |-> resetLane(lanes[l])]
  <1>1. /\ gatewayDraining' = FALSE
        /\ pump(ls, Lane, executing)
        /\ notifyActiveTaskWaiters(lanes')
        /\ UNCHANGED <<outcome, arrivals>>
    BY DEF resetAllLanes
  <1>2. TypeOK /\ Sound(lanes, executing, startGen)
    BY DEF IInv
  <1>3. \A l \in Lane : /\ ls[l] \in LaneState
                        /\ ls[l].active = {}
                        /\ ls[l].queue = lanes[l].queue
                        /\ ls[l].generation = lanes[l].generation + 1
                        /\ lanes[l].generation \in Nat
    <2> TAKE l \in Lane
    <2>1. lanes[l] \in LaneState /\ ls[l] = resetLane(lanes[l])
      BY <1>2 DEF TypeOK
    <2> HIDE DEF ls
    <2>2. QED
      BY <2>1, ResetLane
  <1>4. ls \in [Lane -> LaneState]
    BY <1>3
  <1> HIDE DEF ls
  <1>5. \A x \in executing : /\ x \in Task /\ LaneOf[x] \in Lane
                             /\ startGen[x] \in Nat
                             /\ startGen[x] < ls[LaneOf[x]].generation
    <2> SUFFICES ASSUME NEW x \in executing
                 PROVE  /\ x \in Task /\ LaneOf[x] \in Lane
                        /\ startGen[x] \in Nat
                        /\ startGen[x] < ls[LaneOf[x]].generation
      OBVIOUS
    <2>1. x \in Task /\ LaneOf[x] \in Lane /\ startGen[x] \in Nat
      BY <1>2, CommandQueueAssumption DEF Sound
    <2>2. startGen[x] <= lanes[LaneOf[x]].generation
      BY <1>2 DEF Sound
    <2>3. QED
      BY <1>3, <2>1, <2>2
  <1>6. Sound(ls, executing, startGen)
    <2>1. \A l \in Lane : GoodLane(ls[l])
      BY <1>3, FS_EmptySet DEF GoodLane
    <2>2. \A l \in Lane : ls[l].active =
              {x \in executing : LaneOf[x] = l /\ startGen[x] = ls[l].generation}
      BY <1>3, <1>5
    <2>3. \A x \in executing : startGen[x] <= ls[LaneOf[x]].generation
      BY <1>3, <1>5
    <2>4. QED
      BY <1>2, <1>3, <1>4, <2>1, <2>2, <2>3 DEF Sound
  <1>7. Held(ls, executing) = Held(lanes, executing)
    BY <1>3 DEF Held
  <1>8. \A x \in Task : outcome'[x] = "pending" <=> x \in Held(ls, executing)
    BY <1>1, <1>7 DEF IInv, PendingIsHeld
  <1>9. Sound(lanes', executing', startGen') /\ Active(ls) \subseteq Active(lanes')
    BY <1>1, <1>6, PumpSound
  <1>10. TypeOK'
    <2>1. waiters' \in [Waiter -> [state: {"none", "waiting", "drained", "timedOut"},
                                  ids: SUBSET Task]]
      BY <1>1, <1>2 DEF notifyActiveTaskWaiters, TypeOK
    <2>2. QED
      BY <1>1, <1>2, <1>9, <2>1 DEF TypeOK, Sound
  <1>11. \A w \in Waiter :
              /\ waiters'[w].ids = waiters[w].ids
              /\ waiters'[w].state = "waiting" =>
                    waiters'[w].ids \cap Active(lanes') # {}
              /\ waiters'[w].state = "drained" =>
                    waiters[w].state = "drained" \/ waiters[w].ids \cap Active(lanes') = {}
    BY <1>1, <1>2 DEF notifyActiveTaskWaiters, TypeOK
  <1>12. \A w \in Waiter : waiters'[w].state = "drained" =>
              waiters[w].state = "drained" \/ waiters[w].ids \cap Active(ls) = {}
    BY <1>9, <1>11
  <1>13. \A l \in Lane : /\ ls[l].generation >= lanes[l].generation
                         /\ ls[l].active \subseteq lanes[l].active
    BY <1>3
  <1>14. Lane \in SUBSET Lane /\ UNCHANGED outcome
    BY <1>1
  <1>15. QED
    BY <1>1, <1>6, <1>8, <1>10, <1>11, <1>12, <1>13, <1>14, AfterPump

-----------------------------------------------------------------------------
(* The operations that pump nothing.                                       *)

\* clearCommandLane rejects exactly the entries it removes.
LEMMA ClearIInv ==
    ASSUME IInv, NEW l \in Lane, clearCommandLane(l)
    PROVE  IInv' /\ CapStep
  <1>1. /\ lanes' = [lanes EXCEPT ![l].queue = <<>>]
        /\ outcome' = [t \in Task |-> IF t \in Range(lanes[l].queue) THEN "cleared"
                                                                     ELSE outcome[t]]
        /\ UNCHANGED <<gatewayDraining, executing, startGen, waiters, arrivals>>
    BY DEF clearCommandLane
  <1>2. TypeOK /\ Sound(lanes, executing, startGen)
    BY DEF IInv
  <1> DEFINE emptied == [lanes[l] EXCEPT !.queue = <<>>]
  <1>t. lanes \in [Lane -> LaneState] /\ lanes[l] \in LaneState
    BY <1>2 DEF TypeOK
  <1>e. /\ emptied \in LaneState
        /\ emptied.queue = <<>>
        /\ emptied.active = lanes[l].active
        /\ emptied.generation = lanes[l].generation
    BY <1>t, EmptiedLane
  <1>u. lanes' = [lanes EXCEPT ![l] = emptied]
    BY <1>1
  <1> HIDE DEF emptied
  <1>x. lanes'[l] = emptied /\ \A m \in Lane : m # l => lanes'[m] = lanes[m]
    BY <1>t, <1>u
  <1>3. /\ lanes' \in [Lane -> LaneState]
        /\ lanes'[l].queue = <<>>
        /\ \A m \in Lane : m # l => lanes'[m] = lanes[m]
    BY <1>t, <1>e, <1>u, <1>x
  <1>4. \A m \in Lane : /\ lanes'[m].active = lanes[m].active
                        /\ lanes'[m].generation = lanes[m].generation
    BY <1>e, <1>x
  <1>5. DOMAIN (<<>>) = {} /\ Range(<<>>) = {}
    BY DEF Range
  <1>6. Sound(lanes', executing', startGen')
    <2>1. ASSUME NEW m \in Lane
          PROVE  /\ GoodLane(lanes'[m]) /\ Distinct(lanes'[m].queue)
                 /\ \A x \in Range(lanes'[m].queue) : LaneOf[x] = m /\ x \notin executing
      <3>1. /\ IsFiniteSet(lanes[m].active) /\ Distinct(lanes[m].queue)
            /\ \A x \in Range(lanes[m].queue) : LaneOf[x] = m /\ x \notin executing
        BY <1>2 DEF Sound, GoodLane
      <3>2. GoodLane(lanes'[m])
        BY <1>3, <1>4, <3>1 DEF GoodLane
      <3>3. CASE m = l
        BY <1>3, <1>5, <3>2, <3>3 DEF Distinct
      <3>4. CASE m # l
        BY <1>3, <3>1, <3>2, <3>4
      <3>5. QED
        BY <3>3, <3>4
    <2>2. \A x \in executing : startGen[x] <= lanes'[LaneOf[x]].generation
      BY <1>2, <1>4, CommandQueueAssumption DEF Sound
    <2>3. /\ executing' \subseteq Task
          /\ startGen' \in [Task -> Nat]
      BY <1>1, <1>2 DEF Sound
    <2>4. \A m \in Lane : lanes'[m].active =
              {x \in executing' : LaneOf[x] = m /\ startGen'[x] = lanes'[m].generation}
      BY <1>1, <1>2, <1>4 DEF Sound
    <2>5. QED
      BY <1>1, <1>3, <2>1, <2>2, <2>3, <2>4 DEF Sound
  <1>7. \A x \in Task : x \in Held(lanes', executing') <=>
            x \in Held(lanes, executing) /\ x \notin Range(lanes[l].queue)
    <2>1. \A x \in Range(lanes[l].queue) :
              /\ x \notin executing
              /\ \A m \in Lane : m # l => x \notin Range(lanes[m].queue)
      BY <1>2 DEF Sound
    <2>2. QED
      BY <1>1, <1>3, <1>5, <2>1 DEF Held
  <1>8. PendingIsHeld'
    BY <1>1, <1>7 DEF IInv, PendingIsHeld
  <1>9. \A m \in Lane : Busy(lanes'[m])
    <2> TAKE m \in Lane
    <2>1. CASE m = l
      BY <1>3, <2>1 DEF Busy
    <2>2. CASE m # l
      BY <1>3, <2>2 DEF IInv
    <2>3. QED
      BY <2>1, <2>2
  <1>10. TypeOK'
    BY <1>1, <1>2, <1>3 DEF TypeOK
  <1>11. \A t \in Task : outcome[t] = "settled" => outcome'[t] = "settled"
    <2>1. \A t \in Task : t \in Range(lanes[l].queue) => outcome[t] = "pending"
      BY DEF IInv, PendingIsHeld, Held
    <2>2. QED
      BY <1>1, <2>1
  <1>12. SnapshotStarted'
    BY <1>1, <1>2, <1>11 DEF IInv, SnapshotStarted, TypeOK
  <1>13. WaiterNotMisled'
    BY <1>1, <1>2, <1>4, <1>11, CommandQueueAssumption DEF IInv, WaiterNotMisled, TypeOK
  <1>14. WaiterNotForgotten'
    BY <1>1, <1>4 DEF IInv, WaiterNotForgotten, Active
  <1>15. QED
    BY <1>4, <1>6, <1>8, <1>9, <1>10, <1>12, <1>13, <1>14 DEF IInv, CapStep

\* waitForActiveTasks takes its snapshot from the active tasks.
LEMMA WaitIInv ==
    ASSUME IInv, NEW w \in Waiter, waitForActiveTasks(w)
    PROVE  IInv' /\ CapStep
  <1>1. /\ UNCHANGED <<lanes, gatewayDraining, executing, startGen, outcome, arrivals>>
        /\ waiters[w].state = "none"
    BY DEF waitForActiveTasks
  <1>2. PICK state \in IF Active(lanes) = {} THEN {"drained"} ELSE {"timedOut", "waiting"} :
            waiters' = [waiters EXCEPT ![w] = [state |-> state, ids |-> Active(lanes)]]
    BY DEF waitForActiveTasks
  <1>3. TypeOK /\ Active(lanes) \subseteq executing
    BY HeldParts DEF IInv
  <1>4. /\ waiters'[w] = [state |-> state, ids |-> Active(lanes)]
        /\ \A x \in Waiter : x # w => waiters'[x] = waiters[x]
        /\ state = "waiting" => Active(lanes) # {}
        /\ state = "drained" => Active(lanes) = {}
        /\ state \in {"drained", "timedOut", "waiting"}
    BY <1>2, <1>3 DEF TypeOK
  <1>5. TypeOK'
    BY <1>1, <1>2, <1>3, <1>4 DEF TypeOK
  <1>6. SnapshotStarted'
    BY <1>1, <1>3, <1>4 DEF IInv, SnapshotStarted
  <1>7. WaiterNotForgotten'
    <2>1. Active(lanes)' = Active(lanes)
      BY <1>1 DEF Active
    <2>2. QED
      BY <1>4, <2>1 DEF IInv, WaiterNotForgotten
  <1>8. WaiterNotMisled'
    BY <1>1, <1>4 DEF IInv, WaiterNotMisled
  <1>9. QED
    BY <1>1, <1>5, <1>6, <1>7, <1>8 DEF IInv, PendingIsHeld, CapStep

\* A waiter that gives up says so, and touches nothing else.
LEMMA WaiterTimeoutIInv ==
    ASSUME IInv, NEW w \in Waiter, waiterTimeout(w)
    PROVE  IInv' /\ CapStep
  <1>1. /\ waiters' = [waiters EXCEPT ![w].state = "timedOut"]
        /\ UNCHANGED <<lanes, gatewayDraining, executing, startGen, outcome, arrivals>>
    BY DEF waiterTimeout
  <1>2. TypeOK
    BY DEF IInv
  <1>3. /\ \A x \in Waiter : waiters'[x].ids = waiters[x].ids
        /\ \A x \in Waiter : x # w => waiters'[x] = waiters[x]
        /\ waiters'[w].state = "timedOut"
    BY <1>1, <1>2 DEF TypeOK
  <1>4. TypeOK'
    BY <1>1, <1>2 DEF TypeOK
  <1>5. Active(lanes)' = Active(lanes)
    BY <1>1 DEF Active
  <1>6. SnapshotStarted' /\ WaiterNotForgotten' /\ WaiterNotMisled'
    BY <1>1, <1>3, <1>5 DEF IInv, SnapshotStarted, WaiterNotForgotten, WaiterNotMisled
  <1>7. QED
    BY <1>1, <1>4, <1>6 DEF IInv, PendingIsHeld, CapStep

\* Refusing a command and marking the drain leave the lanes alone.
LEMMA RefuseIInv ==
    ASSUME IInv, NEW t \in Task, refuseCommand(t)
    PROVE  IInv' /\ CapStep
  <1>1. /\ outcome[t] = "none" /\ outcome' = [outcome EXCEPT ![t] = "refused"]
        /\ UNCHANGED <<lanes, gatewayDraining, executing, startGen, waiters, arrivals>>
    BY DEF refuseCommand
  <1>2. TypeOK
    BY DEF IInv
  <1>3. \A x \in Task : /\ outcome'[x] = "pending" <=> outcome[x] = "pending"
                        /\ outcome'[x] = "settled" <=> outcome[x] = "settled"
    <2>1. outcome'[t] = "refused" /\ \A x \in Task : x # t => outcome'[x] = outcome[x]
      BY <1>1, <1>2 DEF TypeOK
    <2>2. QED
      BY <1>1, <2>1
  <1>4. TypeOK'
    BY <1>1, <1>2 DEF TypeOK
  <1>5. Active(lanes)' = Active(lanes)
    BY <1>1 DEF Active
  <1>6. SnapshotStarted' /\ WaiterNotForgotten' /\ WaiterNotMisled' /\ PendingIsHeld'
    BY <1>1, <1>2, <1>3, <1>5
       DEF IInv, SnapshotStarted, WaiterNotForgotten, WaiterNotMisled, PendingIsHeld, TypeOK
  <1>7. QED
    BY <1>1, <1>4, <1>6 DEF IInv, CapStep

LEMMA DrainingIInv ==
    ASSUME IInv, markGatewayDraining
    PROVE  IInv' /\ CapStep
  BY DEF IInv, markGatewayDraining, TypeOK, PendingIsHeld, SnapshotStarted,
         WaiterNotForgotten, WaiterNotMisled, Active, CapStep

LEMMA StutterIInv ==
    ASSUME IInv, UNCHANGED vars
    PROVE  IInv' /\ CapStep
  BY DEF IInv, vars, TypeOK, PendingIsHeld, SnapshotStarted,
         WaiterNotForgotten, WaiterNotMisled, Active, CapStep

LEMMA NextIInv == IInv /\ [Next]_vars => IInv' /\ CapStep
  <1> SUFFICES ASSUME IInv, [Next]_vars PROVE IInv' /\ CapStep
    OBVIOUS
  <1>1. CASE \E t \in Task : refuseCommand(t)
    BY <1>1, RefuseIInv
  <1>2. CASE \E t \in Task : enqueueCommandInLane(t)
    BY <1>2, EnqueueIInv
  <1>3. CASE \E t \in Task : settleTask(t)
    BY <1>3, SettleCurrentIInv, SettleStaleIInv
  <1>4. CASE \E l \in Lane : clearCommandLane(l)
    BY <1>4, ClearIInv
  <1>5. CASE \E l \in Lane : \E n \in ConcurrencyValues : setCommandLaneConcurrency(l, n)
    BY <1>5, ConcurrencyIInv
  <1>6. CASE \E w \in Waiter : waitForActiveTasks(w)
    BY <1>6, WaitIInv
  <1>7. CASE \E w \in Waiter : waiterTimeout(w)
    BY <1>7, WaiterTimeoutIInv
  <1>8. CASE markGatewayDraining
    BY <1>8, DrainingIInv
  <1>9. CASE resetAllLanes
    BY <1>9, ResetIInv
  <1>10. CASE UNCHANGED vars
    BY <1>10, StutterIInv
  <1>11. QED
    BY <1>1, <1>2, <1>3, <1>4, <1>5, <1>6, <1>7, <1>8, <1>9, <1>10 DEF Next

-----------------------------------------------------------------------------
(* The theorems.                                                           *)

\* The state of the queue always makes sense: the invariant is inductive.
THEOREM Invariance == Spec => []IInv
  BY InitIInv, NextIInv, PTL DEF Spec

\* Type correctness of the lanes, waiters and promises (queueState).
THEOREM TypeCorrect == Spec => []TypeOK
  <1>1. IInv => TypeOK
    BY DEF IInv
  <1>2. QED
    BY <1>1, Invariance, PTL

\* No lane idles beside queued work, whatever is enqueued, settled, resized,
\* cleared or reset (drainLane).
THEOREM NoLostWakeup == Spec => []NoIdleSlot
  <1>1. IInv => NoIdleSlot
    BY DEF IInv, Busy, NoIdleSlot
  <1>2. QED
    BY <1>1, Invariance, PTL

\* A pending promise always has an entry or a running task to settle it, and
\* neither is ever left behind by a promise already answered (QueueEntry).
THEOREM NothingLost == Spec => []NoCommandLost
  <1>1. IInv => NoCommandLost
    BY HeldParts DEF IInv, PendingIsHeld, NoCommandLost
  <1>2. QED
    BY <1>1, Invariance, PTL

\* Slots are held by the running tasks of the current generation, and by no
\* other task (completeTask, resetAllLanes).
THEOREM SlotsAreCurrent == Spec => []ActiveIsCurrent
  <1>1. IInv => ActiveIsCurrent
    BY DEF IInv, Sound, ActiveIsCurrent
  <1>2. QED
    BY <1>1, Invariance, PTL

\* waitForActiveTasks neither forgets a waiter whose snapshot is over nor
\* tells one so too early (notifyActiveTaskWaiters).
THEOREM WaitersServed == Spec => []WaitersTold
  <1>1. IInv => WaitersTold
    BY DEF IInv, WaitersTold
  <1>2. QED
    BY <1>1, Invariance, PTL


\* Tasks are started only up to the cap then in force (the condition of the
\* while loop in pump).
THEOREM CapHolds == Spec => CapRespected
  <1>1. IInv /\ [Next]_vars => [\A l \in Lane :
            ~(lanes'[l].active \subseteq lanes[l].active) =>
                Cardinality(lanes'[l].active) <= lanes'[l].maxConcurrent]_lanes
    BY NextIInv DEF CapStep
  <1>2. QED
    BY <1>1, Invariance, PTL DEF Spec, CapRespected

-----------------------------------------------------------------------------
(* First in, first out.                                                    *)

\* Suffixes of a sequence, element by element.
IsTail(q, a) ==
    /\ Len(q) <= Len(a)
    /\ \A i \in 1..Len(q) : q[i] = a[Len(a) - Len(q) + i]

LEMMA TailIsSuffix ==
    ASSUME NEW q \in Seq(Task), NEW a \in Seq(Task)
    PROVE  IsTail(q, a) <=> \E k \in 0..Len(a) : q = SubSeq(a, k + 1, Len(a))
  <1>1. /\ Len(a) \in Nat /\ Len(q) \in Nat
        /\ \A i \in 1..Len(a) : a[i] \in Task
    BY LenProperties, ElementOfSeq
  <1>2. ASSUME NEW k \in 0..Len(a)
        PROVE  /\ SubSeq(a, k + 1, Len(a)) \in Seq(Task)
               /\ Len(SubSeq(a, k + 1, Len(a))) = Len(a) - k
               /\ \A i \in 1..(Len(a) - k) : SubSeq(a, k + 1, Len(a))[i] = a[k + i]
    <2> DEFINE n == Len(a)
               m == k + 1
    <2>1. n \in Int /\ m \in Int /\ \A i \in m..n : a[i] \in Task
      BY <1>1
    <2> HIDE DEF m, n
    <2>2. /\ SubSeq(a, m, n) \in Seq(Task)
          /\ Len(SubSeq(a, m, n)) = IF m <= n THEN n - m + 1 ELSE 0
          /\ \A i \in 1..(n - m + 1) : SubSeq(a, m, n)[i] = a[m + i - 1]
      BY <2>1, SubSeqProperties
    <2>3. m = k + 1 /\ k \in 0..n /\ n \in Nat /\ n - m + 1 = n - k
      BY <1>1 DEF m, n
    <2>4. Len(SubSeq(a, m, n)) = n - k
      BY <2>2, <2>3
    <2>5. \A i \in 1..(n - k) : m + i - 1 = k + i
      BY <2>3
    <2>6. QED
      BY <2>2, <2>3, <2>4, <2>5 DEF m, n
  <1>3. ASSUME IsTail(q, a)
        PROVE  \E k \in 0..Len(a) : q = SubSeq(a, k + 1, Len(a))
    <2> DEFINE k == Len(a) - Len(q)
               u == SubSeq(a, k + 1, Len(a))
    <2>1. k \in 0..Len(a) /\ Len(a) - k = Len(q)
      BY <1>1, <1>3 DEF IsTail
    <2>2. u \in Seq(Task) /\ Len(u) = Len(q)
      BY <1>2, <2>1
    <2>3. \A i \in 1..Len(q) : u[i] = q[i]
      BY <1>2, <1>3, <2>1 DEF IsTail
    <2> HIDE DEF u, k
    <2>4. q = u
      BY <2>2, <2>3, SeqEqual
    <2>5. QED
      BY <2>1, <2>4 DEF u
  <1>4. ASSUME NEW k \in 0..Len(a), q = SubSeq(a, k + 1, Len(a))
        PROVE  IsTail(q, a)
    <2>1. Len(q) = Len(a) - k /\ \A i \in 1..(Len(a) - k) : q[i] = a[k + i]
      BY <1>2, <1>4
    <2>2. Len(q) <= Len(a) /\ Len(a) - Len(q) = k
      BY <1>1, <2>1
    <2>3. QED
      BY <2>1, <2>2 DEF IsTail
  <1>5. QED
    BY <1>3, <1>4

\* Draining takes from the head, and enqueueing adds to the tail of both.
LEMMA DrainTail ==
    ASSUME NEW lane, GoodLane(lane), NEW a \in Seq(Task), IsTail(lane.queue, a)
    PROVE  IsTail(drainLane(lane).queue, a)
  <1> DEFINE d == drainLane(lane).queue
             k == Starts(lane)
             n == Len(lane.queue)
             m == Len(a)
  <1>1. k \in 0..n /\ n \in Nat /\ m \in Nat
    BY StartsBound, LenProperties
  <1>2. Len(d) = n - k /\ \A i \in 1..Len(d) : d[i] = lane.queue[k + i]
    BY DrainQueue
  <1>3. n <= m /\ \A i \in 1..n : lane.queue[i] = a[m - n + i]
    BY DEF IsTail
  <1> HIDE DEF d, k, n
  <1>4. ASSUME NEW i \in 1..Len(d) PROVE d[i] = a[m - Len(d) + i]
    <2>1. k + i \in 1..n /\ m - n + (k + i) = m - Len(d) + i
      BY <1>1, <1>2
    <2>2. d[i] = lane.queue[k + i]
      BY <1>2
    <2>3. QED
      BY <1>3, <2>1, <2>2
  <1>5. Len(d) <= m
    BY <1>1, <1>2, <1>3
  <1>6. QED
    BY <1>4, <1>5 DEF IsTail, d

LEMMA PushTail ==
    ASSUME NEW q \in Seq(Task), NEW a \in Seq(Task), NEW t \in Task, IsTail(q, a)
    PROVE  IsTail(Append(q, t), Append(a, t))
  <1> DEFINE p == Append(q, t)
             b == Append(a, t)
             n == Len(q)
             m == Len(a)
  <1>1. /\ n \in Nat /\ m \in Nat
        /\ Len(p) = n + 1 /\ p[n + 1] = t /\ \A i \in 1..n : p[i] = q[i]
        /\ Len(b) = m + 1 /\ b[m + 1] = t /\ \A i \in 1..m : b[i] = a[i]
    BY LenProperties
  <1>2. n <= m /\ \A i \in 1..n : q[i] = a[m - n + i]
    BY DEF IsTail
  <1> HIDE DEF p, b, n, m
  <1>3. ASSUME NEW i \in 1..(n + 1) PROVE p[i] = b[(m + 1) - (n + 1) + i]
    <2>1. (m + 1) - (n + 1) + i = m - n + i
      BY <1>1
    <2>2. CASE i = n + 1
      BY <1>1, <2>1, <2>2
    <2>3. CASE i # n + 1
      <3>1. i \in 1..n /\ m - n + i \in 1..m
        BY <1>1, <1>2, <2>3
      <3>2. QED
        BY <1>1, <1>2, <2>1, <3>1
    <2>4. QED
      BY <2>2, <2>3
  <1>4. QED
    BY <1>1, <1>2, <1>3 DEF IsTail, p, b

LEMMA PumpTail ==
    ASSUME NEW ls, NEW alive, NEW L, pump(ls, L, alive),
           NEW l \in Lane, GoodLane(ls[l]), NEW a \in Seq(Task), IsTail(ls[l].queue, a)
    PROVE  IsTail(lanes'[l].queue, a)
  <1>1. lanes'[l] = IF l \in L THEN drainLane(ls[l]) ELSE ls[l]
    BY DEF pump
  <1>2. QED
    BY <1>1, DrainTail

\* Each lane's queue is a tail of what the lane has accepted.
QueueIsTail == \A l \in Lane : IsTail(lanes[l].queue, arrivals[l])

LEMMA NextTail == IInv /\ QueueIsTail /\ [Next]_vars => QueueIsTail'
  <1> SUFFICES ASSUME IInv, QueueIsTail, [Next]_vars, NEW l \in Lane
               PROVE  IsTail(lanes'[l].queue, arrivals'[l])
    BY DEF QueueIsTail
  <1>1. /\ TypeOK /\ GoodLane(lanes[l]) /\ lanes[l] \in LaneState
        /\ lanes[l].queue \in Seq(Task) /\ arrivals[l] \in Seq(Task)
        /\ IsTail(lanes[l].queue, arrivals[l])
    BY DEF IInv, Sound, TypeOK, QueueIsTail, LaneState
  <1>2. ASSUME NEW t \in Task, enqueueCommandInLane(t)
        PROVE  IsTail(lanes'[l].queue, arrivals'[l])
    <2> DEFINE ls == [lanes EXCEPT ![LaneOf[t]] = push(@, t)]
    <2>1. /\ arrivals' = [arrivals EXCEPT ![LaneOf[t]] = Append(@, t)]
          /\ pump(ls, {LaneOf[t]}, executing)
      BY <1>2 DEF enqueueCommandInLane
    <2>2. CASE l = LaneOf[t]
      <3>1. arrivals'[l] = Append(arrivals[l], t) /\ ls[l] = push(lanes[l], t)
        BY <1>1, <2>1, <2>2 DEF TypeOK
      <3>2. /\ push(lanes[l], t).queue = Append(lanes[l].queue, t)
            /\ push(lanes[l], t).active = lanes[l].active
            /\ push(lanes[l], t) \in LaneState
        <4>1. Append(lanes[l].queue, t) \in Seq(Task)
          BY <1>1
        <4>2. QED
          BY <1>1, <4>1 DEF push, LaneState
      <3>3. GoodLane(ls[l])
        BY <1>1, <3>1, <3>2 DEF GoodLane
      <3>4. IsTail(ls[l].queue, arrivals'[l]) /\ arrivals'[l] \in Seq(Task)
        <4>1. IsTail(Append(lanes[l].queue, t), Append(arrivals[l], t))
          BY <1>1, PushTail
        <4>2. Append(arrivals[l], t) \in Seq(Task)
          BY <1>1
        <4>3. ls[l].queue = Append(lanes[l].queue, t)
          BY <3>1, <3>2
        <4>4. QED
          BY <3>1, <4>1, <4>2, <4>3
      <3> HIDE DEF ls
      <3>5. QED
        BY <2>1, <3>3, <3>4, PumpTail
    <2>3. CASE l # LaneOf[t]
      <3>1. arrivals'[l] = arrivals[l] /\ ls[l] = lanes[l]
        BY <1>1, <2>1, <2>3 DEF TypeOK
      <3> HIDE DEF ls
      <3>2. QED
        BY <1>1, <2>1, <3>1, PumpTail
    <2>4. QED
      BY <2>2, <2>3
  <1>3. ASSUME NEW t \in Task, settleTask(t)
        PROVE  IsTail(lanes'[l].queue, arrivals'[l])
    <2> DEFINE done == [lanes EXCEPT ![LaneOf[t]].active = @ \ {t}]
    <2>1. UNCHANGED arrivals
      BY <1>3 DEF settleTask
    <2>2. CASE startGen[t] = lanes[LaneOf[t]].generation
      <3>1. pump(done, {LaneOf[t]}, executing \ {t})
        BY <1>3, <2>2 DEF settleTask
      <3>2. /\ done[l] \in LaneState
            /\ done[l].queue = lanes[l].queue
            /\ done[l].active \in SUBSET lanes[l].active
        BY <1>1 DEF TypeOK, LaneState
      <3>3. GoodLane(done[l])
        BY <1>1, <3>2, FS_Subset DEF GoodLane
      <3> HIDE DEF done
      <3>4. QED
        BY <1>1, <2>1, <3>1, <3>2, <3>3, PumpTail
    <2>3. CASE startGen[t] # lanes[LaneOf[t]].generation
      <3>1. UNCHANGED lanes
        BY <1>3, <2>3 DEF settleTask
      <3>2. QED
        BY <1>1, <2>1, <3>1
    <2>4. QED
      BY <2>2, <2>3
  <1>4. ASSUME NEW m \in Lane, NEW n \in ConcurrencyValues, setCommandLaneConcurrency(m, n)
        PROVE  IsTail(lanes'[l].queue, arrivals'[l])
    <2> DEFINE ls == [lanes EXCEPT ![m].maxConcurrent = Clamp(n)]
    <2>1. pump(ls, {m}, executing) /\ UNCHANGED arrivals
      BY <1>4 DEF setCommandLaneConcurrency
    <2>2. Clamp(n) \in Nat \ {0}
      BY CommandQueueAssumption DEF Clamp
    <2>3. /\ ls[l] \in LaneState
          /\ ls[l].queue = lanes[l].queue
          /\ ls[l].active = lanes[l].active
      BY <1>1, <2>2 DEF TypeOK, LaneState
    <2>4. GoodLane(ls[l])
      BY <1>1, <2>3 DEF GoodLane
    <2> HIDE DEF ls
    <2>5. QED
      BY <1>1, <2>1, <2>3, <2>4, PumpTail
  <1>5. ASSUME resetAllLanes
        PROVE  IsTail(lanes'[l].queue, arrivals'[l])
    <2> DEFINE ls == [x \in Lane |-> resetLane(lanes[x])]
    <2>1. pump(ls, Lane, executing) /\ UNCHANGED arrivals
      BY <1>5 DEF resetAllLanes
    <2>2. ls[l] = resetLane(lanes[l])
      OBVIOUS
    <2> HIDE DEF ls
    <2>3. GoodLane(ls[l]) /\ ls[l].queue = lanes[l].queue
      BY <1>1, <2>2, ResetLane, FS_EmptySet DEF GoodLane
    <2>4. QED
      BY <1>1, <2>1, <2>3, PumpTail
  <1>6. ASSUME NEW m \in Lane, clearCommandLane(m)
        PROVE  IsTail(lanes'[l].queue, arrivals'[l])
    <2>1. lanes' = [lanes EXCEPT ![m].queue = <<>>] /\ UNCHANGED arrivals
      BY <1>6 DEF clearCommandLane
    <2>2. lanes'[l].queue = <<>> \/ lanes'[l].queue = lanes[l].queue
      BY <1>1, <2>1 DEF TypeOK, LaneState
    <2>3. IsTail(<<>>, arrivals[l])
      BY <1>1, LenProperties DEF IsTail
    <2>4. QED
      BY <1>1, <2>1, <2>2, <2>3
  <1>7. CASE UNCHANGED <<lanes, arrivals>>
    BY <1>1, <1>7
  <1>8. CASE UNCHANGED vars
    BY <1>7, <1>8 DEF vars
  <1>9. CASE \/ \E t \in Task : refuseCommand(t)
             \/ \E w \in Waiter : waitForActiveTasks(w) \/ waiterTimeout(w)
             \/ markGatewayDraining
    BY <1>7, <1>9 DEF refuseCommand, waitForActiveTasks, waiterTimeout, markGatewayDraining
  <1>10. QED
    BY <1>2, <1>3, <1>4, <1>5, <1>6, <1>8, <1>9 DEF Next

\* Commands of a lane start in the order they were enqueued (queue.push and
\* queue.shift; clear and reset never reorder what they keep).
THEOREM Fifo == Spec => []FifoOrder
  <1>1. Init => QueueIsTail
    BY LenProperties, EmptySeq DEF Init, InitLane, QueueIsTail, IsTail
  <1>2. IInv /\ QueueIsTail => FifoOrder
    <2> SUFFICES ASSUME IInv, QueueIsTail, NEW l \in Lane
                 PROVE  \E k \in 0..Len(arrivals[l]) :
                            lanes[l].queue = SubSeq(arrivals[l], k + 1, Len(arrivals[l]))
      BY DEF FifoOrder
    <2>1. lanes[l].queue \in Seq(Task) /\ arrivals[l] \in Seq(Task)
      BY DEF IInv, TypeOK, LaneState
    <2>2. QED
      BY <2>1, TailIsSuffix DEF QueueIsTail
  <1>3. QED
    BY <1>1, <1>2, NextTail, Invariance, PTL DEF Spec

=============================================================================
