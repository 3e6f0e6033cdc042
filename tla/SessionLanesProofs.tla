------------------------- MODULE SessionLanesProofs -------------------------
(* Proofs, for every set of runs, sessions and lanes, every cap and any     *)
(* number of restarts, of the invariants of SessionLanes.                   *)
(*                                                                          *)
(* The argument.  SessionLanes takes the actions of CommandQueue as they    *)
(* are, so what CommandQueueProofs shows of one step of the queue holds of  *)
(* every step here: QP below is that module, and the first section says     *)
(* that its queue and the queue Q of SessionLanes are the same.  What is    *)
(* left to show is about the composition alone: a run that holds its global *)
(* lane holds its session's (Nested), a session lane has one slot, and the  *)
(* drain before a restart has counted every run that may still be in an     *)
(* agent turn (Counted).                                                    *)
EXTENDS SessionLanes, SequenceTheorems, FiniteSetTheorems, TLAPS

QP == INSTANCE CommandQueueProofs WITH
    Task <- Command, Waiter <- 1..MaxRestarts,
    ConcurrencyValues <- {}, MaxGeneration <- MaxRestarts

-----------------------------------------------------------------------------
(* One queue.                                                              *)

\* Q and QP agree on the pump of one lane.
LEMMA SameLane ==
    ASSUME NEW lane
    PROVE  /\ Q!Starts(lane) = QP!Starts(lane)
           /\ Q!Started(lane) = QP!Started(lane)
           /\ Q!drainLane(lane) = QP!drainLane(lane)
  <1>1. \A S : Q!Cardinality(S) = QP!Cardinality(S)
    BY DEF Q!Cardinality, QP!Cardinality
  <1>2. Q!Starts(lane) = QP!Starts(lane)
    BY <1>1 DEF Q!Starts, QP!Starts
  <1>3. QED
    BY <1>2 DEF Q!Started, QP!Started, Q!drainLane, QP!drainLane

\* The finite sets of the instances are those of the standard module.
LEMMA SameFinite == \A S : /\ QP!IsFiniteSet(S) <=> IsFiniteSet(S)
                           /\ QP!Cardinality(S) = Cardinality(S)
  <1>1. \A S : QP!IsFiniteSet(S) <=> IsFiniteSet(S)
    BY DEF QP!IsFiniteSet, IsFiniteSet
  <1>2. \A S : QP!Cardinality(S) = Cardinality(S)
    BY DEF QP!Cardinality, Cardinality
  <1>3. QED
    BY <1>1, <1>2

\* Q and QP agree on the pump, on the waiters and on what is active.
LEMMA SameEffects ==
    ASSUME NEW ls, NEW L, NEW alive
    PROVE  /\ Q!pump(ls, L, alive) <=> QP!pump(ls, L, alive)
           /\ Q!notifyActiveTaskWaiters(ls) <=> QP!notifyActiveTaskWaiters(ls)
           /\ Q!Active(ls) = QP!Active(ls)
  <1>1. Q!pump(ls, L, alive) <=> QP!pump(ls, L, alive)
    BY SameLane DEF Q!pump, QP!pump
  <1>2. Q!Active(ls) = QP!Active(ls)
    BY DEF Q!Active, QP!Active
  <1>3. Q!notifyActiveTaskWaiters(ls) <=> QP!notifyActiveTaskWaiters(ls)
    BY <1>2 DEF Q!notifyActiveTaskWaiters, QP!notifyActiveTaskWaiters
  <1>4. QED
    BY <1>1, <1>2, <1>3

\* Q and QP agree on the actions of one command.
LEMMA SameCommandActions ==
    ASSUME NEW c
    PROVE  /\ Q!refuseCommand(c) <=> QP!refuseCommand(c)
           /\ Q!enqueueCommandInLane(c) <=> QP!enqueueCommandInLane(c)
           /\ Q!settleTask(c) <=> QP!settleTask(c)
  <1>1. Q!refuseCommand(c) <=> QP!refuseCommand(c)
    BY DEF Q!refuseCommand, QP!refuseCommand
  <1>2. Q!enqueueCommandInLane(c) <=> QP!enqueueCommandInLane(c)
    BY SameEffects DEF Q!enqueueCommandInLane, QP!enqueueCommandInLane, Q!push, QP!push
  <1>3. Q!settleTask(c) <=> QP!settleTask(c)
    BY SameEffects DEF Q!settleTask, QP!settleTask
  <1>4. QED
    BY <1>1, <1>2, <1>3

\* Q and QP agree on the other actions SessionLanes takes.
LEMMA SameOtherActions ==
    ASSUME NEW l, NEW w
    PROVE  /\ Q!clearCommandLane(l) <=> QP!clearCommandLane(l)
           /\ Q!markGatewayDraining <=> QP!markGatewayDraining
           /\ Q!resetAllLanes <=> QP!resetAllLanes
           /\ Q!waitForActiveTasks(w) <=> QP!waitForActiveTasks(w)
           /\ Q!waiterTimeout(w) <=> QP!waiterTimeout(w)
  <1>1. Q!clearCommandLane(l) <=> QP!clearCommandLane(l)
    BY DEF Q!clearCommandLane, QP!clearCommandLane, Q!Range, QP!Range
  <1>2. Q!markGatewayDraining <=> QP!markGatewayDraining
    BY DEF Q!markGatewayDraining, QP!markGatewayDraining
  <1>3. Q!resetAllLanes <=> QP!resetAllLanes
    BY SameEffects DEF Q!resetAllLanes, QP!resetAllLanes, Q!resetLane, QP!resetLane
  <1>4. Q!waitForActiveTasks(w) <=> QP!waitForActiveTasks(w)
    BY SameEffects DEF Q!waitForActiveTasks, QP!waitForActiveTasks
  <1>5. Q!waiterTimeout(w) <=> QP!waiterTimeout(w)
    BY DEF Q!waiterTimeout, QP!waiterTimeout
  <1>6. QED
    BY <1>1, <1>2, <1>3, <1>4, <1>5

\* Every command has a lane, and that of a session command is its session's.
LEMMA Commands ==
    /\ LaneOf \in [Command -> Lane]
    /\ \A r \in Run : /\ <<r, "session">> \in Command
                      /\ <<r, "global">> \in Command
                      /\ LaneOf[<<r, "session">>] = resolveSessionLane(SessionOf[r])
                      /\ resolveSessionLane(SessionOf[r]) \in Lane
  <1>1. \A r \in Run : <<r, "session">> \in Command /\ <<r, "global">> \in Command
    BY DEF Command
  <1>2. \A r \in Run : /\ resolveSessionLane(SessionOf[r]) \in Lane
                       /\ globalLane(resolveGlobalLane(RequestedLane[r])) \in Lane
                       /\ globalLane("cron") \in Lane
    BY SessionLanesAssumption DEF Lane, resolveGlobalLane
  <1>3. ASSUME NEW c \in Command PROVE LaneOf[c] \in Lane
    <2>1. c[1] \in Run /\ c[2] \in {"session", "global", "cron"}
      BY SessionLanesAssumption DEF Command
    <2>2. QED
      BY <1>2, <2>1 DEF LaneOf
  <1>4. LaneOf \in [Command -> Lane]
    BY <1>3 DEF LaneOf
  <1>5. \A r \in Run : LaneOf[<<r, "session">>] = resolveSessionLane(SessionOf[r])
    BY <1>1 DEF LaneOf
  <1>6. QED
    BY <1>1, <1>2, <1>4, <1>5

\* The constants of the queue are what its proofs assume.
LEMMA QueueAssumption == QP!CommandQueueAssumption
  BY SessionLanesAssumption, Commands DEF QP!CommandQueueAssumption

-----------------------------------------------------------------------------
(* The run loop, and the steps of the queue.                               *)

\* What the run loop is at: the queue refuses commands from the mark to the
\* reset, and a drain is that of the latest restart.
Control ==
    /\ loop \in {"serving", "marked", "draining", "closed"}
    /\ restarts \in 0..MaxRestarts
    /\ loop # "serving" => restarts \in 1..MaxRestarts
    /\ gatewayDraining <=> loop # "serving"

\* What the commands do to the state of the run loop.
LEMMA CommandsKeepLoop == commands => UNCHANGED <<loop, restarts, gatewayDraining>>
  <1> SUFFICES ASSUME commands PROVE UNCHANGED <<loop, restarts, gatewayDraining>>
    OBVIOUS
  <1>1. ASSUME NEW c, enqueue(c) PROVE UNCHANGED gatewayDraining
    BY <1>1 DEF enqueue, Q!refuseCommand, Q!enqueueCommandInLane
  <1>2. ASSUME NEW r \in Run, runEmbeddedPiAgent(r)
        PROVE  UNCHANGED <<loop, restarts, gatewayDraining>>
    BY <1>1, <1>2 DEF runEmbeddedPiAgent
  <1>3. ASSUME NEW c \in Command, enqueueInner(c)
        PROVE  UNCHANGED <<loop, restarts, gatewayDraining>>
    BY <1>1, <1>3 DEF enqueueInner
  <1>4. ASSUME NEW c \in Command, settle(c)
        PROVE  UNCHANGED <<loop, restarts, gatewayDraining>>
    BY <1>4 DEF settle, Q!settleTask
  <1>5. ASSUME NEW s \in Session, clearSession(s)
        PROVE  UNCHANGED <<loop, restarts, gatewayDraining>>
    BY <1>5 DEF clearSession, Q!clearCommandLane
  <1>6. QED
    BY <1>2, <1>3, <1>4, <1>5 DEF commands

\* Every step keeps what the run loop is at.
LEMMA NextControl == Control /\ [Next]_vars => Control'
  <1> SUFFICES ASSUME Control, [Next]_vars PROVE Control'
    OBVIOUS
  <1> USE DEF Control
  <1>1. CASE commands
    BY <1>1, CommandsKeepLoop
  <1>2. CASE requestRestart
    BY <1>2, SessionLanesAssumption DEF requestRestart, Q!markGatewayDraining
  <1>3. CASE beginDrain
    BY <1>3 DEF beginDrain, Q!waitForActiveTasks
  <1>4. CASE drainTimeout
    BY <1>4 DEF drainTimeout, Q!waiterTimeout
  <1>5. CASE closeServer
    BY <1>5 DEF closeServer, queue
  <1>6. CASE nextIteration
    BY <1>6 DEF nextIteration, Q!resetAllLanes
  <1>7. CASE UNCHANGED vars
    BY <1>7 DEF vars, queue
  <1>8. QED
    BY <1>1, <1>2, <1>3, <1>4, <1>5, <1>6, <1>7 DEF Next

\* Every step here is a step of the queue, or leaves it alone.
LEMMA QueueStep == Control /\ [Next]_vars => [QP!Next]_(QP!vars)
  <1> SUFFICES ASSUME Control, [Next]_vars PROVE [QP!Next]_(QP!vars)
    OBVIOUS
  <1>1. ASSUME NEW c \in Command, enqueue(c) PROVE QP!Next
    BY <1>1, SameCommandActions DEF enqueue, QP!Next
  <1>2. CASE \E r \in Run : runEmbeddedPiAgent(r)
    <2>1. PICK r \in Run : runEmbeddedPiAgent(r)
      BY <1>2
    <2>2. /\ r \in CronRun => <<r, "cron">> \in Command
          /\ <<r, "session">> \in Command
      BY DEF Command
    <2>3. QED
      BY <1>1, <2>1, <2>2 DEF runEmbeddedPiAgent
  <1>3. CASE \E c \in Command : enqueueInner(c)
    <2>1. PICK c \in Command : enqueueInner(c)
      BY <1>3
    <2>2. inner(c) \subseteq Command
      BY SessionLanesAssumption DEF inner, Command
    <2>3. QED
      BY <1>1, <2>1, <2>2 DEF enqueueInner
  <1>4. CASE \E c \in Command : settle(c)
    BY <1>4, SameCommandActions DEF settle, QP!Next
  <1>5. CASE \E s \in Session : clearSession(s)
    <2>1. \A s \in Session : resolveSessionLane(s) \in Lane
      BY DEF Lane
    <2>2. QED
      BY <1>5, <2>1, SameOtherActions DEF clearSession, QP!Next
  <1>6. CASE requestRestart
    BY <1>6, SameOtherActions DEF requestRestart, QP!Next
  <1>7. CASE beginDrain \/ drainTimeout
    BY <1>7, SameOtherActions DEF beginDrain, drainTimeout, QP!Next, Control
  <1>8. CASE nextIteration
    BY <1>8, SameOtherActions DEF nextIteration, QP!Next
  <1>9. CASE closeServer \/ UNCHANGED vars
    BY <1>9 DEF closeServer, vars, queue, QP!vars
  <1>10. QED
    BY <1>2, <1>3, <1>4, <1>5, <1>6, <1>7, <1>8, <1>9 DEF Next, commands

\* So the queue's own invariant and cap hold of it here.
LEMMA QueueKept == Control /\ QP!IInv /\ [Next]_vars => QP!IInv' /\ QP!CapStep
  BY QueueStep, QueueAssumption, QP!NextIInv DEF QP!NextIInv

\* A cap that is set changes nothing else of a lane.
LEMMA CappedLane ==
    ASSUME NEW lane \in QP!LaneState, NEW n \in Nat \ {0}
    PROVE  LET capped == [lane EXCEPT !.maxConcurrent = n]
           IN  /\ capped \in QP!LaneState
               /\ capped.queue = lane.queue /\ capped.active = lane.active
               /\ capped.generation = lane.generation
  BY DEF QP!LaneState

\* The lanes of the gateway when it is up.
LEMMA InitLanes ==
    ASSUME Init
    PROVE  /\ lanes \in [Lane -> QP!LaneState]
           /\ \A l \in Lane : /\ lanes[l].queue = <<>> /\ lanes[l].active = {}
                              /\ lanes[l].generation = 0
           /\ \A s \in Session : lanes[resolveSessionLane(s)].maxConcurrent = 1
           /\ gatewayDraining = FALSE /\ executing = {}
           /\ startGen = [c \in Command |-> 0]
           /\ outcome = [c \in Command |-> "none"]
           /\ waiters = [w \in 1..MaxRestarts |-> [state |-> "none", ids |-> {}]]
           /\ arrivals = [l \in Lane |-> <<>>]
           /\ loop = "serving" /\ restarts = 0
  <1>1. /\ lanes = [l \in Lane |-> IF l[1] = ""
                    THEN [Q!InitLane EXCEPT !.maxConcurrent = Concurrency[l[2]]]
                    ELSE Q!InitLane]
        /\ gatewayDraining = FALSE /\ executing = {}
        /\ startGen = [c \in Command |-> 0]
        /\ outcome = [c \in Command |-> "none"]
        /\ waiters = [w \in 1..MaxRestarts |-> [state |-> "none", ids |-> {}]]
        /\ arrivals = [l \in Lane |-> <<>>]
        /\ loop = "serving" /\ restarts = 0
    BY DEF Init, Q!Init
  <1>2. Q!InitLane \in QP!LaneState /\ Q!InitLane.queue = <<>>
        /\ Q!InitLane.active = {} /\ Q!InitLane.generation = 0 /\ Q!InitLane.maxConcurrent = 1
    BY EmptySeq DEF Q!InitLane, QP!LaneState
  <1>3. ASSUME NEW n \in Nat \ {0}
        PROVE  LET lane == [Q!InitLane EXCEPT !.maxConcurrent = n]
               IN  /\ lane \in QP!LaneState /\ lane.queue = <<>>
                   /\ lane.active = {} /\ lane.generation = 0
    BY <1>2, CappedLane
  <1>4. \A l \in Lane : l[1] = "" => Concurrency[l[2]] \in Nat \ {0}
    <2>1. ASSUME NEW l \in Lane, l[1] = "" PROVE \E g \in GlobalLane : l[2] = g
      <3>1. CASE \E g \in GlobalLane : l = <<"", g>>
        <4>1. PICK g \in GlobalLane : l = <<"", g>>
          BY <3>1
        <4>2. <<"", g>>[2] = g
          OBVIOUS
        <4>3. QED
          BY <4>1, <4>2
      <3>2. CASE \E s \in Session : l = <<"session:", s>>
        <4>1. PICK s \in Session : l = <<"session:", s>>
          BY <3>2
        <4>2. <<"session:", s>>[1] # ""
          OBVIOUS
        <4>3. QED
          BY <4>1, <4>2, <2>1
      <3>3. QED
        BY <3>1, <3>2 DEF Lane, globalLane, resolveSessionLane
    <2>2. QED
      BY <2>1, SessionLanesAssumption
  <1>5. \A l \in Lane : /\ lanes[l] \in QP!LaneState /\ lanes[l].queue = <<>>
                        /\ lanes[l].active = {} /\ lanes[l].generation = 0
    BY <1>1, <1>2, <1>3, <1>4
  <1>6. \A s \in Session : /\ resolveSessionLane(s) \in Lane
                           /\ resolveSessionLane(s)[1] # ""
    BY DEF Lane, resolveSessionLane
  <1>7. QED
    BY <1>1, <1>2, <1>5, <1>6

\* The queue begins in its invariant.
LEMMA InitQueue == Init => QP!IInv
  <1> SUFFICES ASSUME Init PROVE QP!IInv
    OBVIOUS
  <1>1. DOMAIN (<<>>) = {} /\ QP!Range(<<>>) = {}
    BY DEF QP!Range
  <1>2. \A l \in Lane : QP!GoodLane(lanes[l])
    <2>1. QP!IsFiniteSet({})
      BY SameFinite, FS_EmptySet
    <2>2. QED
      BY <2>1, InitLanes DEF QP!GoodLane
  <1>3. QP!Sound(lanes, executing, startGen)
    BY <1>1, <1>2, InitLanes DEF QP!Sound, QP!Distinct
  <1>4. QP!Held(lanes, executing) = {}
    BY <1>1, InitLanes DEF QP!Held
  <1>5. \A l \in Lane : QP!Busy(lanes[l])
    BY InitLanes DEF QP!Busy
  <1>6. QP!TypeOK
    <2>1. arrivals \in [Lane -> Seq(Command)]
      <3>1. <<>> \in Seq(Command)
        BY EmptySeq
      <3>2. QED
        BY <3>1, InitLanes
    <2>2. /\ startGen \in [Command -> Nat]
          /\ outcome \in [Command -> {"none", "pending", "settled", "cleared", "refused"}]
      BY InitLanes
    <2>3. waiters \in [1..MaxRestarts -> [state : {"none", "waiting", "drained", "timedOut"},
                                         ids : SUBSET Command]]
      BY InitLanes
    <2>4. lanes \in [Lane -> QP!LaneState] /\ gatewayDraining \in BOOLEAN
          /\ executing \in SUBSET Command
      BY InitLanes
    <2>5. QED
      BY <2>1, <2>2, <2>3, <2>4 DEF QP!TypeOK
  <1>7. QED
    BY <1>3, <1>4, <1>5, <1>6, InitLanes
       DEF QP!IInv, QP!PendingIsHeld, QP!SnapshotStarted, QP!WaiterNotForgotten,
           QP!WaiterNotMisled

\* What the queue's invariant says in the terms used below.
LEMMA QueueFacts ==
    ASSUME QP!IInv
    PROVE  /\ lanes \in [Lane -> QP!LaneState]
           /\ executing \subseteq Command
           /\ startGen \in [Command -> Nat]
           /\ outcome \in [Command -> {"none", "pending", "settled", "cleared", "refused"}]
           /\ waiters \in [1..MaxRestarts ->
                  [state : {"none", "waiting", "drained", "timedOut"}, ids : SUBSET Command]]
           /\ \A c \in executing : outcome[c] = "pending"
           /\ \A c \in executing : startGen[c] <= lanes[LaneOf[c]].generation
           /\ \A l \in Lane : \A c \in QP!Range(lanes[l].queue) :
                  c \in Command /\ c \notin executing /\ LaneOf[c] = l
           /\ \A l \in Lane : /\ IsFiniteSet(lanes[l].active)
                              /\ lanes[l].active = {c \in executing :
                                   LaneOf[c] = l /\ startGen[c] = lanes[l].generation}
           /\ \A w \in 1..MaxRestarts : waiters[w].state = "drained" =>
                  \A c \in waiters[w].ids : \/ outcome[c] = "settled"
                                           \/ startGen[c] < lanes[LaneOf[c]].generation
  <1>1. QP!TypeOK /\ QP!Sound(lanes, executing, startGen)
    BY DEF QP!IInv
  <1>2. \A c \in executing : outcome[c] = "pending"
    BY <1>1 DEF QP!IInv, QP!PendingIsHeld, QP!Held, QP!TypeOK
  <1>3. \A l \in Lane : IsFiniteSet(lanes[l].active)
    BY <1>1, SameFinite DEF QP!Sound, QP!GoodLane
  <1>4. \A w \in 1..MaxRestarts : waiters[w].state = "drained" =>
            \A c \in waiters[w].ids : \/ outcome[c] = "settled"
                                     \/ startGen[c] < lanes[LaneOf[c]].generation
    BY DEF QP!IInv, QP!WaiterNotMisled
  <1>5. \A l \in Lane : \A c \in QP!Range(lanes[l].queue) : c \in Command
    BY <1>1, LenProperties DEF QP!TypeOK, QP!LaneState, QP!Range
  <1>6. /\ \A l \in Lane : \A c \in QP!Range(lanes[l].queue) : c \notin executing /\ LaneOf[c] = l
        /\ \A l \in Lane : lanes[l].active = {c \in executing :
                            LaneOf[c] = l /\ startGen[c] = lanes[l].generation}
        /\ \A c \in executing : startGen[c] <= lanes[LaneOf[c]].generation
    BY <1>1 DEF QP!Sound
  <1>7. QED
    BY <1>1, <1>2, <1>3, <1>4, <1>5, <1>6 DEF QP!TypeOK

-----------------------------------------------------------------------------
(* What a step of the queue does to the running commands.                  *)

\* Caps stay; of the running commands at most those of done end, and those
\* that go on belong to the life they started in.
Calm(done) ==
    /\ \A l \in Lane : lanes'[l].maxConcurrent = lanes[l].maxConcurrent
    /\ executing \ done \subseteq executing'
    /\ \A c \in executing : startGen'[c] = startGen[c]

SameLife == \A l \in Lane : lanes'[l].generation = lanes[l].generation

\* What the pump starts was queued in the lane.
LEMMA StartedWereQueued ==
    ASSUME NEW lane \in QP!LaneState, IsFiniteSet(lane.active)
    PROVE  QP!Started(lane) \subseteq QP!Range(lane.queue)
  <1>1. QP!Cardinality(lane.active) \in Nat
    BY SameFinite, FS_CardinalityType
  <1>2. lane.maxConcurrent \in Nat /\ Len(lane.queue) \in Nat
        /\ DOMAIN lane.queue = 1..Len(lane.queue)
    BY LenProperties DEF QP!LaneState
  <1>3. QP!Starts(lane) \in 0..Len(lane.queue)
    BY <1>1, <1>2 DEF QP!Starts
  <1>4. QED
    BY <1>2, <1>3 DEF QP!Started, QP!Range

\* The pump of edited lanes: caps and generations are those of the edit, and
\* what runs goes on in the life it started in.
LEMMA Pumped ==
    ASSUME QP!IInv, NEW ls \in [Lane -> QP!LaneState], NEW L \in SUBSET Lane,
           NEW alive, QP!pump(ls, L, alive),
           \A l \in L : /\ IsFiniteSet(ls[l].active)
                        /\ \A c \in QP!Range(ls[l].queue) : c \notin executing
    PROVE  /\ \A l \in Lane : /\ lanes'[l].maxConcurrent = ls[l].maxConcurrent
                              /\ lanes'[l].generation = ls[l].generation
           /\ alive \subseteq executing'
           /\ \A c \in executing : startGen'[c] = startGen[c]
  <1>1. \A lane \in QP!LaneState : /\ QP!drainLane(lane).maxConcurrent = lane.maxConcurrent
                                  /\ QP!drainLane(lane).generation = lane.generation
    BY DEF QP!drainLane, QP!LaneState
  <1>2. \A l \in Lane : /\ lanes'[l].maxConcurrent = ls[l].maxConcurrent
                        /\ lanes'[l].generation = ls[l].generation
    <2>1. \A l \in Lane : lanes'[l] = IF l \in L THEN QP!drainLane(ls[l]) ELSE ls[l]
      BY DEF QP!pump
    <2>2. QED
      BY <1>1, <2>1
  <1>3. alive \subseteq executing'
    BY DEF QP!pump
  <1>4. ASSUME NEW c \in executing PROVE startGen'[c] = startGen[c]
    <2>1. \A l \in L : QP!Started(ls[l]) \subseteq QP!Range(ls[l].queue)
      BY StartedWereQueued
    <2>2. c \notin UNION {QP!Started(ls[l]) : l \in L}
      BY <2>1, <1>4
    <2>3. c \in Command
      BY QueueFacts
    <2>4. QED
      BY <2>2, <2>3 DEF QP!pump
  <1>5. QED
    BY <1>2, <1>3, <1>4

\* A push changes only the queue of a lane.
LEMMA PushedLane ==
    ASSUME NEW lane \in QP!LaneState, NEW c \in Command
    PROVE  /\ QP!push(lane, c) \in QP!LaneState
           /\ QP!push(lane, c).queue = Append(lane.queue, c)
           /\ QP!push(lane, c).active = lane.active
           /\ QP!push(lane, c).maxConcurrent = lane.maxConcurrent
           /\ QP!push(lane, c).generation = lane.generation
  <1>1. Append(lane.queue, c) \in Seq(Command)
    BY AppendProperties DEF QP!LaneState
  <1>2. QED
    BY <1>1 DEF QP!push, QP!LaneState

\* enqueueCommandInLane.
LEMMA EnqueueEffect ==
    ASSUME QP!IInv, NEW c \in Command, Q!enqueueCommandInLane(c)
    PROVE  /\ Calm({}) /\ SameLife /\ ~gatewayDraining
           /\ outcome' = [outcome EXCEPT ![c] = "pending"]
           /\ outcome[c] = "none" /\ UNCHANGED waiters
  <1> DEFINE l  == LaneOf[c]
             ls == [lanes EXCEPT ![l] = QP!push(@, c)]
  <1>1. /\ QP!pump(ls, {l}, executing) /\ ~gatewayDraining /\ outcome[c] = "none"
        /\ outcome' = [outcome EXCEPT ![c] = "pending"] /\ UNCHANGED waiters
    BY SameCommandActions DEF QP!enqueueCommandInLane
  <1>2. l \in Lane /\ lanes[l] \in QP!LaneState /\ lanes[l].queue \in Seq(Command)
    BY Commands, QueueFacts DEF QP!LaneState
  <1>3. /\ QP!push(lanes[l], c) \in QP!LaneState
        /\ QP!push(lanes[l], c).queue = Append(lanes[l].queue, c)
        /\ QP!push(lanes[l], c).active = lanes[l].active
        /\ QP!push(lanes[l], c).maxConcurrent = lanes[l].maxConcurrent
        /\ QP!push(lanes[l], c).generation = lanes[l].generation
    BY <1>2, PushedLane
  <1>4. \A d \in QP!Range(Append(lanes[l].queue, c)) : d \in QP!Range(lanes[l].queue) \/ d = c
    BY <1>2, AppendProperties, LenProperties DEF QP!Range
  <1>5. c \notin executing
    BY <1>1, QueueFacts
  <1>6. /\ ls \in [Lane -> QP!LaneState]
        /\ ls[l] = QP!push(lanes[l], c)
        /\ \A m \in Lane : m # l => ls[m] = lanes[m]
    BY <1>2, <1>3, QueueFacts
  <1>7. IsFiniteSet(ls[l].active) /\ \A d \in QP!Range(ls[l].queue) : d \notin executing
    BY <1>2, <1>3, <1>4, <1>5, <1>6, QueueFacts
  <1> HIDE DEF ls, l
  <1>8. /\ \A m \in Lane : /\ lanes'[m].maxConcurrent = ls[m].maxConcurrent
                           /\ lanes'[m].generation = ls[m].generation
        /\ executing \subseteq executing'
        /\ \A d \in executing : startGen'[d] = startGen[d]
    <2>1. {l} \in SUBSET Lane
      BY <1>2
    <2>2. \A m \in {l} : /\ IsFiniteSet(ls[m].active)
                         /\ \A d \in QP!Range(ls[m].queue) : d \notin executing
      BY <1>7
    <2>3. QED
      BY <1>1, <1>6, <2>1, <2>2, Pumped
  <1>9. QED
    BY <1>1, <1>3, <1>6, <1>8 DEF Calm, SameLife

\* A waiter that was told nothing false: it waited before, for the same ids.
WaitersKept == \A w \in 1..MaxRestarts :
    waiters'[w].state \in {"waiting", "drained"} =>
        /\ waiters[w].state \in {"waiting", "drained"}
        /\ waiters'[w].ids = waiters[w].ids

\* notifyActiveTaskWaiters only turns a wait into an answer.
LEMMA NotifyEffect ==
    ASSUME QP!IInv, NEW ls, QP!notifyActiveTaskWaiters(ls)
    PROVE  WaitersKept
  <1> SUFFICES ASSUME NEW w \in 1..MaxRestarts, waiters'[w].state \in {"waiting", "drained"}
               PROVE  /\ waiters[w].state \in {"waiting", "drained"}
                      /\ waiters'[w].ids = waiters[w].ids
    BY DEF WaitersKept
  <1>1. waiters[w] \in [state : {"none", "waiting", "drained", "timedOut"}, ids : SUBSET Command]
    BY QueueFacts
  <1>2. \/ waiters'[w] = waiters[w]
        \/ waiters[w].state = "waiting" /\ waiters'[w] = [waiters[w] EXCEPT !.state = "drained"]
    BY DEF QP!notifyActiveTaskWaiters
  <1>3. QED
    BY <1>1, <1>2

\* The end of a command changes only the active set of a lane.
LEMMA FreedLane ==
    ASSUME NEW lane \in QP!LaneState, IsFiniteSet(lane.active), NEW c
    PROVE  LET freed == [lane EXCEPT !.active = @ \ {c}]
           IN  /\ freed \in QP!LaneState
               /\ freed.queue = lane.queue
               /\ IsFiniteSet(freed.active)
               /\ freed.maxConcurrent = lane.maxConcurrent
               /\ freed.generation = lane.generation
  <1>1. IsFiniteSet(lane.active \ {c})
    BY FS_RemoveElement
  <1>2. QED
    BY <1>1 DEF QP!LaneState

\* The end of a command.
LEMMA SettleEffect ==
    ASSUME QP!IInv, NEW c \in Command, Q!settleTask(c)
    PROVE  /\ Calm({c}) /\ SameLife /\ c \in executing
           /\ outcome' = [outcome EXCEPT ![c] = "settled"]
           /\ WaitersKept
  <1> DEFINE l    == LaneOf[c]
             done == [lanes EXCEPT ![l].active = @ \ {c}]
  <1>1. c \in executing /\ outcome' = [outcome EXCEPT ![c] = "settled"]
    BY SameCommandActions DEF QP!settleTask
  <1>2. l \in Lane /\ lanes[l] \in QP!LaneState /\ IsFiniteSet(lanes[l].active)
    BY Commands, QueueFacts
  <1>3. CASE /\ QP!notifyActiveTaskWaiters(done)
             /\ QP!pump(done, {l}, executing \ {c})
    <2>1. /\ done[l] = [lanes[l] EXCEPT !.active = @ \ {c}]
          /\ \A m \in Lane : m # l => done[m] = lanes[m]
      BY <1>2, QueueFacts
    <2>2. /\ done[l] \in QP!LaneState
          /\ done[l].queue = lanes[l].queue
          /\ IsFiniteSet(done[l].active)
          /\ done[l].maxConcurrent = lanes[l].maxConcurrent
          /\ done[l].generation = lanes[l].generation
      BY <1>2, <2>1, FreedLane
    <2>3. done \in [Lane -> QP!LaneState]
      BY <1>2, <2>1, <2>2, QueueFacts
    <2>4. WaitersKept
      BY <1>3, NotifyEffect
    <2> HIDE DEF done, l
    <2>5. {l} \in SUBSET Lane
      BY <1>2
    <2>6. \A m \in {l} : /\ IsFiniteSet(done[m].active)
                         /\ \A d \in QP!Range(done[m].queue) : d \notin executing
      BY <1>2, <2>2, QueueFacts
    <2>7. /\ \A m \in Lane : /\ lanes'[m].maxConcurrent = done[m].maxConcurrent
                             /\ lanes'[m].generation = done[m].generation
          /\ executing \ {c} \subseteq executing'
          /\ \A d \in executing : startGen'[d] = startGen[d]
      BY <1>3, <2>3, <2>5, <2>6, Pumped
    <2>8. QED
      BY <1>1, <2>1, <2>2, <2>4, <2>7 DEF Calm, SameLife
  <1>4. CASE executing' = executing \ {c} /\ UNCHANGED <<lanes, startGen, waiters>>
    BY <1>1, <1>4 DEF Calm, SameLife, WaitersKept
  <1>5. QED
    BY <1>3, <1>4, SameCommandActions DEF QP!settleTask

\* clearCommandLane.
LEMMA ClearEffect ==
    ASSUME QP!IInv, NEW l \in Lane, Q!clearCommandLane(l)
    PROVE  /\ Calm({}) /\ SameLife
           /\ \A c \in Command : outcome'[c] = "pending" => outcome[c] = "pending"
           /\ UNCHANGED waiters
  <1>1. /\ lanes' = [lanes EXCEPT ![l].queue = <<>>]
        /\ outcome' = [c \in Command |-> IF c \in QP!Range(lanes[l].queue) THEN "cleared"
                                                                         ELSE outcome[c]]
        /\ UNCHANGED <<executing, startGen, waiters>>
    BY SameOtherActions DEF QP!clearCommandLane
  <1>2. lanes \in [Lane -> QP!LaneState]
    BY QueueFacts
  <1>3. \A m \in Lane : /\ lanes'[m].maxConcurrent = lanes[m].maxConcurrent
                        /\ lanes'[m].generation = lanes[m].generation
    BY <1>1, <1>2 DEF QP!LaneState
  <1>4. \A c \in Command : outcome'[c] = "pending" => outcome[c] = "pending"
    BY <1>1
  <1>5. QED
    BY <1>1, <1>3, <1>4 DEF Calm, SameLife

\* The reset of a lane keeps its queue and its cap.
LEMMA ResetOneLane ==
    ASSUME NEW lane \in QP!LaneState
    PROVE  /\ QP!resetLane(lane) \in QP!LaneState
           /\ QP!resetLane(lane).queue = lane.queue
           /\ QP!resetLane(lane).active = {}
           /\ QP!resetLane(lane).maxConcurrent = lane.maxConcurrent
  <1> DEFINE bumped == [lane EXCEPT !.generation = @ + 1]
  <1>1. /\ bumped \in QP!LaneState /\ bumped.queue = lane.queue
        /\ bumped.maxConcurrent = lane.maxConcurrent
    BY DEF QP!LaneState
  <1>2. QP!resetLane(lane) = [bumped EXCEPT !.active = {}]
    BY DEF QP!resetLane, QP!LaneState
  <1> HIDE DEF bumped
  <1>3. QED
    BY <1>1, <1>2 DEF QP!LaneState

\* resetAllLanes.
LEMMA ResetEffect ==
    ASSUME QP!IInv, Q!resetAllLanes
    PROVE  Calm({}) /\ UNCHANGED outcome
  <1> DEFINE ls == [l \in Lane |-> QP!resetLane(lanes[l])]
  <1>1. QP!pump(ls, Lane, executing) /\ UNCHANGED outcome
    BY SameOtherActions DEF QP!resetAllLanes
  <1>2. \A l \in Lane : /\ ls[l] \in QP!LaneState
                        /\ ls[l].queue = lanes[l].queue
                        /\ ls[l].active = {}
                        /\ ls[l].maxConcurrent = lanes[l].maxConcurrent
    BY ResetOneLane, QueueFacts
  <1>3. ls \in [Lane -> QP!LaneState]
    BY <1>2
  <1> HIDE DEF ls
  <1>4. \A l \in Lane : /\ IsFiniteSet(ls[l].active)
                        /\ \A c \in QP!Range(ls[l].queue) : c \notin executing
    BY <1>2, FS_EmptySet, QueueFacts
  <1>5. /\ \A l \in Lane : lanes'[l].maxConcurrent = ls[l].maxConcurrent
        /\ executing \subseteq executing'
        /\ \A c \in executing : startGen'[c] = startGen[c]
    BY <1>1, <1>3, <1>4, Pumped
  <1>6. QED
    BY <1>1, <1>2, <1>5 DEF Calm

-----------------------------------------------------------------------------
(* The invariant of the composition.                                       *)

\* A run waits for or is in its agent turn only under its session command.
Nested == \A r \in Run :
    outcome[<<r, "global">>] = "pending" => <<r, "session">> \in executing

\* The lane of a session has one slot.
OneSlot == \A s \in Session :
    /\ lanes[resolveSessionLane(s)].maxConcurrent = 1
    /\ Cardinality(lanes[resolveSessionLane(s)].active) <= 1

\* Before a restart nothing is of an earlier life.
FirstLife == restarts = 0 => \A l \in Lane : lanes[l].generation = 0

\* The drain waits for, or waited for, every run of this life whose agent
\* turn is queued or under way.
Counted ==
    loop \in {"draining", "closed"} /\ waiters[restarts].state \in {"waiting", "drained"} =>
        \A r \in Run :
            /\ outcome[<<r, "global">>] = "pending"
            /\ <<r, "session">> \in lanes[LaneOf[<<r, "session">>]].active
            => <<r, "session">> \in waiters[restarts].ids

LInv == Control /\ QP!IInv /\ Nested /\ OneSlot /\ FirstLife /\ Counted

\* What the commands do together: a session command that ends has its inner
\* command answered, and an agent turn is asked for by a running session
\* command while the gateway is not draining.
CommandsDo(done) ==
    /\ Calm(done) /\ SameLife /\ WaitersKept
    /\ \A r \in Run : <<r, "session">> \in done => outcome[<<r, "global">>] # "pending"
    /\ \A r \in Run : outcome'[<<r, "global">>] = "pending" =>
          \/ outcome[<<r, "global">>] = "pending"
          \/ ~gatewayDraining /\ <<r, "session">> \in executing /\ <<r, "session">> \notin done

\* A command is enqueued or refused: only its own outcome changes.
LEMMA AskEffect ==
    ASSUME QP!IInv, NEW c \in Command, enqueue(c)
    PROVE  /\ Calm({}) /\ SameLife /\ WaitersKept
           /\ \A d \in Command : outcome'[d] = "pending" =>
                  outcome[d] = "pending" \/ (d = c /\ ~gatewayDraining)
  <1>1. outcome \in [Command -> {"none", "pending", "settled", "cleared", "refused"}]
    BY QueueFacts
  <1>2. CASE Q!refuseCommand(c)
    <2>1. /\ UNCHANGED <<lanes, executing, startGen, waiters>>
          /\ outcome' = [outcome EXCEPT ![c] = "refused"]
      BY <1>2, SameCommandActions DEF QP!refuseCommand
    <2>2. \A d \in Command : outcome'[d] = "pending" => outcome[d] = "pending"
      BY <1>1, <2>1
    <2>3. QED
      BY <2>1, <2>2 DEF Calm, SameLife, WaitersKept
  <1>3. CASE Q!enqueueCommandInLane(c)
    <2>1. /\ Calm({}) /\ SameLife /\ ~gatewayDraining /\ UNCHANGED waiters
          /\ outcome' = [outcome EXCEPT ![c] = "pending"]
      BY <1>3, EnqueueEffect
    <2>2. \A d \in Command : outcome'[d] = "pending" => outcome[d] = "pending" \/ d = c
      BY <1>1, <2>1
    <2>3. QED
      BY <2>1, <2>2 DEF WaitersKept
  <1>4. QED
    BY <1>2, <1>3 DEF enqueue

\* Every command step is one of CommandsDo.
LEMMA CommandsEffect ==
    ASSUME QP!IInv, commands
    PROVE  \E done \in SUBSET Command : CommandsDo(done)
  <1>1. CASE \E r \in Run : runEmbeddedPiAgent(r)
    <2>1. PICK r \in Run : runEmbeddedPiAgent(r)
      BY <1>1
    <2>2. PICK c \in Command : enqueue(c) /\ c[2] # "global"
      BY <2>1 DEF runEmbeddedPiAgent, Command
    <2>3. \A q \in Run : <<q, "global">> \in Command /\ <<q, "global">> # c
      <3>1. \A q \in Run : <<q, "global">>[2] = "global"
        OBVIOUS
      <3>2. QED
        BY <2>2, <3>1, Commands
    <2>4. CommandsDo({})
      BY <2>2, <2>3, AskEffect DEF CommandsDo
    <2>5. QED
      BY <2>4
  <1>2. CASE \E c \in Command : enqueueInner(c)
    <2>1. PICK c \in Command : enqueueInner(c)
      BY <1>2
    <2>2. PICK d \in inner(c) : enqueue(d)
      BY <2>1 DEF enqueueInner
    <2>3. d \in Command
      BY SessionLanesAssumption DEF inner, Command
    <2>4. \A q \in Run : <<q, "global">> = d => c = <<q, "session">>
      BY DEF inner, Command
    <2>5. c \in executing
      BY <2>1 DEF enqueueInner
    <2>6. CommandsDo({})
      BY <2>2, <2>3, <2>4, <2>5, AskEffect, Commands DEF CommandsDo
    <2>7. QED
      BY <2>6
  <1>3. CASE \E c \in Command : settle(c)
    <2>1. PICK c \in Command : settle(c)
      BY <1>3
    <2>2. /\ Calm({c}) /\ SameLife /\ WaitersKept
          /\ outcome' = [outcome EXCEPT ![c] = "settled"]
      BY <2>1, SettleEffect DEF settle
    <2>3. ASSUME NEW r \in Run, <<r, "session">> = c PROVE outcome[<<r, "global">>] # "pending"
      <3>1. c[2] = "session" /\ c[1] = r
        BY <2>3
      <3>2. inner(c) = {<<r, "global">>}
        BY <3>1 DEF inner
      <3>3. Answered(<<r, "global">>)
        BY <2>1, <3>1, <3>2 DEF settle, mayReturn
      <3>4. QED
        BY <3>3 DEF Answered
    <2>4. \A d \in Command : outcome'[d] = "pending" => outcome[d] = "pending"
      BY <2>2, QueueFacts
    <2>5. CommandsDo({c})
      BY <2>2, <2>3, <2>4, Commands DEF CommandsDo
    <2>6. QED
      BY <2>5
  <1>4. CASE \E s \in Session : clearSession(s)
    <2>1. PICK s \in Session : Q!clearCommandLane(resolveSessionLane(s))
      BY <1>4 DEF clearSession
    <2>2. resolveSessionLane(s) \in Lane
      BY DEF Lane
    <2>3. CommandsDo({})
      BY <2>1, <2>2, ClearEffect, Commands DEF CommandsDo, WaitersKept
    <2>4. QED
      BY <2>3
  <1>5. QED
    BY <1>1, <1>2, <1>3, <1>4 DEF commands

\* What the run loop does to the commands: nothing, but for the reset.
LEMMA LoopEffect ==
    ASSUME QP!IInv,
           requestRestart \/ beginDrain \/ drainTimeout \/ closeServer \/ nextIteration \/ UNCHANGED vars
    PROVE  /\ Calm({}) /\ UNCHANGED outcome
           /\ UNCHANGED lanes \/ nextIteration
  <1>1. CASE nextIteration
    BY <1>1, ResetEffect DEF nextIteration
  <1>2. CASE UNCHANGED <<lanes, executing, startGen, outcome>>
    BY <1>2 DEF Calm
  <1>3. QED
    BY <1>1, <1>2
       DEF requestRestart, Q!markGatewayDraining, beginDrain, Q!waitForActiveTasks,
           drainTimeout, Q!waiterTimeout, closeServer, vars, queue

\* A run's session command outlives its global one.
LEMMA NextNested == LInv /\ [Next]_vars => Nested'
  <1> SUFFICES ASSUME LInv, [Next]_vars, NEW r \in Run,
                      outcome'[<<r, "global">>] = "pending"
               PROVE  <<r, "session">> \in executing'
    BY DEF Nested
  <1>1. CASE commands
    <2>1. PICK done \in SUBSET Command : CommandsDo(done)
      BY <1>1, CommandsEffect DEF LInv
    <2>2. <<r, "session">> \in executing /\ <<r, "session">> \notin done
      BY <2>1 DEF CommandsDo, LInv, Nested
    <2>3. QED
      BY <2>1, <2>2 DEF CommandsDo, Calm
  <1>2. CASE ~commands
    <2>1. Calm({}) /\ UNCHANGED outcome
      BY <1>2, LoopEffect DEF LInv, Next
    <2>2. QED
      BY <2>1 DEF Calm, LInv, Nested
  <1>3. QED
    BY <1>1, <1>2

\* Session lanes keep their one slot: the queue's cap.
LEMMA NextOneSlot == LInv /\ [Next]_vars => OneSlot'
  <1> SUFFICES ASSUME LInv, [Next]_vars, NEW s \in Session
               PROVE  /\ lanes'[resolveSessionLane(s)].maxConcurrent = 1
                      /\ Cardinality(lanes'[resolveSessionLane(s)].active) <= 1
    BY DEF OneSlot
  <1> DEFINE l == resolveSessionLane(s)
  <1>1. l \in Lane
    BY DEF Lane
  <1>2. lanes[l].maxConcurrent = 1 /\ Cardinality(lanes[l].active) <= 1
    BY DEF LInv, OneSlot
  <1>3. lanes'[l].maxConcurrent = lanes[l].maxConcurrent
    <2>1. CASE commands
      BY <1>1, <2>1, CommandsEffect DEF LInv, CommandsDo, Calm
    <2>2. CASE ~commands
      BY <1>1, <2>2, LoopEffect DEF LInv, Next, Calm
    <2>3. QED
      BY <2>1, <2>2
  <1>4. QP!CapStep
    BY QueueKept DEF LInv
  <1> HIDE DEF l
  <1>5. CASE lanes'[l].active \subseteq lanes[l].active
    <2>1. IsFiniteSet(lanes[l].active)
      BY <1>1, QueueFacts DEF LInv
    <2>2. /\ Cardinality(lanes'[l].active) <= Cardinality(lanes[l].active)
          /\ Cardinality(lanes[l].active) \in Nat
          /\ Cardinality(lanes'[l].active) \in Nat
      BY <1>5, <2>1, FS_Subset, FS_CardinalityType
    <2>3. QED
      BY <1>2, <1>3, <2>2 DEF l
  <1>6. CASE ~(lanes'[l].active \subseteq lanes[l].active)
    <2>1. QP!Cardinality(lanes'[l].active) <= lanes'[l].maxConcurrent
      BY <1>1, <1>4, <1>6 DEF QP!CapStep
    <2>2. QP!Cardinality(lanes'[l].active) = Cardinality(lanes'[l].active)
      BY SameFinite
    <2>3. QED
      BY <1>2, <1>3, <2>1, <2>2 DEF l
  <1>7. QED
    BY <1>5, <1>6

\* Generations change by restarts only.
LEMMA NextFirstLife == LInv /\ [Next]_vars => FirstLife'
  <1> SUFFICES ASSUME LInv, [Next]_vars, restarts' = 0, NEW l \in Lane
               PROVE  lanes'[l].generation = 0
    BY DEF FirstLife
  <1>1. CASE commands
    <2>1. SameLife
      BY <1>1, CommandsEffect DEF LInv, CommandsDo
    <2>2. restarts = 0
      BY <1>1, CommandsKeepLoop
    <2>3. QED
      BY <2>1, <2>2 DEF SameLife, LInv, FirstLife
  <1>2. CASE ~commands
    <2>1. restarts = 0 /\ ~nextIteration
      BY <1>2 DEF LInv, Control, Next, requestRestart, beginDrain, drainTimeout,
                  closeServer, nextIteration, vars
    <2>2. UNCHANGED lanes
      BY <1>2, <2>1, LoopEffect DEF LInv, Next
    <2>3. QED
      BY <2>1, <2>2 DEF LInv, FirstLife
  <1>3. QED
    BY <1>1, <1>2

\* The snapshot of the drain has the runs that can still be in a turn.
LEMMA NextCounted == LInv /\ QP!IInv' /\ [Next]_vars => Counted'
  <1> SUFFICES ASSUME LInv, QP!IInv', [Next]_vars, NEW r \in Run,
                      loop' \in {"draining", "closed"},
                      waiters'[restarts'].state \in {"waiting", "drained"},
                      outcome'[<<r, "global">>] = "pending",
                      <<r, "session">> \in lanes'[LaneOf[<<r, "session">>]].active
               PROVE  <<r, "session">> \in waiters'[restarts'].ids
    BY DEF Counted
  <1> DEFINE c == <<r, "session">>
             l == LaneOf[c]
  <1>1. l \in Lane /\ c \in Command
    BY Commands
  <1>2. CASE commands
    <2>1. PICK done \in SUBSET Command : CommandsDo(done)
      BY <1>2, CommandsEffect DEF LInv
    <2>2. loop' = loop /\ restarts' = restarts /\ gatewayDraining /\ restarts \in 1..MaxRestarts
      BY <1>2, CommandsKeepLoop DEF LInv, Control
    <2>3. outcome[<<r, "global">>] = "pending" /\ c \in executing
      BY <2>1, <2>2 DEF CommandsDo, LInv, Nested
    <2>4. startGen[c] = lanes[l].generation
      <3>1. startGen'[c] = lanes'[l].generation
        <4>1. \A m \in Lane : lanes'[m].active = {d \in executing' :
                  LaneOf[d] = m /\ startGen'[d] = lanes'[m].generation}
          BY DEF QP!IInv, QP!Sound
        <4>2. QED
          BY <1>1, <4>1
      <3>2. QED
        BY <1>1, <2>1, <2>3, <3>1 DEF CommandsDo, Calm, SameLife
    <2>5. c \in lanes[l].active
      BY <1>1, <2>3, <2>4, QueueFacts DEF LInv
    <2>6. /\ waiters[restarts].state \in {"waiting", "drained"}
          /\ waiters'[restarts'].ids = waiters[restarts].ids
      BY <2>1, <2>2 DEF CommandsDo, WaitersKept
    <2>7. QED
      BY <2>2, <2>3, <2>5, <2>6 DEF LInv, Counted
  <1>3. CASE beginDrain
    <2>1. /\ UNCHANGED <<lanes, restarts>>
          /\ \E state : waiters' = [waiters EXCEPT ![restarts] =
                                     [state |-> state, ids |-> QP!Active(lanes)]]
      BY <1>3, SameOtherActions DEF beginDrain, QP!waitForActiveTasks
    <2>2. restarts \in 1..MaxRestarts
      BY <1>3 DEF beginDrain, LInv, Control
    <2>3. waiters'[restarts'].ids = QP!Active(lanes)
      BY <2>1, <2>2, QueueFacts DEF LInv
    <2>4. c \in QP!Active(lanes)
      BY <1>1, <2>1 DEF QP!Active
    <2>5. QED
      BY <2>3, <2>4
  <1>4. CASE drainTimeout
    <2>1. /\ restarts' = restarts /\ restarts \in 1..MaxRestarts
          /\ waiters' = [waiters EXCEPT ![restarts].state = "timedOut"]
      BY <1>4 DEF drainTimeout, Q!waiterTimeout, LInv, Control
    <2>2. waiters'[restarts'].state = "timedOut"
      BY <2>1, QueueFacts DEF LInv
    <2>3. QED
      BY <2>2
  <1>5. CASE closeServer \/ UNCHANGED vars
    <2>1. UNCHANGED queue /\ restarts' = restarts /\ loop \in {"draining", "closed"}
      BY <1>5 DEF closeServer, vars
    <2>2. QED
      BY <2>1 DEF queue, LInv, Counted
  <1>6. CASE requestRestart \/ nextIteration
    BY <1>6 DEF requestRestart, nextIteration
  <1>7. QED
    BY <1>2, <1>3, <1>4, <1>5, <1>6 DEF Next

\* The gateway that is up satisfies the invariant.
LEMMA InitLInv == Init => LInv
  <1> SUFFICES ASSUME Init PROVE LInv
    OBVIOUS
  <1>1. Control
    BY InitLanes, SessionLanesAssumption DEF Control
  <1>2. Nested
    BY InitLanes, Commands DEF Nested
  <1>3. OneSlot
    <2>1. \A s \in Session : resolveSessionLane(s) \in Lane
      BY DEF Lane
    <2>2. Cardinality({}) = 0
      BY FS_EmptySet
    <2>3. \A s \in Session : /\ lanes[resolveSessionLane(s)].maxConcurrent = 1
                             /\ lanes[resolveSessionLane(s)].active = {}
      BY <2>1, InitLanes
    <2>4. \A s \in Session : Cardinality(lanes[resolveSessionLane(s)].active) = 0
      BY <2>2, <2>3, Zenon
    <2>5. QED
      BY <2>3, <2>4 DEF OneSlot
  <1>4. FirstLife /\ Counted
    BY InitLanes DEF FirstLife, Counted
  <1>5. QED
    BY <1>1, <1>2, <1>3, <1>4, InitQueue DEF LInv

-----------------------------------------------------------------------------
(* The theorems.                                                           *)

\* LInv holds of every behaviour of the queue in use.
THEOREM Invariance == Spec => []LInv
  <1>1. LInv /\ [Next]_vars => LInv'
    BY NextControl, QueueKept, NextNested, NextOneSlot, NextFirstLife, NextCounted DEF LInv
  <1>2. QED
    BY <1>1, InitLInv, PTL DEF Spec

\* Type correctness, and commands are refused exactly from the mark of a
\* restart to the reset that follows it (gatewayDraining).
THEOREM TypeCorrect == Spec => []TypeOK
  <1>1. LInv => TypeOK
    <2> SUFFICES ASSUME LInv PROVE TypeOK
      OBVIOUS
    <2>1. Q!TypeOK
      BY DEF LInv, QP!IInv, QP!TypeOK, Q!TypeOK, QP!LaneState, Q!LaneState
    <2>2. QED
      BY <2>1 DEF LInv, Control, TypeOK
  <1>2. QED
    BY <1>1, Invariance, PTL

\* The queue keeps its promises when runs hold two or three lanes at once and
\* the gateway restarts: no lane idles beside work, no command is lost, the
\* active sets are exact and the drain calls are told the truth.
THEOREM QueueInUse ==
    Spec => [](Q!NoIdleSlot /\ Q!NoCommandLost /\ Q!ActiveIsCurrent /\ Q!WaitersTold)
  <1>1. LInv => Q!NoIdleSlot /\ Q!NoCommandLost /\ Q!ActiveIsCurrent /\ Q!WaitersTold
    <2> SUFFICES ASSUME LInv
                 PROVE  Q!NoIdleSlot /\ Q!NoCommandLost /\ Q!ActiveIsCurrent /\ Q!WaitersTold
      OBVIOUS
    <2>1. Q!NoIdleSlot
      <3>1. \A S : Q!Cardinality(S) = QP!Cardinality(S)
        BY DEF Q!Cardinality, QP!Cardinality
      <3>2. QED
        BY <3>1 DEF LInv, QP!IInv, QP!Busy, Q!NoIdleSlot
    <2>2. Q!NoCommandLost
      <3>1. \A c \in Command : outcome[c] = "pending" <=>
                \/ c \in executing
                \/ \E l \in Lane : c \in QP!Range(lanes[l].queue)
        BY DEF LInv, QP!IInv, QP!PendingIsHeld, QP!Held
      <3>2. \A c \in Command : LaneOf[c] \in Lane
        BY Commands
      <3>3. \A c \in Command : outcome[c] = "pending" <=>
                c \in QP!Range(lanes[LaneOf[c]].queue) \/ c \in executing
        BY <3>1, <3>2, QueueFacts DEF LInv
      <3>4. \A f : Q!Range(f) = QP!Range(f)
        BY DEF Q!Range, QP!Range
      <3>5. QED
        BY <3>3, <3>4 DEF Q!NoCommandLost
    <2>3. Q!ActiveIsCurrent
      BY QueueFacts DEF LInv, Q!ActiveIsCurrent
    <2>4. Q!WaitersTold
      <3>1. \A ls : Q!Active(ls) = QP!Active(ls)
        BY SameEffects
      <3>2. QED
        BY <3>1 DEF LInv, QP!IInv, QP!WaiterNotForgotten, QP!WaiterNotMisled,
                    Q!WaitersTold, Q!WaiterNotForgotten, Q!WaiterNotMisled
    <2>5. QED
      BY <2>1, <2>2, <2>3, <2>4
  <1>2. QED
    BY <1>1, Invariance, PTL

\* Until a restart, at most one run of a session is in its agent turn,
\* whatever lanes the runs asked for and whatever their caps (the await of
\* the global command inside the session command).
THEOREM SessionsSerialised == Spec => []OneRunPerSession
  <1>1. LInv => OneRunPerSession
    <2> SUFFICES ASSUME LInv, restarts = 0, NEW r \in Run, NEW q \in Run,
                        <<r, "global">> \in executing, <<q, "global">> \in executing,
                        SessionOf[r] = SessionOf[q]
                 PROVE  r = q
      BY DEF OneRunPerSession
    <2> DEFINE l == resolveSessionLane(SessionOf[r])
               A == lanes[l].active
    <2>1. /\ l \in Lane /\ SessionOf[r] \in Session
          /\ LaneOf[<<r, "session">>] = l /\ LaneOf[<<q, "session">>] = l
      BY Commands, SessionLanesAssumption
    <2>2. <<r, "session">> \in executing /\ <<q, "session">> \in executing
      BY QueueFacts DEF LInv, Nested
    <2>3. \A c \in executing : LaneOf[c] = l => startGen[c] = lanes[l].generation
      <3>1. \A c \in executing : startGen[c] \in Nat /\ startGen[c] <= lanes[LaneOf[c]].generation
        BY QueueFacts DEF LInv
      <3>2. lanes[l].generation = 0
        BY <2>1 DEF LInv, FirstLife
      <3> HIDE DEF l
      <3>3. QED
        BY <3>1, <3>2
    <2>4. <<r, "session">> \in A /\ <<q, "session">> \in A
      BY <2>1, <2>2, <2>3, QueueFacts DEF LInv
    <2>5. IsFiniteSet(A) /\ Cardinality(A) <= 1
      BY <2>1, QueueFacts DEF LInv, OneSlot
    <2> HIDE DEF A
    <2> DEFINE c == <<r, "session">>
               d == <<q, "session">>
    <2>6. ASSUME c # d PROVE FALSE
      <3> DEFINE B == {c}
                 C == B \cup {d}
      <3> HIDE DEF c, d
      <3>1. IsFiniteSet(B) /\ Cardinality(B) = 1
        BY FS_Singleton
      <3>2. Cardinality(C) = 2
        <4>1. d \notin B
          BY <2>6
        <4>2. Cardinality(B \cup {d}) = Cardinality(B) + 1
          <5> HIDE DEF B
          <5>1. QED
            BY <3>1, <4>1, FS_AddElement
        <4>3. QED
          BY <3>1, <4>2
      <3>3. C \in SUBSET A
        BY <2>4 DEF c, d
      <3> HIDE DEF C
      <3>4. Cardinality(C) <= Cardinality(A) /\ Cardinality(A) \in Nat
        BY <2>5, <3>3, FS_Subset, FS_CardinalityType
      <3>5. QED
        BY <2>5, <3>2, <3>4
    <2>7. c[1] = r /\ d[1] = q
      OBVIOUS
    <2>8. QED
      BY <2>6, <2>7
  <1>2. QED
    BY <1>1, Invariance, PTL

\* A drain that was not cut short leaves no agent turn of this life running
\* when the server closes (the drain of request("restart")).
THEOREM QuietAfterDrain == Spec => []DrainedMeansQuiet
  <1>1. LInv => DrainedMeansQuiet
    <2> SUFFICES ASSUME LInv, loop = "closed", waiters[restarts].state = "drained",
                        NEW r \in Run, Current(<<r, "session">>), <<r, "global">> \in executing
                 PROVE  FALSE
      BY DEF DrainedMeansQuiet
    <2> DEFINE c == <<r, "session">>
    <2>1. LaneOf[c] \in Lane /\ c \in Command
      BY Commands
    <2>2. c \in executing /\ startGen[c] = lanes[LaneOf[c]].generation
      BY DEF Current
    <2>3. c \in lanes[LaneOf[c]].active /\ outcome[<<r, "global">>] = "pending"
      BY <2>1, <2>2, QueueFacts DEF LInv
    <2>4. restarts \in 1..MaxRestarts /\ c \in waiters[restarts].ids
      BY <2>3 DEF LInv, Control, Counted
    <2>5. outcome[c] = "settled" \/ startGen[c] < lanes[LaneOf[c]].generation
      BY <2>4, QueueFacts DEF LInv
    <2>6. outcome[c] = "pending"
      BY <2>2, QueueFacts DEF LInv
    <2>7. startGen[c] \in Nat
      BY <2>1, QueueFacts DEF LInv
    <2>8. QED
      BY <2>2, <2>5, <2>6, <2>7
  <1>2. QED
    BY <1>1, Invariance, PTL

=============================================================================
