----------------------------- MODULE SessionLanes -----------------------------
(***************************************************************************)
(* The command queue in use: an agent run is a command of its session's    *)
(* lane whose function enqueues a second command in a global lane and      *)
(* awaits it (runEmbeddedPiAgent, compactEmbeddedPiSession); a cron run    *)
(* started by hand holds a slot of the cron lane around both.  The run     *)
(* loop of the gateway drains the queue before an in-process restart and   *)
(* resets it after.                                                        *)
(*                                                                         *)
(* The queue itself is the module CommandQueue, whose actions are taken    *)
(* as they are: a command is a run and the level it stands at.             *)
(***************************************************************************)
EXTENDS Integers, Sequences, FiniteSets

CONSTANTS
    Run,            \* agent runs
    CronRun,        \* those a manual cron run makes
    Session,
    SessionOf,      \* the session of each run
    RequestedLane,  \* params.lane of each run
    GlobalLane,     \* lanes other than those of sessions
    Concurrency,    \* the cap of each of them
    MaxRestarts     \* bound: restarts of the gateway in its process

ASSUME SessionLanesAssumption ==
    /\ CronRun \subseteq Run
    /\ SessionOf \in [Run -> Session]
    /\ {"main", "cron", "nested"} \subseteq GlobalLane
    /\ RequestedLane \in [Run -> GlobalLane]
    /\ Concurrency \in [GlobalLane -> Nat \ {0}]
    /\ MaxRestarts \in Nat

\* Mutant of resolveGlobalLane: the lane that was asked for.
resolveGlobalLane_AsRequested(lane) == lane

\* resolveGlobalLane and resolveNestedAgentLane: a cron run holds the cron
\* lane, so the work inside it runs in the nested lane.
resolveGlobalLane(lane) == IF lane = "cron" THEN "nested" ELSE lane

\* A lane name is a prefix and a name: resolveSessionLane puts "session:"
\* before the key, so that the lane of a session is none of the global lanes.
resolveSessionLane(s) == <<"session:", s>>
globalLane(l) == <<"", l>>

Lane == {globalLane(l) : l \in GlobalLane} \cup {resolveSessionLane(s) : s \in Session}

Command == (Run \X {"session", "global"}) \cup (CronRun \X {"cron"})

LaneOf == [c \in Command |->
    CASE c[2] = "session" -> resolveSessionLane(SessionOf[c[1]])
      [] c[2] = "global"  -> globalLane(resolveGlobalLane(RequestedLane[c[1]]))
      [] c[2] = "cron"    -> globalLane("cron")]

VARIABLES
    lanes, gatewayDraining, executing, startGen, outcome, waiters, arrivals,
    loop,     \* what runGatewayLoop is at
    restarts  \* restart requests taken, and the number of the latest drain

queue == <<lanes, gatewayDraining, executing, startGen, outcome, waiters, arrivals>>
vars == <<queue, loop, restarts>>

Q == INSTANCE CommandQueue WITH
    Task <- Command, Waiter <- 1..MaxRestarts,
    ConcurrencyValues <- {}, MaxGeneration <- MaxRestarts

\* The command the function of c enqueues, as a set of at most one.
inner(c) == CASE c[2] = "cron"    -> {<<c[1], "session">>}
              [] c[2] = "session" -> {<<c[1], "global">>}
              [] c[2] = "global"  -> {}

\* The gateway is up: applyGatewayLaneConcurrency was called.
Init ==
    /\ Q!Init!2 /\ Q!Init!3 /\ Q!Init!4 /\ Q!Init!5 /\ Q!Init!6 /\ Q!Init!7
    /\ lanes = [l \in Lane |->
          IF l[1] = "" THEN [Q!InitLane EXCEPT !.maxConcurrent = Concurrency[l[2]]]
          ELSE Q!InitLane]
    /\ loop = "serving" /\ restarts = 0

\* A session command enqueues the global one in the turn in which it starts,
\* so nothing else happens while one has not.
starting == {c \in executing : c[2] = "session" /\ \E d \in inner(c) : outcome[d] = "none"}

enqueue(c) == Q!refuseCommand(c) \/ Q!enqueueCommandInLane(c)

-----------------------------------------------------------------------------

\* A run arrives from a channel, a client or, for a cron run, cron.run.
runEmbeddedPiAgent(r) ==
    /\ starting = {}
    /\ enqueue(IF r \in CronRun THEN <<r, "cron">> ELSE <<r, "session">>)
    /\ UNCHANGED <<loop, restarts>>

\* The function of c enqueues the command inside it.
enqueueInner(c) ==
    /\ c \in executing
    /\ starting = {} \/ c \in starting
    /\ \E d \in inner(c) : enqueue(d)
    /\ UNCHANGED <<loop, restarts>>

Answered(d) == outcome[d] \in {"settled", "cleared", "refused"}

\* Mutant of mayReturn: the inner promise is not returned, so not awaited.
mayReturn_NotAwaited(c) == \A d \in inner(c) : outcome[d] # "none"

\* The function of c ends after the command inside it; a cron run may find
\* that it has nothing to do.
mayReturn(c) == \A d \in inner(c) : Answered(d) \/ (c[2] = "cron" /\ outcome[d] = "none")

settle(c) ==
    /\ starting = {} /\ mayReturn(c)
    /\ Q!settleTask(c)
    /\ UNCHANGED <<loop, restarts>>

\* clearSessionQueues: an abort clears what waits in the lane of a session.
clearSession(s) ==
    /\ starting = {}
    /\ Q!clearCommandLane(resolveSessionLane(s))
    /\ UNCHANGED <<loop, restarts>>

-----------------------------------------------------------------------------
(* The run loop.                                                           *)

\* Mutant of requestRestart: the queue is not told to refuse commands.
requestRestart_NoMark ==
    /\ loop = "serving" /\ restarts < MaxRestarts /\ starting = {}
    /\ restarts' = restarts + 1
    /\ loop' = "marked"
    /\ UNCHANGED queue

\* request("restart"): while the gateway shuts down, signals are ignored.
requestRestart ==
    /\ loop = "serving" /\ restarts < MaxRestarts /\ starting = {}
    /\ restarts' = restarts + 1
    /\ loop' = "marked"
    /\ Q!markGatewayDraining

\* The drain, called in the same turn.
beginDrain ==
    /\ loop = "marked"
    /\ loop' = "draining"
    /\ Q!waitForActiveTasks(restarts)
    /\ UNCHANGED restarts

drainTimeout ==
    /\ loop = "draining" /\ starting = {}
    /\ Q!waiterTimeout(restarts)
    /\ UNCHANGED <<loop, restarts>>

\* The wait is over, and the server is closed.
closeServer ==
    /\ loop = "draining" /\ starting = {}
    /\ waiters[restarts].state # "waiting"
    /\ loop' = "closed"
    /\ UNCHANGED <<queue, restarts>>

\* Mutant of nextIteration: a restart is taken for the first start.
nextIteration_NoReset ==
    /\ loop = "closed" /\ starting = {}
    /\ loop' = "serving"
    /\ UNCHANGED <<queue, restarts>>

\* The next iteration resets the lanes and starts the server, which sets the
\* caps to what they are.
nextIteration ==
    /\ loop = "closed" /\ starting = {}
    /\ loop' = "serving"
    /\ Q!resetAllLanes
    /\ UNCHANGED restarts

commands ==
    \/ \E r \in Run : runEmbeddedPiAgent(r)
    \/ \E c \in Command : enqueueInner(c) \/ settle(c)
    \/ \E s \in Session : clearSession(s)

Next ==
    \/ loop # "marked" /\ commands
    \/ requestRestart \/ beginDrain \/ drainTimeout \/ closeServer \/ nextIteration

Spec == Init /\ [][Next]_vars

\* Runs end (each has a timeout), a started function goes on, and so does the
\* run loop.
FairSpec ==
    /\ Spec
    /\ \A c \in Command : WF_vars(loop # "marked" /\ settle(c))
                          /\ WF_vars(loop # "marked" /\ enqueueInner(c))
    /\ WF_vars(beginDrain) /\ WF_vars(drainTimeout) /\ WF_vars(closeServer) /\ WF_vars(nextIteration)

-----------------------------------------------------------------------------
(* Properties.                                                             *)

Current(c) == c \in executing /\ startGen[c] = lanes[LaneOf[c]].generation

\* Types; and the queue refuses commands exactly while the gateway restarts
\* (resetAllLanes clears gatewayDraining).
TypeOK ==
    /\ Q!TypeOK
    /\ loop \in {"serving", "marked", "draining", "closed"} /\ restarts \in 0..MaxRestarts
    /\ gatewayDraining <=> loop # "serving"

\* Runs of a session are serialised: until a restart resets the lanes, no two
\* of them are in their agent turns at a time, in whatever global lanes.
OneRunPerSession == restarts = 0 => \A r, q \in Run :
    <<r, "global">> \in executing /\ <<q, "global">> \in executing
        /\ SessionOf[r] = SessionOf[q] => r = q

\* A drain that was not cut short leaves no agent turn running whose command
\* started in this life, although it waits only for the commands active when
\* it began: what starts later is refused before its agent turn.  (A run
\* carried over an earlier restart is not waited for while it is queued.)
DrainedMeansQuiet ==
    loop = "closed" /\ waiters[restarts].state = "drained" =>
        \A r \in Run : Current(<<r, "session">>) => <<r, "global">> \notin executing

\* A run that was queued for its session when a restart began still executes:
\* it is not refused ("Queued entries are intentionally preserved").
QueuedRunsPreserved == \A r \in Run \ CronRun : outcome[<<r, "global">>] # "refused"

\* Nobody waits for ever: with a run holding a slot of two or three lanes,
\* every command that was accepted is answered, restarts included.
EveryRunAnswered == \A c \in Command : outcome[c] = "pending" ~> outcome[c] # "pending"

=============================================================================
