---------------------------- MODULE FollowupQueue ----------------------------
(***************************************************************************)
(* The follow-up queue of one session key (src/auto-reply/reply/queue):    *)
(* messages that arrive while the agent is busy wait here, and a drain,    *)
(* one asynchronous loop per queue object, hands them to the agent.        *)
(*                                                                         *)
(* The map FOLLOWUP_QUEUES holds at most one queue object for the key, but *)
(* a drain keeps the object it began with: after clearSessionQueues, or a  *)
(* deletion, several objects live.  QueueId names the objects, and current *)
(* is the one in the map.  Each action is what runs between two awaits:    *)
(* a drain waits for the debounce, then for the agent run it started.      *)
(*                                                                         *)
(* The agent is outside: reply runs (runReplyAgent, which ends by          *)
(* scheduling the drain), foreign runs of the same session (gateway agent  *)
(* calls, which do not) and the follow-up runs of the drain itself.        *)
(***************************************************************************)
EXTENDS Integers, Sequences, FiniteSets, SequencesExt

CONSTANTS
    Run,            \* FollowupRun objects, each enqueued at most once
    MessageKey,     \* of a run: its routing and message id, or NoKey; the id cache
                    \* compares thread ids as text and the queue as they are, so a
                    \* thread's id is taken to have one form
    Route,          \* of a run: its routing key, Unkeyed, or CrossRoute
    NoKey, Unkeyed, CrossRoute,
    QueueId,        \* queue objects
    NoQueue,        \* no entry in FOLLOWUP_QUEUES
    ReplyRun,       \* runs of runReplyAgent
    Settings,       \* QueueSettings messages may arrive with
    ForeignRuns,    \* whether runs other than reply runs use the session
    MaxClears,      \* bound: calls of clearSessionQueues
    MaxFailures     \* bound: follow-up runs that throw

ASSUME FollowupQueueAssumption ==
    /\ NoQueue \notin QueueId
    /\ Settings # {}
    /\ Settings \subseteq [mode: {"collect", "followup"}, cap: Nat \ {0},
                            dropPolicy: {"old", "new", "summarize"}]
    /\ ForeignRuns \in BOOLEAN
    /\ MaxClears \in Nat /\ MaxFailures \in Nat

VARIABLES
    queues,     \* the queue objects
    drains,     \* the drain loop of each object: idle is draining = false
    current,    \* FOLLOWUP_QUEUES.get(key)
    recent,     \* RECENT_QUEUE_MESSAGE_IDS
    replies,    \* where each reply run is
    foreign,    \* a run that will not schedule the drain is active
    clears, failures,  \* counters of the bounds
    accepted,   \* history: runs accepted, in order
    answered,   \* history: runs whose own prompt a finished run carried
    removed     \* history: runs taken out by the drop policy or a clear

history == <<accepted, answered, removed>>
vars == <<queues, drains, current, recent, replies, foreign, clears, failures, history>>

-----------------------------------------------------------------------------
(* One queue object and its drain.  dropped is the set behind droppedCount *)
(* and summaryLines; lastRun says whether there is a last run.             *)

QueueState == [items: Seq(Run), settings: Settings, dropped: SUBSET Run, lastRun: BOOLEAN]

DrainState == [pc: {"idle", "debounce", "running"}, force: BOOLEAN,
               kind: {"none", "item", "summary", "collect"},
               batch: Seq(Run), summary: SUBSET Run]

IdleDrain == [pc |-> "idle", force |-> FALSE, kind |-> "none", batch |-> <<>>, summary |-> {}]

\* A new object, and one that nothing refers to any more.
EmptyQueue == [items |-> <<>>, settings |-> CHOOSE s \in Settings : TRUE,
               dropped |-> {}, lastRun |-> FALSE]

HasWork(s) == s.items # <<>> \/ s.dropped # {}

\* buildQueueSummaryPrompt answers only under the summarize policy.
Overflow(s) == IF s.settings.dropPolicy = "summarize" THEN s.dropped ELSE {}

\* items.splice(0, n), or items.shift() with n = 1.
DropFirst(items, n) == SubSeq(items, n + 1, Len(items))

\* hasCrossChannelItems.
hasCrossChannelItems(items) ==
    LET routes == {Route[items[i]] : i \in DOMAIN items}
    IN  CrossRoute \in routes \/ Cardinality(routes) > 1

\* Mutant of isRunAlreadyQueued: the message id is not looked up.
isRunAlreadyQueued_Never(r, items) == FALSE

isRunAlreadyQueued(r, items) ==
    MessageKey[r] # NoKey /\ \E i \in DOMAIN items : MessageKey[items[i]] = MessageKey[r]

\* Mutant of remember: a run without a message id is remembered too.
remember_Blank(ids, r) == ids \cup {MessageKey[r]}

remember(ids, r) == ids \cup ({MessageKey[r]} \ {NoKey})

\* How many of the oldest items make room for one more.
Excess(s) == IF Len(s.items) < s.settings.cap THEN 0 ELSE Len(s.items) - s.settings.cap + 1

\* applyQueueDropPolicy then items.push, for a queue that accepts.
pushWithDropPolicy(s, r) ==
    LET gone == ToSet(SubSeq(s.items, 1, Excess(s)))
    IN  [s EXCEPT !.items   = Append(DropFirst(@, Excess(s)), r),
                  !.dropped = IF s.settings.dropPolicy = "summarize" THEN @ \cup gone ELSE @]

\* The drain's choice after its debounce: collect the queue, run the head
\* alone, or run the overflow summary on the head's routing.
NextRun(s, force) ==
    IF s.settings.mode = "collect" /\ ~force /\ (s.items # <<>> \/ s.lastRun)
    THEN [kind |-> "collect", batch |-> s.items, summary |-> Overflow(s)]
    ELSE IF s.items = <<>>
    THEN [kind |-> "none", batch |-> <<>>, summary |-> {}]
    ELSE IF s.settings.mode # "collect" /\ Overflow(s) # {}
    THEN [kind |-> "summary", batch |-> <<Head(s.items)>>, summary |-> Overflow(s)]
    ELSE [kind |-> "item", batch |-> <<Head(s.items)>>, summary |-> {}]

\* Mutant of afterRun: one item is shifted, whatever the batch was.
afterRun_ShiftOne(s, d) ==
    [s EXCEPT !.items   = DropFirst(@, 1),
              !.dropped = IF d.summary # {} THEN {} ELSE @]

\* After the run d of a drain: shift or splice its items off the head, and if
\* the prompt held a summary clear summary state, whatever it is by now.
afterRun(s, d) ==
    [s EXCEPT !.items   = DropFirst(@, Len(d.batch)),
              !.dropped = IF d.summary # {} THEN {} ELSE @]

-----------------------------------------------------------------------------
(* Scheduling.  Each sets queues', drains' and current', from the queues   *)
(* qs and drains ds as the call finds them.                                *)

\* q's drain is in waitForQueueDebounce.
wait(qs, ds, q, force) ==
    /\ queues' = qs
    /\ drains' = [ds EXCEPT ![q] = [IdleDrain EXCEPT !.pc = "debounce", !.force = force]]

\* FOLLOWUP_QUEUES.delete(key) by the drain of q, which ends with its object.
delete(qs, ds, q) ==
    /\ queues' = [qs EXCEPT ![q] = EmptyQueue] /\ drains' = ds /\ current' = NoQueue

\* scheduleFollowupDrain: beginQueueDrain refuses a missing queue and one
\* that drains; a queue with no work goes straight to the finally clause.
scheduleFollowupDrain(qs, ds, cur) ==
    IF cur = NoQueue \/ ds[cur].pc # "idle"
    THEN queues' = qs /\ drains' = ds /\ current' = cur
    ELSE IF HasWork(qs[cur])
    THEN wait(qs, ds, cur, FALSE) /\ current' = cur
    ELSE delete(qs, ds, cur)

\* Mutant of finally: a failed drain is not scheduled again.
finally_NoRetry(qs, q) ==
    LET ds == [drains EXCEPT ![q] = IdleDrain]
    IN  IF HasWork(qs[q]) THEN queues' = qs /\ drains' = ds /\ current' = current
                          ELSE delete(qs, ds, q)

\* The finally clause of q's drain: it deletes the key's entry, whichever
\* object that is now, or schedules the key again.
finally(qs, q) ==
    LET ds == [drains EXCEPT ![q] = IdleDrain]
    IN  IF HasWork(qs[q]) THEN scheduleFollowupDrain(qs, ds, current) ELSE delete(qs, ds, q)

\* The while condition, after a run of q's drain.
loop(qs, q) ==
    IF HasWork(qs[q])
    THEN wait(qs, drains, q, drains[q].force) /\ current' = current
    ELSE finally(qs, q)

-----------------------------------------------------------------------------
(* The operations.                                                         *)

Init ==
    /\ queues = [q \in QueueId |-> EmptyQueue]
    /\ drains = [q \in QueueId |-> IdleDrain]
    /\ current = NoQueue
    /\ recent = {}
    /\ replies = [p \in ReplyRun |-> "idle"]
    /\ foreign = FALSE
    /\ clears = 0 /\ failures = 0
    /\ accepted = <<>> /\ answered = <<>> /\ removed = {}

\* isRunActive after the enqueue.  A follow-up run is active for part of the
\* time its drain waits for it.
LivenessSeen ==
    IF foreign \/ \E p \in ReplyRun : replies[p] = "running" THEN {TRUE}
    ELSE IF \E q \in QueueId : drains[q].pc = "running" THEN BOOLEAN
    ELSE {FALSE}

\* getFollowupQueue: the key's object, or a new one.
getFollowupQueue(q) ==
    IF current # NoQueue THEN q = current
    ELSE drains[q].pc = "idle" /\ ~HasWork(queues[q])

\* What it returns: that object, with the settings of the call.
withSettings(q, settings) ==
    [IF q = current THEN queues[q] ELSE EmptyQueue EXCEPT !.settings = settings]

\* runReplyAgent's enqueue-followup branch: enqueueFollowupRun without
\* restart, then, when no run is active, the drain is scheduled.  The caller
\* saw an active run some time before, so the call may come at any time;
\* active is what isRunActive says after it.
enqueueFollowupRun(r, q, settings, active) ==
    LET s    == withSettings(q, settings)
        dup  == MessageKey[r] \in recent \/ isRunAlreadyQueued(r, s.items)
        full == Excess(s) > 0 /\ settings.dropPolicy = "new"
        last == [s EXCEPT !.lastRun = TRUE]
        qs   == [queues EXCEPT ![q] = IF dup THEN s ELSE IF full THEN last
                                      ELSE pushWithDropPolicy(last, r)]
    IN  /\ r \notin ToSet(accepted)
        /\ getFollowupQueue(q)
        /\ IF dup \/ full
           THEN UNCHANGED <<accepted, recent, removed>>
           ELSE /\ accepted' = Append(accepted, r)
                /\ recent' = remember(recent, r)
                /\ removed' = removed \cup ToSet(SubSeq(s.items, 1, Excess(s)))
        /\ IF active THEN queues' = qs /\ drains' = drains /\ current' = q
                     ELSE scheduleFollowupDrain(qs, drains, q)
        /\ UNCHANGED <<replies, foreign, clears, failures, answered>>

\* An id leaves the dedupe cache: five minutes passed, or it was pruned.
forgetMessageId(k) ==
    /\ k \in recent
    /\ recent' = recent \ {k}
    /\ UNCHANGED <<queues, drains, current, replies, foreign, clears, failures, history>>

\* resolveActiveRunQueueAction answers run-now: no run was active.
replyStarts(p) ==
    /\ replies[p] = "idle"
    /\ ~foreign /\ \A o \in ReplyRun : replies[o] # "running"
    /\ replies' = [replies EXCEPT ![p] = "running"]
    /\ UNCHANGED <<queues, drains, current, recent, foreign, clears, failures, history>>

\* clearActiveEmbeddedRun: the run is over, its reply is still being built.
replyEnds(p) ==
    /\ replies[p] = "running"
    /\ replies' = [replies EXCEPT ![p] = "ending"]
    /\ UNCHANGED <<queues, drains, current, recent, foreign, clears, failures, history>>

\* finalizeWithFollowup.
finalizeWithFollowup(p) ==
    /\ replies[p] = "ending"
    /\ replies' = [replies EXCEPT ![p] = "idle"]
    /\ scheduleFollowupDrain(queues, drains, current)
    /\ UNCHANGED <<recent, foreign, clears, failures, history>>

foreignRun ==
    /\ ForeignRuns
    /\ foreign \/ \A p \in ReplyRun : replies[p] # "running"
    /\ foreign' = ~foreign
    /\ UNCHANGED <<queues, drains, current, recent, replies, clears, failures, history>>

\* The debounce is over: the drain picks what to run, or breaks.
drainStep(q) ==
    LET s     == queues[q]
        force == s.settings.mode = "collect" /\ (drains[q].force \/ hasCrossChannelItems(s.items))
        next  == NextRun(s, force)
    IN  /\ drains[q].pc = "debounce"
        /\ IF next.kind = "none" THEN finally(queues, q)
           ELSE /\ queues' = queues
                /\ drains' = [drains EXCEPT ![q] =
                       [pc |-> "running", force |-> drains[q].force \/ force, kind |-> next.kind,
                        batch |-> next.batch, summary |-> next.summary]]
                /\ current' = current
        /\ UNCHANGED <<recent, replies, foreign, clears, failures, history>>

\* The follow-up run returns: its items are shifted off whatever is at the
\* head of the queue by now, and the loop goes on.
runSucceeds(q) ==
    LET d  == drains[q]
        qs == [queues EXCEPT ![q] = afterRun(@, d)]
    IN  /\ d.pc = "running"
        /\ answered' = IF d.kind = "summary" THEN answered ELSE answered \o d.batch
        /\ loop(qs, q)
        /\ UNCHANGED <<recent, replies, foreign, clears, failures, accepted, removed>>

\* The follow-up run throws: catch, then the finally clause.
runFails(q) ==
    /\ drains[q].pc = "running"
    /\ failures < MaxFailures
    /\ failures' = failures + 1
    /\ finally(queues, q)
    /\ UNCHANGED <<recent, replies, foreign, clears, history>>

\* clearSessionQueues: a stop, a reset or a deletion of the session.
clearSessionQueues ==
    /\ clears < MaxClears
    /\ current # NoQueue
    /\ clears' = clears + 1
    /\ removed' = removed \cup ToSet(queues[current].items)
    /\ queues' = [queues EXCEPT ![current] =
                     IF drains[current].pc = "idle" THEN EmptyQueue
                     ELSE [EmptyQueue EXCEPT !.settings = queues[current].settings]]
    /\ current' = NoQueue
    /\ UNCHANGED <<drains, recent, replies, foreign, failures, accepted, answered>>

Next ==
    \/ \E r \in Run, q \in QueueId, settings \in Settings, active \in LivenessSeen :
          enqueueFollowupRun(r, q, settings, active)
    \/ \E k \in recent : forgetMessageId(k)
    \/ \E p \in ReplyRun : replyStarts(p) \/ replyEnds(p) \/ finalizeWithFollowup(p)
    \/ foreignRun
    \/ \E q \in QueueId : drainStep(q) \/ runSucceeds(q) \/ runFails(q)
    \/ clearSessionQueues

\* Timers fire and agent runs end: each has a timeout of its own.
Fairness ==
    /\ \A q \in QueueId : WF_vars(drainStep(q)) /\ WF_vars(runSucceeds(q) \/ runFails(q))
    /\ \A p \in ReplyRun : WF_vars(replyEnds(p)) /\ WF_vars(finalizeWithFollowup(p))

Spec == Init /\ [][Next]_vars
FairSpec == Spec /\ Fairness

-----------------------------------------------------------------------------
(* Properties.                                                             *)

TypeOK ==
    /\ queues \in [QueueId -> QueueState]
    /\ drains \in [QueueId -> DrainState]
    /\ current \in QueueId \cup {NoQueue}
    /\ recent \subseteq {MessageKey[r] : r \in Run} \ {NoKey}
    /\ replies \in [ReplyRun -> {"idle", "running", "ending"}]
    /\ foreign \in BOOLEAN
    /\ clears \in 0..MaxClears /\ failures \in 0..MaxFailures
    /\ accepted \in Seq(Run) /\ answered \in Seq(Run)
    /\ removed \in SUBSET Run

Queued == UNION {ToSet(queues[q].items) : q \in QueueId}

\* The mailbox this queue is for, when no policy or command removes messages.
Inbox == INSTANCE Mailbox WITH
    Message   <- Run,
    pending   <- IF current = NoQueue THEN <<>> ELSE queues[current].items,
    delivered <- answered

\* The queue implements a FIFO mailbox: whatever the modes, caps, failed runs
\* and the interleaving of arrivals with a drain, messages are answered once,
\* in order, none skipped, and every accepted one in the end.
ImplementsMailbox == Inbox!FairSpec

\* A message is never answered twice, by whichever drains, although a failed
\* run is retried and a clear or a drop may shift the queue under the drain
\* (drainNextQueueItem, items.splice).
AnsweredOnce == IsInjective(answered)

\* The same provider message never waits twice in one queue, even when its id
\* has left the dedupe cache before its turn came (isRunAlreadyQueued).
NoTwinQueued ==
    \A q \in QueueId : \A i, j \in DOMAIN queues[q].items :
        /\ i # j
        /\ MessageKey[queues[q].items[i]] # NoKey
        => MessageKey[queues[q].items[i]] # MessageKey[queues[q].items[j]]

\* A queue with work is never left idle: while no run of the session and no
\* drain is under way there is none (the liveness re-check of runReplyAgent
\* after an enqueue, and the finally clause of the drain).
NoIdleQueue ==
    \A q \in QueueId : HasWork(queues[q]) =>
        \/ foreign
        \/ \E p \in ReplyRun : replies[p] # "idle"
        \/ \E o \in QueueId : drains[o].pc # "idle"

\* A message leaves the queue by being answered, by the drop policy or by a
\* clear: no other way.
NoMessageLost ==
    ToSet(accepted) \subseteq Queued \cup ToSet(answered) \cup removed

=============================================================================
