---------------------------- MODULE DeliveryQueue ----------------------------
(***************************************************************************)
(* The write-ahead queue of outbound messages (src/infra/outbound): an     *)
(* entry is written before a message is sent and removed after, so that a  *)
(* gateway that crashes sends it at its next start.                        *)
(*                                                                         *)
(* On disk, an id has a queue file {id}.json, a marker {id}.delivered or a *)
(* file in failed/.  In memory, deliverOutboundPayloads runs for the live  *)
(* messages and recoverPendingDeliveries once per life of the process; the *)
(* calls they make to the storage are jobs, whose steps are the file       *)
(* operations that take effect (a temporary file counts when renamed).     *)
(* An action is what runs between two awaits; a crash ends every call.     *)
(***************************************************************************)
EXTENDS Integers, Sequences, FiniteSets, SequencesExt

CONSTANTS
    Delivery,      \* queue ids: messages given to deliverOutboundPayloads
    BestEffort,    \* those sent with bestEffort
    OnError,       \* those whose caller passes onError
    MaxRetries,    \* MAX_RETRIES
    NoEntry,
    MaxCrashes     \* bound: crashes of the process

ASSUME DeliveryQueueAssumption ==
    /\ BestEffort \subseteq Delivery /\ OnError \subseteq Delivery
    /\ MaxRetries \in Nat \ {0} /\ MaxCrashes \in Nat /\ NoEntry \notin Nat

VARIABLES
    entry,      \* {id}.json: its retryCount, or NoEntry
    markers,    \* ids with a {id}.delivered file
    failed,     \* ids in failed/
    live,       \* where each deliverOutboundPayloads call is
    recovery,   \* recoverPendingDeliveries
    jobs,       \* storage calls under way
    crashes,    \* counter of the bound, and the number of the current life
    order,      \* history: ids written, by enqueuedAt
    sends,      \* history: how often the whole message was sent in this life
    sent,       \* history: ids whose whole message was sent, in any life
    dropped,    \* history: ids whose live send ended with an AbortError
    ended,      \* history: ids acknowledged or moved to failed/, not overlapped
    overlapped  \* history: ids recovery loaded while their live send, or the
                \* storage call that closes it, was under way; in this life

disk == <<entry, markers, failed>>
history == <<order, sends, sent, dropped, ended, overlapped>>
vars == <<disk, live, recovery, jobs, crashes, history>>

\* failDelivery sets retryCount and lastAttemptAt together: an entry was
\* attempted iff its count is positive.
Count == Nat

Job == [op: {"ackRename", "ackUnlink", "failRead", "failWrite", "move"},
        id: Delivery, by: {"live", "recovery"}, count: Count]

call(op, d, by) == [op |-> op, id |-> d, by |-> by, count |-> 0]

\* The locals of recoverPendingDeliveries, before its call.
Idle == [pc |-> "off", files |-> {}, pending |-> <<>>, sending |-> {}]

pendingIds == DOMAIN recovery.pending

RecoveryBusy == \E j \in jobs : j.by = "recovery"

Without(f, d) == [x \in DOMAIN f \ {d} |-> f[x]]

\* Recovery has d in its hands.
Held == pendingIds \cup recovery.sending

\* The live send of d, or a storage call, is not over.
UnderWay(d) == live[d] = "queued" \/ \E j \in jobs : j.id = d

-----------------------------------------------------------------------------
(* deliverOutboundPayloads.                                                *)

Init ==
    /\ entry = [d \in Delivery |-> NoEntry]
    /\ markers = {} /\ failed = {}
    /\ live = [d \in Delivery |-> "idle"]
    /\ recovery = Idle
    /\ jobs = {} /\ crashes = 0
    /\ order = <<>> /\ sends = [d \in Delivery |-> 0] /\ sent = {}
    /\ dropped = {} /\ ended = {} /\ overlapped = {}

\* enqueueDelivery, and with it the start of the send; the write is best
\* effort, and without an entry there is nothing to ack or fail.
enqueueDelivery(d) ==
    /\ live[d] = "idle"
    /\ \/ /\ entry' = [entry EXCEPT ![d] = 0]
          /\ order' = Append(order, d)
          /\ live' = [live EXCEPT ![d] = "queued"]
       \/ live' = [live EXCEPT ![d] = "unqueued"] /\ UNCHANGED <<entry, order>>
    /\ UNCHANGED <<markers, failed, recovery, jobs, crashes, sends, sent, dropped, ended,
                   overlapped>>

\* What deliverOutboundPayloadsCore may answer: bestEffort swallows the
\* failure of a payload, an abort included, and only an onError tells of it.
\* Without bestEffort the caller of a live send, or an adapter with a timeout
\* of its own, may also abort it: any error of the name AbortError is that.
Outcomes(d) == {"sent", "threw"} \cup IF d \in BestEffort THEN {"partial"} ELSE {}

\* Mutant of closing: an error acks the entry too.
closing_AckAlways(d, outcome, by, toldOfErrors) == call("ackRename", d, by)

\* The storage call that closes an attempt.
closing(d, outcome, by, toldOfErrors) ==
    IF outcome = "threw" \/ (outcome = "partial" /\ toldOfErrors)
    THEN call("failRead", d, by) ELSE call("ackRename", d, by)

\* The channel has taken the whole message, or has not.
noteSend(d, outcome) ==
    /\ sends' = IF outcome = "sent" THEN [sends EXCEPT ![d] = @ + 1] ELSE sends
    /\ sent' = IF outcome = "sent" THEN sent \cup {d} ELSE sent

liveSettles(d) ==
    /\ live[d] \in {"queued", "unqueued"}
    /\ \E outcome \in Outcomes(d) \cup IF d \in BestEffort THEN {} ELSE {"aborted"} :
        /\ noteSend(d, outcome)
        /\ dropped' = IF outcome = "aborted" THEN dropped \cup {d} ELSE dropped
        /\ jobs' = IF live[d] = "unqueued" THEN jobs
                   ELSE jobs \cup {closing(d, outcome, "live", d \in OnError)}
    /\ live' = [live EXCEPT ![d] = "done"]
    /\ UNCHANGED <<disk, recovery, crashes, order, ended, overlapped>>

-----------------------------------------------------------------------------
(* The storage calls.                                                      *)

replaceJob(j, new) == jobs' = (jobs \ {j}) \cup new

noteEnd(d) == ended' = ended \cup ({d} \ overlapped)

\* ackDelivery phase 1: {id}.json becomes {id}.delivered.
ackRename(j) ==
    /\ j.op = "ackRename"
    /\ replaceJob(j, {[j EXCEPT !.op = "ackUnlink"]})
    /\ IF entry[j.id] = NoEntry THEN UNCHANGED <<entry, markers, ended>>
       ELSE /\ entry' = [entry EXCEPT ![j.id] = NoEntry]
            /\ markers' = markers \cup {j.id}
            /\ noteEnd(j.id)
    /\ UNCHANGED <<failed, live, recovery, crashes, order, sends, sent, dropped, overlapped>>

\* Phase 2: the marker goes.
ackUnlink(j) ==
    /\ j.op = "ackUnlink"
    /\ replaceJob(j, {})
    /\ markers' = markers \ {j.id}
    /\ UNCHANGED <<entry, failed, live, recovery, crashes, history>>

\* failDelivery reads the entry; one that is gone ends the call.
failRead(j) ==
    /\ j.op = "failRead"
    /\ replaceJob(j, IF entry[j.id] = NoEntry THEN {}
                     ELSE {[j EXCEPT !.op = "failWrite", !.count = entry[j.id] + 1]})
    /\ UNCHANGED <<disk, live, recovery, crashes, history>>

\* failDelivery writes it back, whatever happened to the file since.
failWrite(j) ==
    /\ j.op = "failWrite"
    /\ replaceJob(j, {})
    /\ entry' = [entry EXCEPT ![j.id] = j.count]
    /\ UNCHANGED <<markers, failed, live, recovery, crashes, history>>

\* moveToFailed.
moveToFailed(j) ==
    /\ j.op = "move"
    /\ replaceJob(j, {})
    /\ IF entry[j.id] = NoEntry THEN UNCHANGED <<entry, failed, ended>>
       ELSE /\ entry' = [entry EXCEPT ![j.id] = NoEntry]
            /\ failed' = failed \cup {j.id}
            /\ noteEnd(j.id)
    /\ UNCHANGED <<markers, live, recovery, crashes, order, sends, sent, dropped, overlapped>>

-----------------------------------------------------------------------------
(* recoverPendingDeliveries.                                               *)

\* loadPendingDeliveries lists the directory and removes stale markers.
loadPendingDeliveries ==
    /\ recovery.pc = "off"
    /\ markers' = {}
    /\ recovery' = [recovery EXCEPT !.pc = "reading",
                                    !.files = {d \in Delivery : entry[d] # NoEntry}]
    /\ UNCHANGED <<entry, failed, live, jobs, crashes, history>>

\* Mutant of readQueueEntry: a file that is gone is loaded as if it were there.
readQueueEntry_NoSkip(d) == [x \in pendingIds \cup {d} |->
    IF x = d THEN entry[d] ELSE recovery.pending[x]]

\* The entries loaded so far and that of d, skipped when its file is gone.
readQueueEntry(d) == [x \in pendingIds \cup IF entry[d] = NoEntry THEN {} ELSE {d} |->
    IF x = d THEN entry[d] ELSE recovery.pending[x]]

loadEntry(d) ==
    /\ recovery.pc = "reading" /\ d \in recovery.files
    /\ recovery' = [recovery EXCEPT !.files = @ \ {d}, !.pending = readQueueEntry(d)]
    /\ overlapped' = IF entry[d] # NoEntry /\ UnderWay(d) THEN overlapped \cup {d} ELSE overlapped
    /\ UNCHANGED <<disk, live, jobs, crashes, order, sends, sent, dropped, ended>>

loadEnds ==
    /\ recovery.pc = "reading" /\ recovery.files = {}
    /\ recovery' = [recovery EXCEPT !.pc = "looping"]
    /\ UNCHANGED <<disk, live, jobs, crashes, history>>

\* The oldest entry that is left.
Oldest(ids) == order[CHOOSE i \in DOMAIN order :
    order[i] \in ids /\ \A k \in 1..(i - 1) : order[k] \notin ids]

\* Mutant of recoveryAt: the loop does not advance.
recoveryAt_Again(pc, d) ==
    recovery' = [recovery EXCEPT !.pc = pc, !.sending = IF pc = "sending" THEN {d} ELSE {}]

\* The loop is done with d, or sends it.
recoveryAt(pc, d) ==
    recovery' = [recovery EXCEPT !.pc = pc, !.pending = Without(@, d),
                                 !.sending = IF pc = "sending" THEN {d} ELSE {}]

\* Mutant of pruneEntry: the continue is missing, and the entry is sent.
pruneEntry_NoContinue(d) ==
    /\ recovery.pending[d] >= MaxRetries
    /\ jobs' = jobs \cup {call("move", d, "recovery")}
    /\ recoveryAt("sending", d)

\* An entry that was tried too often moves to failed/.
pruneEntry(d) ==
    /\ recovery.pending[d] >= MaxRetries
    /\ jobs' = jobs \cup {call("move", d, "recovery")}
    /\ recoveryAt("looping", d)

\* isEntryEligibleForRecoveryRetry: an entry never attempted is eligible;
\* another may be, or have to wait for its backoff until the next start.
deferForBackoff(d) ==
    /\ recovery.pending[d] \in 1..(MaxRetries - 1)
    /\ recoveryAt("looping", d) /\ UNCHANGED jobs

startSend(d) ==
    /\ recovery.pending[d] < MaxRetries
    /\ recoveryAt("sending", d) /\ UNCHANGED jobs

\* The time budget is over: every entry left counts one more attempt.
deferRemainingEntriesForBudget ==
    /\ jobs' = jobs \cup {call("failRead", d, "recovery") : d \in pendingIds}
    /\ recovery' = [recovery EXCEPT !.pc = "done", !.pending = <<>>]

recoverNext ==
    /\ recovery.pc = "looping" /\ ~RecoveryBusy
    /\ pendingIds # {}
    /\ LET d == Oldest(pendingIds)
       IN  \/ pruneEntry(d)
           \/ deferForBackoff(d)
           \/ startSend(d)
           \/ deferRemainingEntriesForBudget
    /\ UNCHANGED <<disk, live, crashes, history>>

recoveryEnds ==
    /\ recovery.pc = "looping" /\ ~RecoveryBusy
    /\ pendingIds = {}
    /\ recovery' = [recovery EXCEPT !.pc = "done"]
    /\ UNCHANGED <<disk, live, jobs, crashes, history>>

\* The send of recovery settles: it has no onError, and a permanent error
\* moves the entry to failed/ at once.
recoverySettles ==
    /\ recovery.pc = "sending"
    /\ \E d \in recovery.sending : \E outcome \in Outcomes(d) :
        /\ noteSend(d, outcome)
        /\ \/ jobs' = jobs \cup {closing(d, outcome, "recovery", FALSE)}
           \/ outcome = "threw" /\ jobs' = jobs \cup {call("move", d, "recovery")}
    /\ recovery' = [recovery EXCEPT !.pc = "looping", !.sending = {}]
    /\ UNCHANGED <<disk, live, crashes, order, dropped, ended, overlapped>>

-----------------------------------------------------------------------------

\* The process dies and starts again; the disk stays, and a life begins.
crash ==
    /\ crashes < MaxCrashes
    /\ crashes' = crashes + 1
    /\ live' = [d \in Delivery |-> IF live[d] = "idle" THEN "idle" ELSE "done"]
    /\ recovery' = Idle
    /\ jobs' = {}
    /\ sends' = [d \in Delivery |-> 0] /\ overlapped' = {}
    /\ UNCHANGED <<disk, order, sent, dropped, ended>>

Next ==
    \/ \E d \in Delivery : enqueueDelivery(d) \/ liveSettles(d) \/ loadEntry(d)
    \/ \E j \in jobs : ackRename(j) \/ ackUnlink(j) \/ failRead(j) \/ failWrite(j) \/ moveToFailed(j)
    \/ loadPendingDeliveries \/ loadEnds \/ recoverNext \/ recoveryEnds \/ recoverySettles
    \/ crash

Spec == Init /\ [][Next]_vars

-----------------------------------------------------------------------------
(* Properties.                                                             *)

TypeOK ==
    /\ entry \in [Delivery -> Count \cup {NoEntry}]
    /\ markers \in SUBSET Delivery /\ failed \in SUBSET Delivery
    /\ live \in [Delivery -> {"idle", "queued", "unqueued", "done"}]
    /\ recovery.pc \in {"off", "reading", "looping", "sending", "done"}
    /\ recovery.files \in SUBSET Delivery /\ recovery.sending \in SUBSET Delivery
    /\ pendingIds \in SUBSET Delivery /\ \A d \in pendingIds : recovery.pending[d] \in Count
    /\ jobs \in SUBSET Job
    /\ crashes \in 0..MaxCrashes
    /\ order \in Seq(Delivery) /\ sends \in [Delivery -> Nat] /\ sent \in SUBSET Delivery
    /\ dropped \in SUBSET Delivery /\ ended \in SUBSET Delivery
    /\ overlapped \in SUBSET Delivery

\* The message of d has a trace left or has had its due.
Accounted(d) == entry[d] # NoEntry \/ d \in failed \cup dropped \cup sent

\* A message that must be delivered is not lost, whenever the gateway crashes
\* and however its recovery and its live sends interleave: until it was sent,
\* or its live send was aborted, its entry waits in the queue or in failed/.
NothingLost == \A d \in ToSet(order) \ BestEffort : Accounted(d)

\* The same for bestEffort messages: a failed payload leaves its entry to be
\* retried (failDelivery instead of ackDelivery).
PartialFailureKept == \A d \in ToSet(order) : Accounted(d)

\* In each life of the process a message reaches the channel at most once, be
\* it new, left by a crash, deferred or retried, by its live send or by
\* recovery - unless recovery loaded the entry in this life while the live
\* send of that very message, or the call that closes it, was under way.
SentOncePerLife == \A d \in Delivery \ overlapped : sends[d] <= 1

\* An end is final, in this life and in every later one: once phase 1 of the
\* ack is over, or the entry has gone to failed/, the message is not sent
\* again and its entry does not come back, not even by the recovery after a
\* crash between the two phases (ackDelivery, moveToFailed).  Excepted is an
\* end that a message met in the life in which it was overlapped.
EndIsFinal ==
    [][\A d \in ended :
        sends'[d] <= sends[d] /\ entry'[d] = NoEntry /\ d \notin recovery'.sending]_vars

=============================================================================
