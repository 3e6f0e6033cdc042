------------------------- MODULE DeliveryQueueProofs -------------------------
(* Proofs, for any number of messages, retries and crashes, of the safety   *)
(* of DeliveryQueue: nothing is lost; a message that recovery does not load *)
(* under its live send is sent at most once per life; and ends are final.   *)
(*                                                                          *)
(* The argument.  For NothingLost it is enough that whoever acknowledges a  *)
(* message has sent or dropped it.  For the other two a message that is not *)
(* overlapped has one owner at a time: its live send, recovery, or one      *)
(* storage call.  Only the first two send, and what they have sent is       *)
(* acknowledged: its entry is gone before recovery can load it.             *)
EXTENDS DeliveryQueue, SequenceTheorems, FiniteSetTheorems, WellFoundedInduction, TLAPS

Pcs == {"off", "reading", "looping", "sending", "done"}

Pending == UNION {[ids -> Count] : ids \in SUBSET Delivery}

\* The state of recoverPendingDeliveries, field by field.
Rec(pc, files, pending, sending) ==
    [pc |-> pc, files |-> files, pending |-> pending, sending |-> sending]

-----------------------------------------------------------------------------
(* The invariant.                                                          *)

\* Recovery is where its fields say, and knows messages that were written.
WellFormed ==
    /\ recovery = Rec(recovery.pc, recovery.files, recovery.pending, recovery.sending)
    /\ recovery.pending \in Pending
    /\ recovery.files # {} => recovery.pc = "reading"
    /\ pendingIds # {} => recovery.pc \in {"reading", "looping", "sending"}
    /\ recovery.sending # {} => recovery.pc = "sending"
    /\ (recovery.files \cup recovery.sending) \cap pendingIds = {}
    /\ pendingIds \subseteq ToSet(order)
    /\ \A d \in Delivery : entry[d] # NoEntry => d \in ToSet(order)
    /\ \A j \in jobs : j.op = "failWrite" => j.id \in ToSet(order)

\* A message whose live send has not begun, or has no entry, was not written.
Unwritten == \A d \in Delivery : live[d] \in {"idle", "unqueued"} => d \notin ToSet(order)

\* Who acknowledges a message has sent it, or was told to drop it.
Paid == \A j \in jobs : j.op = "ackRename" /\ j.id \notin BestEffort
                        => j.id \in sent \cup dropped

\* A message that was sent in this life has been acknowledged, or is being so.
Closing(d) == /\ live[d] = "done" /\ d \notin Held
              /\ \A j \in jobs : j.id = d => j.op \in {"ackRename", "ackUnlink"}
              /\ entry[d] = NoEntry \/ \E j \in jobs : j.id = d /\ j.op = "ackRename"

\* d has one owner at a time, and is sent once.
Owned(d) ==
    /\ live[d] # "done" => d \notin Held /\ \A j \in jobs : j.id # d
    /\ d \in Held => \A j \in jobs : j.id # d
    /\ \A j, k \in jobs : j.id = d /\ k.id = d => j = k
    /\ sends[d] \in {0, 1} /\ (sends[d] = 1 => Closing(d))

\* What has come to its end has no owner but the end of the ack.
Ended(d) == /\ entry[d] = NoEntry /\ live[d] = "done" /\ d \notin Held
            /\ \A j \in jobs : j.id = d => j.op = "ackUnlink"

Calm == /\ \A d \in Delivery \ overlapped : Owned(d)
        /\ \A d \in ended : Ended(d)

IInv == TypeOK /\ WellFormed /\ Unwritten /\ Paid /\ NothingLost /\ Calm

-----------------------------------------------------------------------------
(* The data.                                                               *)

\* An entry leaves the map of loaded ones.
LEMMA WithoutOne ==
    ASSUME NEW f \in Pending, NEW d
    PROVE  Without(f, d) \in Pending /\ DOMAIN Without(f, d) = DOMAIN f \ {d}
  <1>1. PICK ids \in SUBSET Delivery : f \in [ids -> Count]
    BY DEF Pending
  <1>2. Without(f, d) \in [ids \ {d} -> Count]
    BY <1>1 DEF Without
  <1>3. ids \ {d} \in SUBSET Delivery
    OBVIOUS
  <1>4. QED
    BY <1>1, <1>2, <1>3 DEF Pending, Without

\* An entry is loaded, or skipped.
LEMMA WithOne ==
    ASSUME NEW d \in recovery.files, TypeOK, WellFormed
    PROVE  /\ readQueueEntry(d) \in Pending
           /\ DOMAIN readQueueEntry(d)
                = pendingIds \cup IF entry[d] = NoEntry THEN {} ELSE {d}
  <1> DEFINE ids == pendingIds \cup IF entry[d] = NoEntry THEN {} ELSE {d}
  <1>1. pendingIds \in SUBSET Delivery /\ \A x \in pendingIds : recovery.pending[x] \in Count
    BY DEF TypeOK
  <1>2. d \in Delivery \ pendingIds /\ (entry[d] # NoEntry => entry[d] \in Count)
    BY DEF TypeOK, WellFormed
  <1>3. ids \in SUBSET Delivery
    BY <1>1, <1>2
  <1>4. readQueueEntry(d) \in [ids -> Count]
    BY <1>1, <1>2 DEF readQueueEntry
  <1>5. QED
    BY <1>3, <1>4 DEF Pending

\* Nothing is loaded.
LEMMA NoneLoaded == <<>> \in Pending /\ DOMAIN <<>> = {}
  <1>1. <<>> \in [1 .. 0 -> Count] /\ DOMAIN <<>> = 1 .. 0
    BY EmptySeq, LenProperties
  <1>2. 1 .. 0 = {}
    OBVIOUS
  <1>3. {} \in SUBSET Delivery
    OBVIOUS
  <1>4. QED
    BY <1>1, <1>2, <1>3 DEF Pending

\* A set of positions has a first one.
LEMMA First ==
    ASSUME NEW I \in SUBSET (Nat \ {0}), I # {}
    PROVE  \E i \in I : \A k \in 1 .. (i - 1) : k \notin I
  <1> DEFINE W == {1 .. i : i \in I}
  <1>1. W \subseteq FiniteSubsetsOf(Nat) /\ W # {}
    <2>1. ASSUME NEW i \in I
          PROVE  IsFiniteSet(1 .. i) /\ 1 .. i \in SUBSET Nat
      BY FS_Interval
    <2>2. QED
      BY <2>1 DEF FiniteSubsetsOf
  <1>2. PICK w \in W : \A v \in W : <<v, w>> \notin StrictSubsetOrdering(Nat)
    BY <1>1, WFMin, FS_StrictSubsetOrderingWellFounded
  <1>3. PICK i \in I : w = 1 .. i
    OBVIOUS
  <1>4. ASSUME NEW k \in 1 .. (i - 1), k \in I
        PROVE  FALSE
    <2>1. 1 .. k \in W
      BY <1>4
    <2>2. 1 .. k \subseteq 1 .. i /\ 1 .. k # 1 .. i
      <3>1. i \in 1 .. i /\ i \notin 1 .. k
        BY <1>4
      <3>2. QED
        BY <1>4, <3>1
    <2>3. <<1 .. k, w>> \in StrictSubsetOrdering(Nat)
      BY <1>3, <2>2 DEF StrictSubsetOrdering
    <2>4. QED
      BY <1>2, <2>1, <2>3
  <1>5. QED
    BY <1>4

\* The oldest of the entries is one of them.
LEMMA OldestIsOne ==
    ASSUME TypeOK, NEW ids, ids # {}, ids \subseteq ToSet(order)
    PROVE  Oldest(ids) \in ids
  <1> DEFINE I == {i \in DOMAIN order : order[i] \in ids}
  <1>1. DOMAIN order = 1 .. Len(order) /\ Len(order) \in Nat
    BY LenProperties DEF TypeOK
  <1>2. I \in SUBSET (Nat \ {0}) /\ I # {}
    BY <1>1 DEF ToSet
  <1>3. PICK i \in I : \A k \in 1 .. (i - 1) : k \notin I
    BY <1>2, First
  <1>4. \A k \in 1 .. (i - 1) : order[k] \notin ids
    BY <1>1, <1>3
  <1>5. \E n \in DOMAIN order : order[n] \in ids /\ \A k \in 1 .. (n - 1) : order[k] \notin ids
    BY <1>3, <1>4
  <1>6. QED
    BY <1>5 DEF Oldest

\* One more message was written.
LEMMA Written ==
    ASSUME NEW d \in Delivery, order \in Seq(Delivery)
    PROVE  /\ Append(order, d) \in Seq(Delivery)
           /\ ToSet(Append(order, d)) = ToSet(order) \cup {d}
  <1>1. /\ Append(order, d) \in Seq(Delivery) /\ Len(Append(order, d)) = Len(order) + 1
        /\ \A i \in 1 .. Len(order) : Append(order, d)[i] = order[i]
        /\ Append(order, d)[Len(order) + 1] = d
    BY AppendProperties
  <1>2. /\ DOMAIN order = 1 .. Len(order) /\ Len(order) \in Nat
        /\ DOMAIN Append(order, d) = 1 .. (Len(order) + 1)
    BY <1>1, LenProperties
  <1>3. 1 .. (Len(order) + 1) = 1 .. Len(order) \cup {Len(order) + 1}
    BY <1>2
  <1>4. QED
    BY <1>1, <1>2, <1>3 DEF ToSet

-----------------------------------------------------------------------------
(* The actions of recovery, field by field.                                *)

\* What a change of recovery leaves, in the words of its fields.
LEMMA Fields ==
    ASSUME NEW pc, NEW files, NEW pending, NEW sending
    PROVE  /\ Rec(pc, files, pending, sending).pc = pc
           /\ Rec(pc, files, pending, sending).files = files
           /\ Rec(pc, files, pending, sending).pending = pending
           /\ Rec(pc, files, pending, sending).sending = sending
  BY DEF Rec

\* The steps of loadPendingDeliveries.
LEMMA LoadSteps ==
    ASSUME WellFormed
    PROVE  /\ loadPendingDeliveries
                => recovery' = Rec("reading", {d \in Delivery : entry[d] # NoEntry},
                                   recovery.pending, recovery.sending)
           /\ \A d \in recovery.files : loadEntry(d)
                => recovery' = Rec("reading", recovery.files \ {d}, readQueueEntry(d),
                                   recovery.sending)
           /\ loadEnds
                => recovery' = Rec("looping", recovery.files, recovery.pending,
                                   recovery.sending)
  <1>1. recovery = Rec(recovery.pc, recovery.files, recovery.pending, recovery.sending)
    BY DEF WellFormed
  <1>2. QED
    BY <1>1 DEF loadPendingDeliveries, loadEntry, loadEnds, Rec

\* The turns of the recovery loop.
LEMMA LoopSteps ==
    ASSUME WellFormed
    PROVE  /\ \A d : recoveryAt("looping", d)
                => recovery' = Rec("looping", recovery.files, Without(recovery.pending, d), {})
           /\ \A d : recoveryAt("sending", d)
                => recovery' = Rec("sending", recovery.files, Without(recovery.pending, d), {d})
           /\ deferRemainingEntriesForBudget
                => recovery' = Rec("done", recovery.files, <<>>, recovery.sending)
           /\ recoveryEnds
                => recovery' = Rec("done", recovery.files, recovery.pending, recovery.sending)
           /\ recoverySettles
                => recovery' = Rec("looping", recovery.files, recovery.pending, {})
           /\ crash => recovery' = Rec("off", {}, <<>>, {})
  <1>1. recovery = Rec(recovery.pc, recovery.files, recovery.pending, recovery.sending)
    BY DEF WellFormed
  <1>2. QED
    BY <1>1 DEF recoveryAt, deferRemainingEntriesForBudget, recoveryEnds, recoverySettles,
                crash, Idle, Rec

-----------------------------------------------------------------------------
(* Types, and what recovery knows.                                         *)

\* The storage calls that are begun.
LEMMA Calls ==
    ASSUME NEW d \in Delivery, NEW by \in {"live", "recovery"}
    PROVE  /\ \A outcome, told : closing(d, outcome, by, told) \in Job
           /\ \A outcome, told : /\ closing(d, outcome, by, told).id = d
                                 /\ closing(d, outcome, by, told).op \in {"ackRename", "failRead"}
           /\ \A op \in {"failRead", "move"} : /\ call(op, d, by) \in Job
                                               /\ call(op, d, by).id = d
                                               /\ call(op, d, by).op = op
  BY DEF closing, call, Job, Count

\* Recovery after a step that leaves the disk's list and the storage calls
\* alone: it suffices to look at its fields.
LEMMA RecoveryFormed ==
    ASSUME TypeOK, WellFormed, UNCHANGED order,
           \A d \in Delivery : entry'[d] # NoEntry => d \in ToSet(order),
           \A j \in jobs' : j.op = "failWrite" => j.id \in ToSet(order),
           NEW pc \in Pcs, NEW files \in SUBSET Delivery, NEW pending \in Pending,
           NEW sending \in SUBSET Delivery,
           recovery' = Rec(pc, files, pending, sending),
           files # {} => pc = "reading",
           DOMAIN pending # {} => pc \in {"reading", "looping", "sending"},
           sending # {} => pc = "sending",
           (files \cup sending) \cap DOMAIN pending = {},
           DOMAIN pending \subseteq ToSet(order)
    PROVE  /\ WellFormed'
           /\ recovery'.pc \in Pcs
           /\ recovery'.files \in SUBSET Delivery /\ recovery'.sending \in SUBSET Delivery
           /\ pendingIds' \in SUBSET Delivery
           /\ \A d \in pendingIds' : recovery'.pending[d] \in Count
  <1>1. /\ recovery'.pc = pc /\ recovery'.files = files
        /\ recovery'.pending = pending /\ recovery'.sending = sending
    BY Fields
  <1>2. pendingIds' = DOMAIN pending
    BY <1>1 DEF pendingIds
  <1>3. DOMAIN pending \in SUBSET Delivery /\ \A d \in DOMAIN pending : pending[d] \in Count
    BY DEF Pending
  <1>4. WellFormed'
    BY <1>1, <1>2 DEF WellFormed
  <1>5. QED
    BY <1>1, <1>2, <1>3, <1>4

Formed == TypeOK /\ WellFormed

\* Steps of the live sends and of the storage calls.
LEMMA DiskFormed ==
    ASSUME Formed, recovery' = recovery, crashes' = crashes,
           entry' \in [Delivery -> Count \cup {NoEntry}],
           markers' \in SUBSET Delivery, failed' \in SUBSET Delivery,
           live' \in [Delivery -> {"idle", "queued", "unqueued", "done"}],
           jobs' \in SUBSET Job, order' \in Seq(Delivery), ToSet(order) \subseteq ToSet(order'),
           sends' \in [Delivery -> Nat], sent' \in SUBSET Delivery,
           dropped' \in SUBSET Delivery, ended' \in SUBSET Delivery,
           overlapped' \in SUBSET Delivery,
           \A d \in Delivery : entry'[d] # NoEntry => d \in ToSet(order'),
           \A j \in jobs' : j.op = "failWrite" => j.id \in ToSet(order')
    PROVE  Formed'
  <1>1. pendingIds' = pendingIds
    BY DEF pendingIds
  <1>2. TypeOK'
    BY <1>1 DEF Formed, TypeOK
  <1>3. WellFormed'
    BY <1>1 DEF Formed, WellFormed
  <1>4. QED
    BY <1>2, <1>3 DEF Formed

\* The counts of sends stay typed.
LEMMA SendTyped ==
    ASSUME TypeOK, NEW d \in Delivery, NEW outcome, noteSend(d, outcome)
    PROVE  /\ sends' \in [Delivery -> Nat] /\ sent' \in SUBSET Delivery
           /\ sent \subseteq sent' /\ (outcome = "sent" => d \in sent')
           /\ outcome = "sent" => sends'[d] = sends[d] + 1
           /\ outcome # "sent" => sends'[d] = sends[d]
           /\ \A x \in Delivery \ {d} : sends'[x] = sends[x]
  BY DEF TypeOK, noteSend

LEMMA LiveFormed ==
    ASSUME Formed, NEW d \in Delivery, enqueueDelivery(d) \/ liveSettles(d)
    PROVE  Formed'
  <1>1. CASE enqueueDelivery(d)
    <2>1. /\ Append(order, d) \in Seq(Delivery)
          /\ ToSet(Append(order, d)) = ToSet(order) \cup {d}
      BY Written DEF Formed, TypeOK
    <2>2. /\ UNCHANGED <<markers, failed, recovery, jobs, crashes, sends, sent, dropped, ended,
                         overlapped>>
          /\ live' \in [Delivery -> {"idle", "queued", "unqueued", "done"}]
      BY <1>1 DEF enqueueDelivery, Formed, TypeOK
    <2>3. \/ entry' = [entry EXCEPT ![d] = 0] /\ order' = Append(order, d)
          \/ UNCHANGED <<entry, order>>
      BY <1>1 DEF enqueueDelivery
    <2>4. /\ entry' \in [Delivery -> Count \cup {NoEntry}]
          /\ \A x \in Delivery : entry'[x] = entry[x] \/ (x = d /\ order' = Append(order, d))
      BY <2>3 DEF Formed, TypeOK, Count
    <2>5. order' \in Seq(Delivery) /\ ToSet(order) \subseteq ToSet(order')
      BY <2>1, <2>3 DEF Formed, TypeOK
    <2>6. \A x \in Delivery : entry'[x] # NoEntry => x \in ToSet(order')
      BY <2>1, <2>4, <2>5 DEF Formed, WellFormed
    <2>7. \A j \in jobs' : j.op = "failWrite" => j.id \in ToSet(order')
      BY <2>2, <2>5 DEF Formed, WellFormed
    <2>8. QED
      BY <2>2, <2>4, <2>5, <2>6, <2>7, DiskFormed DEF Formed, TypeOK
  <1>2. CASE liveSettles(d)
    <2>1. PICK outcome \in Outcomes(d) \cup IF d \in BestEffort THEN {} ELSE {"aborted"} :
             /\ noteSend(d, outcome)
             /\ dropped' = IF outcome = "aborted" THEN dropped \cup {d} ELSE dropped
             /\ jobs' = IF live[d] = "unqueued" THEN jobs
                        ELSE jobs \cup {closing(d, outcome, "live", d \in OnError)}
      BY <1>2 DEF liveSettles
    <2> DEFINE job == closing(d, outcome, "live", d \in OnError)
    <2>2. job \in Job /\ job.op # "failWrite"
      BY Calls
    <2>3. /\ live' = [live EXCEPT ![d] = "done"]
          /\ UNCHANGED <<disk, recovery, crashes, order, ended, overlapped>>
      BY <1>2 DEF liveSettles
    <2> HIDE DEF job
    <2>4. jobs' \subseteq jobs \cup {job}
      BY <2>1 DEF job
    <2>5. /\ jobs' \in SUBSET Job /\ dropped' \in SUBSET Delivery
          /\ sends' \in [Delivery -> Nat] /\ sent' \in SUBSET Delivery
      BY <2>1, <2>2, <2>4, SendTyped DEF Formed, TypeOK
    <2>6. live' \in [Delivery -> {"idle", "queued", "unqueued", "done"}]
      BY <2>3 DEF Formed, TypeOK
    <2>7. QED
      BY <2>2, <2>3, <2>4, <2>5, <2>6, DiskFormed DEF Formed, TypeOK, WellFormed, disk
  <1>3. QED
    BY <1>1, <1>2

LEMMA StorageFormed ==
    ASSUME Formed, NEW j \in jobs,
           ackRename(j) \/ ackUnlink(j) \/ failRead(j) \/ failWrite(j) \/ moveToFailed(j)
    PROVE  Formed'
  <1>1. /\ j \in Job /\ j.id \in Delivery /\ j.count \in Count
        /\ jobs \in SUBSET Job /\ entry \in [Delivery -> Count \cup {NoEntry}]
        /\ \A d \in Delivery : entry[d] # NoEntry => d \in ToSet(order)
        /\ \A k \in jobs : k.op = "failWrite" => k.id \in ToSet(order)
    BY DEF Formed, TypeOK, WellFormed, Job
  <1>2. UNCHANGED <<live, recovery, crashes, order, sends, sent, dropped, overlapped>>
    BY DEF ackRename, ackUnlink, failRead, failWrite, moveToFailed, history
  <1>3. /\ markers' \in SUBSET Delivery /\ failed' \in SUBSET Delivery
        /\ ended' \in SUBSET Delivery
    BY <1>1 DEF ackRename, ackUnlink, failRead, failWrite, moveToFailed, noteEnd, history,
                disk, Formed, TypeOK
  <1>4. /\ jobs' \in SUBSET Job
        /\ \A k \in jobs' : k.op = "failWrite" => k.id \in ToSet(order)
    <2>1. CASE ackRename(j)
      <3>1. [j EXCEPT !.op = "ackUnlink"] \in Job /\ [j EXCEPT !.op = "ackUnlink"].op = "ackUnlink"
        BY <1>1 DEF Job
      <3>2. QED
        BY <1>1, <2>1, <3>1 DEF ackRename, replaceJob
    <2>2. CASE failRead(j)
      <3> DEFINE new == [j EXCEPT !.op = "failWrite", !.count = entry[j.id] + 1]
      <3>1. CASE entry[j.id] = NoEntry
        BY <1>1, <2>2, <3>1 DEF failRead, replaceJob
      <3>2. CASE entry[j.id] # NoEntry
        <4>1. entry[j.id] + 1 \in Count
          BY <1>1, <3>2 DEF Count
        <4>2. new \in Job /\ new.id = j.id
          BY <1>1, <4>1 DEF Job
        <4>3. jobs' = (jobs \ {j}) \cup {new}
          BY <2>2, <3>2 DEF failRead, replaceJob
        <4> HIDE DEF new
        <4>4. QED
          BY <1>1, <3>2, <4>2, <4>3
      <3>3. QED
        BY <3>1, <3>2
    <2>3. CASE ackUnlink(j) \/ failWrite(j) \/ moveToFailed(j)
      BY <1>1, <2>3 DEF ackUnlink, failWrite, moveToFailed, replaceJob
    <2>4. QED
      BY <2>1, <2>2, <2>3
  <1>5. /\ entry' \in [Delivery -> Count \cup {NoEntry}]
        /\ \A d \in Delivery : entry'[d] # NoEntry => d \in ToSet(order)
    BY <1>1 DEF ackRename, ackUnlink, failRead, failWrite, moveToFailed, disk
  <1>6. QED
    BY <1>2, <1>3, <1>4, <1>5, DiskFormed DEF Formed, TypeOK

\* A turn of the recovery loop: one of the entries it knows leaves the map, or
\* all do.
LEMMA LoopTurn ==
    ASSUME Formed, recoverNext
    PROVE  /\ recovery.pc = "looping" /\ ~RecoveryBusy
           /\ UNCHANGED <<disk, live, crashes, history>>
           /\ \/ \E d \in pendingIds :
                    /\ recovery' = Rec("looping", {}, Without(recovery.pending, d), {})
                    /\ jobs' = jobs \cup {call("move", d, "recovery")} \/ jobs' = jobs
              \/ \E d \in pendingIds :
                    /\ recovery' = Rec("sending", {}, Without(recovery.pending, d), {d})
                    /\ jobs' = jobs
              \/ /\ recovery' = Rec("done", {}, <<>>, {})
                 /\ jobs' = jobs \cup {call("failRead", d, "recovery") : d \in pendingIds}
  <1> DEFINE d == Oldest(pendingIds)
  <1>1. /\ recovery.pc = "looping" /\ ~RecoveryBusy /\ pendingIds # {}
        /\ UNCHANGED <<disk, live, crashes, history>>
        /\ pruneEntry(d) \/ deferForBackoff(d) \/ startSend(d) \/ deferRemainingEntriesForBudget
    BY DEF recoverNext
  <1>2. recovery.files = {} /\ recovery.sending = {}
    BY <1>1 DEF Formed, WellFormed
  <1>3. d \in pendingIds
    BY <1>1, OldestIsOne DEF Formed, WellFormed
  <1> HIDE DEF d
  <1>4. CASE pruneEntry(d)
    BY <1>1, <1>2, <1>3, <1>4, LoopSteps DEF pruneEntry, Formed
  <1>5. CASE deferForBackoff(d)
    BY <1>1, <1>2, <1>3, <1>5, LoopSteps DEF deferForBackoff, Formed
  <1>6. CASE startSend(d)
    BY <1>1, <1>2, <1>3, <1>6, LoopSteps DEF startSend, Formed
  <1>7. CASE deferRemainingEntriesForBudget
    BY <1>1, <1>2, <1>7, LoopSteps DEF deferRemainingEntriesForBudget, Formed
  <1>8. QED
    BY <1>1, <1>4, <1>5, <1>6, <1>7

\* Types after a step that changes recovery and adds storage calls.
LEMMA RecoveryTyped ==
    ASSUME Formed, UNCHANGED <<entry, failed, order, dropped, ended>>,
           markers' \in SUBSET Delivery, overlapped' \in SUBSET Delivery,
           sent' \in SUBSET Delivery,
           live' \in [Delivery -> {"idle", "queued", "unqueued", "done"}],
           crashes' \in 0 .. MaxCrashes, sends' \in [Delivery -> Nat],
           jobs' \in SUBSET Job, \A j \in jobs' : j \in jobs \/ j.op # "failWrite",
           NEW pc \in Pcs, NEW files \in SUBSET Delivery, NEW pending \in Pending,
           NEW sending \in SUBSET Delivery,
           recovery' = Rec(pc, files, pending, sending),
           files # {} => pc = "reading",
           DOMAIN pending # {} => pc \in {"reading", "looping", "sending"},
           sending # {} => pc = "sending",
           (files \cup sending) \cap DOMAIN pending = {},
           DOMAIN pending \subseteq ToSet(order)
    PROVE  Formed'
  <1>1. /\ \A d \in Delivery : entry'[d] # NoEntry => d \in ToSet(order)
        /\ \A j \in jobs' : j.op = "failWrite" => j.id \in ToSet(order)
    BY DEF Formed, WellFormed
  <1>2. /\ WellFormed'
        /\ recovery'.pc \in Pcs
        /\ recovery'.files \in SUBSET Delivery /\ recovery'.sending \in SUBSET Delivery
        /\ pendingIds' \in SUBSET Delivery
        /\ \A d \in pendingIds' : recovery'.pending[d] \in Count
    BY <1>1, RecoveryFormed DEF Formed
  <1>3. TypeOK'
    BY <1>2 DEF Formed, TypeOK, Pcs
  <1>4. QED
    BY <1>2, <1>3 DEF Formed

LEMMA RecoverFormed ==
    ASSUME Formed,
           \/ loadPendingDeliveries \/ loadEnds \/ recoverNext \/ recoveryEnds \/ recoverySettles
           \/ \E d \in Delivery : loadEntry(d)
    PROVE  Formed'
  <1> USE DEF Pcs
  <1>1. /\ TypeOK /\ WellFormed
        /\ recovery.files \in SUBSET Delivery /\ recovery.sending \in SUBSET Delivery
        /\ recovery.pending \in Pending /\ pendingIds = DOMAIN recovery.pending
        /\ pendingIds \subseteq Delivery /\ pendingIds \subseteq ToSet(order)
        /\ recovery.files # {} => recovery.pc = "reading"
        /\ pendingIds # {} => recovery.pc \in {"reading", "looping", "sending"}
        /\ recovery.sending # {} => recovery.pc = "sending"
        /\ (recovery.files \cup recovery.sending) \cap pendingIds = {}
    BY DEF Formed, WellFormed, TypeOK, pendingIds
  <1>2. /\ markers \in SUBSET Delivery /\ crashes \in 0 .. MaxCrashes
        /\ live \in [Delivery -> {"idle", "queued", "unqueued", "done"}]
        /\ sends \in [Delivery -> Nat] /\ sent \in SUBSET Delivery
        /\ jobs \in SUBSET Job /\ overlapped \in SUBSET Delivery
    BY <1>1 DEF TypeOK
  <1>3. CASE loadPendingDeliveries
    <2> DEFINE files == {d \in Delivery : entry[d] # NoEntry}
    <2>1. /\ recovery' = Rec("reading", files, recovery.pending, recovery.sending)
          /\ markers' = {} /\ recovery.pc = "off"
          /\ UNCHANGED <<entry, failed, live, jobs, crashes, history>>
      BY <1>1, <1>3, LoadSteps DEF loadPendingDeliveries
    <2>2. DOMAIN recovery.pending = {} /\ recovery.sending = {} /\ files \in SUBSET Delivery
      BY <1>1, <2>1
    <2> HIDE DEF files
    <2>3. /\ UNCHANGED <<entry, failed, order, dropped, ended, overlapped, jobs>>
          /\ markers' \in SUBSET Delivery /\ crashes' = crashes /\ live' = live
          /\ sends' = sends /\ sent' = sent
      BY <2>1 DEF history
    <2>4. QED
      BY <1>1, <1>2, <2>1, <2>2, <2>3, RecoveryTyped
  <1>4. ASSUME NEW d \in Delivery, loadEntry(d)
        PROVE  Formed'
    <2>1. /\ recovery.pc = "reading" /\ d \in recovery.files
          /\ UNCHANGED <<disk, live, jobs, crashes, order, sends, sent, dropped, ended>>
          /\ overlapped' \subseteq overlapped \cup {d}
      BY <1>4 DEF loadEntry
    <2>2. recovery' = Rec("reading", recovery.files \ {d}, readQueueEntry(d), recovery.sending)
      BY <1>1, <1>4, <2>1, LoadSteps
    <2>3. /\ readQueueEntry(d) \in Pending
          /\ DOMAIN readQueueEntry(d) = pendingIds \cup IF entry[d] = NoEntry THEN {} ELSE {d}
      BY <1>1, <2>1, WithOne
    <2>4. entry[d] # NoEntry => d \in ToSet(order)
      BY <1>1 DEF WellFormed
    <2>5. recovery.sending = {}
      BY <1>1, <2>1
    <2>6. (recovery.files \ {d}) \cap DOMAIN readQueueEntry(d) = {}
      BY <1>1, <2>3
    <2>7. DOMAIN readQueueEntry(d) \subseteq ToSet(order)
      BY <1>1, <2>3, <2>4
    <2>8. overlapped' \in SUBSET Delivery
      BY <1>2, <2>1
    <2>9. QED
      BY <1>1, <1>2, <2>1, <2>2, <2>3, <2>5, <2>6, <2>7, <2>8, RecoveryTyped DEF disk
  <1>5. CASE loadEnds
    <2>1. /\ recovery.pc = "reading" /\ recovery.files = {}
          /\ recovery' = Rec("looping", recovery.files, recovery.pending, recovery.sending)
          /\ UNCHANGED <<disk, live, jobs, crashes, history>>
      BY <1>1, <1>5, LoadSteps DEF loadEnds
    <2>2. QED
      BY <1>1, <1>2, <2>1, RecoveryTyped DEF disk, history
  <1>6. CASE recoverNext
    <2>1. UNCHANGED <<disk, live, crashes, history>>
      BY <1>6, LoopTurn
    <2>2. ASSUME NEW d \in pendingIds,
                 recovery' = Rec("looping", {}, Without(recovery.pending, d), {}),
                 jobs' = jobs \cup {call("move", d, "recovery")} \/ jobs' = jobs
          PROVE  Formed'
      <3>1. call("move", d, "recovery") \in Job /\ call("move", d, "recovery").op = "move"
        BY <1>1, Calls
      <3>2. /\ Without(recovery.pending, d) \in Pending
            /\ DOMAIN Without(recovery.pending, d) = pendingIds \ {d}
        BY <1>1, WithoutOne
      <3>3. jobs' \in SUBSET Job /\ \A j \in jobs' : j \in jobs \/ j.op # "failWrite"
        BY <1>2, <2>2, <3>1
      <3>4. QED
        BY <1>1, <1>2, <2>1, <2>2, <3>2, <3>3, RecoveryTyped DEF disk, history
    <2>3. ASSUME NEW d \in pendingIds, jobs' = jobs,
                 recovery' = Rec("sending", {}, Without(recovery.pending, d), {d})
          PROVE  Formed'
      <3>1. /\ Without(recovery.pending, d) \in Pending
            /\ DOMAIN Without(recovery.pending, d) = pendingIds \ {d}
        BY <1>1, WithoutOne
      <3>2. {d} \in SUBSET Delivery
        BY <1>1
      <3>3. QED
        BY <1>1, <1>2, <2>1, <2>3, <3>1, <3>2, RecoveryTyped DEF disk, history
    <2>4. CASE /\ recovery' = Rec("done", {}, <<>>, {})
               /\ jobs' = jobs \cup {call("failRead", d, "recovery") : d \in pendingIds}
      <3>1. \A d \in pendingIds : /\ call("failRead", d, "recovery") \in Job
                                  /\ call("failRead", d, "recovery").op # "failWrite"
        BY <1>1, Calls
      <3>2. jobs' \in SUBSET Job /\ \A j \in jobs' : j \in jobs \/ j.op # "failWrite"
        BY <1>2, <2>4, <3>1
      <3>3. QED
        BY <1>2, <2>1, <2>4, <3>2, NoneLoaded, RecoveryTyped DEF disk, history
    <2>5. QED
      BY <1>6, <2>2, <2>3, <2>4, LoopTurn
  <1>7. CASE recoveryEnds
    <2>1. /\ recovery.pc = "looping" /\ pendingIds = {}
          /\ recovery' = Rec("done", recovery.files, recovery.pending, recovery.sending)
          /\ UNCHANGED <<disk, live, jobs, crashes, history>>
      BY <1>1, <1>7, LoopSteps DEF recoveryEnds
    <2>2. recovery.files = {} /\ recovery.sending = {}
      BY <1>1, <2>1
    <2>3. QED
      BY <1>1, <1>2, <2>1, <2>2, RecoveryTyped DEF disk, history
  <1>8. CASE recoverySettles
    <2>1. /\ recovery.pc = "sending"
          /\ recovery' = Rec("looping", recovery.files, recovery.pending, {})
          /\ UNCHANGED <<disk, live, crashes, order, dropped, ended, overlapped>>
      BY <1>1, <1>8, LoopSteps DEF recoverySettles
    <2>2. PICK d \in recovery.sending : \E outcome \in Outcomes(d) :
             /\ noteSend(d, outcome)
             /\ \/ jobs' = jobs \cup {closing(d, outcome, "recovery", FALSE)}
                \/ jobs' = jobs \cup {call("move", d, "recovery")}
      BY <1>8 DEF recoverySettles
    <2>3. PICK outcome \in Outcomes(d) :
             /\ noteSend(d, outcome)
             /\ \/ jobs' = jobs \cup {closing(d, outcome, "recovery", FALSE)}
                \/ jobs' = jobs \cup {call("move", d, "recovery")}
      BY <2>2
    <2>4. /\ closing(d, outcome, "recovery", FALSE) \in Job
          /\ closing(d, outcome, "recovery", FALSE).op # "failWrite"
          /\ call("move", d, "recovery") \in Job
          /\ call("move", d, "recovery").op # "failWrite"
      BY <1>1, Calls
    <2>5. jobs' \in SUBSET Job /\ \A j \in jobs' : j \in jobs \/ j.op # "failWrite"
      BY <1>2, <2>3, <2>4
    <2>6. sends' \in [Delivery -> Nat] /\ sent' \in SUBSET Delivery
      BY <1>1, <1>2, <2>3, SendTyped
    <2>7. recovery.files = {}
      BY <1>1, <2>1
    <2>8. QED
      BY <1>1, <1>2, <2>1, <2>5, <2>6, <2>7, RecoveryTyped DEF disk
  <1>9. QED
    BY <1>3, <1>4, <1>5, <1>6, <1>7, <1>8

LEMMA CrashFormed ==
    ASSUME Formed, crash
    PROVE  Formed'
  <1>1. recovery' = Rec("off", {}, <<>>, {}) /\ jobs' = {}
        /\ UNCHANGED <<disk, order, sent, dropped, ended>>
    BY LoopSteps DEF crash, Formed
  <1>2. crashes' \in 0 .. MaxCrashes
    BY DeliveryQueueAssumption DEF crash, Formed, TypeOK
  <1>3. live' \in [Delivery -> {"idle", "queued", "unqueued", "done"}]
    BY DEF crash, Formed, TypeOK
  <1>4. markers \in SUBSET Delivery /\ sent \in SUBSET Delivery
    BY DEF Formed, TypeOK
  <1>5. sends' \in [Delivery -> Nat] /\ overlapped' \in SUBSET Delivery
    BY DEF crash
  <1>6. QED
    BY <1>1, <1>2, <1>3, <1>4, <1>5, NoneLoaded, RecoveryTyped DEF disk, Pcs

-----------------------------------------------------------------------------
(* Nothing is lost.                                                        *)

\* The acknowledgements under way stay paid for, and what was written stays
\* accounted for, when these are so for what the step changes.
LEMMA AccountKept ==
    ASSUME Formed, Paid, NothingLost,
           sent \subseteq sent', dropped \subseteq dropped', failed \subseteq failed',
           \A j \in jobs' : \/ j \in jobs \/ j.op # "ackRename" \/ j.id \in BestEffort
                            \/ j.id \in sent' \cup dropped',
           \A d \in ToSet(order') : d \in ToSet(order) \/ entry'[d] # NoEntry,
           \A d \in Delivery \ BestEffort :
              entry[d] # NoEntry /\ entry'[d] = NoEntry
              => d \in failed' \cup dropped' \cup sent'
    PROVE  Paid' /\ NothingLost'
  <1>1. \A j \in jobs : j.id \in Delivery
    BY DEF Formed, TypeOK, Job
  <1>2. Paid'
    BY <1>1 DEF Paid
  <1>3. ToSet(order) \subseteq Delivery
    <2>1. DOMAIN order = 1 .. Len(order) /\ \A i \in 1 .. Len(order) : order[i] \in Delivery
      BY LenProperties, ElementOfSeq DEF Formed, TypeOK
    <2>2. QED
      BY <2>1 DEF ToSet
  <1>4. NothingLost'
    BY <1>3 DEF NothingLost, Accounted
  <1>5. QED
    BY <1>2, <1>4

LEMMA AccountStep ==
    ASSUME Formed, Paid, NothingLost, Next
    PROVE  Paid' /\ NothingLost'
  <1>1. /\ sends \in [Delivery -> Nat] /\ order \in Seq(Delivery) /\ jobs \in SUBSET Job
        /\ entry \in [Delivery -> Count \cup {NoEntry}]
        /\ recovery.sending \in SUBSET Delivery /\ pendingIds \in SUBSET Delivery
        /\ NoEntry \notin Count
    BY DeliveryQueueAssumption DEF Formed, TypeOK, Count
  <1>2. ASSUME NEW d \in Delivery, enqueueDelivery(d)
        PROVE  Paid' /\ NothingLost'
    <2>1. /\ UNCHANGED <<failed, jobs, sent, dropped>>
          /\ \/ entry' = [entry EXCEPT ![d] = 0] /\ order' = Append(order, d)
             \/ UNCHANGED <<entry, order>>
      BY <1>2 DEF enqueueDelivery
    <2>2. ToSet(Append(order, d)) = ToSet(order) \cup {d}
      BY <1>1, Written
    <2>3. 0 # NoEntry
      BY <1>1 DEF Count
    <2>4. \A x \in ToSet(order') : x \in ToSet(order) \/ entry'[x] # NoEntry
      BY <1>1, <2>1, <2>2, <2>3
    <2>5. \A x \in Delivery : entry[x] # NoEntry => entry'[x] # NoEntry
      BY <1>1, <2>1, <2>3
    <2>6. QED
      BY <2>1, <2>4, <2>5, AccountKept
  <1>3. ASSUME NEW d \in Delivery, NEW outcome, NEW job \in Job, outcome # "aborted",
               noteSend(d, outcome),
               outcome \in {"sent", "threw"} \/ d \in BestEffort,
               job.id = d, job.op = "ackRename" => outcome # "threw",
               jobs' \subseteq jobs \cup {job}, UNCHANGED <<entry, failed, order, dropped>>
        PROVE  Paid' /\ NothingLost'
    <2>1. sent \subseteq sent' /\ (outcome = "sent" => d \in sent')
      BY <1>3, SendTyped DEF Formed
    <2>2. QED
      BY <1>3, <2>1, AccountKept
  <1>4. ASSUME NEW d \in Delivery, liveSettles(d)
        PROVE  Paid' /\ NothingLost'
    <2>1. PICK outcome \in Outcomes(d) \cup IF d \in BestEffort THEN {} ELSE {"aborted"} :
             /\ noteSend(d, outcome)
             /\ dropped' = IF outcome = "aborted" THEN dropped \cup {d} ELSE dropped
             /\ jobs' = IF live[d] = "unqueued" THEN jobs
                        ELSE jobs \cup {closing(d, outcome, "live", d \in OnError)}
      BY <1>4 DEF liveSettles
    <2> DEFINE job == closing(d, outcome, "live", d \in OnError)
    <2>2. /\ job \in Job /\ job.id = d
          /\ job.op = "ackRename" => outcome # "threw"
      <3>1. outcome = "threw" => job = call("failRead", d, "live")
        BY DEF closing
      <3>2. QED
        BY <3>1, Calls
    <2>3. UNCHANGED <<entry, failed, order>>
      BY <1>4 DEF liveSettles, disk
    <2>4. jobs' \subseteq jobs \cup {job}
      BY <2>1
    <2> HIDE DEF job
    <2>5. CASE outcome = "aborted"
      <3>1. sent' = sent /\ dropped' = dropped \cup {d}
        BY <2>1, <2>5 DEF noteSend
      <3>2. QED
        BY <2>2, <2>3, <2>4, <3>1, AccountKept
    <2>6. CASE outcome # "aborted"
      <3>1. outcome \in {"sent", "threw"} \/ d \in BestEffort
        BY <2>1, <2>6 DEF Outcomes
      <3>2. noteSend(d, outcome)
        BY <2>1
      <3>3. dropped' = dropped
        BY <2>1, <2>6
      <3>4. QED
        BY <1>3, <2>2, <2>3, <2>4, <2>6, <3>1, <3>2, <3>3
    <2>7. QED
      BY <2>5, <2>6
  <1>5. CASE recoverySettles
    <2>1. PICK d \in recovery.sending : \E outcome \in Outcomes(d) :
             /\ noteSend(d, outcome)
             /\ \/ jobs' = jobs \cup {closing(d, outcome, "recovery", FALSE)}
                \/ jobs' = jobs \cup {call("move", d, "recovery")}
      BY <1>5 DEF recoverySettles
    <2>2. PICK outcome \in Outcomes(d) :
             /\ noteSend(d, outcome)
             /\ \/ jobs' = jobs \cup {closing(d, outcome, "recovery", FALSE)}
                \/ jobs' = jobs \cup {call("move", d, "recovery")}
      BY <2>1
    <2>3. d \in Delivery /\ UNCHANGED <<entry, failed, order, dropped>>
      BY <1>1, <1>5 DEF recoverySettles, disk
    <2>4. (outcome \in {"sent", "threw"} \/ d \in BestEffort) /\ outcome # "aborted"
      BY DEF Outcomes
    <2>5. PICK job \in Job : /\ jobs' \subseteq jobs \cup {job} /\ job.id = d
                             /\ job.op = "ackRename" => outcome # "threw"
      <3>1. outcome = "threw"
              => closing(d, outcome, "recovery", FALSE) = call("failRead", d, "recovery")
        BY DEF closing
      <3> DEFINE close == closing(d, outcome, "recovery", FALSE)
                 move == call("move", d, "recovery")
      <3>2. /\ close \in Job /\ close.id = d /\ (close.op = "ackRename" => outcome # "threw")
            /\ move \in Job /\ move.id = d /\ move.op # "ackRename"
        <4>1. close \in Job /\ close.id = d
          BY <2>3 DEF closing, call, Job, Count
        <4>2. move \in Job /\ move.id = d /\ move.op = "move"
          BY <2>3, Calls
        <4>3. call("failRead", d, "recovery").op = "failRead"
          BY <2>3, Calls
        <4>4. outcome = "threw" => close.op = "failRead"
          BY <3>1, <4>3
        <4> HIDE DEF close, move
        <4>5. QED
          BY <4>1, <4>2, <4>4
      <3>3. jobs' = jobs \cup {close} \/ jobs' = jobs \cup {move}
        BY <2>2
      <3> HIDE DEF close, move
      <3>4. QED
        BY <3>2, <3>3
    <2>6. QED
      BY <1>3, <2>2, <2>3, <2>4, <2>5
  <1>6. ASSUME NEW j \in jobs,
               ackRename(j) \/ ackUnlink(j) \/ failRead(j) \/ failWrite(j) \/ moveToFailed(j)
        PROVE  Paid' /\ NothingLost'
    <2>1. j \in Job /\ j.id \in Delivery /\ j.count \in Count
      BY <1>1 DEF Job
    <2>2. UNCHANGED <<order, sent, dropped>> /\ failed \subseteq failed'
      BY <1>6 DEF ackRename, ackUnlink, failRead, failWrite, moveToFailed, history, disk
    <2>3. \A k \in jobs' : k \in jobs \/ k.op # "ackRename"
      <3>1. /\ [j EXCEPT !.op = "ackUnlink"].op = "ackUnlink"
            /\ [j EXCEPT !.op = "failWrite", !.count = entry[j.id] + 1].op = "failWrite"
        BY <2>1 DEF Job
      <3>2. QED
        BY <1>6, <3>1 DEF ackRename, ackUnlink, failRead, failWrite, moveToFailed, replaceJob
    <2>4. \A d \in Delivery \ BestEffort :
             entry[d] # NoEntry /\ entry'[d] = NoEntry
             => d \in failed' \cup dropped' \cup sent'
      <3>1. CASE ackRename(j)
        BY <1>1, <2>1, <2>2, <3>1 DEF ackRename, Paid
      <3>2. CASE ackUnlink(j) \/ failRead(j) \/ failWrite(j) \/ moveToFailed(j)
        BY <1>1, <2>1, <3>2 DEF ackUnlink, failRead, failWrite, moveToFailed, disk
      <3>3. QED
        BY <1>6, <3>1, <3>2
    <2>5. QED
      BY <2>2, <2>3, <2>4, AccountKept
  <1>7. CASE recoverNext
    <2>1. UNCHANGED <<disk, history>>
      BY <1>7, LoopTurn
    <2>2. \A d \in pendingIds : /\ call("move", d, "recovery").op # "ackRename"
                                /\ call("failRead", d, "recovery").op # "ackRename"
      BY <1>1, Calls
    <2>3. \A j \in jobs' : j \in jobs \/ j.op # "ackRename"
      BY <1>7, <2>2, LoopTurn
    <2>4. QED
      BY <2>1, <2>3, AccountKept DEF disk, history
  <1>8. ASSUME \/ loadPendingDeliveries \/ loadEnds \/ recoveryEnds \/ crash
               \/ \E d \in Delivery : loadEntry(d)
        PROVE  Paid' /\ NothingLost'
    <2>1. UNCHANGED <<entry, failed, order, sent, dropped>> /\ jobs' \subseteq jobs
      BY <1>8 DEF loadPendingDeliveries, loadEnds, recoveryEnds, crash, loadEntry, disk, history
    <2>2. QED
      BY <2>1, AccountKept
  <1>9. QED
    BY <1>2, <1>4, <1>5, <1>6, <1>7, <1>8 DEF Next

-----------------------------------------------------------------------------
(* What was written.                                                       *)

\* Only enqueueDelivery writes an entry that is new, and begins its live send.
LEMMA UnwrittenStep ==
    ASSUME Formed, Unwritten, Next
    PROVE  Unwritten'
  <1>1. live \in [Delivery -> {"idle", "queued", "unqueued", "done"}] /\ order \in Seq(Delivery)
    BY DEF Formed, TypeOK
  <1>2. ASSUME NEW d \in Delivery, enqueueDelivery(d)
        PROVE  Unwritten'
    <2>1. live[d] = "idle" /\ d \notin ToSet(order)
      BY <1>2 DEF enqueueDelivery, Unwritten
    <2>2. ToSet(Append(order, d)) = ToSet(order) \cup {d}
      BY <1>1, Written
    <2>3. \/ live' = [live EXCEPT ![d] = "queued"] /\ ToSet(order') = ToSet(order) \cup {d}
          \/ live' = [live EXCEPT ![d] = "unqueued"] /\ ToSet(order') = ToSet(order)
      BY <1>2, <2>2 DEF enqueueDelivery
    <2>4. QED
      BY <1>1, <2>1, <2>3 DEF Unwritten
  <1>3. ASSUME order' = order,
               \A x \in Delivery : live'[x] \in {"idle", "unqueued"} => live'[x] = live[x]
        PROVE  Unwritten'
    BY <1>3 DEF Unwritten
  <1>4. ASSUME NEW d \in Delivery, liveSettles(d)
        PROVE  Unwritten'
    <2>1. order' = order /\ live' = [live EXCEPT ![d] = "done"]
      BY <1>4 DEF liveSettles
    <2>2. QED
      BY <1>1, <1>3, <2>1
  <1>5. CASE crash
    BY <1>1, <1>3, <1>5 DEF crash
  <1>6. CASE \/ \E d \in Delivery : loadEntry(d)
             \/ \E j \in jobs : \/ ackRename(j) \/ ackUnlink(j) \/ failRead(j) \/ failWrite(j)
                                \/ moveToFailed(j)
             \/ loadPendingDeliveries \/ loadEnds \/ recoverNext \/ recoveryEnds
             \/ recoverySettles
    BY <1>3, <1>6 DEF loadEntry, ackRename, ackUnlink, failRead, failWrite, moveToFailed,
                      loadPendingDeliveries, loadEnds, recoverNext, recoveryEnds,
                      recoverySettles, history
  <1>7. QED
    BY <1>2, <1>4, <1>5, <1>6 DEF Next

-----------------------------------------------------------------------------
(* One owner.                                                              *)

\* The types the steps below use.
LEMMA OwnTypes ==
    ASSUME Formed
    PROVE  /\ sends \in [Delivery -> Nat] /\ jobs \in SUBSET Job
           /\ \A j \in jobs : j \in Job /\ j.id \in Delivery
           /\ entry \in [Delivery -> Count \cup {NoEntry}]
           /\ live \in [Delivery -> {"idle", "queued", "unqueued", "done"}]
           /\ ended \subseteq Delivery /\ overlapped \subseteq Delivery
           /\ recovery.sending \in SUBSET Delivery /\ pendingIds \in SUBSET Delivery
           /\ NoEntry \notin Count
  BY DeliveryQueueAssumption DEF Formed, TypeOK, Job, Count

\* A message the step does nothing to: recovery may let go of it, no more.
LEMMA Untouched ==
    ASSUME NEW x \in Delivery,
           live'[x] = live[x], entry'[x] = entry[x], sends'[x] = sends[x],
           x \in Held' => x \in Held,
           \A j \in jobs' : j.id = x => j \in jobs,
           \A j \in jobs : j.id = x => j \in jobs'
    PROVE  (Owned(x) => Owned(x)') /\ (Ended(x) => Ended(x)')
  <1>1. Closing(x) => Closing(x)'
    BY DEF Closing
  <1>2. Owned(x) => Owned(x)'
    BY <1>1 DEF Owned
  <1>3. Ended(x) => Ended(x)'
    BY DEF Ended
  <1>4. QED
    BY <1>2, <1>3

\* Recovery passes a message on to a storage call, or keeps it.
LEMMA Passed ==
    ASSUME NEW x \in Delivery, x \in Held, Owned(x),
           live'[x] = live[x], entry'[x] = entry[x], sends'[x] = sends[x],
           x \in Held' => \A j \in jobs' : j.id = x => j \in jobs,
           \A j, k \in jobs' \ jobs : j.id = x /\ k.id = x => j = k
    PROVE  Owned(x)'
  <1>1. live[x] = "done" /\ (\A j \in jobs : j.id # x)
    BY DEF Owned
  <1>2. sends[x] = 0
    BY DEF Owned, Closing
  <1>3. QED
    BY <1>1, <1>2 DEF Owned

\* A step that begins no send, of a storage call or of recovery, and takes no
\* message of recovery's into its hands but one that waits in the queue.
LEMMA HeldOn ==
    ASSUME Formed, Calm, UNCHANGED <<entry, live, ended>>, overlapped \subseteq overlapped',
           \A x \in Delivery \ Held : /\ x \notin Held' /\ sends'[x] = sends[x]
                                      /\ \A j \in jobs' : j.id = x => j \in jobs,
           jobs \subseteq jobs',
           \A x \in Held \ overlapped' : Owned(x) => Owned(x)'
    PROVE  Calm'
  <1>1. ended \subseteq Delivery /\ Held \subseteq Delivery
    BY OwnTypes DEF Held
  <1>2. \A x \in Delivery \ Held : (Owned(x) => Owned(x)') /\ (Ended(x) => Ended(x)')
    BY Untouched
  <1>3. \A x \in ended : Ended(x)'
    BY <1>1, <1>2 DEF Calm, Ended
  <1>4. \A x \in Delivery \ overlapped' : Owned(x)'
    BY <1>2 DEF Calm
  <1>5. QED
    BY <1>3, <1>4 DEF Calm

\* A live send begins, and ends.
LEMMA LiveOwner ==
    ASSUME Formed, Unwritten, Calm, NEW d \in Delivery, enqueueDelivery(d) \/ liveSettles(d)
    PROVE  Calm'
  <1> USE OwnTypes
  <1>1. live[d] # "done" /\ UNCHANGED <<recovery, ended, overlapped>>
    BY DEF enqueueDelivery, liveSettles
  <1>2. Held' = Held
    BY <1>1 DEF Held, pendingIds
  <1>3. d \notin ended
    BY <1>1 DEF Calm, Ended
  <1>4. /\ \A x \in Delivery \ {d} : /\ live'[x] = live[x] /\ entry'[x] = entry[x]
                                     /\ sends'[x] = sends[x]
                                     /\ \A j \in jobs' : j.id = x => j \in jobs
        /\ jobs \subseteq jobs'
    <2>1. CASE enqueueDelivery(d)
      BY <2>1 DEF enqueueDelivery
    <2>2. CASE liveSettles(d)
      <3>1. PICK outcome \in Outcomes(d) \cup IF d \in BestEffort THEN {} ELSE {"aborted"} :
               /\ noteSend(d, outcome)
               /\ jobs' = IF live[d] = "unqueued" THEN jobs
                          ELSE jobs \cup {closing(d, outcome, "live", d \in OnError)}
        BY <2>2 DEF liveSettles
      <3>2. closing(d, outcome, "live", d \in OnError).id = d
        BY Calls
      <3>3. live' = [live EXCEPT ![d] = "done"] /\ entry' = entry
        BY <2>2 DEF liveSettles, disk
      <3>4. \A x \in Delivery \ {d} : sends'[x] = sends[x]
        BY <3>1 DEF noteSend
      <3> DEFINE job == closing(d, outcome, "live", d \in OnError)
      <3>5. job.id = d /\ (jobs' = jobs \/ jobs' = jobs \cup {job})
        BY <3>1, <3>2
      <3> HIDE DEF job
      <3>6. QED
        BY <3>3, <3>4, <3>5
    <2>3. QED
      BY <2>1, <2>2
  <1>5. \A x \in Delivery \ {d} : (Owned(x) => Owned(x)') /\ (Ended(x) => Ended(x)')
    BY <1>2, <1>4, Untouched
  <1>6. ASSUME Owned(d) PROVE Owned(d)'
    <2>1. d \notin Held /\ (\A j \in jobs : j.id # d) /\ sends[d] = 0
      BY <1>1, <1>6 DEF Owned, Closing
    <2>2. CASE enqueueDelivery(d)
      <3>1. live'[d] \in {"queued", "unqueued"} /\ jobs' = jobs /\ sends' = sends
        BY <2>2 DEF enqueueDelivery
      <3>2. QED
        BY <1>2, <2>1, <3>1 DEF Owned
    <2>3. CASE liveSettles(d)
      <3>1. PICK outcome \in Outcomes(d) \cup IF d \in BestEffort THEN {} ELSE {"aborted"} :
               /\ noteSend(d, outcome)
               /\ jobs' = IF live[d] = "unqueued" THEN jobs
                          ELSE jobs \cup {closing(d, outcome, "live", d \in OnError)}
        BY <2>3 DEF liveSettles
      <3>2. live'[d] = "done" /\ entry' = entry
        BY <2>3 DEF liveSettles, disk
      <3>3. closing(d, outcome, "live", d \in OnError).id = d
        BY Calls
      <3>4. outcome = "sent" => closing(d, outcome, "live", d \in OnError).op = "ackRename"
        BY DEF closing, call
      <3>5. live[d] = "unqueued" => entry[d] = NoEntry
        BY DEF Unwritten, Formed, WellFormed
      <3>6. /\ outcome = "sent" => sends'[d] = 1
            /\ outcome # "sent" => sends'[d] = 0
        BY <2>1, <3>1 DEF noteSend
      <3> DEFINE job == closing(d, outcome, "live", d \in OnError)
      <3>7. /\ job.id = d /\ (outcome = "sent" => job.op = "ackRename")
            /\ jobs' = IF live[d] = "unqueued" THEN jobs ELSE jobs \cup {job}
        BY <3>1, <3>3, <3>4
      <3> HIDE DEF job
      <3>8. outcome = "sent" => Closing(d)'
        BY <1>2, <2>1, <3>2, <3>5, <3>7 DEF Closing
      <3>9. QED
        BY <1>2, <2>1, <3>2, <3>6, <3>7, <3>8 DEF Owned
    <2>4. QED
      BY <2>2, <2>3
  <1>7. QED
    BY <1>1, <1>3, <1>5, <1>6 DEF Calm

\* A storage call goes on or ends: it was alone with its message.
LEMMA StorageOwner ==
    ASSUME Formed, Calm, NEW j \in jobs,
           ackRename(j) \/ ackUnlink(j) \/ failRead(j) \/ failWrite(j) \/ moveToFailed(j)
    PROVE  Calm'
  <1> USE OwnTypes
  <1> DEFINE d == j.id
  <1>1. d \in Delivery /\ UNCHANGED <<live, recovery, sends, overlapped>>
    BY DEF ackRename, ackUnlink, failRead, failWrite, moveToFailed, history
  <1>2. Held' = Held
    BY <1>1 DEF Held, pendingIds
  <1>3. PICK new : /\ jobs' = (jobs \ {j}) \cup new
                   /\ \/ new = {}
                      \/ \E k : new = {k} /\ k.id = d /\ (ackRename(j) => k.op = "ackUnlink")
                   /\ ackUnlink(j) \/ failWrite(j) \/ moveToFailed(j) => new = {}
    <2>1. CASE ackRename(j)
      <3>1. /\ [j EXCEPT !.op = "ackUnlink"].id = d
            /\ [j EXCEPT !.op = "ackUnlink"].op = "ackUnlink"
        BY DEF Job
      <3>2. j.op = "ackRename" /\ ~moveToFailed(j) /\ ~ackUnlink(j) /\ ~failWrite(j)
        BY <2>1 DEF ackRename, moveToFailed, ackUnlink, failWrite
      <3>3. QED
        BY <2>1, <3>1, <3>2 DEF ackRename, replaceJob
    <2>2. CASE failRead(j)
      <3> DEFINE write == [j EXCEPT !.op = "failWrite", !.count = entry[j.id] + 1]
      <3>1. write.id = d
        BY DEF Job
      <3>2. ~ackRename(j) /\ ~moveToFailed(j) /\ ~ackUnlink(j) /\ ~failWrite(j)
        BY <2>2 DEF ackRename, failRead, moveToFailed, ackUnlink, failWrite
      <3>3. jobs' = (jobs \ {j}) \cup {} \/ jobs' = (jobs \ {j}) \cup {write}
        BY <2>2 DEF failRead, replaceJob
      <3> HIDE DEF write
      <3>4. QED
        BY <3>1, <3>2, <3>3
    <2>3. CASE ackUnlink(j) \/ failWrite(j) \/ moveToFailed(j)
      <3>1. ~ackRename(j)
        BY <2>3 DEF ackRename, ackUnlink, failWrite, moveToFailed
      <3>2. QED
        BY <2>3, <3>1 DEF ackUnlink, failWrite, moveToFailed, replaceJob
    <2>4. QED
      BY <2>1, <2>2, <2>3
  <1>4. \A x \in Delivery \ {d} : entry'[x] = entry[x]
    BY DEF ackRename, ackUnlink, failRead, failWrite, moveToFailed, disk
  <1>5. /\ \A k \in jobs' : k.id # d => k \in jobs
        /\ \A k \in jobs : k.id # d => k \in jobs'
    BY <1>3
  <1>6. \A x \in Delivery \ {d} : (Owned(x) => Owned(x)') /\ (Ended(x) => Ended(x)')
    BY <1>1, <1>2, <1>4, <1>5, Untouched
  <1>7. /\ ackRename(j) => entry'[d] = NoEntry
        /\ moveToFailed(j) => entry'[d] = NoEntry
        /\ ackUnlink(j) => entry' = entry
    BY <1>1 DEF ackRename, moveToFailed, ackUnlink, disk
  <1>8. ASSUME Owned(d) PROVE Owned(d)'
    <2>1. live[d] = "done" /\ d \notin Held /\ \A k \in jobs : k.id = d => k = j
      BY <1>8 DEF Owned
    <2>2. \A k, l \in jobs' : k.id = d /\ l.id = d => k = l
      BY <1>3, <2>1
    <2>3. ASSUME sends[d] = 1 PROVE Closing(d)'
      <3>1. Closing(d)
        BY <1>8, <2>3 DEF Owned
      <3>2. CASE ackRename(j)
        <4>1. \A k \in jobs' : k.id = d => k.op = "ackUnlink"
          BY <1>3, <2>1, <3>2
        <4>2. QED
          BY <1>1, <1>2, <1>7, <2>1, <3>2, <4>1 DEF Closing
      <3>3. CASE ~ackRename(j)
        <4>1. j.op \in {"ackRename", "ackUnlink"}
          BY <3>1 DEF Closing
        <4>2. ackUnlink(j) /\ j.op = "ackUnlink"
          BY <3>3, <4>1 DEF ackRename, ackUnlink, failRead, failWrite, moveToFailed
        <4>3. entry'[d] = NoEntry /\ \A k \in jobs' : k.id # d
          BY <1>3, <1>7, <2>1, <3>1, <4>2 DEF Closing
        <4>4. QED
          BY <1>1, <1>2, <2>1, <4>3 DEF Closing
      <3>4. QED
        BY <3>2, <3>3
    <2>4. QED
      BY <1>1, <1>2, <1>8, <2>1, <2>2, <2>3 DEF Owned
  <1>9. ASSUME Ended(d) PROVE Ended(d)'
    <2>1. ackUnlink(j)
      BY <1>9 DEF Ended, ackRename, ackUnlink, failRead, failWrite, moveToFailed
    <2>2. jobs' \subseteq jobs /\ entry' = entry
      BY <1>3, <1>7, <2>1
    <2>3. QED
      BY <1>1, <1>2, <1>9, <2>2 DEF Ended
  <1>10. ASSUME d \notin overlapped, ended' # ended PROVE Ended(d)'
    <2>1. Owned(d)
      BY <1>1, <1>10 DEF Calm
    <2>2. live[d] = "done" /\ d \notin Held /\ \A k \in jobs : k.id = d => k = j
      BY <2>1 DEF Owned
    <2>3. ackRename(j) \/ moveToFailed(j)
      BY <1>10 DEF ackRename, ackUnlink, failRead, failWrite, moveToFailed, history
    <2>4. \A k \in jobs' : k.id = d => k.op = "ackUnlink"
      BY <1>3, <2>2, <2>3
    <2>5. QED
      BY <1>1, <1>2, <1>7, <2>2, <2>3, <2>4 DEF Ended
  <1>11. \A x \in ended' : x \in ended \/ (x = d /\ d \notin overlapped /\ ended' # ended)
    <2>1. ended' = ended \/ noteEnd(d)
      BY DEF ackRename, ackUnlink, failRead, failWrite, moveToFailed, history
    <2>2. QED
      BY <2>1 DEF noteEnd
  <1>12. QED
    BY <1>1, <1>6, <1>8, <1>9, <1>10, <1>11 DEF Calm

\* Recovery reads an entry: in its hands is what waits for no one else.
LEMMA LoadOwner ==
    ASSUME Formed, Unwritten, Calm, NEW d \in Delivery, loadEntry(d)
    PROVE  Calm'
  <1> USE OwnTypes
  <1>1. /\ d \in recovery.files
        /\ UNCHANGED <<entry, live, jobs, sends, ended>>
        /\ overlapped' = IF entry[d] # NoEntry /\ UnderWay(d)
                         THEN overlapped \cup {d} ELSE overlapped
    BY DEF loadEntry, disk
  <1>2. Held' = Held \cup IF entry[d] = NoEntry THEN {} ELSE {d}
    <2>1. recovery' = Rec("reading", recovery.files \ {d}, readQueueEntry(d), recovery.sending)
      BY <1>1, LoadSteps DEF Formed
    <2>2. recovery'.pending = readQueueEntry(d) /\ recovery'.sending = recovery.sending
      BY <2>1, Fields
    <2>3. DOMAIN readQueueEntry(d) = pendingIds \cup IF entry[d] = NoEntry THEN {} ELSE {d}
      BY <1>1, WithOne DEF Formed
    <2>4. QED
      BY <2>2, <2>3 DEF Held, pendingIds
  <1>3. \A x \in Delivery : entry[d] = NoEntry \/ x # d
            => (Owned(x) => Owned(x)') /\ (Ended(x) => Ended(x)')
    BY <1>1, <1>2, Untouched
  <1>4. ASSUME entry[d] # NoEntry, d \notin overlapped' PROVE Owned(d)'
    <2>1. Owned(d) /\ live[d] # "queued" /\ \A j \in jobs : j.id # d
      BY <1>1, <1>4 DEF UnderWay, Calm
    <2>2. live[d] = "done"
      BY <1>4, <2>1 DEF Unwritten, Formed, WellFormed
    <2>3. sends[d] = 0
      BY <1>4, <2>1 DEF Owned, Closing
    <2>4. QED
      BY <1>1, <2>1, <2>2, <2>3 DEF Owned
  <1>5. \A x \in Delivery \ overlapped' : Owned(x)'
    BY <1>1, <1>3, <1>4 DEF Calm
  <1>6. \A x \in ended' : Ended(x)'
    <2>1. \A x \in ended : Ended(x)
      BY DEF Calm
    <2>2. \A x \in ended : entry[d] = NoEntry \/ x # d
      BY <2>1 DEF Ended
    <2>3. QED
      BY <1>1, <1>3, <2>1, <2>2
  <1>7. QED
    BY <1>5, <1>6 DEF Calm

\* Recovery goes on: what it sends, or gives to a storage call, was its own.
LEMMA RecoveryOwner ==
    ASSUME Formed, Calm,
           loadPendingDeliveries \/ loadEnds \/ recoverNext \/ recoveryEnds \/ recoverySettles
    PROVE  Calm'
  <1> USE OwnTypes
  <1>1. /\ TypeOK /\ WellFormed /\ Held \subseteq Delivery
        /\ recovery.pending \in Pending /\ pendingIds = DOMAIN recovery.pending
        /\ recovery.sending \cap pendingIds = {}
        /\ recovery.sending # {} => recovery.pc = "sending"
    BY DEF Formed, WellFormed, Held, pendingIds
  <1>2. CASE loadPendingDeliveries \/ loadEnds \/ recoveryEnds
    <2>1. UNCHANGED <<entry, live, jobs, history>>
      BY <1>2 DEF loadPendingDeliveries, loadEnds, recoveryEnds, disk
    <2>2. recovery'.pending = recovery.pending /\ recovery'.sending = recovery.sending
      <3>1. \E pc, files : recovery' = Rec(pc, files, recovery.pending, recovery.sending)
        BY <1>1, <1>2, LoadSteps, LoopSteps
      <3>2. QED
        BY <3>1, Fields
    <2>3. Held' = Held
      BY <2>2 DEF Held, pendingIds
    <2>4. \A x \in Delivery : (Owned(x) => Owned(x)') /\ (Ended(x) => Ended(x)')
      BY <2>1, <2>3, Untouched DEF history
    <2>5. QED
      BY <2>1, <2>4 DEF Calm, history
  <1>3. CASE recoverNext
    <2>1. UNCHANGED <<entry, live, ended, overlapped, sends>> /\ recovery.sending = {}
      BY <1>1, <1>3, LoopTurn DEF disk, history
    <2>2. Held = pendingIds
      BY <2>1 DEF Held
    <2>3. ASSUME Held' \subseteq Held, jobs \subseteq jobs',
                 \A k \in jobs' \ jobs : k.id \in Held \ Held',
                 \A k, l \in jobs' \ jobs : k.id = l.id => k = l
          PROVE  Calm'
      <3>1. \A x \in Held \ overlapped' : Owned(x) => Owned(x)'
        BY <1>1, <2>1, <2>3, Passed
      <3>2. \A x \in Delivery \ Held : /\ x \notin Held' /\ sends'[x] = sends[x]
                                       /\ \A j \in jobs' : j.id = x => j \in jobs
        BY <2>1, <2>3
      <3>3. QED
        BY <2>1, <2>3, <3>1, <3>2, HeldOn
    <2>4. ASSUME NEW d \in pendingIds,
                 recovery' = Rec("looping", {}, Without(recovery.pending, d), {}),
                 jobs' = jobs \cup {call("move", d, "recovery")} \/ jobs' = jobs
          PROVE  Calm'
      <3>1. DOMAIN Without(recovery.pending, d) = pendingIds \ {d}
        BY <1>1, WithoutOne
      <3>2. Held' = Held \ {d}
        BY <2>2, <2>4, <3>1, Fields DEF Held, pendingIds
      <3>3. call("move", d, "recovery").id = d
        BY Calls
      <3>4. QED
        BY <2>2, <2>3, <2>4, <3>2, <3>3
    <2>5. ASSUME NEW d \in pendingIds, jobs' = jobs,
                 recovery' = Rec("sending", {}, Without(recovery.pending, d), {d})
          PROVE  Calm'
      <3>1. DOMAIN Without(recovery.pending, d) = pendingIds \ {d}
        BY <1>1, WithoutOne
      <3> DEFINE rest == Without(recovery.pending, d)
      <3>2. recovery' = Rec("sending", {}, rest, {d}) /\ DOMAIN rest = pendingIds \ {d}
        BY <2>5, <3>1
      <3> HIDE DEF rest
      <3>3. recovery'.pending = rest /\ recovery'.sending = {d}
        BY <3>2, Fields
      <3>4. Held' = Held
        BY <2>2, <3>2, <3>3 DEF Held, pendingIds
      <3>5. QED
        BY <2>3, <2>5, <3>4
    <2>6. CASE /\ recovery' = Rec("done", {}, <<>>, {})
               /\ jobs' = jobs \cup {call("failRead", d, "recovery") : d \in pendingIds}
      <3>1. Held' = {}
        BY <2>6, NoneLoaded, Fields DEF Held, pendingIds
      <3>2. \A d \in pendingIds : call("failRead", d, "recovery").id = d
        BY Calls
      <3>3. QED
        BY <2>2, <2>3, <2>6, <3>1, <3>2
    <2>7. QED
      BY <1>3, <2>4, <2>5, <2>6, LoopTurn
  <1>4. CASE recoverySettles
    <2>1. /\ recovery' = Rec("looping", recovery.files, recovery.pending, {})
          /\ UNCHANGED <<entry, live, ended, overlapped>>
      BY <1>1, <1>4, LoopSteps DEF recoverySettles, disk
    <2>2. Held' = pendingIds
      BY <1>1, <2>1, Fields DEF Held, pendingIds
    <2>3. PICK d \in recovery.sending : \E outcome \in Outcomes(d) :
             /\ noteSend(d, outcome)
             /\ \/ jobs' = jobs \cup {closing(d, outcome, "recovery", FALSE)}
                \/ outcome = "threw" /\ jobs' = jobs \cup {call("move", d, "recovery")}
      BY <1>4 DEF recoverySettles
    <2>4. d \in Held /\ d \notin Held' /\ d \in Delivery
      BY <1>1, <2>2 DEF Held
    <2>5. PICK outcome, job : /\ noteSend(d, outcome) /\ jobs' = jobs \cup {job} /\ job.id = d
                              /\ outcome = "sent" => job.op = "ackRename"
      <3>1. PICK outcome \in Outcomes(d) :
               /\ noteSend(d, outcome)
               /\ \/ jobs' = jobs \cup {closing(d, outcome, "recovery", FALSE)}
                  \/ outcome = "threw" /\ jobs' = jobs \cup {call("move", d, "recovery")}
        BY <2>3
      <3>2. /\ closing(d, outcome, "recovery", FALSE).id = d
            /\ call("move", d, "recovery").id = d
        BY DEF closing, call
      <3>3. outcome = "sent" => closing(d, outcome, "recovery", FALSE).op = "ackRename"
        BY DEF closing, call
      <3> DEFINE close == closing(d, outcome, "recovery", FALSE)
                 move == call("move", d, "recovery")
      <3>4. /\ close.id = d /\ move.id = d /\ (outcome = "sent" => close.op = "ackRename")
            /\ \/ jobs' = jobs \cup {close}
               \/ outcome = "threw" /\ jobs' = jobs \cup {move}
        BY <3>1, <3>2, <3>3
      <3> HIDE DEF close, move
      <3>5. QED
        BY <3>1, <3>4
    <2>6. \A x \in Delivery \ {d} : (Owned(x) => Owned(x)') /\ (Ended(x) => Ended(x)')
      <3>1. Held' \subseteq Held
        BY <2>2 DEF Held
      <3>2. \A x \in Delivery \ {d} : sends'[x] = sends[x]
        BY <2>5 DEF noteSend
      <3>3. QED
        BY <2>1, <2>5, <3>1, <3>2, Untouched
    <2>7. ASSUME Owned(d) PROVE Owned(d)'
      <3>1. live[d] = "done" /\ (\A j \in jobs : j.id # d) /\ sends[d] = 0
        BY <2>4, <2>7 DEF Owned, Closing
      <3>2. /\ outcome = "sent" => sends'[d] = 1
            /\ outcome # "sent" => sends'[d] = 0
        BY <2>4, <2>5, <3>1 DEF noteSend
      <3>3. outcome = "sent" => Closing(d)'
        BY <2>1, <2>4, <2>5, <3>1 DEF Closing
      <3>4. QED
        BY <2>1, <2>4, <2>5, <3>1, <3>2, <3>3 DEF Owned
    <2>8. d \notin ended
      BY <2>4 DEF Calm, Ended
    <2>9. QED
      BY <2>1, <2>6, <2>7, <2>8 DEF Calm
  <1>5. QED
    BY <1>2, <1>3, <1>4

\* A crash ends all ownership; in the next life nothing is sent yet.
LEMMA CrashOwner ==
    ASSUME Formed, Calm, crash
    PROVE  Calm'
  <1> USE OwnTypes
  <1>1. /\ recovery' = Rec("off", {}, <<>>, {}) /\ jobs' = {} /\ UNCHANGED <<entry, ended>>
        /\ \A d \in Delivery : sends'[d] = 0
        /\ \A d \in Delivery : live'[d] = IF live[d] = "idle" THEN "idle" ELSE "done"
    BY LoopSteps DEF crash, Formed, disk
  <1>2. Held' = {}
    BY <1>1, NoneLoaded, Fields DEF Held, pendingIds
  <1>3. \A d \in Delivery : Owned(d)'
    BY <1>1, <1>2 DEF Owned
  <1>4. \A d \in ended : Ended(d)'
    BY <1>1, <1>2 DEF Calm, Ended
  <1>5. QED
    BY <1>1, <1>3, <1>4 DEF Calm

-----------------------------------------------------------------------------
(* Every step of the specification.                                        *)

LEMMA NextStep ==
    ASSUME IInv, [Next]_vars
    PROVE  IInv'
  <1>1. CASE UNCHANGED vars
    BY <1>1 DEF IInv, TypeOK, WellFormed, Unwritten, Paid, NothingLost, Accounted, Calm, Owned,
                Ended, Closing, Held, pendingIds, vars, disk, history
  <1>2. CASE Next
    <2>1. Formed /\ Unwritten /\ Paid /\ NothingLost /\ Calm
      BY DEF IInv, Formed
    <2>2. Formed'
      BY <1>2, <2>1, LiveFormed, StorageFormed, RecoverFormed, CrashFormed DEF Next
    <2>3. Paid' /\ NothingLost'
      BY <1>2, <2>1, AccountStep
    <2>4. Unwritten'
      BY <1>2, <2>1, UnwrittenStep
    <2>5. Calm'
      BY <1>2, <2>1, LiveOwner, StorageOwner, LoadOwner, RecoveryOwner, CrashOwner DEF Next
    <2>6. QED
      BY <2>2, <2>3, <2>4, <2>5 DEF IInv, Formed
  <1>3. QED
    BY <1>1, <1>2

\* What a step may do to a message that has come to its end.
Final == \A d \in ended :
    sends'[d] <= sends[d] /\ entry'[d] = NoEntry /\ d \notin recovery'.sending

LEMMA FinalStep ==
    ASSUME IInv, [Next]_vars
    PROVE  Final
  <1>1. IInv'
    BY NextStep
  <1>2. /\ Formed /\ \A d \in ended : Ended(d)
        /\ sends \in [Delivery -> Nat] /\ ended \subseteq Delivery
        /\ recovery.sending \in SUBSET Delivery
    BY OwnTypes DEF IInv, Formed, Calm
  <1>3. \A d \in ended : entry'[d] = NoEntry /\ d \notin recovery'.sending
    <2>1. ended \subseteq ended'
      BY DEF Next, enqueueDelivery, liveSettles, loadEntry, ackRename, ackUnlink, failRead,
             failWrite, moveToFailed, loadPendingDeliveries, loadEnds, recoverNext,
             recoveryEnds, recoverySettles, crash, vars, history, noteEnd
    <2>2. \A d \in ended' : Ended(d)'
      BY <1>1 DEF IInv, Calm
    <2>3. QED
      BY <2>1, <2>2 DEF Ended, Held
  <1>4. \A d \in ended : sends'[d] <= sends[d]
    <2>1. ASSUME NEW d \in Delivery, liveSettles(d)
          PROVE  d \notin ended /\ \A x \in Delivery \ {d} : sends'[x] = sends[x]
      BY <1>2, <2>1 DEF liveSettles, noteSend, Ended
    <2>2. CASE recoverySettles
      <3>1. PICK d \in recovery.sending : \E outcome : noteSend(d, outcome)
        BY <2>2 DEF recoverySettles
      <3>2. d \notin ended /\ \A x \in Delivery \ {d} : sends'[x] = sends[x]
        BY <1>2, <3>1 DEF noteSend, Ended, Held
      <3>3. QED
        BY <1>2, <3>2
    <2>3. CASE crash
      BY <1>2, <2>3 DEF crash
    <2>4. CASE \/ \E d \in Delivery : enqueueDelivery(d) \/ loadEntry(d)
               \/ \E j \in jobs : \/ ackRename(j) \/ ackUnlink(j) \/ failRead(j)
                                  \/ failWrite(j) \/ moveToFailed(j)
               \/ loadPendingDeliveries \/ loadEnds \/ recoverNext \/ recoveryEnds
               \/ UNCHANGED vars
      <3>1. sends' = sends
        BY <2>4 DEF enqueueDelivery, loadEntry, ackRename, ackUnlink, failRead, failWrite,
                    moveToFailed, loadPendingDeliveries, loadEnds, recoverNext, recoveryEnds,
                    vars, history
      <3>2. QED
        BY <1>2, <3>1
    <2>5. QED
      BY <1>2, <2>1, <2>2, <2>3, <2>4 DEF Next
  <1>5. QED
    BY <1>3, <1>4 DEF Final

-----------------------------------------------------------------------------
(* The theorems.                                                           *)

\* In every reachable state of the delivery queue acknowledgements are paid
\* for, and a message that is not overlapped in this life has one owner.
THEOREM Invariance == Spec => []IInv
  <1>1. Init => IInv
    <2> SUFFICES ASSUME Init PROVE IInv
      OBVIOUS
    <2>1. /\ <<>> \in Pending /\ DOMAIN <<>> = {}
          /\ order \in Seq(Delivery) /\ ToSet(order) = {}
      BY NoneLoaded, EmptySeq DEF Init, ToSet
    <2>2. /\ recovery = Rec("off", {}, <<>>, {})
          /\ recovery.pc = "off" /\ recovery.files = {} /\ recovery.pending = <<>>
          /\ recovery.sending = {}
      BY DEF Init, Idle, Rec
    <2>3. pendingIds = {}
      BY <2>1, <2>2 DEF pendingIds
    <2>4. TypeOK
      <3>1. crashes \in 0 .. MaxCrashes
        BY DeliveryQueueAssumption DEF Init
      <3>2. /\ entry \in [Delivery -> Count \cup {NoEntry}]
            /\ markers \in SUBSET Delivery /\ failed \in SUBSET Delivery
            /\ live \in [Delivery -> {"idle", "queued", "unqueued", "done"}]
            /\ jobs \in SUBSET Job /\ sends \in [Delivery -> Nat]
            /\ sent \in SUBSET Delivery /\ dropped \in SUBSET Delivery
            /\ ended \in SUBSET Delivery /\ overlapped \in SUBSET Delivery
        BY DEF Init
      <3>3. QED
        BY <2>1, <2>2, <2>3, <3>1, <3>2 DEF TypeOK
    <2>5. /\ jobs = {} /\ ended = {}
          /\ \A d \in Delivery : entry[d] = NoEntry /\ live[d] = "idle" /\ sends[d] = 0
      BY DEF Init
    <2>6. WellFormed
      BY <2>1, <2>2, <2>3, <2>5 DEF WellFormed
    <2>7. Unwritten /\ Paid /\ NothingLost
      BY <2>1, <2>5 DEF Unwritten, Paid, NothingLost
    <2>8. Calm
      BY <2>2, <2>3, <2>5 DEF Calm, Owned, Held
    <2>9. QED
      BY <2>4, <2>6, <2>7, <2>8 DEF IInv
  <1>2. IInv /\ [Next]_vars => IInv'
    BY NextStep
  <1>3. QED
    BY <1>1, <1>2, PTL DEF Spec

\* The files and the storage calls of delivery-queue-storage.ts are well typed.
THEOREM TypeCorrect == Spec => []TypeOK
  <1>1. IInv => TypeOK
    BY DEF IInv
  <1>2. QED
    BY <1>1, Invariance, PTL

\* A message that was written (enqueueDelivery) and must be delivered is not
\* lost, over any number of crashes.
THEOREM Durable == Spec => []NothingLost
  <1>1. IInv => NothingLost
    BY DEF IInv
  <1>2. QED
    BY <1>1, Invariance, PTL

\* In each life of the gateway a message reaches the channel at most once,
\* unless recovery (delivery-queue-recovery.ts) loaded its entry in that life
\* while its own live send, or a storage call of it, was under way.
THEOREM OncePerLife == Spec => []SentOncePerLife
  <1>1. IInv => SentOncePerLife
    BY DEF IInv, Calm, Owned, SentOncePerLife
  <1>2. QED
    BY <1>1, Invariance, PTL

\* A message that was acknowledged or moved to failed/ (delivery-queue-
\* storage.ts), in a life in which it was not overlapped, is not sent again
\* and does not come back, in any later life either.
THEOREM EndsAreFinal == Spec => EndIsFinal
  <1>1. IInv /\ [Next]_vars => [Final]_vars
    BY FinalStep
  <1>2. QED
    BY <1>1, Invariance, PTL DEF Spec, EndIsFinal, Final

=============================================================================
