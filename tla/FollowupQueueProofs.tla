-------------------------- MODULE FollowupQueueProofs --------------------------
(* Proofs, for any number of messages, queue objects and reply runs, of the *)
(* safety of FollowupQueue: a message is answered once and no twin is       *)
(* queued; no queue is left idle with work, when no session is cleared and  *)
(* only reply runs use it (others end without scheduling a drain); and      *)
(* where, besides, a full queue refuses, FollowupQueue implements the       *)
(* safety of Mailbox.                                                       *)
(*                                                                          *)
(* The argument.  A message is in the items of one queue object, or in the  *)
(* batch its drain has in flight, or in both; then it stands no further     *)
(* back than the batch is long, so that the shift after the run takes it    *)
(* out, whatever was dropped from the head meanwhile.  Without clears a     *)
(* queue object that drains, or has work, is the one in the map; so the     *)
(* finally clause deletes or schedules the object it means.  And when       *)
(* nothing is dropped, what a drain runs stays at the head of the items,    *)
(* so that the shift after the run removes what was delivered.              *)
EXTENDS FollowupQueue, SequenceTheorems, FiniteSetTheorems, TLAPS

-----------------------------------------------------------------------------
(* Sequences                                                               *)

LEMMA Elements ==
    ASSUME NEW S, NEW s \in Seq(S)
    PROVE  /\ Len(s) \in Nat /\ DOMAIN s = 1 .. Len(s)
           /\ ToSet(s) \subseteq S
           /\ \A i \in DOMAIN s : s[i] \in ToSet(s)
           /\ \A x \in ToSet(s) : \E i \in DOMAIN s : s[i] = x
           /\ s = <<>> <=> Len(s) = 0
  <1>1. Len(s) \in Nat /\ DOMAIN s = 1 .. Len(s) /\ s \in [1 .. Len(s) -> S]
    BY LenProperties
  <1>2. s # <<>> => Len(s) # 0
    BY EmptySeq
  <1>3. Len(<<>>) = 0
    BY EmptySeq
  <1>4. QED
    BY <1>1, <1>2, <1>3 DEF ToSet

LEMMA NoElements == ToSet(<<>>) = {} /\ IsInjective(<<>>) /\ DOMAIN <<>> = {}
  <1>1. DOMAIN <<>> = 1 .. 0 /\ 1 .. 0 = {}
    BY EmptySeq, LenProperties
  <1>2. QED
    BY <1>1 DEF ToSet, IsInjective

\* What is left when items are shifted off.
LEMMA Dropped ==
    ASSUME NEW S, NEW s \in Seq(S), NEW n \in Nat
    PROVE  /\ DropFirst(s, n) \in Seq(S)
           /\ Len(DropFirst(s, n)) = IF n <= Len(s) THEN Len(s) - n ELSE 0
           /\ \A i \in DOMAIN DropFirst(s, n) : /\ i + n \in DOMAIN s
                                                /\ DropFirst(s, n)[i] = s[i + n]
           /\ ToSet(DropFirst(s, n)) \subseteq ToSet(s)
           /\ IsInjective(s) => IsInjective(DropFirst(s, n))
  <1>1. Len(s) \in Nat /\ DOMAIN s = 1 .. Len(s) /\ \A i \in 1 .. Len(s) : s[i] \in S
    BY Elements, ElementOfSeq
  <1>2. \A i \in n + 1 .. Len(s) : s[i] \in S
    BY <1>1
  <1>3. n + 1 \in Int /\ Len(s) \in Int
    BY <1>1
  <1> DEFINE t == DropFirst(s, n)
             m == Len(s) - n
  <1>4. /\ t \in Seq(S)
        /\ Len(t) = IF n + 1 <= Len(s) THEN Len(s) - (n + 1) + 1 ELSE 0
        /\ \A i \in 1 .. Len(s) - (n + 1) + 1 : t[i] = s[n + 1 + i - 1]
    BY <1>2, <1>3, SubSeqProperties DEF DropFirst
  <1>5. DOMAIN t = 1 .. Len(t)
    BY <1>4, LenProperties
  <1>6. /\ m \in Int /\ Len(s) - (n + 1) + 1 = m /\ (n + 1 <= Len(s) <=> n <= Len(s) /\ m > 0)
        /\ (n <= Len(s) <=> m >= 0)
        /\ \A i \in 1 .. m : n + 1 + i - 1 = i + n /\ i + n \in 1 .. Len(s)
    BY <1>1
  <1>7. /\ Len(t) = IF n <= Len(s) THEN m ELSE 0
        /\ DOMAIN t = 1 .. m
    <2> HIDE DEF t, m
    <2>1. CASE m > 0
      BY <1>4, <1>5, <1>6, <2>1
    <2>2. CASE ~(m > 0)
      BY <1>4, <1>5, <1>6, <2>2
    <2>3. QED
      BY <2>1, <2>2
  <1>8. \A i \in DOMAIN t : i + n \in DOMAIN s /\ t[i] = s[i + n]
    <2> HIDE DEF t, m
    <2> QED
      BY <1>1, <1>4, <1>6, <1>7
  <1>9. ToSet(DropFirst(s, n)) \subseteq ToSet(s)
    BY <1>8 DEF ToSet
  <1>10. ASSUME IsInjective(s)
        PROVE  IsInjective(DropFirst(s, n))
    <2>1. \A i, k \in 1 .. m : i + n = k + n => i = k
      OBVIOUS
    <2>2. QED
      BY <1>7, <1>10, <1>8, <2>1 DEF IsInjective
  <1>11. QED
    BY <1>4, <1>7, <1>9, <1>10, <1>8

\* What is shifted off.
LEMMA Taken ==
    ASSUME NEW S, NEW s \in Seq(S), NEW n \in Nat, n <= Len(s)
    PROVE  /\ SubSeq(s, 1, n) \in Seq(S) /\ Len(SubSeq(s, 1, n)) = n
           /\ \A i \in 1 .. n : SubSeq(s, 1, n)[i] = s[i]
           /\ ToSet(SubSeq(s, 1, n)) \subseteq ToSet(s)
  <1>1. Len(s) \in Nat /\ DOMAIN s = 1 .. Len(s) /\ \A i \in 1 .. Len(s) : s[i] \in S
    BY Elements, ElementOfSeq
  <1>2. \A i \in 1 .. n : s[i] \in S
    BY <1>1
  <1>3. 1 \in Int /\ n \in Int
    OBVIOUS
  <1>4. /\ SubSeq(s, 1, n) \in Seq(S)
        /\ Len(SubSeq(s, 1, n)) = IF 1 <= n THEN n - 1 + 1 ELSE 0
        /\ \A i \in 1 .. n - 1 + 1 : SubSeq(s, 1, n)[i] = s[1 + i - 1]
    BY <1>2, <1>3, SubSeqProperties
  <1>5. DOMAIN SubSeq(s, 1, n) = 1 .. n
    BY <1>4, LenProperties
  <1>6. QED
    BY <1>1, <1>4, <1>5 DEF ToSet

\* What arrives is the last.
LEMMA Pushed ==
    ASSUME NEW S, NEW s \in Seq(S), NEW x \in S
    PROVE  /\ Append(s, x) \in Seq(S)
           /\ DOMAIN Append(s, x) = 1 .. Len(s) + 1
           /\ \A i \in 1 .. Len(s) : Append(s, x)[i] = s[i]
           /\ Append(s, x)[Len(s) + 1] = x
           /\ ToSet(Append(s, x)) = ToSet(s) \cup {x}
           /\ IsInjective(s) /\ x \notin ToSet(s) => IsInjective(Append(s, x))
  <1>1. Len(s) \in Nat /\ DOMAIN s = 1 .. Len(s)
    BY Elements
  <1>2. /\ Append(s, x) \in Seq(S) /\ DOMAIN Append(s, x) = 1 .. Len(s) + 1
        /\ \A i \in 1 .. Len(s) : Append(s, x)[i] = s[i]
        /\ Append(s, x)[Len(s) + 1] = x
    BY AppendProperties, LenProperties
  <1>3. ToSet(Append(s, x)) = ToSet(s) \cup {x}
    BY <1>1, <1>2 DEF ToSet
  <1>4. IsInjective(s) /\ x \notin ToSet(s) => IsInjective(Append(s, x))
    BY <1>1, <1>2 DEF IsInjective, ToSet
  <1>5. QED
    BY <1>2, <1>3, <1>4

\* Two sequences one after the other.
LEMMA Joined ==
    ASSUME NEW S, NEW s \in Seq(S), NEW t \in Seq(S)
    PROVE  /\ s \o t \in Seq(S)
           /\ ToSet(s \o t) = ToSet(s) \cup ToSet(t)
           /\ IsInjective(s) /\ IsInjective(t) /\ ToSet(s) \cap ToSet(t) = {} => IsInjective(s \o t)
  <1>1. /\ Len(s) \in Nat /\ DOMAIN s = 1 .. Len(s)
        /\ Len(t) \in Nat /\ DOMAIN t = 1 .. Len(t)
    BY Elements
  <1>2. /\ s \o t \in Seq(S) /\ DOMAIN (s \o t) = 1 .. Len(s) + Len(t)
        /\ \A i \in 1 .. Len(s) + Len(t) : (s \o t)[i] = IF i <= Len(s) THEN s[i] ELSE t[i - Len(s)]
    BY ConcatProperties, LenProperties
  <1>3. \A i \in 1 .. Len(s) + Len(t) : i <= Len(s) \/ i - Len(s) \in 1 .. Len(t)
    BY <1>1
  <1>4. \A i \in 1 .. Len(t) : Len(s) + i \in 1 .. Len(s) + Len(t) /\ (s \o t)[Len(s) + i] = t[i]
    BY <1>1, <1>2
  <1>5. ToSet(s \o t) = ToSet(s) \cup ToSet(t)
    <2>1. ToSet(s \o t) \subseteq ToSet(s) \cup ToSet(t)
      BY <1>1, <1>2, <1>3 DEF ToSet
    <2>2. ToSet(s) \subseteq ToSet(s \o t)
      BY <1>1, <1>2 DEF ToSet
    <2>3. ASSUME NEW x \in ToSet(t) PROVE x \in ToSet(s \o t)
      <3>1. PICK i \in 1 .. Len(t) : t[i] = x
        BY <1>1 DEF ToSet
      <3>2. Len(s) + i \in DOMAIN (s \o t) /\ (s \o t)[Len(s) + i] = x
        BY <1>2, <1>4, <3>1
      <3>3. QED
        BY <3>2 DEF ToSet
    <2>4. QED
      BY <2>1, <2>2, <2>3
  <1>6. ASSUME IsInjective(s), IsInjective(t), ToSet(s) \cap ToSet(t) = {},
               NEW i \in 1 .. Len(s) + Len(t), NEW k \in 1 .. Len(s) + Len(t),
               (s \o t)[i] = (s \o t)[k]
        PROVE  i = k
    <2>1. /\ i <= Len(s) => i \in DOMAIN s /\ (s \o t)[i] = s[i]
          /\ ~(i <= Len(s)) => i - Len(s) \in DOMAIN t /\ (s \o t)[i] = t[i - Len(s)]
      BY <1>1, <1>2, <1>3
    <2>2. /\ k <= Len(s) => k \in DOMAIN s /\ (s \o t)[k] = s[k]
          /\ ~(k <= Len(s)) => k - Len(s) \in DOMAIN t /\ (s \o t)[k] = t[k - Len(s)]
      BY <1>1, <1>2, <1>3
    <2>3. i - Len(s) = k - Len(s) => i = k
      BY <1>1
    <2>4. i <= Len(s) <=> k <= Len(s)
      BY <1>6, <2>1, <2>2 DEF ToSet
    <2>5. QED
      BY <1>6, <2>1, <2>2, <2>3, <2>4 DEF IsInjective
  <1>7. QED
    BY <1>2, <1>5, <1>6 DEF IsInjective

-----------------------------------------------------------------------------
(* The invariant.                                                          *)

\* The messages whose own prompts the run of a drain carries.
BatchOf(d) == IF d.pc = "running" /\ d.kind # "summary" THEN d.batch ELSE <<>>

\* The messages of a queue object and its drain.
HoldsOf(s, d) == ToSet(s.items) \cup ToSet(BatchOf(d))

\* Nothing is there twice, and the batch is as long as it reaches.
Straight(s, d) ==
    /\ IsInjective(s.items) /\ IsInjective(BatchOf(d))
    /\ \A i \in DOMAIN s.items : s.items[i] \in ToSet(BatchOf(d)) => i <= Len(BatchOf(d))

\* No two objects have a message in common, and what they have was accepted
\* and not answered.
Apart(qs, ds, acc, ans) ==
    /\ \A q \in QueueId : Straight(qs[q], ds[q]) /\ HoldsOf(qs[q], ds[q]) \subseteq acc \ ans
    /\ \A q, o \in QueueId : q # o => HoldsOf(qs[q], ds[q]) \cap HoldsOf(qs[o], ds[o]) = {}

\* No two items with one message id.
NoTwins(items) ==
    \A i, j \in DOMAIN items :
        i # j /\ MessageKey[items[i]] # NoKey => MessageKey[items[i]] # MessageKey[items[j]]

\* What is answered was accepted.
AnsweredWereAccepted == ToSet(answered) \subseteq ToSet(accepted)

IInv == /\ TypeOK /\ AnsweredWereAccepted
        /\ Apart(queues, drains, ToSet(accepted), ToSet(answered))
        /\ AnsweredOnce /\ NoTwinQueued

-----------------------------------------------------------------------------
(* The helpers.                                                            *)

LEMMA Assumed ==
    /\ Settings # {} /\ NoQueue \notin QueueId
    /\ \A s \in Settings : s.cap \in Nat \ {0} /\ s.dropPolicy \in {"old", "new", "summarize"}
    /\ MaxClears \in Nat /\ MaxFailures \in Nat
  BY FollowupQueueAssumption

LEMMA Empties ==
    /\ EmptyQueue \in QueueState /\ EmptyQueue.items = <<>> /\ ~HasWork(EmptyQueue)
    /\ IdleDrain \in DrainState /\ BatchOf(IdleDrain) = <<>>
    /\ \A force \in BOOLEAN :
          LET d == [IdleDrain EXCEPT !.pc = "debounce", !.force = force] IN
          d \in DrainState /\ BatchOf(d) = <<>> /\ d.pc = "debounce"
  <1>1. <<>> \in Seq(Run)
    BY EmptySeq
  <1>2. (CHOOSE s \in Settings : TRUE) \in Settings
    BY Assumed
  <1>3. EmptyQueue \in QueueState /\ EmptyQueue.items = <<>> /\ ~HasWork(EmptyQueue)
    BY <1>1, <1>2 DEF EmptyQueue, QueueState, HasWork
  <1>4. IdleDrain \in DrainState /\ BatchOf(IdleDrain) = <<>>
    BY <1>1 DEF IdleDrain, DrainState, BatchOf
  <1>5. ASSUME NEW force \in BOOLEAN
        PROVE  LET d == [IdleDrain EXCEPT !.pc = "debounce", !.force = force] IN
               d \in DrainState /\ BatchOf(d) = <<>> /\ d.pc = "debounce"
    BY <1>1 DEF IdleDrain, DrainState, BatchOf
  <1>6. QED
    BY <1>3, <1>4, <1>5

\* A queue object that is emptied, and a drain whose run is over, disturb
\* nothing.
Less(qs, ds, qs2, ds2) ==
    \A q \in QueueId : /\ qs2[q].items \in {qs[q].items, <<>>}
                       /\ BatchOf(ds2[q]) \in {BatchOf(ds[q]), <<>>}

LEMMA LessIsApart ==
    ASSUME NEW qs, NEW ds, NEW qs2, NEW ds2, NEW acc, NEW ans,
           Apart(qs, ds, acc, ans), Less(qs, ds, qs2, ds2)
    PROVE  Apart(qs2, ds2, acc, ans)
  <1>1. ASSUME NEW q \in QueueId
        PROVE  HoldsOf(qs2[q], ds2[q]) \subseteq HoldsOf(qs[q], ds[q]) /\ Straight(qs2[q], ds2[q])
    <2>1. CASE BatchOf(ds2[q]) = BatchOf(ds[q])
      BY <2>1, NoElements DEF Less, Apart, HoldsOf, Straight
    <2>2. CASE BatchOf(ds2[q]) = <<>>
      BY <2>2, NoElements DEF Less, Apart, HoldsOf, Straight
    <2>3. QED
      BY <2>1, <2>2 DEF Less
  <1>2. \A q \in QueueId : Straight(qs2[q], ds2[q]) /\ HoldsOf(qs2[q], ds2[q]) \subseteq acc \ ans
    BY <1>1 DEF Apart
  <1>3. \A q, o \in QueueId : q # o => HoldsOf(qs2[q], ds2[q]) \cap HoldsOf(qs2[o], ds2[o]) = {}
    BY <1>1 DEF Apart
  <1>4. QED
    BY <1>2, <1>3 DEF Apart

LEMMA LessHasNoTwins ==
    ASSUME NEW qs, NEW ds, NEW qs2, NEW ds2, Less(qs, ds, qs2, ds2),
           \A q \in QueueId : NoTwins(qs[q].items)
    PROVE  \A q \in QueueId : NoTwins(qs2[q].items)
  BY NoElements DEF Less, NoTwins

\* A drain that is scheduled, or ends: what it does to the objects.
LEMMA Waits ==
    ASSUME NEW qs \in [QueueId -> QueueState], NEW ds \in [QueueId -> DrainState],
           NEW q \in QueueId, NEW force \in BOOLEAN, wait(qs, ds, q, force)
    PROVE  /\ queues' \in [QueueId -> QueueState] /\ drains' \in [QueueId -> DrainState]
           /\ Less(qs, ds, queues', drains')
           /\ queues' = qs /\ drains'[q].pc = "debounce"
           /\ \A o \in QueueId : o # q => drains'[o] = ds[o]
  <1> DEFINE d == [IdleDrain EXCEPT !.pc = "debounce", !.force = force]
  <1>1. d \in DrainState /\ BatchOf(d) = <<>> /\ d.pc = "debounce"
    BY Empties
  <1>2. queues' = qs /\ drains' = [ds EXCEPT ![q] = d]
    BY DEF wait
  <1> HIDE DEF d
  <1>3. QED
    BY <1>1, <1>2 DEF Less

LEMMA Deletes ==
    ASSUME NEW qs \in [QueueId -> QueueState], NEW ds \in [QueueId -> DrainState],
           NEW q \in QueueId, delete(qs, ds, q)
    PROVE  /\ queues' \in [QueueId -> QueueState] /\ drains' \in [QueueId -> DrainState]
           /\ Less(qs, ds, queues', drains')
           /\ queues' = [qs EXCEPT ![q] = EmptyQueue] /\ drains' = ds /\ current' = NoQueue
  BY Empties DEF delete, Less

LEMMA Schedules ==
    ASSUME NEW qs \in [QueueId -> QueueState], NEW ds \in [QueueId -> DrainState],
           NEW cur \in QueueId \cup {NoQueue}, scheduleFollowupDrain(qs, ds, cur)
    PROVE  /\ queues' \in [QueueId -> QueueState] /\ drains' \in [QueueId -> DrainState]
           /\ Less(qs, ds, queues', drains') /\ current' \in {cur, NoQueue}
  <1>1. CASE cur = NoQueue \/ ds[cur].pc # "idle"
    BY <1>1 DEF scheduleFollowupDrain, Less
  <1>2. CASE ~(cur = NoQueue \/ ds[cur].pc # "idle") /\ HasWork(qs[cur])
    BY <1>2, Waits DEF scheduleFollowupDrain
  <1>3. CASE ~(cur = NoQueue \/ ds[cur].pc # "idle") /\ ~HasWork(qs[cur])
    BY <1>3, Deletes DEF scheduleFollowupDrain
  <1>4. QED
    BY <1>1, <1>2, <1>3

LEMMA Finishes ==
    ASSUME TypeOK, NEW qs \in [QueueId -> QueueState], NEW q \in QueueId, finally(qs, q)
    PROVE  /\ queues' \in [QueueId -> QueueState] /\ drains' \in [QueueId -> DrainState]
           /\ Less(qs, [drains EXCEPT ![q] = IdleDrain], queues', drains')
           /\ current' \in {current, NoQueue}
  <1> DEFINE ds == [drains EXCEPT ![q] = IdleDrain]
  <1>1. ds \in [QueueId -> DrainState] /\ current \in QueueId \cup {NoQueue}
    BY Empties DEF TypeOK
  <1>2. scheduleFollowupDrain(qs, ds, current) \/ delete(qs, ds, q)
    BY DEF finally
  <1> HIDE DEF ds
  <1>3. QED
    BY <1>1, <1>2, Schedules, Deletes DEF ds

LEMMA Loops ==
    ASSUME TypeOK, NEW qs \in [QueueId -> QueueState], NEW q \in QueueId, loop(qs, q)
    PROVE  /\ queues' \in [QueueId -> QueueState] /\ drains' \in [QueueId -> DrainState]
           /\ Less(qs, [drains EXCEPT ![q] = IdleDrain], queues', drains')
           /\ current' \in {current, NoQueue}
  <1>1. CASE HasWork(qs[q])
    <2>1. wait(qs, drains, q, drains[q].force) /\ current' = current
      BY <1>1 DEF loop
    <2>2. drains[q].force \in BOOLEAN /\ drains \in [QueueId -> DrainState]
      BY DEF TypeOK, DrainState
    <2>3. /\ queues' \in [QueueId -> QueueState] /\ drains' \in [QueueId -> DrainState]
          /\ queues' = qs /\ BatchOf(drains'[q]) = <<>>
          /\ \A o \in QueueId : o # q => drains'[o] = drains[o]
      <3>1. drains'[q].pc = "debounce"
        BY <2>1, <2>2, Waits
      <3>2. QED
        BY <2>1, <2>2, <3>1, Waits DEF BatchOf
    <2>4. QED
      BY <2>1, <2>2, <2>3 DEF Less
  <1>2. CASE ~HasWork(qs[q])
    BY <1>2, Finishes DEF loop
  <1>3. QED
    BY <1>1, <1>2

-----------------------------------------------------------------------------
(* An arrival.                                                             *)

LEMMA Excesses ==
    ASSUME NEW s \in QueueState
    PROVE  Excess(s) \in Nat /\ Excess(s) <= Len(s.items)
  <1>1. Len(s.items) \in Nat
    BY Elements DEF QueueState
  <1>2. s.settings.cap \in Nat \ {0}
    BY Assumed DEF QueueState
  <1>3. QED
    BY <1>1, <1>2 DEF Excess

LEMMA Pushes ==
    ASSUME NEW s \in QueueState, NEW r \in Run
    PROVE  /\ pushWithDropPolicy(s, r) \in QueueState
           /\ pushWithDropPolicy(s, r).items = Append(DropFirst(s.items, Excess(s)), r)
           /\ pushWithDropPolicy(s, r).settings = s.settings
           /\ Append(DropFirst(s.items, Excess(s)), r) \in Seq(Run)
           /\ ToSet(SubSeq(s.items, 1, Excess(s))) \subseteq Run
  <1> DEFINE gone == ToSet(SubSeq(s.items, 1, Excess(s)))
             kept == Append(DropFirst(s.items, Excess(s)), r)
             dropped == IF s.settings.dropPolicy = "summarize" THEN s.dropped \cup gone ELSE s.dropped
  <1>1. s.items \in Seq(Run) /\ Excess(s) \in Nat /\ Excess(s) <= Len(s.items)
    BY Excesses DEF QueueState
  <1>2. gone \subseteq Run
    BY <1>1, Taken, Elements
  <1>3. kept \in Seq(Run)
    BY <1>1, Dropped, Pushed
  <1>4. dropped \in SUBSET Run
    BY <1>2 DEF QueueState
  <1>5. pushWithDropPolicy(s, r) = [s EXCEPT !.items = kept, !.dropped = dropped]
    BY DEF pushWithDropPolicy
  <1> HIDE DEF kept, dropped
  <1>6. /\ pushWithDropPolicy(s, r) \in QueueState
        /\ pushWithDropPolicy(s, r).items = kept /\ pushWithDropPolicy(s, r).settings = s.settings
    BY <1>3, <1>4, <1>5 DEF QueueState
  <1>7. QED
    BY <1>2, <1>3, <1>6 DEF kept

\* A new message at the end of what is left is straight, and no twin.
LEMMA PushIsStraight ==
    ASSUME NEW s \in QueueState, NEW t \in QueueState, NEW d \in DrainState,
           NEW n \in Nat, NEW r \in Run, t.items = Append(DropFirst(s.items, n), r),
           Straight(s, d), r \notin HoldsOf(s, d)
    PROVE  /\ Straight(t, d) /\ HoldsOf(t, d) \subseteq HoldsOf(s, d) \cup {r}
           /\ NoTwins(s.items) /\ ~isRunAlreadyQueued(r, s.items) => NoTwins(t.items)
  <1> DEFINE items == s.items
             left == DropFirst(items, n)
  <1>1. /\ items \in Seq(Run) /\ r \notin ToSet(items) /\ r \notin ToSet(BatchOf(d))
        /\ IsInjective(items) /\ t.items = Append(left, r)
        /\ \A i \in DOMAIN items : items[i] \in ToSet(BatchOf(d)) => i <= Len(BatchOf(d))
    BY DEF QueueState, HoldsOf, Straight
  <1> HIDE DEF items
  <1>2. /\ left \in Seq(Run) /\ ToSet(left) \subseteq ToSet(items) /\ IsInjective(left)
        /\ \A i \in DOMAIN left : i + n \in DOMAIN items /\ left[i] = items[i + n]
        /\ Len(left) \in Nat /\ DOMAIN left = 1 .. Len(left)
    <2>1. /\ left \in Seq(Run) /\ ToSet(left) \subseteq ToSet(items) /\ IsInjective(left)
          /\ \A i \in DOMAIN left : i + n \in DOMAIN items /\ left[i] = items[i + n]
      BY <1>1, Dropped
    <2>2. Len(left) \in Nat /\ DOMAIN left = 1 .. Len(left)
      BY <2>1, Elements
    <2>3. QED
      BY <2>1, <2>2
  <1>3. /\ DOMAIN t.items = 1 .. Len(left) + 1
        /\ \A i \in 1 .. Len(left) : t.items[i] = left[i]
        /\ t.items[Len(left) + 1] = r
        /\ ToSet(t.items) = ToSet(left) \cup {r} /\ IsInjective(t.items)
    BY <1>1, <1>2, Pushed
  <1>4. \A i \in DOMAIN t.items : i # Len(left) + 1 => i \in DOMAIN left /\ t.items[i] = left[i]
    BY <1>2, <1>3
  <1> HIDE DEF left
  <1>5. ASSUME NEW i \in DOMAIN t.items, t.items[i] \in ToSet(BatchOf(d))
        PROVE  i <= Len(BatchOf(d))
    <2>1. i \in DOMAIN left /\ items[i + n] \in ToSet(BatchOf(d)) /\ i + n \in DOMAIN items
      BY <1>1, <1>2, <1>3, <1>4, <1>5
    <2>2. i + n <= Len(BatchOf(d))
      BY <1>1, <2>1
    <2>3. i \in Nat /\ n \in Nat
      BY <1>2, <2>1
    <2>4. i + n \in Nat /\ i + n >= i
      BY <2>3
    <2>5. QED
      BY <2>2, <2>3, <2>4
  <1>6. ASSUME NoTwins(items), ~isRunAlreadyQueued(r, items),
               NEW i \in DOMAIN t.items, NEW j \in DOMAIN t.items, i # j,
               MessageKey[t.items[i]] # NoKey
        PROVE  MessageKey[t.items[i]] # MessageKey[t.items[j]]
    <2>1. \A k \in DOMAIN items :
             MessageKey[items[k]] = MessageKey[r] => MessageKey[r] = NoKey
      BY <1>6 DEF isRunAlreadyQueued
    <2>2. CASE i # Len(left) + 1 /\ j # Len(left) + 1
      <3>1. i + n # j + n
        BY <1>2, <1>4, <1>6, <2>2
      <3>2. QED
        BY <1>2, <1>4, <1>6, <2>2, <3>1 DEF NoTwins
    <2>3. CASE i = Len(left) + 1
      BY <1>2, <1>3, <1>4, <1>6, <2>1, <2>3
    <2>4. CASE j = Len(left) + 1
      BY <1>2, <1>3, <1>4, <1>6, <2>1, <2>4
    <2>5. QED
      BY <2>2, <2>3, <2>4
  <1>7. QED
    BY <1>1, <1>2, <1>3, <1>5, <1>6 DEF Straight, HoldsOf, NoTwins, items

\* What getFollowupQueue returns is the object with the settings of the call,
\* and its items and dropped runs are what they were, also when it is new.
LEMMA SettingsApplied ==
    ASSUME TypeOK, NEW q \in QueueId, NEW settings \in Settings, getFollowupQueue(q)
    PROVE  LET s    == withSettings(q, settings)
               last == [s EXCEPT !.lastRun = TRUE]
           IN  /\ s \in QueueState /\ last \in QueueState
               /\ s.settings = settings /\ last.settings = settings
               /\ s.items = queues[q].items /\ last.items = queues[q].items
               /\ s.dropped = queues[q].dropped /\ last.dropped = queues[q].dropped
               /\ Excess(last) = Excess(s)
  <1> DEFINE old == IF q = current THEN queues[q] ELSE EmptyQueue
             s == withSettings(q, settings)
             last == [s EXCEPT !.lastRun = TRUE]
  <1>1. /\ old \in QueueState /\ old.items = queues[q].items
        /\ old.dropped = queues[q].dropped
    <2>1. CASE q = current
      BY <2>1 DEF TypeOK, QueueState
    <2>2. CASE q # current
      <3>1. ~HasWork(queues[q])
        BY <2>2 DEF getFollowupQueue
      <3> HIDE DEF old
      <3>2. queues[q].items = <<>> /\ queues[q].dropped = {}
        BY <3>1 DEF HasWork
      <3>3. old = EmptyQueue
        BY <2>2 DEF old
      <3>4. EmptyQueue.dropped = {}
        BY Empties DEF HasWork
      <3>5. QED
        BY <3>2, <3>3, <3>4, Empties
    <2>3. QED
      BY <2>1, <2>2
  <1>2. s = [old EXCEPT !.settings = settings]
    BY DEF withSettings
  <1> HIDE DEF old, s
  <1>3. /\ s \in QueueState /\ s.settings = settings
        /\ s.items = old.items /\ s.dropped = old.dropped
    BY <1>1, <1>2 DEF QueueState
  <1>4. /\ last \in QueueState /\ last.settings = s.settings
        /\ last.items = s.items /\ last.dropped = s.dropped
    BY <1>3 DEF QueueState
  <1> HIDE DEF last
  <1>5. Excess(last) = Excess(s)
    BY <1>4 DEF Excess
  <1>6. QED
    BY <1>1, <1>3, <1>4, <1>5 DEF s, last

\* An arrival.
LEMMA EnqueueStep ==
    ASSUME IInv, NEW r \in Run, NEW q \in QueueId, NEW settings \in Settings,
           NEW active \in LivenessSeen, enqueueFollowupRun(r, q, settings, active)
    PROVE  IInv'
  <1> USE DEF IInv, TypeOK
  <1> DEFINE s == withSettings(q, settings)
             last == [s EXCEPT !.lastRun = TRUE]
             Dup == MessageKey[r] \in recent \/ isRunAlreadyQueued(r, s.items)
             Full == Excess(s) > 0 /\ settings.dropPolicy = "new"
             new == IF Dup THEN s ELSE IF Full THEN last ELSE pushWithDropPolicy(last, r)
             items == queues[q].items
             qs == [queues EXCEPT ![q] = new]
  <1>1. /\ r \notin ToSet(accepted)
        /\ getFollowupQueue(q)
        /\ IF Dup \/ Full
           THEN UNCHANGED <<accepted, recent, removed>>
           ELSE /\ accepted' = Append(accepted, r)
                /\ recent' = remember(recent, r)
                /\ removed' = removed \cup ToSet(SubSeq(s.items, 1, Excess(s)))
        /\ IF active THEN queues' = qs /\ drains' = drains /\ current' = q
                     ELSE scheduleFollowupDrain(qs, drains, q)
        /\ UNCHANGED <<replies, foreign, clears, failures, answered>>
    BY DEF enqueueFollowupRun
  <1>2. /\ s \in QueueState /\ s.items = items /\ s.settings = settings
        /\ last \in QueueState /\ last.items = items /\ last.settings = settings
    BY <1>1, SettingsApplied
  <1>3. items \in Seq(Run) /\ Excess(last) \in Nat
    BY <1>2, Excesses DEF QueueState
  <1>4. CASE Dup \/ Full
    <2>1. new \in {s, last}
      BY <1>4
    <2> HIDE DEF new, s, last
    <2>2. new \in QueueState /\ new.items = items
      BY <1>2, <2>1
    <2>3. qs \in [QueueId -> QueueState] /\ Less(queues, drains, qs, drains)
      BY <2>2 DEF Less
    <2>4. UNCHANGED <<accepted, recent, removed, replies, foreign, clears, failures, answered>>
      BY <1>1, <1>4
    <2> HIDE DEF qs
    <2>5. (queues' = qs /\ drains' = drains /\ current' = q) \/ scheduleFollowupDrain(qs, drains, q)
      BY <1>1 DEF qs, new
    <2>6. /\ queues' \in [QueueId -> QueueState] /\ drains' \in [QueueId -> DrainState]
          /\ Less(qs, drains, queues', drains') /\ current' \in QueueId \cup {NoQueue}
      BY <2>3, <2>5, Schedules DEF Less
    <2>7. /\ Apart(queues', drains', ToSet(accepted), ToSet(answered))
          /\ \A o \in QueueId : NoTwins(queues'[o].items)
      BY <2>3, <2>6, LessIsApart, LessHasNoTwins DEF NoTwinQueued, NoTwins
    <2>8. QED
      BY <2>4, <2>6, <2>7 DEF AnsweredWereAccepted, AnsweredOnce, NoTwinQueued, NoTwins
  <1>5. CASE ~(Dup \/ Full)
    <2>1. new = pushWithDropPolicy(last, r) /\ ~isRunAlreadyQueued(r, items)
      BY <1>2, <1>5
    <2>2. /\ accepted' = Append(accepted, r) /\ recent' = remember(recent, r)
          /\ removed' = removed \cup ToSet(SubSeq(s.items, 1, Excess(s)))
      BY <1>1, <1>5
    <2>3. (queues' = qs /\ drains' = drains /\ current' = q) \/ scheduleFollowupDrain(qs, drains, q)
      BY <1>1
    <2>4. UNCHANGED <<replies, foreign, clears, failures, answered>> /\ r \notin ToSet(accepted)
      BY <1>1
    <2> HIDE DEF new, s, last
    <2>5. new \in QueueState /\ new.items = Append(DropFirst(items, Excess(last)), r)
      BY <1>2, <2>1, Pushes
    <2>6. /\ accepted' \in Seq(Run) /\ ToSet(accepted') = ToSet(accepted) \cup {r}
          /\ removed' \in SUBSET Run
          /\ recent' \subseteq {MessageKey[x] : x \in Run} \ {NoKey}
      <3>1. ToSet(SubSeq(s.items, 1, Excess(s))) \subseteq Run
        BY <1>2, Pushes
      <3>2. recent' \subseteq {MessageKey[x] : x \in Run} \ {NoKey}
        BY <2>2 DEF remember
      <3>3. accepted' \in Seq(Run) /\ ToSet(accepted') = ToSet(accepted) \cup {r}
        BY <2>2, Pushed
      <3>4. QED
        BY <2>2, <3>1, <3>2, <3>3
    <2>7. r \notin HoldsOf(queues[q], drains[q]) /\ Straight(queues[q], drains[q])
      BY <2>4 DEF Apart
    <2>8. /\ Straight(new, drains[q])
          /\ HoldsOf(new, drains[q]) \subseteq HoldsOf(queues[q], drains[q]) \cup {r}
          /\ NoTwins(new.items)
      <3>1. NoTwins(items) /\ queues[q] \in QueueState /\ drains[q] \in DrainState
        BY DEF NoTwinQueued, NoTwins
      <3>2. new.items = Append(DropFirst(queues[q].items, Excess(last)), r)
        BY <2>5
      <3>3. /\ Straight(new, drains[q])
            /\ HoldsOf(new, drains[q]) \subseteq HoldsOf(queues[q], drains[q]) \cup {r}
            /\ NoTwins(queues[q].items) /\ ~isRunAlreadyQueued(r, queues[q].items) => NoTwins(new.items)
        <4> HIDE DEF IInv, TypeOK, items, qs
        <4>1. Excess(last) \in Nat /\ new \in QueueState
          BY <1>3, <2>5
        <4>2. QED
          BY <2>7, <3>1, <3>2, <4>1, PushIsStraight, Zenon
      <3>4. QED
        BY <2>1, <3>1, <3>3
    <2>9. qs \in [QueueId -> QueueState] /\ qs[q] = new /\ \A o \in QueueId \ {q} : qs[o] = queues[o]
      BY <2>5
    <2> HIDE DEF qs
    <2>10. Apart(qs, drains, ToSet(accepted'), ToSet(answered))
      <3>1. r \notin ToSet(answered) /\ \A o \in QueueId : r \notin HoldsOf(queues[o], drains[o])
        BY <2>4 DEF Apart, AnsweredWereAccepted
      <3>2. ASSUME NEW o \in QueueId
            PROVE  /\ Straight(qs[o], drains[o])
                   /\ HoldsOf(qs[o], drains[o]) \subseteq ToSet(accepted') \ ToSet(answered)
                   /\ HoldsOf(qs[o], drains[o]) \subseteq HoldsOf(queues[o], drains[o])
                                                           \cup (IF o = q THEN {r} ELSE {})
        BY <2>6, <2>8, <2>9, <3>1 DEF Apart
      <3>3. ASSUME NEW o \in QueueId, NEW p \in QueueId, o # p,
                   NEW x \in HoldsOf(qs[o], drains[o]), x \in HoldsOf(qs[p], drains[p])
            PROVE  FALSE
        <4>1. CASE x = r
          BY <3>1, <3>2, <3>3, <4>1
        <4>2. CASE x # r
          <5>1. x \in HoldsOf(queues[o], drains[o]) /\ x \in HoldsOf(queues[p], drains[p])
            BY <3>2, <3>3, <4>2
          <5>2. QED
            BY <3>3, <5>1 DEF Apart
        <4>3. QED
          BY <4>1, <4>2
      <3>4. QED
        BY <3>2, <3>3 DEF Apart
    <2>11. \A o \in QueueId : NoTwins(qs[o].items)
      <3>1. \A o \in QueueId : NoTwins(queues[o].items)
        BY DEF NoTwinQueued, NoTwins
      <3> HIDE DEF IInv, TypeOK
      <3>2. QED
        BY <2>8, <2>9, <3>1
    <2>12. /\ queues' \in [QueueId -> QueueState] /\ drains' \in [QueueId -> DrainState]
           /\ Less(qs, drains, queues', drains') /\ current' \in QueueId \cup {NoQueue}
      <3>0. drains \in [QueueId -> DrainState]
        OBVIOUS
      <3> HIDE DEF IInv, TypeOK, items
      <3>1. CASE queues' = qs /\ drains' = drains /\ current' = q
        BY <2>9, <3>0, <3>1 DEF Less
      <3>2. CASE scheduleFollowupDrain(qs, drains, q)
        BY <2>9, <3>0, <3>2, Schedules
      <3>3. QED
        BY <2>3, <3>1, <3>2
    <2>13. /\ Apart(queues', drains', ToSet(accepted'), ToSet(answered))
           /\ \A o \in QueueId : NoTwins(queues'[o].items)
      BY <2>10, <2>11, <2>12, LessIsApart, LessHasNoTwins
    <2>14. QED
      BY <2>4, <2>6, <2>12, <2>13 DEF AnsweredWereAccepted, AnsweredOnce, NoTwinQueued, NoTwins
  <1>6. QED
    BY <1>4, <1>5

-----------------------------------------------------------------------------
(* The drain.                                                              *)

\* The head of a queue, alone.
LEMMA Heads ==
    ASSUME NEW items \in Seq(Run), items # <<>>
    PROVE  /\ <<Head(items)>> \in Seq(Run) /\ Len(<<Head(items)>>) = 1
           /\ <<Head(items)>>[1] = items[1] /\ Len(items) >= 1
  <1>1. Len(items) \in Nat \ {0} /\ Head(items) \in Run
    BY EmptySeq, HeadTailProperties
  <1>2. Head(items) = items[1]
    BY <1>1
  <1>3. <<Head(items)>> \in Seq(Run) /\ Len(<<Head(items)>>) = 1
    BY <1>1
  <1>4. QED
    BY <1>1, <1>2, <1>3

\* What a drain picks is a prefix of what is queued.
LEMMA Picks ==
    ASSUME NEW s \in QueueState, NEW force \in BOOLEAN
    PROVE  LET next == NextRun(s, force) IN
           /\ next.kind \in {"none", "item", "summary", "collect"}
           /\ next.batch \in Seq(Run) /\ next.summary \in SUBSET Run
           /\ Len(next.batch) <= Len(s.items)
           /\ \A i \in DOMAIN next.batch : i \in DOMAIN s.items /\ next.batch[i] = s.items[i]
  <1> DEFINE next == NextRun(s, force)
             items == s.items
  <1>1. items \in Seq(Run) /\ Overflow(s) \in SUBSET Run
    BY DEF QueueState, Overflow
  <1>2. Len(items) \in Nat /\ DOMAIN items = 1 .. Len(items)
    BY <1>1, Elements
  <1>3. <<>> \in Seq(Run) /\ Len(<<>>) = 0 /\ DOMAIN <<>> = {}
    BY EmptySeq, NoElements
  <1>4. \/ next = [kind |-> "collect", batch |-> items, summary |-> Overflow(s)]
        \/ next = [kind |-> "none", batch |-> <<>>, summary |-> {}]
        \/ items # <<>> /\ next \in {[kind |-> "summary", batch |-> <<Head(items)>>, summary |-> Overflow(s)],
                                     [kind |-> "item", batch |-> <<Head(items)>>, summary |-> {}]}
    BY DEF NextRun
  <1> HIDE DEF next, items
  <1>5. CASE next = [kind |-> "collect", batch |-> items, summary |-> Overflow(s)]
    BY <1>1, <1>2, <1>5 DEF next, items
  <1>6. CASE next = [kind |-> "none", batch |-> <<>>, summary |-> {}]
    BY <1>2, <1>3, <1>6 DEF next, items
  <1>7. CASE items # <<>> /\ next \in {[kind |-> "summary", batch |-> <<Head(items)>>, summary |-> Overflow(s)],
                                     [kind |-> "item", batch |-> <<Head(items)>>, summary |-> {}]}
    <2> DEFINE head == <<Head(items)>>
    <2>1. /\ head \in Seq(Run) /\ Len(head) = 1 /\ head[1] = items[1] /\ Len(items) >= 1
      BY <1>1, <1>7, Heads
    <2>2. DOMAIN head = 1 .. 1
      BY <2>1, Elements
    <2> HIDE DEF head
    <2>3. next.batch = head /\ next.kind \in {"summary", "item"} /\ next.summary \in {Overflow(s), {}}
      BY <1>7 DEF head
    <2>4. \A i \in DOMAIN head : i \in DOMAIN items /\ head[i] = items[i]
      BY <1>2, <2>1, <2>2
    <2>5. QED
      BY <1>1, <1>2, <2>1, <2>3, <2>4 DEF next, items
  <1>8. QED
    BY <1>4, <1>5, <1>6, <1>7

\* What no longer has its drain's run under way, and what keeps it.
LEMMA Keep ==
    ASSUME IInv, NEW qs, NEW ds, Less(queues, drains, qs, ds), Less(qs, ds, queues', drains'),
           queues' \in [QueueId -> QueueState], drains' \in [QueueId -> DrainState],
           current' \in QueueId \cup {NoQueue},
           accepted' = accepted, answered' = answered
    PROVE  /\ Apart(queues', drains', ToSet(accepted'), ToSet(answered'))
           /\ NoTwinQueued' /\ AnsweredWereAccepted' /\ AnsweredOnce'
  <1>1. \A q \in QueueId : NoTwins(queues'[q].items)
    BY LessHasNoTwins DEF IInv, NoTwinQueued, NoTwins
  <1>2. Apart(queues', drains', ToSet(accepted), ToSet(answered))
    BY LessIsApart DEF IInv
  <1>3. QED
    BY <1>1, <1>2 DEF IInv, NoTwinQueued, NoTwins, AnsweredWereAccepted, AnsweredOnce

LEMMA DrainStep ==
    ASSUME IInv, NEW q \in QueueId, drainStep(q)
    PROVE  IInv'
  <1> DEFINE s == queues[q]
             force == s.settings.mode = "collect" /\ (drains[q].force \/ hasCrossChannelItems(s.items))
             next == NextRun(s, force)
             d == [pc |-> "running", force |-> drains[q].force \/ force, kind |-> next.kind,
                   batch |-> next.batch, summary |-> next.summary]
  <1> USE DEF IInv, TypeOK
  <1>1. /\ drains[q].pc = "debounce"
        /\ IF next.kind = "none" THEN finally(queues, q)
           ELSE queues' = queues /\ drains' = [drains EXCEPT ![q] = d] /\ current' = current
        /\ UNCHANGED <<recent, replies, foreign, clears, failures, history>>
    BY DEF drainStep
  <1>2. UNCHANGED <<recent, replies, foreign, clears, failures, accepted, answered, removed>>
    BY <1>1 DEF history
  <1>3. s \in QueueState /\ force \in BOOLEAN /\ drains[q] \in DrainState /\ drains[q].force \in BOOLEAN
    <2>1. s \in QueueState /\ drains[q] \in DrainState /\ drains[q].force \in BOOLEAN
      BY DEF DrainState
    <2>2. force \in BOOLEAN
      OBVIOUS
    <2>3. QED
      BY <2>1, <2>2
  <1>4. CASE next.kind = "none"
    <2> DEFINE ds == [drains EXCEPT ![q] = IdleDrain]
    <2>1. /\ queues' \in [QueueId -> QueueState] /\ drains' \in [QueueId -> DrainState]
          /\ Less(queues, ds, queues', drains') /\ current' \in QueueId \cup {NoQueue}
      BY <1>1, <1>4, Finishes
    <2>2. Less(queues, drains, queues, ds)
      BY Empties DEF Less
    <2> HIDE DEF ds
    <2>3. QED
      BY <1>2, <2>1, <2>2, Keep
  <1>5. CASE next.kind # "none"
    <2>1. /\ next.kind \in {"item", "summary", "collect"} /\ next.summary \in SUBSET Run
          /\ next.batch \in Seq(Run) /\ Len(next.batch) <= Len(s.items)
          /\ \A i \in DOMAIN next.batch : i \in DOMAIN s.items /\ next.batch[i] = s.items[i]
      BY <1>3, <1>5, Picks
    <2>2. queues' = queues /\ drains' = [drains EXCEPT ![q] = d] /\ current' = current
      BY <1>1, <1>5
    <2>3. d \in DrainState
      BY <1>3, <2>1 DEF DrainState
    <2>4. BatchOf(d) \in {next.batch, <<>>}
      BY DEF BatchOf
    <2> HIDE DEF d, next, force
    <2>5. drains' \in [QueueId -> DrainState] /\ drains'[q] = d
          /\ \A o \in QueueId \ {q} : drains'[o] = drains[o]
      BY <2>2, <2>3
    <2>6. Straight(s, d) /\ HoldsOf(s, d) \subseteq HoldsOf(s, drains[q])
      <3>1. Straight(s, drains[q])
        BY DEF Apart
      <3>2. CASE BatchOf(d) = <<>>
        BY <3>1, <3>2, NoElements DEF Straight, HoldsOf
      <3>3. CASE BatchOf(d) = next.batch
        <4> DEFINE batch == next.batch
                   items == s.items
        <4>1. /\ IsInjective(items) /\ items \in Seq(Run) /\ batch \in Seq(Run)
              /\ \A i \in DOMAIN batch : i \in DOMAIN items /\ batch[i] = items[i]
          BY <2>1, <3>1 DEF Straight, QueueState
        <4> HIDE DEF batch, items
        <4>2. ToSet(batch) \subseteq ToSet(items) /\ IsInjective(batch)
          BY <4>1 DEF ToSet, IsInjective
        <4>3. DOMAIN batch = 1 .. Len(batch) /\ DOMAIN items = 1 .. Len(items)
              /\ Len(batch) \in Nat /\ Len(items) \in Nat
          BY <4>1, Elements
        <4>4. ASSUME NEW i \in DOMAIN items, items[i] \in ToSet(batch)
              PROVE  i <= Len(batch)
          <5>1. PICK k \in DOMAIN batch : batch[k] = items[i]
            BY <4>4 DEF ToSet
          <5>2. k = i
            BY <4>1, <5>1 DEF IsInjective
          <5>3. QED
            BY <4>3, <5>2
        <4>5. QED
          BY <3>3, <4>1, <4>2, <4>4 DEF Straight, HoldsOf, batch, items
      <3>4. QED
        BY <2>4, <3>2, <3>3
    <2>7. Apart(queues', drains', ToSet(accepted'), ToSet(answered'))
      <3>1. ASSUME NEW o \in QueueId
            PROVE  /\ Straight(queues[o], drains'[o])
                   /\ HoldsOf(queues[o], drains'[o]) \subseteq HoldsOf(queues[o], drains[o])
        BY <2>5, <2>6 DEF Apart
      <3>2. QED
        BY <1>2, <2>2, <3>1 DEF Apart
    <2>8. QED
      BY <1>2, <2>2, <2>5, <2>7 DEF AnsweredWereAccepted, AnsweredOnce, NoTwinQueued
  <1>6. QED
    BY <1>4, <1>5

\* The items behind a batch are not in it.
LEMMA Shifts ==
    ASSUME NEW s \in QueueState, NEW d \in DrainState, Straight(s, d)
    PROVE  /\ afterRun(s, d) \in QueueState
           /\ afterRun(s, d).items = DropFirst(s.items, Len(d.batch))
           /\ afterRun(s, d).items \in Seq(Run) /\ IsInjective(afterRun(s, d).items)
           /\ ToSet(afterRun(s, d).items) \subseteq ToSet(s.items) \ ToSet(BatchOf(d))
           /\ NoTwins(s.items) => NoTwins(afterRun(s, d).items)
  <1> DEFINE items == s.items
             n == Len(d.batch)
             left == DropFirst(items, n)
             dropped == IF d.summary # {} THEN {} ELSE s.dropped
  <1>1. /\ items \in Seq(Run) /\ IsInjective(items) /\ d.batch \in Seq(Run) /\ dropped \in SUBSET Run
        /\ \A i \in DOMAIN items : items[i] \in ToSet(BatchOf(d)) => i <= Len(BatchOf(d))
    BY DEF QueueState, DrainState, Straight
  <1>2. afterRun(s, d) = [s EXCEPT !.items = left, !.dropped = dropped]
    BY DEF afterRun
  <1>3. n \in Nat /\ (BatchOf(d) = <<>> \/ Len(BatchOf(d)) = n)
    BY <1>1, Elements DEF BatchOf
  <1> HIDE DEF items, n
  <1>4. /\ left \in Seq(Run) /\ IsInjective(left) /\ ToSet(left) \subseteq ToSet(items)
        /\ \A i \in DOMAIN left : i + n \in DOMAIN items /\ left[i] = items[i + n]
        /\ DOMAIN left = 1 .. Len(left) /\ Len(left) \in Nat
    <2>1. /\ left \in Seq(Run) /\ IsInjective(left) /\ ToSet(left) \subseteq ToSet(items)
          /\ \A i \in DOMAIN left : i + n \in DOMAIN items /\ left[i] = items[i + n]
      BY <1>1, <1>3, Dropped
    <2>2. QED
      BY <2>1, Elements
  <1> HIDE DEF left, dropped
  <1>5. /\ afterRun(s, d) \in QueueState /\ afterRun(s, d).items = left
    BY <1>1, <1>2, <1>4 DEF QueueState
  <1>6. ASSUME NEW i \in DOMAIN left, left[i] \in ToSet(BatchOf(d))
        PROVE  FALSE
    <2>1. i + n \in DOMAIN items /\ items[i + n] \in ToSet(BatchOf(d)) /\ i \in Nat /\ i >= 1
      BY <1>4, <1>6
    <2>2. BatchOf(d) # <<>>
      BY <2>1, NoElements
    <2>3. i + n <= n
      BY <1>1, <1>3, <2>1, <2>2
    <2>4. QED
      BY <1>3, <2>1, <2>3
  <1>7. ToSet(left) \subseteq ToSet(items) \ ToSet(BatchOf(d))
    BY <1>4, <1>6, Elements
  <1>8. NoTwins(items) => NoTwins(left)
    <2>1. \A i, j \in DOMAIN left : i # j => i + n # j + n
      BY <1>3, <1>4
    <2>2. QED
      BY <1>4, <2>1 DEF NoTwins
  <1>9. QED
    BY <1>4, <1>5, <1>7, <1>8 DEF items, left, n

LEMMA RunSucceedsStep ==
    ASSUME IInv, NEW q \in QueueId, runSucceeds(q)
    PROVE  IInv'
  <1> DEFINE d == drains[q]
             s == queues[q]
             new == afterRun(s, d)
             qs == [queues EXCEPT ![q] = new]
             ds == [drains EXCEPT ![q] = IdleDrain]
  <1> USE DEF IInv, TypeOK
  <1>1. /\ d.pc = "running" /\ loop(qs, q)
        /\ answered' = IF d.kind = "summary" THEN answered ELSE answered \o d.batch
        /\ UNCHANGED <<recent, replies, foreign, clears, failures, accepted, removed>>
    BY DEF runSucceeds
  <1>2. /\ s \in QueueState /\ d \in DrainState /\ Straight(s, d) /\ NoTwins(s.items)
        /\ HoldsOf(s, d) \subseteq ToSet(accepted) \ ToSet(answered)
    BY DEF Apart, NoTwinQueued, NoTwins
  <1>3. /\ new \in QueueState /\ new.items \in Seq(Run) /\ IsInjective(new.items)
        /\ ToSet(new.items) \subseteq ToSet(s.items) \ ToSet(BatchOf(d)) /\ NoTwins(new.items)
    BY <1>2, Shifts
  <1> HIDE DEF new
  <1>4. /\ qs \in [QueueId -> QueueState] /\ qs[q] = new
        /\ \A o \in QueueId \ {q} : qs[o] = queues[o]
    BY <1>3
  <1>5. /\ ds \in [QueueId -> DrainState] /\ BatchOf(ds[q]) = <<>>
        /\ \A o \in QueueId \ {q} : ds[o] = drains[o]
    BY Empties
  <1>6. /\ answered' \in Seq(Run) /\ IsInjective(answered')
        /\ ToSet(answered') = ToSet(answered) \cup ToSet(BatchOf(d))
    <2>1. CASE d.kind = "summary"
      BY <1>1, <2>1, NoElements DEF BatchOf, AnsweredOnce
    <2>2. CASE d.kind # "summary"
      <3> DEFINE batch == d.batch
      <3>1. BatchOf(d) = batch /\ batch \in Seq(Run)
        BY <1>1, <1>2, <2>2 DEF BatchOf, DrainState
      <3>2. IsInjective(batch) /\ ToSet(answered) \cap ToSet(batch) = {}
        BY <1>2, <3>1 DEF Straight, HoldsOf
      <3>3. answered' = answered \o batch /\ answered \in Seq(Run) /\ IsInjective(answered)
        BY <1>1, <2>2 DEF AnsweredOnce
      <3> HIDE DEF batch
      <3>4. QED
        BY <3>1, <3>2, <3>3, Joined
    <2>3. QED
      BY <2>1, <2>2
  <1> HIDE DEF qs, ds, d, s
  <1>7. Apart(qs, ds, ToSet(accepted), ToSet(answered'))
    <2>1. HoldsOf(queues[q], drains[q]) = HoldsOf(s, d)
      BY DEF s, d
    <2>2. ASSUME NEW o \in QueueId \ {q}
          PROVE  /\ Straight(qs[o], ds[o]) /\ HoldsOf(qs[o], ds[o]) = HoldsOf(queues[o], drains[o])
                 /\ HoldsOf(queues[o], drains[o]) \subseteq ToSet(accepted) \ ToSet(answered')
      <3>1. HoldsOf(queues[o], drains[o]) \cap HoldsOf(s, d) = {}
        BY <2>1 DEF Apart
      <3>2. HoldsOf(queues[o], drains[o]) \subseteq ToSet(accepted) \ ToSet(answered)
        BY DEF Apart
      <3>3. ToSet(BatchOf(d)) \subseteq HoldsOf(s, d)
        BY DEF HoldsOf
      <3>4. Straight(queues[o], drains[o])
        BY DEF Apart
      <3>5. QED
        BY <1>4, <1>5, <1>6, <3>1, <3>2, <3>3, <3>4
    <2>3. /\ Straight(qs[q], ds[q]) /\ HoldsOf(qs[q], ds[q]) \subseteq HoldsOf(s, d)
          /\ HoldsOf(qs[q], ds[q]) \subseteq ToSet(accepted) \ ToSet(answered')
      BY <1>2, <1>3, <1>4, <1>5, <1>6, NoElements DEF Straight, HoldsOf
    <2>4. \A o, p \in QueueId : o # p => HoldsOf(qs[o], ds[o]) \cap HoldsOf(qs[p], ds[p]) = {}
      BY <2>1, <2>2, <2>3 DEF Apart
    <2>5. QED
      BY <2>2, <2>3, <2>4 DEF Apart
  <1>8. /\ queues' \in [QueueId -> QueueState] /\ drains' \in [QueueId -> DrainState]
        /\ Less(qs, ds, queues', drains') /\ current' \in QueueId \cup {NoQueue}
    BY <1>1, <1>4, Loops DEF ds
  <1>9. ASSUME NEW o \in QueueId
        PROVE  NoTwins(qs[o].items)
    <2>1. NoTwins(queues[o].items)
      BY DEF NoTwinQueued, NoTwins
    <2>2. QED
      BY <1>3, <1>4, <2>1
  <1>10. /\ Apart(queues', drains', ToSet(accepted), ToSet(answered'))
         /\ \A o \in QueueId : NoTwins(queues'[o].items)
    BY <1>7, <1>8, <1>9, LessIsApart, LessHasNoTwins
  <1>11. ToSet(answered') \subseteq ToSet(accepted)
    BY <1>2, <1>6 DEF AnsweredWereAccepted, HoldsOf
  <1>12. QED
    BY <1>1, <1>6, <1>8, <1>10, <1>11 DEF AnsweredWereAccepted, AnsweredOnce, NoTwinQueued, NoTwins

\* Steps that start, fail, clear or only watch.
LEMMA OtherSteps ==
    ASSUME IInv,
           \/ \E k \in recent : forgetMessageId(k)
           \/ \E p \in ReplyRun : replyStarts(p) \/ replyEnds(p) \/ finalizeWithFollowup(p)
           \/ foreignRun
           \/ \E q \in QueueId : runFails(q)
           \/ clearSessionQueues
    PROVE  IInv'
  <1> USE DEF IInv, TypeOK
  <1>1. Less(queues, drains, queues, drains)
    BY DEF Less
  <1>2. ASSUME UNCHANGED <<queues, drains, current, history>>, recent' \subseteq recent,
               replies' \in [ReplyRun -> {"idle", "running", "ending"}], foreign' \in BOOLEAN,
               clears' = clears, failures' = failures
        PROVE  IInv'
    BY <1>1, <1>2, Keep DEF history
  <1>3. ASSUME NEW k \in recent, forgetMessageId(k)
        PROVE  IInv'
    BY <1>2, <1>3 DEF forgetMessageId
  <1>4. ASSUME NEW p \in ReplyRun, replyStarts(p) \/ replyEnds(p)
        PROVE  IInv'
    BY <1>2, <1>4 DEF replyStarts, replyEnds
  <1>5. CASE foreignRun
    BY <1>2, <1>5 DEF foreignRun
  <1>6. ASSUME NEW p \in ReplyRun, finalizeWithFollowup(p)
        PROVE  IInv'
    <2>1. /\ scheduleFollowupDrain(queues, drains, current)
          /\ replies' \in [ReplyRun -> {"idle", "running", "ending"}]
          /\ UNCHANGED <<recent, foreign, clears, failures, accepted, answered, removed>>
      BY <1>6 DEF finalizeWithFollowup, history
    <2>2. /\ queues' \in [QueueId -> QueueState] /\ drains' \in [QueueId -> DrainState]
          /\ Less(queues, drains, queues', drains') /\ current' \in QueueId \cup {NoQueue}
      BY <2>1, Schedules
    <2>3. QED
      BY <1>1, <2>1, <2>2, Keep
  <1>7. ASSUME NEW q \in QueueId, runFails(q)
        PROVE  IInv'
    <2> DEFINE ds == [drains EXCEPT ![q] = IdleDrain]
    <2>1. /\ finally(queues, q) /\ failures' \in 0 .. MaxFailures
          /\ UNCHANGED <<recent, replies, foreign, clears, accepted, answered, removed>>
      BY <1>7, Assumed DEF runFails, history
    <2>2. /\ queues' \in [QueueId -> QueueState] /\ drains' \in [QueueId -> DrainState]
          /\ Less(queues, ds, queues', drains') /\ current' \in QueueId \cup {NoQueue}
      BY <2>1, Finishes
    <2>3. Less(queues, drains, queues, ds)
      BY Empties DEF Less
    <2> HIDE DEF ds
    <2>4. QED
      BY <2>1, <2>2, <2>3, Keep
  <1>8. CASE clearSessionQueues
    <2> DEFINE new == IF drains[current].pc = "idle" THEN EmptyQueue
                      ELSE [EmptyQueue EXCEPT !.settings = queues[current].settings]
    <2>1. /\ current \in QueueId /\ queues' = [queues EXCEPT ![current] = new] /\ current' = NoQueue
          /\ clears' \in 0 .. MaxClears
          /\ removed' = removed \cup ToSet(queues[current].items)
          /\ UNCHANGED <<drains, recent, replies, foreign, failures, accepted, answered>>
      BY <1>8, Assumed DEF clearSessionQueues
    <2>2. new \in QueueState /\ new.items = <<>>
      BY <2>1, Empties DEF QueueState
    <2> HIDE DEF new
    <2>3. ToSet(queues[current].items) \subseteq Run
      BY <2>1, Elements DEF QueueState
    <2>4. queues' \in [QueueId -> QueueState] /\ Less(queues, drains, queues', drains')
      BY <2>1, <2>2 DEF Less
    <2>5. QED
      BY <1>1, <2>1, <2>3, <2>4, Keep
  <1>9. QED
    BY <1>3, <1>4, <1>5, <1>6, <1>7, <1>8

-----------------------------------------------------------------------------
(* The theorems.                                                           *)

\* The inductive invariant of the queue objects and their drains
\* (enqueueFollowupRun, scheduleFollowupDrain, clearSessionQueues).
THEOREM Invariance == Spec => []IInv
  <1>1. Init => IInv
    <2> SUFFICES ASSUME Init
                 PROVE  IInv
      OBVIOUS
    <2>1. <<>> \in Seq(Run)
      BY EmptySeq
    <2>2. TypeOK
      <3>1. queues \in [QueueId -> QueueState] /\ drains \in [QueueId -> DrainState]
        BY Empties DEF Init
      <3>2. clears \in 0 .. MaxClears /\ failures \in 0 .. MaxFailures
        BY Assumed DEF Init
      <3>3. recent = {} /\ current = NoQueue /\ foreign = FALSE /\ removed = {}
        BY DEF Init
      <3>4. replies \in [ReplyRun -> {"idle", "running", "ending"}]
        BY DEF Init
      <3>5. accepted \in Seq(Run) /\ answered \in Seq(Run)
        BY <2>1 DEF Init
      <3>6. QED
        BY <3>1, <3>2, <3>3, <3>4, <3>5 DEF TypeOK
    <2>3. Apart(queues, drains, ToSet(accepted), ToSet(answered))
      BY Empties, NoElements DEF Init, Apart, Straight, HoldsOf
    <2>4. QED
      BY <2>2, <2>3, Empties, NoElements DEF Init, IInv, AnsweredWereAccepted, AnsweredOnce, NoTwinQueued
  <1>2. IInv /\ [Next]_vars => IInv'
    <2> SUFFICES ASSUME IInv, [Next]_vars PROVE IInv'
      OBVIOUS
    <2>1. CASE Next
      <3>1. ASSUME NEW r \in Run, NEW q \in QueueId, NEW settings \in Settings,
                   NEW active \in LivenessSeen, enqueueFollowupRun(r, q, settings, active)
            PROVE  IInv'
        BY <3>1, EnqueueStep
      <3>2. QED
        BY <2>1, <3>1, DrainStep, RunSucceedsStep, OtherSteps DEF Next
    <2>2. CASE UNCHANGED vars
      BY <2>2 DEF vars, history, IInv, TypeOK, AnsweredWereAccepted, AnsweredOnce, NoTwinQueued
    <2>3. QED
      BY <2>1, <2>2
  <1>3. QED
    BY <1>1, <1>2, PTL DEF Spec

\* Every reachable state is well typed.
THEOREM TypeCorrect == Spec => []TypeOK
  <1>1. IInv => TypeOK
    BY DEF IInv
  <1>2. QED
    BY <1>1, Invariance, PTL

\* No message is answered twice, whatever is dropped, cleared, retried or
\* arrives while its run is under way (drainNextQueueItem, items.splice).
THEOREM Once == Spec => []AnsweredOnce
  <1>1. IInv => AnsweredOnce
    BY DEF IInv
  <1>2. QED
    BY <1>1, Invariance, PTL

\* No provider message is in a queue twice (isRunAlreadyQueued).
THEOREM NoTwin == Spec => []NoTwinQueued
  <1>1. IInv => NoTwinQueued
    BY DEF IInv
  <1>2. QED
    BY <1>1, Invariance, PTL

-----------------------------------------------------------------------------
(* No queue is left idle with work.                                        *)

\* Runs of the session are reply runs, and no command clears it.
Orderly == MaxClears = 0 /\ ~ForeignRuns

\* A full queue refuses.
Keeping == \A s \in Settings : s.dropPolicy = "new"

-----------------------------------------------------------------------------
(* The items.                                                              *)

LEMMA NoneDropped ==
    ASSUME NEW s \in Seq(Run)
    PROVE  DropFirst(s, 0) = s
  <1>1. /\ DropFirst(s, 0) \in Seq(Run) /\ Len(DropFirst(s, 0)) = Len(s)
        /\ \A i \in DOMAIN DropFirst(s, 0) : DropFirst(s, 0)[i] = s[i]
    <2>1. Len(s) \in Nat
      BY Elements
    <2>2. \A i \in DOMAIN DropFirst(s, 0) : i + 0 \in DOMAIN s /\ DropFirst(s, 0)[i] = s[i + 0]
      BY Dropped
    <2>3. \A i \in DOMAIN s : i + 0 = i
      BY Elements
    <2>4. QED
      BY <2>1, <2>2, Dropped, Elements
  <1>2. \A i \in 1 .. Len(s) : DropFirst(s, 0)[i] = s[i]
    BY <1>1, Elements
  <1>3. QED
    BY <1>1, <1>2, SeqEqual

LEMMA ShiftsInType ==
    ASSUME NEW s \in QueueState, NEW d \in DrainState
    PROVE  /\ afterRun(s, d) \in QueueState
           /\ afterRun(s, d).items = DropFirst(s.items, Len(d.batch))
           /\ afterRun(s, d).dropped = IF d.summary # {} THEN {} ELSE s.dropped
  <1> DEFINE left == DropFirst(s.items, Len(d.batch))
             dropped == IF d.summary # {} THEN {} ELSE s.dropped
  <1>1. left \in Seq(Run)
    BY Dropped, Elements DEF QueueState, DrainState
  <1>2. dropped \in SUBSET Run
    BY DEF QueueState
  <1>3. afterRun(s, d) = [s EXCEPT !.items = left, !.dropped = dropped]
    BY DEF afterRun
  <1> HIDE DEF left, dropped
  <1>4. QED
    BY <1>1, <1>2, <1>3 DEF QueueState, left, dropped

-----------------------------------------------------------------------------
(* One queue object at a time.                                             *)

\* All but q are idle and empty.
Only(qs, ds, q) == \A o \in QueueId \ {q} : ds[o].pc = "idle" /\ ~HasWork(qs[o])

\* The one in the map has a drain, or a reply run that will schedule it.
Served == current # NoQueue /\ HasWork(queues[current])
            => drains[current].pc # "idle" \/ \E p \in ReplyRun : replies[p] # "idle"

Sole == ~foreign /\ clears = 0 /\ Only(queues, drains, current) /\ Served

LEMMA SoleIsServed == TypeOK /\ Sole => NoIdleQueue
  <1> SUFFICES ASSUME TypeOK, Sole, NEW q \in QueueId, HasWork(queues[q])
               PROVE  \/ foreign
                      \/ \E p \in ReplyRun : replies[p] # "idle"
                      \/ \E o \in QueueId : drains[o].pc # "idle"
    BY DEF NoIdleQueue
  <1>1. q = current
    BY DEF Sole, Only
  <1>2. current # NoQueue
    BY <1>1, Assumed
  <1>3. QED
    BY <1>1, <1>2 DEF Sole, Served

\* What the items waiting are.
Items(qs, q) == IF q = NoQueue THEN <<>> ELSE qs[q].items

\* After a drain was scheduled or has ended, with the objects qs, the drains
\* ds and q in the map: the only object is served, or was deleted empty.
Settled(qs, ds, q) ==
    /\ Only(queues', drains', current') /\ Served'
    /\ \A o \in QueueId : drains'[o].pc = "running" => drains'[o] = ds[o]
    /\ \/ current' = q /\ queues' = qs
       \/ /\ q \in QueueId /\ ~HasWork(qs[q])
          /\ current' = NoQueue /\ queues' = [qs EXCEPT ![q] = EmptyQueue]

LEMMA SettledItems ==
    ASSUME NEW qs, NEW ds, NEW q \in QueueId \cup {NoQueue}, Settled(qs, ds, q)
    PROVE  Items(queues', current') = Items(qs, q)
  BY Assumed DEF Settled, Items, HasWork

LEMMA WaitSettles ==
    ASSUME NEW qs \in [QueueId -> QueueState], NEW ds \in [QueueId -> DrainState],
           NEW q \in QueueId, NEW force \in BOOLEAN, Only(qs, ds, q),
           wait(qs, ds, q, force), current' = q
    PROVE  Settled(qs, ds, q)
  <1>1. /\ queues' = qs /\ drains'[q].pc = "debounce"
        /\ \A o \in QueueId : o # q => drains'[o] = ds[o]
    BY Waits
  <1>2. Only(queues', drains', current')
    BY <1>1 DEF Only
  <1>3. QED
    BY <1>1, <1>2 DEF Settled, Served

LEMMA DeleteSettles ==
    ASSUME NEW qs \in [QueueId -> QueueState], NEW ds \in [QueueId -> DrainState],
           NEW q \in QueueId, Only(qs, ds, q), ds[q].pc = "idle", ~HasWork(qs[q]),
           delete(qs, ds, q)
    PROVE  Settled(qs, ds, q)
  <1>1. queues' = [qs EXCEPT ![q] = EmptyQueue] /\ drains' = ds /\ current' = NoQueue
    BY DEF delete
  <1>2. \A o \in QueueId : ds[o].pc = "idle" /\ ~HasWork(queues'[o])
    BY <1>1, Empties DEF Only
  <1>3. Only(queues', drains', current')
    BY <1>1, <1>2 DEF Only
  <1>4. QED
    BY <1>1, <1>3 DEF Settled, Served

LEMMA ScheduleSettles ==
    ASSUME NEW qs \in [QueueId -> QueueState], NEW ds \in [QueueId -> DrainState],
           NEW q \in QueueId \cup {NoQueue}, Only(qs, ds, q), scheduleFollowupDrain(qs, ds, q)
    PROVE  Settled(qs, ds, q)
  <1>1. CASE q = NoQueue \/ ds[q].pc # "idle"
    <2>1. queues' = qs /\ drains' = ds /\ current' = q
      BY <1>1 DEF scheduleFollowupDrain
    <2>2. QED
      BY <1>1, <2>1 DEF Settled, Served
  <1>2. CASE ~(q = NoQueue \/ ds[q].pc # "idle") /\ HasWork(qs[q])
    <2>1. wait(qs, ds, q, FALSE) /\ current' = q /\ q \in QueueId
      BY <1>2 DEF scheduleFollowupDrain
    <2>2. QED
      BY <2>1, WaitSettles
  <1>3. CASE ~(q = NoQueue \/ ds[q].pc # "idle") /\ ~HasWork(qs[q])
    <2>1. delete(qs, ds, q) /\ q \in QueueId
      BY <1>3 DEF scheduleFollowupDrain
    <2>2. QED
      BY <1>3, <2>1, DeleteSettles
  <1>4. QED
    BY <1>1, <1>2, <1>3

LEMMA FinallySettles ==
    ASSUME TypeOK, NEW qs \in [QueueId -> QueueState], NEW q \in QueueId, q = current,
           Only(qs, drains, q), finally(qs, q)
    PROVE  Settled(qs, [drains EXCEPT ![q] = IdleDrain], q)
  <1> DEFINE ds == [drains EXCEPT ![q] = IdleDrain]
  <1>1. IdleDrain.pc = "idle"
    BY DEF IdleDrain
  <1>2. ds \in [QueueId -> DrainState] /\ ds[q].pc = "idle" /\ Only(qs, ds, q)
    BY <1>1, Empties DEF TypeOK, Only
  <1>3. IF HasWork(qs[q]) THEN scheduleFollowupDrain(qs, ds, q) ELSE delete(qs, ds, q)
    BY DEF finally
  <1> HIDE DEF ds
  <1>4. Settled(qs, ds, q)
    BY <1>2, <1>3, ScheduleSettles, DeleteSettles
  <1>5. QED
    BY <1>4 DEF ds

LEMMA LoopSettles ==
    ASSUME TypeOK, NEW qs \in [QueueId -> QueueState], NEW q \in QueueId, q = current,
           Only(qs, drains, q), loop(qs, q)
    PROVE  Settled(qs, [drains EXCEPT ![q] = IdleDrain], q)
  <1> DEFINE ds == [drains EXCEPT ![q] = IdleDrain]
  <1>1. CASE HasWork(qs[q])
    <2>1. wait(qs, drains, q, drains[q].force) /\ current' = q
      BY <1>1 DEF loop
    <2>2. drains[q].force \in BOOLEAN /\ drains \in [QueueId -> DrainState]
      BY DEF TypeOK, DrainState
    <2>3. wait(qs, ds, q, drains[q].force)
      <3> DEFINE d == [IdleDrain EXCEPT !.pc = "debounce", !.force = drains[q].force]
      <3>1. queues' = qs /\ drains' = [drains EXCEPT ![q] = d]
        BY <2>1 DEF wait
      <3> HIDE DEF d
      <3>2. drains' = [ds EXCEPT ![q] = d]
        BY <2>2, <3>1
      <3>3. QED
        BY <3>1, <3>2 DEF wait, d
    <2>4. ds \in [QueueId -> DrainState] /\ \A o \in QueueId \ {q} : ds[o] = drains[o]
      BY <2>2, Empties
    <2> HIDE DEF ds
    <2>5. Only(qs, ds, q)
      BY <2>4 DEF Only
    <2>6. Settled(qs, ds, q)
      BY <2>1, <2>2, <2>3, <2>4, <2>5, WaitSettles
    <2>7. QED
      BY <2>6 DEF ds
  <1>2. CASE ~HasWork(qs[q])
    BY <1>2, FinallySettles DEF loop
  <1>3. QED
    BY <1>1, <1>2

-----------------------------------------------------------------------------
(* The steps keep one object at a time.                                    *)

\* An arrival changes only the object of the map, or makes the first.
LEMMA Arrives ==
    ASSUME TypeOK, Sole, NEW r \in Run, NEW q \in QueueId, NEW settings \in Settings,
           NEW active \in LivenessSeen, enqueueFollowupRun(r, q, settings, active)
    PROVE  \E new \in QueueState :
              /\ q = current \/ (current = NoQueue /\ ~HasWork(queues[q]))
              /\ Settled([queues EXCEPT ![q] = new], drains, q)
              /\ Keeping => /\ new.dropped = queues[q].dropped
                            /\ \/ new.items = queues[q].items
                               \/ /\ r \notin ToSet(accepted)
                                  /\ new.items = Append(queues[q].items, r)
              /\ UNCHANGED <<replies, foreign, clears, answered>>
  <1> DEFINE s    == withSettings(q, settings)
             last == [s EXCEPT !.lastRun = TRUE]
             Dup  == MessageKey[r] \in recent \/ isRunAlreadyQueued(r, s.items)
             Full == Excess(s) > 0 /\ settings.dropPolicy = "new"
             new  == IF Dup THEN s ELSE IF Full THEN last ELSE pushWithDropPolicy(last, r)
             qs   == [queues EXCEPT ![q] = new]
  <1>1. /\ r \notin ToSet(accepted)
        /\ getFollowupQueue(q)
        /\ IF active THEN queues' = qs /\ drains' = drains /\ current' = q
                     ELSE scheduleFollowupDrain(qs, drains, q)
        /\ UNCHANGED <<replies, foreign, clears, answered>>
    BY DEF enqueueFollowupRun
  <1> USE DEF TypeOK
  <1>2. q = current \/ (current = NoQueue /\ ~HasWork(queues[q]))
    BY <1>1 DEF getFollowupQueue
  <1>3. /\ s \in QueueState /\ s.items = queues[q].items /\ s.dropped = queues[q].dropped
        /\ last \in QueueState /\ last.items = queues[q].items /\ last.settings = settings
        /\ last.dropped = queues[q].dropped /\ Excess(last) = Excess(s)
    BY <1>1, SettingsApplied
  <1>4. new \in QueueState
    <2>1. new \in {s, last, pushWithDropPolicy(last, r)}
      OBVIOUS
    <2> HIDE DEF new, s, last
    <2>2. QED
      BY <1>3, <2>1, Pushes
  <1>5. ASSUME Keeping
        PROVE  /\ new.dropped = queues[q].dropped
               /\ new.items = queues[q].items \/ new.items = Append(queues[q].items, r)
    <2>1. settings.dropPolicy = "new"
      BY <1>5 DEF Keeping
    <2>2. new \in {s, last} \/ (Excess(s) = 0 /\ new = pushWithDropPolicy(last, r))
      <3>1. Excess(s) \in Nat
        BY <1>3, Excesses
      <3>2. QED
        BY <2>1, <3>1
    <2> HIDE DEF new, s, last
    <2>3. ASSUME Excess(s) = 0, new = pushWithDropPolicy(last, r)
          PROVE  new.dropped = queues[q].dropped /\ new.items = Append(queues[q].items, r)
      <3>1. new.items = Append(DropFirst(last.items, 0), r)
        BY <1>3, <2>3, Pushes
      <3>2. DropFirst(last.items, 0) = last.items
        BY <1>3, NoneDropped DEF QueueState
      <3>3. new.dropped = last.dropped
        BY <1>3, <2>1, <2>3 DEF pushWithDropPolicy, QueueState
      <3>4. QED
        BY <1>3, <3>1, <3>2, <3>3
    <2>4. QED
      BY <1>3, <2>2, <2>3
  <1> HIDE DEF new, s, last
  <1>6. qs \in [QueueId -> QueueState] /\ Only(qs, drains, q)
    <2>1. \A o \in QueueId \ {q} : qs[o] = queues[o]
      OBVIOUS
    <2>2. qs \in [QueueId -> QueueState]
      BY <1>4
    <2> HIDE DEF qs
    <2>3. QED
      BY <1>2, <2>1, <2>2, Assumed DEF Sole, Only
  <1>7. Settled(qs, drains, q)
    <2>1. CASE ~active
      <3>1. scheduleFollowupDrain(qs, drains, q)
        BY <1>1, <2>1 DEF new
      <3> HIDE DEF qs
      <3>2. QED
        BY <1>6, <3>1, ScheduleSettles
    <2>2. CASE active
      <3>1. queues' = qs /\ drains' = drains /\ current' = q /\ replies' = replies
        BY <1>1, <2>2 DEF new
      <3>2. (\E p \in ReplyRun : replies[p] = "running") \/ \E o \in QueueId : drains[o].pc = "running"
        BY <2>2 DEF LivenessSeen, Sole
      <3> HIDE DEF qs
      <3>3. drains[q].pc # "idle" \/ \E p \in ReplyRun : replies[p] # "idle"
        BY <1>6, <3>2 DEF Only
      <3>4. QED
        BY <1>6, <3>1, <3>3 DEF Settled, Served
    <2>3. QED
      BY <2>1, <2>2
  <1>8. QED
    BY <1>1, <1>2, <1>4, <1>5, <1>7

\* A drain that is not idle is the one of the object in the map.
LEMMA DrainsCurrent ==
    ASSUME Sole, NEW q \in QueueId, drains[q].pc # "idle"
    PROVE  q = current /\ Only(queues, drains, q)
  BY DEF Sole, Only

LEMMA DrainSettles ==
    ASSUME TypeOK, Sole, NEW q \in QueueId, drainStep(q)
    PROVE  /\ q = current /\ UNCHANGED <<replies, foreign, clears, answered>>
           /\ \/ Settled(queues, [drains EXCEPT ![q] = IdleDrain], q)
              \/ \E force \in BOOLEAN, d \in DrainState :
                    LET next == NextRun(queues[q], force) IN
                    /\ next.kind # "none"
                    /\ d.pc = "running" /\ d.kind = next.kind
                    /\ d.batch = next.batch /\ d.summary = next.summary
                    /\ queues' = queues /\ current' = current
                    /\ drains' = [drains EXCEPT ![q] = d]
  <1> DEFINE s == queues[q]
             force == s.settings.mode = "collect" /\ (drains[q].force \/ hasCrossChannelItems(s.items))
             next == NextRun(s, force)
             d == [pc |-> "running", force |-> drains[q].force \/ force, kind |-> next.kind,
                   batch |-> next.batch, summary |-> next.summary]
  <1>1. /\ drains[q].pc = "debounce"
        /\ IF next.kind = "none" THEN finally(queues, q)
           ELSE queues' = queues /\ drains' = [drains EXCEPT ![q] = d] /\ current' = current
        /\ UNCHANGED <<replies, foreign, clears, answered>>
    BY DEF drainStep, history
  <1>2. q = current /\ Only(queues, drains, q)
    BY <1>1, DrainsCurrent
  <1>3. CASE next.kind = "none"
    <2>1. finally(queues, q) /\ queues \in [QueueId -> QueueState]
      BY <1>1, <1>3 DEF TypeOK
    <2>2. QED
      BY <1>1, <1>2, <2>1, FinallySettles
  <1>4. CASE next.kind # "none"
    <2>1. s \in QueueState /\ drains[q].force \in BOOLEAN /\ force \in BOOLEAN
      BY DEF TypeOK, DrainState
    <2>2. /\ next.kind \in {"none", "item", "summary", "collect"}
          /\ next.batch \in Seq(Run) /\ next.summary \in SUBSET Run
      <3> HIDE DEF force
      <3> QED
        BY <2>1, Picks
    <2>3. d \in DrainState
      <3>1. drains[q].force \/ force \in BOOLEAN
        BY <2>1
      <3> HIDE DEF next, force
      <3>2. QED
        BY <2>1, <2>2, <3>1 DEF DrainState
    <2>4. /\ d.pc = "running" /\ d.kind = next.kind
          /\ d.batch = next.batch /\ d.summary = next.summary
      OBVIOUS
    <2>5. queues' = queues /\ drains' = [drains EXCEPT ![q] = d] /\ current' = current
      BY <1>1, <1>4
    <2> HIDE DEF d
    <2>6. next = NextRun(queues[q], force)
      OBVIOUS
    <2> HIDE DEF next, force
    <2>7. QED
      BY <1>1, <1>2, <1>4, <2>1, <2>3, <2>4, <2>5, <2>6
  <1>5. QED
    BY <1>3, <1>4

LEMMA RunSettles ==
    ASSUME TypeOK, Sole, NEW q \in QueueId, runSucceeds(q) \/ runFails(q)
    PROVE  /\ q = current /\ drains[q].pc = "running" /\ UNCHANGED <<replies, foreign, clears>>
           /\ \/ /\ Settled([queues EXCEPT ![q] = afterRun(queues[q], drains[q])],
                            [drains EXCEPT ![q] = IdleDrain], q)
                 /\ answered' = IF drains[q].kind = "summary" THEN answered
                                ELSE answered \o drains[q].batch
              \/ Settled(queues, [drains EXCEPT ![q] = IdleDrain], q) /\ answered' = answered
  <1>1. drains[q].pc = "running" /\ UNCHANGED <<replies, foreign, clears>>
    BY DEF runSucceeds, runFails
  <1>2. q = current /\ Only(queues, drains, q)
    BY <1>1, DrainsCurrent
  <1>3. queues \in [QueueId -> QueueState] /\ drains[q] \in DrainState /\ queues[q] \in QueueState
    BY DEF TypeOK
  <1>4. CASE runSucceeds(q)
    <2> DEFINE new == afterRun(queues[q], drains[q])
               qs == [queues EXCEPT ![q] = new]
    <2>1. new \in QueueState
      BY <1>3, ShiftsInType
    <2>2. loop(qs, q) /\ answered' = IF drains[q].kind = "summary" THEN answered
                                     ELSE answered \o drains[q].batch
      BY <1>4 DEF runSucceeds
    <2> HIDE DEF new
    <2>3. qs \in [QueueId -> QueueState] /\ Only(qs, drains, q)
      <3>1. \A o \in QueueId \ {q} : qs[o] = queues[o]
        OBVIOUS
      <3>2. qs \in [QueueId -> QueueState]
        BY <1>3, <2>1
      <3> HIDE DEF qs
      <3>3. QED
        BY <1>2, <3>1, <3>2 DEF Only
    <2> HIDE DEF qs
    <2>4. Settled(qs, [drains EXCEPT ![q] = IdleDrain], q)
      BY <1>2, <2>2, <2>3, LoopSettles
    <2>5. QED
      BY <1>1, <1>2, <2>2, <2>4 DEF qs, new
  <1>5. CASE runFails(q)
    <2>1. finally(queues, q) /\ answered' = answered
      BY <1>5 DEF runFails, history
    <2>2. QED
      BY <1>1, <1>2, <1>3, <2>1, FinallySettles
  <1>6. QED
    BY <1>4, <1>5

LEMMA FinalizeSettles ==
    ASSUME TypeOK, Sole, NEW p \in ReplyRun, finalizeWithFollowup(p)
    PROVE  Settled(queues, drains, current) /\ UNCHANGED <<foreign, clears, answered>>
  <1>1. scheduleFollowupDrain(queues, drains, current) /\ UNCHANGED <<foreign, clears, answered>>
    BY DEF finalizeWithFollowup, history
  <1>2. QED
    BY <1>1, ScheduleSettles DEF TypeOK, Sole

\* Steps that only watch the queue.
LEMMA WatchSettles ==
    ASSUME TypeOK, Sole, Orderly,
           \/ \E k \in recent : forgetMessageId(k)
           \/ \E p \in ReplyRun : replyStarts(p) \/ replyEnds(p)
           \/ foreignRun
           \/ clearSessionQueues
           \/ UNCHANGED vars
    PROVE  Sole' /\ UNCHANGED <<queues, drains, current, answered>>
  <1>1. UNCHANGED <<queues, drains, current, answered, foreign, clears>>
    BY DEF forgetMessageId, replyStarts, replyEnds, foreignRun, clearSessionQueues, vars, history,
           Orderly, Sole
  <1>2. ASSUME NEW p \in ReplyRun, replies[p] # "idle"
        PROVE  \E o \in ReplyRun : replies'[o] # "idle"
    <2>1. CASE UNCHANGED replies
      BY <1>2, <2>1
    <2>2. ASSUME NEW o \in ReplyRun, replyStarts(o) \/ replyEnds(o)
          PROVE  replies'[o] # "idle"
      BY <2>2 DEF replyStarts, replyEnds, TypeOK
    <2>3. QED
      BY <2>1, <2>2 DEF forgetMessageId, foreignRun, clearSessionQueues, vars
  <1>3. QED
    BY <1>1, <1>2 DEF Sole, Served, Only

LEMMA SoleStep ==
    ASSUME TypeOK, Sole, Orderly, [Next]_vars
    PROVE  Sole'
  <1>1. ASSUME UNCHANGED <<foreign, clears>>, NEW qs, NEW ds, NEW q, Settled(qs, ds, q)
        PROVE  Sole'
    BY <1>1 DEF Sole, Settled
  <1>2. ASSUME NEW r \in Run, NEW q \in QueueId, NEW settings \in Settings,
               NEW active \in LivenessSeen, enqueueFollowupRun(r, q, settings, active)
        PROVE  Sole'
    BY <1>1, <1>2, Arrives
  <1>3. ASSUME NEW q \in QueueId, drainStep(q)
        PROVE  Sole'
    <2>1. CASE Settled(queues, [drains EXCEPT ![q] = IdleDrain], q)
      BY <1>1, <1>3, <2>1, DrainSettles
    <2>2. ASSUME NEW d \in DrainState, queues' = queues, current' = current, q = current,
                 drains' = [drains EXCEPT ![q] = d], d.pc = "running",
                 UNCHANGED <<foreign, clears>>
          PROVE  Sole'
      <3>1. drains'[q] = d /\ \A o \in QueueId \ {q} : drains'[o] = drains[o]
        BY <2>2 DEF TypeOK
      <3>2. QED
        BY <2>2, <3>1 DEF Sole, Served, Only
    <2>3. QED
      BY <1>3, <2>1, <2>2, DrainSettles
  <1>4. ASSUME NEW q \in QueueId, runSucceeds(q) \/ runFails(q)
        PROVE  Sole'
    BY <1>1, <1>4, RunSettles
  <1>5. ASSUME NEW p \in ReplyRun, finalizeWithFollowup(p)
        PROVE  Sole'
    BY <1>1, <1>5, FinalizeSettles
  <1>6. QED
    BY <1>2, <1>3, <1>4, <1>5, WatchSettles DEF Next

LEMMA SoleAtFirst == Init => Sole
  <1> SUFFICES ASSUME Init
               PROVE  Sole
    OBVIOUS
  <1>1. IdleDrain.pc = "idle"
    BY DEF IdleDrain
  <1>2. ~foreign /\ clears = 0 /\ current = NoQueue
    BY DEF Init
  <1>3. \A o \in QueueId : drains[o].pc = "idle" /\ ~HasWork(queues[o])
    BY <1>1, Empties DEF Init
  <1>4. QED
    BY <1>2, <1>3 DEF Sole, Only, Served

\* While no session is cleared and only reply runs use it, no work waits
\* with neither a run nor a drain to take it up (runReplyAgent's liveness
\* re-check, the finally clause of scheduleFollowupDrain).
THEOREM NeverIdle ==
    ASSUME Orderly
    PROVE  Spec => []NoIdleQueue
  <1>1. Init => Sole
    BY SoleAtFirst
  <1>2. TypeOK /\ Sole /\ [Next]_vars => Sole'
    BY SoleStep
  <1>3. TypeOK /\ Sole => NoIdleQueue
    BY SoleIsServed
  <1>4. QED
    BY <1>1, <1>2, <1>3, TypeCorrect, PTL DEF Spec

-----------------------------------------------------------------------------
(* The mailbox.                                                            *)

\* The batch a drain runs stands at the head of the items, and no summary
\* of dropped messages is in its prompt.
Prefixed(s, d) ==
    d.pc = "running" => /\ d.kind # "summary" /\ d.summary = {}
                        /\ Len(d.batch) <= Len(s.items)
                        /\ \A i \in DOMAIN d.batch : d.batch[i] = s.items[i]

Ahead(qs, ds) == \A q \in QueueId : qs[q].dropped = {} /\ Prefixed(qs[q], ds[q])

LEMMA SettledAhead ==
    ASSUME NEW qs \in [QueueId -> QueueState], NEW ds, NEW q, Ahead(qs, ds), Settled(qs, ds, q)
    PROVE  Ahead(queues', drains')
  <1>1. CASE current' = q /\ queues' = qs
    BY <1>1 DEF Ahead, Settled, Prefixed
  <1>2. CASE q \in QueueId /\ current' = NoQueue /\ queues' = [qs EXCEPT ![q] = EmptyQueue]
    <2>1. \A o \in QueueId : drains'[o].pc = "idle"
      BY <1>2, Assumed DEF Settled, Only
    <2>2. EmptyQueue.dropped = {}
      BY Empties DEF HasWork
    <2>3. \A o \in QueueId : queues'[o].dropped = {}
      BY <1>2, <2>2 DEF Ahead
    <2>4. QED
      BY <2>1, <2>3 DEF Ahead, Prefixed
  <1>3. QED
    BY <1>1, <1>2 DEF Settled

\* Under a policy that refuses, a queue object has no overflow to report.
LEMMA NoOverflow ==
    ASSUME Keeping, NEW s \in QueueState, NEW force \in BOOLEAN
    PROVE  LET next == NextRun(s, force) IN
           next.kind # "none" => next.kind # "summary" /\ next.summary = {}
  BY DEF Keeping, QueueState, NextRun, Overflow

\* The pending messages of the mailbox.
Waiting == Items(queues, current)

LEMMA WaitingItems ==
    ASSUME TypeOK, NEW q \in QueueId, q = current \/ (current = NoQueue /\ ~HasWork(queues[q]))
    PROVE  Waiting = queues[q].items /\ queues[q].items \in Seq(Run)
  BY Assumed DEF Waiting, Items, HasWork, TypeOK, QueueState

\* What a step of the mailbox is.
LEMMA MailboxSteps ==
    /\ UNCHANGED <<Waiting, answered>> => [Inbox!Next]_(Inbox!vars)
    /\ \A r \in Run : /\ r \notin ToSet(Waiting) \cup ToSet(answered)
                      /\ Waiting' = Append(Waiting, r) /\ answered' = answered
                      => Inbox!Next
    /\ \A n \in 1 .. Len(Waiting) : /\ answered' = answered \o SubSeq(Waiting, 1, n)
                                    /\ Waiting' = SubSeq(Waiting, n + 1, Len(Waiting))
                                    => Inbox!Next
  <1>1. UNCHANGED <<Waiting, answered>> => [Inbox!Next]_(Inbox!vars)
    BY DEF Waiting, Items, Inbox!vars
  <1>2. ASSUME NEW r \in Run, r \notin ToSet(Waiting) \cup ToSet(answered),
               Waiting' = Append(Waiting, r), answered' = answered
        PROVE  Inbox!Next
    <2>1. Inbox!Accept(r)
      BY <1>2, Zenon DEF Waiting, Items, Inbox!Accept, ToSet, Inbox!ToSet
    <2>2. QED
      BY <2>1 DEF Inbox!Next
  <1>3. ASSUME NEW n \in 1 .. Len(Waiting), answered' = answered \o SubSeq(Waiting, 1, n),
               Waiting' = SubSeq(Waiting, n + 1, Len(Waiting))
        PROVE  Inbox!Next
    <2>1. Inbox!Deliver
      BY <1>3, Zenon DEF Waiting, Items, Inbox!Deliver
    <2>2. QED
      BY <2>1 DEF Inbox!Next
  <1>4. QED
    BY <1>1, <1>2, <1>3

\* An arrival is accepted, or refused.
LEMMA ArrivalMails ==
    ASSUME IInv, Sole, Keeping, Ahead(queues, drains), NEW r \in Run, NEW q \in QueueId,
           NEW settings \in Settings, NEW active \in LivenessSeen,
           enqueueFollowupRun(r, q, settings, active)
    PROVE  Ahead(queues', drains') /\ [Inbox!Next]_(Inbox!vars)
  <1>1. PICK new \in QueueState :
           /\ q = current \/ (current = NoQueue /\ ~HasWork(queues[q]))
           /\ Settled([queues EXCEPT ![q] = new], drains, q)
           /\ new.dropped = queues[q].dropped
           /\ \/ new.items = queues[q].items
              \/ r \notin ToSet(accepted) /\ new.items = Append(queues[q].items, r)
           /\ answered' = answered
    BY Arrives DEF IInv
  <1> DEFINE qs == [queues EXCEPT ![q] = new]
  <1>2. qs \in [QueueId -> QueueState] /\ qs[q] = new /\ \A o \in QueueId \ {q} : qs[o] = queues[o]
    BY DEF IInv, TypeOK
  <1>3. Settled(qs, drains, q)
    BY <1>1
  <1> HIDE DEF qs
  <1>4. Waiting = queues[q].items /\ queues[q].items \in Seq(Run)
    BY <1>1, WaitingItems DEF IInv
  <1>5. Waiting' = new.items
    BY <1>2, <1>3, SettledItems, Assumed DEF Waiting, Items
  <1>6. Ahead(qs, drains)
    <2> DEFINE items == queues[q].items
               batch == drains[q].batch
    <2>1. items \in Seq(Run) /\ batch \in Seq(Run)
      BY DEF IInv, TypeOK, QueueState, DrainState
    <2>2. ASSUME drains[q].pc = "running"
          PROVE  Len(batch) <= Len(new.items) /\ \A i \in DOMAIN batch : batch[i] = new.items[i]
      <3>1. Len(batch) <= Len(items) /\ \A i \in DOMAIN batch : batch[i] = items[i]
        BY <2>2 DEF Ahead, Prefixed
      <3>2. new.items = items \/ new.items = Append(items, r)
        BY <1>1
      <3> HIDE DEF items, batch
      <3>3. CASE new.items = items
        BY <3>1, <3>3
      <3>4. CASE new.items = Append(items, r)
        <4>1. /\ DOMAIN batch = 1 .. Len(batch) /\ Len(batch) \in Nat /\ Len(items) \in Nat
              /\ Len(Append(items, r)) = Len(items) + 1
              /\ \A i \in 1 .. Len(items) : Append(items, r)[i] = items[i]
          BY <2>1, Elements, AppendProperties
        <4>2. \A i \in DOMAIN batch : i \in 1 .. Len(items)
          BY <3>1, <4>1
        <4>3. QED
          BY <3>1, <3>4, <4>1, <4>2
      <3>5. QED
        BY <3>2, <3>3, <3>4
    <2>3. Prefixed(new, drains[q]) /\ new.dropped = {}
      BY <1>1, <2>2 DEF Ahead, Prefixed
    <2>4. QED
      BY <1>2, <2>3 DEF Ahead
  <1>7. Ahead(queues', drains')
    BY <1>2, <1>3, <1>6, SettledAhead
  <1>8. CASE new.items = queues[q].items
    BY <1>1, <1>4, <1>5, <1>7, <1>8, MailboxSteps
  <1>9. CASE r \notin ToSet(accepted) /\ new.items = Append(queues[q].items, r)
    <2>1. ToSet(queues[q].items) \subseteq ToSet(accepted) /\ ToSet(answered) \subseteq ToSet(accepted)
      BY DEF IInv, Apart, HoldsOf, AnsweredWereAccepted
    <2>2. r \notin ToSet(Waiting) \cup ToSet(answered)
      BY <1>4, <1>9, <2>1
    <2>3. Waiting' = Append(Waiting, r)
      BY <1>4, <1>5, <1>9
    <2>4. QED
      BY <1>1, <1>7, <2>2, <2>3, MailboxSteps
  <1>10. QED
    BY <1>1, <1>8, <1>9

\* A drain that picks what to run, or ends, leaves the mailbox as it was.
LEMMA DrainMails ==
    ASSUME IInv, Sole, Keeping, Ahead(queues, drains), NEW q \in QueueId, drainStep(q)
    PROVE  Ahead(queues', drains') /\ [Inbox!Next]_(Inbox!vars)
  <1>1. q = current /\ answered' = answered
    BY DrainSettles DEF IInv
  <1>2. queues \in [QueueId -> QueueState] /\ drains \in [QueueId -> DrainState]
    BY DEF IInv, TypeOK
  <1>3. CASE Settled(queues, [drains EXCEPT ![q] = IdleDrain], q)
    <2> DEFINE ds == [drains EXCEPT ![q] = IdleDrain]
    <2>1. ds[q].pc = "idle" /\ \A o \in QueueId \ {q} : ds[o] = drains[o]
      BY <1>2 DEF IdleDrain
    <2>2. Settled(queues, ds, q)
      BY <1>3
    <2> HIDE DEF ds
    <2>3. Ahead(queues, ds)
      BY <2>1 DEF Ahead, Prefixed
    <2>4. Ahead(queues', drains') /\ Waiting' = Waiting
      BY <1>1, <1>2, <2>2, <2>3, SettledAhead, SettledItems DEF Waiting
    <2>5. QED
      BY <1>1, <2>4, MailboxSteps
  <1>4. ASSUME NEW force \in BOOLEAN, NEW d \in DrainState,
               LET next == NextRun(queues[q], force) IN
               /\ next.kind # "none" /\ d.kind = next.kind
               /\ d.batch = next.batch /\ d.summary = next.summary,
               queues' = queues, current' = current, drains' = [drains EXCEPT ![q] = d]
        PROVE  Ahead(queues', drains') /\ [Inbox!Next]_(Inbox!vars)
    <2> DEFINE next == NextRun(queues[q], force)
    <2>1. /\ d.kind = next.kind /\ d.batch = next.batch /\ d.summary = next.summary
          /\ next.kind # "none" /\ queues[q] \in QueueState
      BY <1>2, <1>4
    <2>2. /\ next.kind # "summary" /\ next.summary = {}
          /\ Len(next.batch) <= Len(queues[q].items)
          /\ \A i \in DOMAIN next.batch : next.batch[i] = queues[q].items[i]
      BY <2>1, Picks, NoOverflow
    <2> HIDE DEF next
    <2>3. Prefixed(queues[q], d)
      BY <2>1, <2>2 DEF Prefixed
    <2>4. Ahead(queues', drains')
      BY <1>2, <1>4, <2>3 DEF Ahead
    <2>5. Waiting' = Waiting
      BY <1>4 DEF Waiting, Items
    <2>6. QED
      BY <1>1, <2>4, <2>5, MailboxSteps
  <1>5. QED
    BY <1>3, <1>4, DrainSettles DEF IInv

\* A run that succeeds delivers its batch, which is the head of the items.
LEMMA RunMails ==
    ASSUME IInv, Sole, Keeping, Ahead(queues, drains), NEW q \in QueueId,
           runSucceeds(q) \/ runFails(q)
    PROVE  Ahead(queues', drains') /\ [Inbox!Next]_(Inbox!vars)
  <1> DEFINE d == drains[q]
             items == queues[q].items
             new == afterRun(queues[q], d)
             qs == [queues EXCEPT ![q] = new]
             ds == [drains EXCEPT ![q] = IdleDrain]
  <1>1. q = current /\ d.pc = "running"
    BY RunSettles DEF IInv
  <1>2. /\ queues \in [QueueId -> QueueState] /\ d \in DrainState /\ queues[q] \in QueueState
        /\ items \in Seq(Run) /\ d.batch \in Seq(Run)
    BY DEF IInv, TypeOK, QueueState, DrainState
  <1>3. /\ d.kind # "summary" /\ d.summary = {} /\ Len(d.batch) <= Len(items)
        /\ \A i \in DOMAIN d.batch : d.batch[i] = items[i]
        /\ queues[q].dropped = {}
    BY <1>1 DEF Ahead, Prefixed
  <1>4. ds[q].pc = "idle" /\ \A o \in QueueId \ {q} : ds[o] = drains[o]
    BY DEF IdleDrain, IInv, TypeOK
  <1>5. Waiting = items
    BY <1>1, WaitingItems DEF IInv
  <1>6. \/ Settled(qs, ds, q) /\ answered' = answered \o d.batch
        \/ Settled(queues, ds, q) /\ answered' = answered
    BY <1>3, RunSettles DEF IInv
  <1>7. new \in QueueState /\ new.items = DropFirst(items, Len(d.batch)) /\ new.dropped = {}
    BY <1>2, <1>3, ShiftsInType
  <1> HIDE DEF new, ds, d
  <1>8. qs \in [QueueId -> QueueState] /\ qs[q] = new /\ \A o \in QueueId \ {q} : qs[o] = queues[o]
    BY <1>2, <1>7
  <1> HIDE DEF qs, items
  <1>9. CASE Settled(queues, ds, q) /\ answered' = answered
    <2>1. Ahead(queues, ds)
      BY <1>4 DEF Ahead, Prefixed
    <2>2. Ahead(queues', drains') /\ Waiting' = Waiting
      BY <1>1, <1>2, <1>9, <2>1, SettledAhead, SettledItems DEF Waiting
    <2>3. QED
      BY <1>9, <2>2, MailboxSteps
  <1>10. CASE Settled(qs, ds, q) /\ answered' = answered \o d.batch
    <2>1. Ahead(qs, ds)
      BY <1>4, <1>7, <1>8 DEF Ahead, Prefixed
    <2>2. Ahead(queues', drains')
      BY <1>8, <1>10, <2>1, SettledAhead
    <2>3. Waiting' = new.items
      BY <1>8, <1>10, SettledItems, Assumed DEF Waiting, Items
    <2>4. Len(d.batch) \in Nat /\ Len(items) \in Nat
      BY <1>2, Elements
    <2>5. CASE Len(d.batch) = 0
      <3>1. d.batch = <<>>
        BY <1>2, <2>5, Elements
      <3>2. answered' = answered
        BY <1>10, <3>1, ConcatEmptySeq DEF IInv, TypeOK
      <3>3. Waiting' = Waiting
        BY <1>2, <1>5, <1>7, <2>3, <2>5, NoneDropped
      <3>4. QED
        BY <2>2, <3>2, <3>3, MailboxSteps
    <2>6. CASE Len(d.batch) # 0
      <3> DEFINE n == Len(d.batch)
      <3>1. n \in 1 .. Len(Waiting)
        BY <1>3, <1>5, <2>4, <2>6
      <3>2. d.batch = SubSeq(items, 1, n)
        <4>1. /\ SubSeq(items, 1, n) \in Seq(Run) /\ Len(SubSeq(items, 1, n)) = n
              /\ \A i \in 1 .. n : SubSeq(items, 1, n)[i] = items[i]
          BY <1>2, <1>3, <2>4, Taken
        <4>2. \A i \in 1 .. n : d.batch[i] = SubSeq(items, 1, n)[i]
          BY <1>2, <1>3, <4>1, Elements
        <4>3. QED
          BY <1>2, <4>1, <4>2, SeqEqual
      <3>3. Waiting' = SubSeq(Waiting, n + 1, Len(Waiting))
        BY <1>5, <1>7, <2>3 DEF DropFirst
      <3>4. answered' = answered \o SubSeq(Waiting, 1, n)
        BY <1>5, <1>10, <3>2
      <3> HIDE DEF n
      <3>5. QED
        BY <2>2, <3>1, <3>3, <3>4, MailboxSteps
    <2>7. QED
      BY <2>5, <2>6
  <1>11. QED
    BY <1>6, <1>9, <1>10

LEMMA MailStep ==
    ASSUME IInv, Sole, Orderly, Keeping, Ahead(queues, drains), [Next]_vars
    PROVE  Ahead(queues', drains') /\ [Inbox!Next]_(Inbox!vars)
  <1>1. ASSUME NEW p \in ReplyRun, finalizeWithFollowup(p)
        PROVE  Ahead(queues', drains') /\ [Inbox!Next]_(Inbox!vars)
    <2>1. Settled(queues, drains, current) /\ answered' = answered
      BY <1>1, FinalizeSettles DEF IInv
    <2>2. queues \in [QueueId -> QueueState] /\ current \in QueueId \cup {NoQueue}
      BY DEF IInv, TypeOK
    <2>3. Ahead(queues', drains') /\ Waiting' = Waiting
      BY <2>1, <2>2, SettledAhead, SettledItems DEF Waiting
    <2>4. QED
      BY <2>1, <2>3, MailboxSteps
  <1>2. ASSUME UNCHANGED <<queues, drains, current, answered>>
        PROVE  Ahead(queues', drains') /\ [Inbox!Next]_(Inbox!vars)
    <2>1. UNCHANGED <<Waiting, answered>>
      BY <1>2 DEF Waiting, Items
    <2>2. QED
      BY <1>2, <2>1, MailboxSteps
  <1>3. QED
    BY <1>1, <1>2, ArrivalMails, DrainMails, RunMails, WatchSettles DEF Next, IInv

\* Where, besides, a full queue refuses, the queue is a mailbox: messages are
\* answered once, in order of arrival, none skipped, in batches that start at
\* the oldest one (scheduleFollowupDrain, drainNextQueueItem).
THEOREM IsMailbox ==
    ASSUME Orderly, Keeping
    PROVE  Spec => Inbox!Spec
  <1>1. Init => Sole /\ Ahead(queues, drains) /\ Inbox!Init
    <2> SUFFICES ASSUME Init
                 PROVE  Ahead(queues, drains) /\ Inbox!Init
      BY SoleAtFirst
    <2>1. \A q \in QueueId : queues[q].dropped = {} /\ drains[q].pc = "idle"
      BY Empties DEF Init, IdleDrain, HasWork
    <2>2. Inbox!Init
      BY DEF Init, Inbox!Init
    <2>3. QED
      BY <2>1, <2>2 DEF Ahead, Prefixed
  <1>2. IInv /\ Sole /\ Ahead(queues, drains) /\ [Next]_vars
        => Sole' /\ Ahead(queues, drains)' /\ [Inbox!Next]_(Inbox!vars)
    BY SoleStep, MailStep DEF IInv
  <1>3. QED
    BY <1>1, <1>2, Invariance, PTL DEF Spec, Inbox!Spec
=============================================================================
