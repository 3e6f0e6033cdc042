------------------------- MODULE ExecApprovalProofs -------------------------
(* Proofs, for every set of ids, inputs and timeouts, of the safety of      *)
(* ExecApproval: types, runs that follow decisions, decisions that stand.   *)
(*                                                                          *)
(* The argument.  The open records are exactly those whose expiry timer is  *)
(* set and whose promise is open, and the map has them under their ids; so  *)
(* whoever settles what is open under an id, by whatever name it knows it,  *)
(* settles the right record, and settles it once.  What settle and register *)
(* do is stated place by place first; then each action is shown to preserve *)
(* the invariant.                                                           *)
EXTENDS ExecApproval, SequenceTheorems, TLAPS

Verdict == Decision \cup {None}

By == {None, "operator", "no-approval-route"}

CallOf(places) ==
    [of : places, pc : {"forwarding", "waiting", "answered"}, routed : BOOLEAN]

-----------------------------------------------------------------------------
(* The invariant.                                                          *)

\* What ties a record to its promise, its timers and the runs it let pass.
Tied ==
    \A n \in DOMAIN records :
        LET r == records[n] IN
        /\ n \in timers => r.resolvedAt = Never
        /\ n \in graces => r.resolvedAt # Never
        /\ r.resolvedAt = Never => r.decision = None /\ forwards[n] = 0
        /\ r.decision # None => promises[n] = r.decision
        /\ promises[n] \in Decision => r.resolvedBy = "operator"
        /\ promises[n] = "allow-once" /\ r.decision # None => forwards[n] = 0

IInv == TypeOK /\ Tied /\ RunsAsDecided

-----------------------------------------------------------------------------
(* What register and settle do, place by place.                            *)

\* Sequences as functions: the shape the lemmas below work with.
LEMMA Shape ==
    ASSUME TypeOK
    PROVE  /\ now \in Nat /\ Len(records) \in Nat
           /\ DOMAIN records = 1 .. Len(records)
           /\ DOMAIN promises = DOMAIN records /\ DOMAIN forwards = DOMAIN records
           /\ \A n \in DOMAIN records :
                 /\ records[n] \in Record
                 /\ promises[n] \in Verdict \cup {Open}
                 /\ forwards[n] \in 0 .. MaxForwards
  <1>1. now \in Nat
    BY ExecApprovalAssumption DEF TypeOK
  <1>2. Len(records) \in Nat /\ DOMAIN records = 1 .. Len(records)
    BY LenProperties DEF TypeOK
  <1>3. DOMAIN promises = DOMAIN records /\ DOMAIN forwards = DOMAIN records
    BY LenProperties DEF TypeOK
  <1>4. ASSUME NEW n \in DOMAIN records
        PROVE  /\ records[n] \in Record
               /\ promises[n] \in Verdict \cup {Open}
               /\ forwards[n] \in 0 .. MaxForwards
    <2>1. records[n] \in Record
      BY <1>2, ElementOfSeq DEF TypeOK
    <2>2. promises \in Seq(Verdict \cup {Open}) /\ n \in 1 .. Len(promises)
      BY <1>2 DEF TypeOK, Verdict
    <2>3. forwards \in Seq(0 .. MaxForwards) /\ n \in 1 .. Len(forwards)
      BY <1>2 DEF TypeOK
    <2>4. QED
      BY <2>1, <2>2, <2>3, ElementOfSeq
  <1>5. QED
    BY <1>1, <1>2, <1>3, <1>4

\* An approval whose id the map has open is one of the records, and its own.
LEMMA OpenEntry ==
    ASSUME TypeOK, NEW id, isOpen(id)
    PROVE  /\ id \in Id /\ pending[id] \in DOMAIN records
           /\ records[pending[id]].id = id /\ records[pending[id]].resolvedAt = Never
  BY DEF TypeOK, isOpen

\* settle writes one record and one promise, and changes no length.
LEMMA SettleEffect ==
    ASSUME TypeOK, NEW n \in DOMAIN records, NEW d \in Verdict, NEW by \in By,
           settle(n, d, by)
    PROVE  /\ records' \in Seq(Record) /\ Len(records') = Len(records)
           /\ DOMAIN records' = DOMAIN records
           /\ promises' \in Seq(Decision \cup {None, Open})
           /\ Len(promises') = Len(promises)
           /\ records'[n].id = records[n].id /\ records'[n].resolvedAt = now
           /\ records'[n].decision = d /\ records'[n].resolvedBy = by
           /\ promises'[n] = IF promises[n] = Open THEN d ELSE promises[n]
           /\ \A k \in DOMAIN records \ {n} :
                 records'[k] = records[k] /\ promises'[k] = promises[k]
  <1> DEFINE new == [records[n] EXCEPT !.resolvedAt = now, !.decision = d, !.resolvedBy = by]
             told == IF promises[n] = Open THEN d ELSE promises[n]
  <1>1. n \in 1 .. Len(records) /\ n \in 1 .. Len(promises) /\ n \in DOMAIN promises
    BY Shape DEF TypeOK
  <1>2. /\ new \in Record /\ new.id = records[n].id /\ new.resolvedAt = now
        /\ new.decision = d /\ new.resolvedBy = by
    <2>1. records[n] \in Record /\ now \in Nat
      BY Shape
    <2>2. QED
      BY <2>1 DEF Record, Verdict, By
  <1>3. told \in Decision \cup {None, Open}
    BY Shape DEF Verdict
  <1>4. records' = [records EXCEPT ![n] = new]
    BY DEF settle
  <1>5. promises' = [promises EXCEPT ![n] = told]
    BY DEF settle
  <1>6. records \in Seq(Record) /\ promises \in Seq(Decision \cup {None, Open})
    BY DEF TypeOK
  <1> HIDE DEF new, told
  <1>7. /\ records' \in Seq(Record) /\ Len(records') = Len(records)
        /\ \A k \in 1 .. Len(records) : records'[k] = IF k = n THEN new ELSE records[k]
    BY <1>1, <1>2, <1>4, <1>6, ExceptSeq
  <1>8. /\ promises' \in Seq(Decision \cup {None, Open}) /\ Len(promises') = Len(promises)
        /\ \A k \in 1 .. Len(promises) : promises'[k] = IF k = n THEN told ELSE promises[k]
    BY <1>1, <1>3, <1>5, <1>6, ExceptSeq
  <1>9. DOMAIN records' = DOMAIN records
    BY <1>4
  <1>10. DOMAIN records = 1 .. Len(records) /\ Len(promises) = Len(records)
    BY Shape DEF TypeOK
  <1>11. records'[n] = new /\ promises'[n] = told
    BY <1>1, <1>7, <1>8
  <1>12. \A k \in DOMAIN records \ {n} :
            records'[k] = records[k] /\ promises'[k] = promises[k]
    BY <1>1, <1>7, <1>8, <1>10
  <1>13. QED
    BY <1>2, <1>7, <1>8, <1>9, <1>11, <1>12 DEF told

\* register adds one place everywhere, and the map's entry for its id.
LEMMA RegisterEffect ==
    ASSUME TypeOK, NEW id \in Id, NEW timeout \in Nat, register(id, timeout)
    PROVE  LET n == Len(records) + 1 IN
           /\ records' \in Seq(Record) /\ DOMAIN records' = DOMAIN records \cup {n}
           /\ promises' \in Seq(Decision \cup {None, Open})
           /\ forwards' \in Seq(0 .. MaxForwards)
           /\ Len(promises') = Len(records') /\ Len(forwards') = Len(records')
           /\ n \notin DOMAIN records
           /\ records'[n] = [id |-> id, expires |-> now + timeout, resolvedAt |-> Never,
                             decision |-> None, resolvedBy |-> None]
           /\ promises'[n] = Open /\ forwards'[n] = 0
           /\ \A k \in DOMAIN records : /\ records'[k] = records[k]
                                        /\ promises'[k] = promises[k]
                                        /\ forwards'[k] = forwards[k]
  <1> DEFINE n == Len(records) + 1
             new == [id |-> id, expires |-> now + timeout, resolvedAt |-> Never,
                     decision |-> None, resolvedBy |-> None]
  <1>1. /\ records' = Append(records, new) /\ promises' = Append(promises, Open)
        /\ forwards' = Append(forwards, 0)
    BY DEF register
  <1>2. new \in Record
    BY Shape DEF Record
  <1>3. /\ records \in Seq(Record) /\ promises \in Seq(Decision \cup {None, Open})
        /\ forwards \in Seq(0 .. MaxForwards)
        /\ Len(promises) = Len(records) /\ Len(forwards) = Len(records)
    BY DEF TypeOK
  <1>4. Open \in Decision \cup {None, Open} /\ 0 \in 0 .. MaxForwards
    BY ExecApprovalAssumption
  <1> HIDE DEF new
  <1>5. /\ records' \in Seq(Record) /\ Len(records') = n /\ records'[n] = new
        /\ \A k \in 1 .. Len(records) : records'[k] = records[k]
    BY <1>1, <1>2, <1>3, AppendProperties
  <1>6. /\ promises' \in Seq(Decision \cup {None, Open}) /\ Len(promises') = n
        /\ promises'[n] = Open
        /\ \A k \in 1 .. Len(records) : promises'[k] = promises[k]
    BY <1>1, <1>3, <1>4, AppendProperties
  <1>7. /\ forwards' \in Seq(0 .. MaxForwards) /\ Len(forwards') = n /\ forwards'[n] = 0
        /\ \A k \in 1 .. Len(records) : forwards'[k] = forwards[k]
    BY <1>1, <1>3, <1>4, AppendProperties
  <1>8. Len(records) \in Nat /\ DOMAIN records = 1 .. Len(records)
    BY Shape
  <1>9. DOMAIN records' = 1 .. n
    BY <1>5, LenProperties
  <1>10. 1 .. n = 1 .. Len(records) \cup {n} /\ n \notin 1 .. Len(records)
    BY <1>8
  <1>11. QED
    BY <1>5, <1>6, <1>7, <1>8, <1>9, <1>10 DEF new

-----------------------------------------------------------------------------
(* The invariant is preserved.                                             *)

\* Whoever settles an open record, whatever becomes of the calls.
LEMMA SettleStep ==
    ASSUME IInv, NEW n \in DOMAIN records, records[n].resolvedAt = Never,
           NEW d \in Verdict, NEW by \in By, d \in Decision => by = "operator",
           settle(n, d, by), timers' = timers \ {n},
           now' = now, forwards' = forwards, calls' \in Seq(CallOf(DOMAIN records))
    PROVE  IInv'
  <1>1. TypeOK /\ Tied /\ RunsAsDecided
    BY DEF IInv
  <1>2. /\ records' \in Seq(Record) /\ Len(records') = Len(records)
        /\ DOMAIN records' = DOMAIN records
        /\ promises' \in Seq(Decision \cup {None, Open})
        /\ Len(promises') = Len(promises)
        /\ promises'[n] = IF promises[n] = Open THEN d ELSE promises[n]
        /\ \A k \in DOMAIN records \ {n} :
              records'[k] = records[k] /\ promises'[k] = promises[k]
    BY <1>1, SettleEffect
  <1>3. /\ records'[n].id = records[n].id /\ records'[n].resolvedAt = now
        /\ records'[n].decision = d /\ records'[n].resolvedBy = by
    BY <1>1, SettleEffect
  <1>4. now \in Nat /\ now # Never
    BY <1>1, Shape DEF Never
  <1>5. promises[n] = Open /\ promises'[n] = d
    BY <1>1, <1>2 DEF TypeOK
  <1>6. d # Open
    BY DEF Verdict, Decision, None, Open
  <1>7. pending' = pending /\ graces' = graces \cup {n}
    BY DEF settle
  <1>8. TypeOK'
    <2>1. \A id \in DOMAIN pending :
             pending[id] \in DOMAIN records' /\ records'[pending[id]].id = id
      BY <1>1, <1>2, <1>3 DEF TypeOK
    <2>2. \A k \in DOMAIN records' :
             LET open == records'[k].resolvedAt = Never IN
             /\ open => /\ records'[k].id \in DOMAIN pending
                        /\ pending[records'[k].id] = k /\ k \in timers'
             /\ open <=> promises'[k] = Open
      <3>1. ASSUME NEW k \in DOMAIN records \ {n}
            PROVE  LET open == records'[k].resolvedAt = Never IN
                   /\ open => /\ records'[k].id \in DOMAIN pending
                              /\ pending[records'[k].id] = k /\ k \in timers'
                   /\ open <=> promises'[k] = Open
        BY <1>1, <1>2 DEF TypeOK, isOpen
      <3>2. QED
        BY <3>1, <1>2, <1>3, <1>4, <1>5, <1>6
    <2>3. timers' \subseteq DOMAIN records' /\ graces' \subseteq DOMAIN records'
      BY <1>1, <1>2, <1>7 DEF TypeOK
    <2>4. /\ now' \in 0 .. MaxNow /\ Len(promises') = Len(records')
          /\ forwards' \in Seq(0 .. MaxForwards) /\ Len(forwards') = Len(records')
          /\ DOMAIN pending' \subseteq Id
      BY <1>1, <1>2, <1>7 DEF TypeOK
    <2>5. calls' \in Seq([of : DOMAIN records', pc : {"forwarding", "waiting", "answered"},
                          routed : BOOLEAN])
      BY <1>2 DEF CallOf
    <2>6. QED
      BY <1>2, <1>7, <2>1, <2>2, <2>3, <2>4, <2>5 DEF TypeOK, isOpen
  <1>9. Tied'
    <2>1. ASSUME NEW k \in DOMAIN records \ {n}
          PROVE  LET r == records'[k] IN
                 /\ k \in timers' => r.resolvedAt = Never
                 /\ k \in graces' => r.resolvedAt # Never
                 /\ r.resolvedAt = Never => r.decision = None /\ forwards'[k] = 0
                 /\ r.decision # None => promises'[k] = r.decision
                 /\ promises'[k] \in Decision => r.resolvedBy = "operator"
                 /\ promises'[k] = "allow-once" /\ r.decision # None => forwards'[k] = 0
      BY <1>1, <1>2, <1>7 DEF Tied
    <2>2. forwards[n] = 0
      BY <1>1 DEF Tied
    <2>3. QED
      BY <2>1, <2>2, <1>2, <1>3, <1>4, <1>5, <1>7 DEF Tied
  <1>10. RunsAsDecided'
    <2>1. forwards[n] = 0
      BY <1>1 DEF Tied
    <2>2. QED
      BY <2>1, <1>1, <1>2 DEF RunsAsDecided
  <1>11. QED
    BY <1>8, <1>9, <1>10 DEF IInv

\* A new request.
LEMMA RequestStep ==
    ASSUME IInv, NEW id \in Id, NEW timeout \in Timeout, NEW routed \in BOOLEAN,
           request(id, timeout, routed)
    PROVE  IInv'
  <1> DEFINE n == Len(records) + 1
  <1>1. TypeOK /\ Tied /\ RunsAsDecided
    BY DEF IInv
  <1>2. timeout \in Nat
    BY ExecApprovalAssumption
  <1>3. /\ records' \in Seq(Record) /\ DOMAIN records' = DOMAIN records \cup {n}
        /\ promises' \in Seq(Decision \cup {None, Open})
        /\ forwards' \in Seq(0 .. MaxForwards)
        /\ Len(promises') = Len(records') /\ Len(forwards') = Len(records')
        /\ n \notin DOMAIN records
        /\ records'[n] = [id |-> id, expires |-> now + timeout, resolvedAt |-> Never,
                          decision |-> None, resolvedBy |-> None]
        /\ promises'[n] = Open /\ forwards'[n] = 0
        /\ \A k \in DOMAIN records : /\ records'[k] = records[k]
                                     /\ promises'[k] = promises[k]
                                     /\ forwards'[k] = forwards[k]
    BY <1>1, <1>2, RegisterEffect DEF request
  <1>4. /\ records'[n].id = id /\ records'[n].resolvedAt = Never
        /\ records'[n].decision = None
    BY <1>3
  <1>5. /\ now' = now /\ id \notin DOMAIN pending
        /\ timers' = timers \cup {n} /\ graces' = graces
        /\ pending' = [i \in DOMAIN pending \cup {id} |-> IF i = id THEN n ELSE pending[i]]
        /\ calls' = Append(calls, [of |-> n, pc |-> "forwarding", routed |-> routed])
    BY DEF request, register
  <1> HIDE DEF n
  <1>6. TypeOK'
    <2>1. /\ DOMAIN pending' \subseteq Id
          /\ \A i \in DOMAIN pending' :
                pending'[i] \in DOMAIN records' /\ records'[pending'[i]].id = i
      BY <1>1, <1>3, <1>4, <1>5 DEF TypeOK
    <2>2. \A k \in DOMAIN records' :
             LET open == records'[k].resolvedAt = Never IN
             /\ open => /\ records'[k].id \in DOMAIN pending'
                        /\ pending'[records'[k].id] = k /\ k \in timers'
             /\ open <=> promises'[k] = Open
      <3>1. ASSUME NEW k \in DOMAIN records
            PROVE  LET open == records'[k].resolvedAt = Never IN
                   /\ open => /\ records'[k].id \in DOMAIN pending'
                              /\ pending'[records'[k].id] = k /\ k \in timers'
                   /\ open <=> promises'[k] = Open
        <4>1. /\ records[k].resolvedAt = Never =>
                    records[k].id \in DOMAIN pending /\ pending[records[k].id] = k /\ k \in timers
              /\ records[k].resolvedAt = Never <=> promises[k] = Open
          BY <1>1 DEF TypeOK, isOpen
        <4>2. QED
          BY <1>1, <1>3, <1>5, <4>1 DEF isOpen
      <3>2. QED
        BY <3>1, <1>3, <1>4, <1>5
    <2>3. timers' \subseteq DOMAIN records' /\ graces' \subseteq DOMAIN records'
      BY <1>1, <1>3, <1>5 DEF TypeOK
    <2>4. calls' \in Seq(CallOf(DOMAIN records'))
      <3>1. calls \in Seq(CallOf(DOMAIN records))
        BY <1>1 DEF TypeOK, CallOf
      <3>2. CallOf(DOMAIN records) \subseteq CallOf(DOMAIN records')
        BY <1>3 DEF CallOf
      <3>3. calls \in Seq(CallOf(DOMAIN records'))
        BY <3>1, <3>2, SeqMonotonic
      <3>4. [of |-> n, pc |-> "forwarding", routed |-> routed] \in CallOf(DOMAIN records')
        BY <1>3 DEF CallOf
      <3>5. QED
        BY <3>3, <3>4, <1>5, AppendProperties
    <2>5. now' \in 0 .. MaxNow
      BY <1>1, <1>5 DEF TypeOK
    <2>6. QED
      BY <1>3, <2>1, <2>2, <2>3, <2>4, <2>5 DEF TypeOK, isOpen, CallOf
  <1>7. Tied'
    <2>1. ASSUME NEW k \in DOMAIN records
          PROVE  LET r == records'[k] IN
                 /\ k \in timers' => r.resolvedAt = Never
                 /\ k \in graces' => r.resolvedAt # Never
                 /\ r.resolvedAt = Never => r.decision = None /\ forwards'[k] = 0
                 /\ r.decision # None => promises'[k] = r.decision
                 /\ promises'[k] \in Decision => r.resolvedBy = "operator"
                 /\ promises'[k] = "allow-once" /\ r.decision # None => forwards'[k] = 0
      BY <1>1, <1>3, <1>5 DEF Tied
    <2>2. n \notin graces'
      BY <1>1, <1>3, <1>5 DEF TypeOK
    <2>3. Open \notin Decision
      BY DEF Open, Decision
    <2>4. QED
      BY <2>1, <2>2, <2>3, <1>3, <1>4 DEF Tied
  <1>8. RunsAsDecided'
    BY <1>1, <1>3 DEF RunsAsDecided
  <1>9. QED
    BY <1>6, <1>7, <1>8 DEF IInv

\* Time passes, or a call begins to wait or is answered: the manager is as it was.
LEMMA QuietStep ==
    ASSUME IInv, UNCHANGED <<manager, forwards>>, now' \in 0 .. MaxNow,
           calls' \in Seq(CallOf(DOMAIN records))
    PROVE  IInv'
  <1>1. TypeOK'
    BY DEF IInv, TypeOK, CallOf, manager, isOpen
  <1>2. Tied' /\ RunsAsDecided'
    BY DEF IInv, Tied, RunsAsDecided, manager
  <1>3. QED
    BY <1>1, <1>2 DEF IInv

\* A call in another state is still a call.
LEMMA CallsEdited ==
    ASSUME TypeOK, NEW c \in DOMAIN calls, NEW call \in CallOf(DOMAIN records)
    PROVE  [calls EXCEPT ![c] = call] \in Seq(CallOf(DOMAIN records))
  <1>1. calls \in Seq(CallOf(DOMAIN records))
    BY DEF TypeOK, CallOf
  <1>2. c \in 1 .. Len(calls)
    BY <1>1, LenProperties
  <1>3. QED
    BY <1>1, <1>2, ExceptSeq

\* A call is answered, or goes on to wait.
LEMMA CallMoves ==
    ASSUME TypeOK, NEW c \in DOMAIN calls
    PROVE  /\ calls[c].of \in DOMAIN records
           /\ [calls EXCEPT ![c].pc = "answered"] \in Seq(CallOf(DOMAIN records))
           /\ [calls EXCEPT ![c].pc = "waiting", ![c].routed = TRUE]
                 \in Seq(CallOf(DOMAIN records))
  <1>1. calls[c] \in CallOf(DOMAIN records)
    <2>1. calls \in Seq(CallOf(DOMAIN records))
      BY DEF TypeOK, CallOf
    <2>2. c \in 1 .. Len(calls)
      BY <2>1, LenProperties
    <2>3. QED
      BY <2>1, <2>2, ElementOfSeq
  <1>2. [calls[c] EXCEPT !.pc = "answered"] \in CallOf(DOMAIN records)
    BY <1>1 DEF CallOf
  <1>3. [calls[c] EXCEPT !.pc = "waiting", !.routed = TRUE] \in CallOf(DOMAIN records)
    BY <1>1 DEF CallOf
  <1>4. [calls EXCEPT ![c].pc = "answered"]
            = [calls EXCEPT ![c] = [calls[c] EXCEPT !.pc = "answered"]]
    OBVIOUS
  <1>5. [calls EXCEPT ![c].pc = "waiting", ![c].routed = TRUE]
            = [calls EXCEPT ![c] = [calls[c] EXCEPT !.pc = "waiting", !.routed = TRUE]]
    OBVIOUS
  <1>6. QED
    BY <1>1, <1>2, <1>3, <1>4, <1>5, CallsEdited DEF CallOf

\* An expiry timer or a request without a route ends what is open under an id.
LEMMA ExpireStep ==
    ASSUME IInv, NEW n \in DOMAIN records, NEW by \in {None, "no-approval-route"},
           NEW armed, expire(records[n].id, by, armed),
           armed = timers \/ (n \in timers /\ armed = timers \ {n}),
           now' = now, forwards' = forwards, calls' \in Seq(CallOf(DOMAIN records))
    PROVE  IInv'
  <1> DEFINE id == records[n].id
  <1>1. TypeOK /\ Tied
    BY DEF IInv
  <1>2. n \in timers => isOpen(id) /\ pending[id] = n
    BY <1>1 DEF TypeOK, Tied
  <1>3. CASE isOpen(id)
    <2>1. pending[id] \in DOMAIN records /\ records[pending[id]].resolvedAt = Never
      BY <1>1, <1>3, OpenEntry
    <2>2. settle(pending[id], None, by) /\ timers' = timers \ {pending[id]}
      BY <1>2, <1>3 DEF expire
    <2>3. None \in Verdict /\ by \in By /\ None \notin Decision
      BY DEF Verdict, By, None, Decision
    <2>4. QED
      BY <2>1, <2>2, <2>3, SettleStep
  <1>4. CASE ~isOpen(id)
    <2>1. UNCHANGED <<manager, forwards>>
      BY <1>2, <1>4 DEF expire, manager
    <2>2. now' \in 0 .. MaxNow
      BY <1>1 DEF TypeOK
    <2>3. QED
      BY <2>1, <2>2, QuietStep
  <1>5. QED
    BY <1>3, <1>4

\* An entry whose grace period is over leaves the map: it is not open.
LEMMA GraceStep ==
    ASSUME IInv, NEW n \in DOMAIN records, graceTimer(n)
    PROVE  IInv'
  <1>1. TypeOK /\ Tied /\ RunsAsDecided
    BY DEF IInv
  <1>2. /\ n \in graces /\ graces' = graces \ {n}
        /\ pending' = [i \in {i \in DOMAIN pending : pending[i] # n} |-> pending[i]]
        /\ UNCHANGED <<now, records, promises, timers, calls, forwards>>
    BY DEF graceTimer
  <1>3. records[n].resolvedAt # Never
    BY <1>1, <1>2 DEF Tied
  <1>4. \A k \in DOMAIN records :
           records[k].resolvedAt = Never
           => /\ records[k].id \in DOMAIN pending' /\ pending'[records[k].id] = k
    BY <1>1, <1>2, <1>3 DEF TypeOK, isOpen
  <1>5. TypeOK'
    BY <1>1, <1>2, <1>4 DEF TypeOK, isOpen
  <1>6. Tied' /\ RunsAsDecided'
    BY <1>1, <1>2 DEF Tied, RunsAsDecided
  <1>7. QED
    BY <1>5, <1>6 DEF IInv

\* A run is let through on the strength of a record.
LEMMA ForwardStep ==
    ASSUME IInv, NEW id \in Id, forwardSystemRun(id)
    PROVE  IInv'
  <1> DEFINE n == pending[id]
  <1>1. TypeOK /\ Tied /\ RunsAsDecided
    BY DEF IInv
  <1>2. /\ n \in DOMAIN records /\ records[n].id = id
        /\ forwards' = [forwards EXCEPT ![n] = @ + 1] /\ forwards[n] < MaxForwards
        /\ UNCHANGED <<now, pending, promises, timers, graces, calls>>
    BY <1>1 DEF forwardSystemRun, TypeOK
  <1>3. records[n] \in Record /\ forwards[n] \in 0 .. MaxForwards /\ MaxForwards \in Nat
    BY <1>1, <1>2, Shape, ExecApprovalAssumption
  <1>4. /\ forwards' \in Seq(0 .. MaxForwards) /\ Len(forwards') = Len(forwards)
        /\ \A k \in DOMAIN records :
              forwards'[k] = IF k = n THEN forwards[n] + 1 ELSE forwards[k]
    <2>1. forwards[n] + 1 \in 0 .. MaxForwards
      BY <1>2, <1>3
    <2>2. DOMAIN records = 1 .. Len(forwards) /\ DOMAIN forwards = DOMAIN records
      BY <1>1, Shape DEF TypeOK
    <2>3. forwards' = [forwards EXCEPT ![n] = forwards[n] + 1]
      BY <1>2
    <2>4. QED
      BY <1>1, <1>2, <2>1, <2>2, <2>3, ExceptSeq DEF TypeOK
  <1>5. /\ records' \in Seq(Record) /\ Len(records') = Len(records)
        /\ DOMAIN records' = DOMAIN records
        /\ \A k \in DOMAIN records \ {n} : records'[k] = records[k]
        /\ /\ records'[n].id = records[n].id
           /\ records'[n].resolvedAt = records[n].resolvedAt
           /\ records'[n].resolvedBy = records[n].resolvedBy
        /\ \/ records[n].decision = "allow-once" /\ records'[n].decision = None
           \/ records[n].decision = "allow-always" /\ records'[n] = records[n]
           \/ /\ records[n].resolvedAt # Never /\ records[n].decision = None
              /\ records[n].resolvedBy = None /\ records'[n] = records[n]
    <2>1. CASE records[n].decision = "allow-once" /\ consumeAllowOnce(n)
      <3> DEFINE new == [records[n] EXCEPT !.decision = None]
      <3>1. new \in Record /\ new.decision = None /\ new.id = records[n].id
            /\ new.resolvedAt = records[n].resolvedAt /\ new.resolvedBy = records[n].resolvedBy
        BY <1>3 DEF Record
      <3>2. records' = [records EXCEPT ![n] = new]
        BY <2>1 DEF consumeAllowOnce
      <3>3. n \in 1 .. Len(records) /\ DOMAIN records = 1 .. Len(records)
            /\ records \in Seq(Record)
        BY <1>1, <1>2, Shape DEF TypeOK
      <3> HIDE DEF new
      <3>4. /\ records' \in Seq(Record) /\ Len(records') = Len(records)
            /\ \A k \in 1 .. Len(records) : records'[k] = IF k = n THEN new ELSE records[k]
        BY <3>1, <3>2, <3>3, ExceptSeq
      <3>5. DOMAIN records' = DOMAIN records
        BY <3>2
      <3>6. QED
        BY <2>1, <3>1, <3>3, <3>4, <3>5
    <2>2. CASE records[n].decision = "allow-always" /\ UNCHANGED records
      BY <1>1, <2>2 DEF TypeOK
    <2>3. CASE /\ records[n].resolvedAt # Never /\ records[n].decision = None
               /\ records[n].resolvedBy = None /\ UNCHANGED records
      BY <1>1, <2>3 DEF TypeOK
    <2>4. QED
      BY <2>1, <2>2, <2>3 DEF forwardSystemRun
  <1>6. records[n].resolvedAt # Never
    BY <1>1, <1>2, <1>5 DEF Tied, None
  <1> HIDE DEF n
  <1>7. TypeOK'
    <2>1. \A k \in DOMAIN records' :
             records'[k].id = records[k].id /\ records'[k].resolvedAt = records[k].resolvedAt
      BY <1>5
    <2>2. \A i \in DOMAIN pending' :
             pending'[i] \in DOMAIN records' /\ records'[pending'[i]].id = i
      BY <1>1, <1>2, <1>5, <2>1 DEF TypeOK
    <2>3. \A k \in DOMAIN records' :
             LET open == records'[k].resolvedAt = Never IN
             /\ open => isOpen(records[k].id)' /\ pending'[records'[k].id] = k /\ k \in timers'
             /\ open <=> promises'[k] = Open
      <3> TAKE k \in DOMAIN records'
      <3>1. k \in DOMAIN records
        BY <1>5
      <3>2. /\ records[k].resolvedAt = Never =>
                   records[k].id \in DOMAIN pending /\ pending[records[k].id] = k /\ k \in timers
            /\ records[k].resolvedAt = Never <=> promises[k] = Open
        BY <1>1, <3>1 DEF TypeOK, isOpen
      <3>3. /\ pending' = pending /\ timers' = timers /\ promises' = promises
            /\ records'[k].id = records[k].id /\ records'[k].resolvedAt = records[k].resolvedAt
        BY <1>2, <2>1
      <3>4. QED
        BY <3>2, <3>3 DEF isOpen
    <2>4. /\ timers' \subseteq DOMAIN records' /\ graces' \subseteq DOMAIN records'
          /\ calls' \in Seq([of : DOMAIN records', pc : {"forwarding", "waiting", "answered"},
                              routed : BOOLEAN])
      BY <1>1, <1>2, <1>5 DEF TypeOK
    <2>5. /\ now' \in 0 .. MaxNow /\ DOMAIN pending' \subseteq Id
          /\ promises' \in Seq(Decision \cup {None, Open}) /\ Len(promises') = Len(records')
          /\ forwards' \in Seq(0 .. MaxForwards) /\ Len(forwards') = Len(records')
      BY <1>1, <1>2, <1>4, <1>5 DEF TypeOK
    <2>6. records' \in Seq(Record)
      BY <1>5
    <2>7. \A k \in DOMAIN records' : records'[k].id = records[k].id
      BY <2>1
    <2>8. QED
      BY <2>2, <2>3, <2>4, <2>5, <2>6, <2>7 DEF TypeOK, isOpen
  <1>8. Tied' /\ RunsAsDecided'
    <2>1. promises[n] \in Verdict
      BY <1>1, <1>2, <1>6, Shape DEF TypeOK
    <2>2. /\ records[n].decision = "allow-once" => promises[n] = "allow-once" /\ forwards[n] = 0
          /\ records[n].decision = "allow-always" => promises[n] = "allow-always"
          /\ records[n].resolvedBy = None => promises[n] \notin Decision
      BY <1>1, <1>2 DEF Tied, None
    <2>3. Tied'
      BY <1>1, <1>2, <1>4, <1>5, <1>6, <2>1, <2>2 DEF Tied, None, Verdict, Decision
    <2>4. RunsAsDecided'
      BY <1>1, <1>2, <1>3, <1>4, <1>5, <1>6, <2>1, <2>2
         DEF RunsAsDecided, None, Verdict, Decision, Open
    <2>5. QED
      BY <2>3, <2>4
  <1>9. QED
    BY <1>7, <1>8 DEF IInv

\* Every step of the specification.
LEMMA NextStep ==
    ASSUME IInv, [Next]_vars
    PROVE  IInv'
  <1>1. TypeOK
    BY DEF IInv
  <1>2. calls \in Seq(CallOf(DOMAIN records)) /\ now \in 0 .. MaxNow
    BY <1>1 DEF TypeOK, CallOf
  <1>3. CASE Clock
    <2>1. now' \in 0 .. MaxNow
      BY <1>2, <1>3, ExecApprovalAssumption DEF Clock
    <2>2. QED
      BY <1>2, <1>3, <2>1, QuietStep DEF Clock
  <1>4. ASSUME NEW n \in DOMAIN records, expiryTimer(n)
        PROVE  IInv'
    <2>1. n \in timers /\ expire(records[n].id, None, timers \ {n})
      BY <1>4 DEF expiryTimer
    <2>2. UNCHANGED <<now, calls, forwards>>
      BY <1>4 DEF expiryTimer
    <2>3. QED
      BY <1>2, <2>1, <2>2, ExpireStep
  <1>5. ASSUME NEW n \in DOMAIN records, graceTimer(n)
        PROVE  IInv'
    BY <1>5, GraceStep
  <1>6. ASSUME NEW c \in DOMAIN calls, decided(c)
        PROVE  IInv'
    BY <1>1, <1>2, <1>6, CallMoves, QuietStep DEF decided
  <1>7. ASSUME NEW c \in DOMAIN calls, NEW forwarded \in BOOLEAN,
               requestForwarded(c, forwarded)
        PROVE  IInv'
    <2> DEFINE n == calls[c].of
    <2>1. n \in DOMAIN records
      BY <1>1, CallMoves
    <2>2. CASE calls[c].routed \/ forwarded
      BY <1>1, <1>2, <1>7, <2>2, CallMoves, QuietStep DEF requestForwarded
    <2>3. CASE ~(calls[c].routed \/ forwarded)
      <3>1. /\ expire(records[n].id, "no-approval-route", timers)
            /\ calls' = [calls EXCEPT ![c].pc = "answered"]
            /\ UNCHANGED <<now, forwards>>
        BY <1>7, <2>3 DEF requestForwarded
      <3>2. QED
        BY <1>1, <2>1, <3>1, CallMoves, ExpireStep
    <2>4. QED
      BY <2>2, <2>3
  <1>8. ASSUME NEW id \in Id, NEW timeout \in Timeout, NEW routed \in BOOLEAN,
               request(id, timeout, routed)
        PROVE  IInv'
    BY <1>8, RequestStep
  <1>9. ASSUME NEW id \in Id, waitDecision(id)
        PROVE  IInv'
    <2> DEFINE call == [of |-> pending[id], pc |-> "waiting", routed |-> TRUE]
    <2>1. id \in DOMAIN pending /\ calls' = Append(calls, call)
          /\ UNCHANGED <<now, manager, forwards>>
      BY <1>9 DEF waitDecision
    <2>2. call \in CallOf(DOMAIN records)
      BY <1>1, <2>1 DEF TypeOK, CallOf
    <2> HIDE DEF call
    <2>3. calls' \in Seq(CallOf(DOMAIN records))
      BY <1>2, <2>1, <2>2, AppendProperties
    <2>4. QED
      BY <1>2, <2>1, <2>3, QuietStep
  <1>10. ASSUME NEW id \in Id, forwardSystemRun(id)
         PROVE  IInv'
    BY <1>10, ForwardStep
  <1>11. ASSUME NEW input \in Input, NEW decision \in Decision,
                resolveRequest(input, decision)
         PROVE  IInv'
    <2>1. PICK id \in Id : resolve(id, decision) /\ UNCHANGED <<now, calls, forwards>>
      BY <1>11 DEF resolveRequest
    <2>2. isOpen(id) /\ settle(pending[id], decision, "operator")
          /\ timers' = timers \ {pending[id]}
      BY <2>1 DEF resolve
    <2>3. pending[id] \in DOMAIN records /\ records[pending[id]].resolvedAt = Never
      BY <1>1, <2>2, OpenEntry
    <2>4. decision \in Verdict /\ "operator" \in By
      BY DEF Verdict, By
    <2>5. QED
      BY <1>2, <2>1, <2>2, <2>3, <2>4, SettleStep
  <1>12. CASE UNCHANGED vars
    BY <1>2, <1>12, QuietStep DEF vars
  <1>13. QED
    BY <1>3, <1>4, <1>5, <1>6, <1>7, <1>8, <1>9, <1>10, <1>11, <1>12
       DEF Next, Timer, Answer

-----------------------------------------------------------------------------
(* The theorems.                                                           *)

\* In every reachable state the open approvals are tied to their promises,
\* their timers and their places in the manager's map.
THEOREM Invariance == Spec => []IInv
  <1>1. Init => IInv
    <2> SUFFICES ASSUME Init PROVE IInv
      OBVIOUS
    <2>1. DOMAIN records = {} /\ DOMAIN pending = {}
      BY DEF Init
    <2>2. /\ records \in Seq(Record) /\ promises \in Seq(Decision \cup {None, Open})
          /\ calls \in Seq([of : DOMAIN records, pc : {"forwarding", "waiting", "answered"},
                            routed : BOOLEAN])
          /\ forwards \in Seq(0 .. MaxForwards)
          /\ Len(promises) = Len(records) /\ Len(forwards) = Len(records)
      BY EmptySeq DEF Init
    <2>3. TypeOK
      BY <2>1, <2>2, ExecApprovalAssumption DEF Init, TypeOK
    <2>4. QED
      BY <2>1, <2>3 DEF IInv, Tied, RunsAsDecided
  <1>2. IInv /\ [Next]_vars => IInv'
    BY NextStep
  <1>3. QED
    BY <1>1, <1>2, PTL DEF Spec

\* The approval manager (exec-approval-manager.ts) is well typed, and every
\* open approval has its timer, its entry and an open promise.
THEOREM TypeCorrect == Spec => []TypeOK
  <1>1. IInv => TypeOK
    BY DEF IInv
  <1>2. QED
    BY <1>1, Invariance, PTL

\* Runs on a node (node-invoke-system-run-approval.ts:269-302) are let through
\* as was decided, and at most once for an allow-once.
THEOREM DecisionsRule == Spec => []RunsAsDecided
  <1>1. IInv => RunsAsDecided
    BY DEF IInv
  <1>2. QED
    BY <1>1, Invariance, PTL

-----------------------------------------------------------------------------
(* What was decided stands.                                                *)

\* What a step may do to the record n and its promise.
Stands(n) ==
    LET r == records[n]
        new == records'[n] IN
    IF r.resolvedAt # Never
    THEN /\ promises'[n] = promises[n]
         /\ new = r \/ (r.decision = "allow-once" /\ new = [r EXCEPT !.decision = None])
    ELSE new.resolvedAt # Never /\ new.resolvedBy = None => r.expires <= now

\* Settling an open record leaves the others, and by a timer it is over.
LEMMA SettleStands ==
    ASSUME IInv, NEW n \in DOMAIN records, records[n].resolvedAt = Never,
           NEW d \in Verdict, NEW by \in By, by = None => records[n].expires <= now,
           settle(n, d, by)
    PROVE  \A k \in DOMAIN records : Stands(k)
  <1>1. TypeOK
    BY DEF IInv
  <1>2. /\ records'[n].resolvedAt = now /\ records'[n].resolvedBy = by
        /\ \A k \in DOMAIN records \ {n} :
              records'[k] = records[k] /\ promises'[k] = promises[k]
    BY <1>1, SettleEffect
  <1>3. now # Never
    <2>1. now \in Nat
      BY <1>1, Shape
    <2>2. QED
      BY <2>1 DEF Never
  <1>4. Stands(n)
    BY <1>2, <1>3 DEF Stands
  <1>5. ASSUME NEW k \in DOMAIN records \ {n}
        PROVE  Stands(k)
    BY <1>2 DEF Stands
  <1>6. QED
    BY <1>4, <1>5

\* The end of what is open under an id: by a timer only when its own record,
\* which is the one that is open, is over.
LEMMA ExpireStands ==
    ASSUME IInv, NEW n \in DOMAIN records, NEW by \in {None, "no-approval-route"},
           NEW armed, expire(records[n].id, by, armed),
           by = None => n \in timers /\ records[n].expires <= now
    PROVE  \A k \in DOMAIN records : Stands(k)
  <1> DEFINE id == records[n].id
  <1>1. TypeOK /\ Tied
    BY DEF IInv
  <1>2. n \in timers => isOpen(id) /\ pending[id] = n
    BY <1>1 DEF TypeOK, Tied
  <1>3. CASE isOpen(id)
    <2>1. pending[id] \in DOMAIN records /\ records[pending[id]].resolvedAt = Never
      BY <1>1, <1>3, OpenEntry
    <2>2. settle(pending[id], None, by)
      BY <1>3 DEF expire
    <2>3. None \in Verdict /\ by \in By
      BY DEF Verdict, By
    <2>4. by = None => records[pending[id]].expires <= now
      BY <1>2
    <2>5. QED
      BY <2>1, <2>2, <2>3, <2>4, SettleStands
  <1>4. CASE ~isOpen(id)
    BY <1>4 DEF expire, Stands
  <1>5. QED
    BY <1>3, <1>4

\* A run that uses an approval only takes a resolved allow-once.
LEMMA ForwardStands ==
    ASSUME IInv, NEW id \in Id, forwardSystemRun(id)
    PROVE  \A k \in DOMAIN records : Stands(k)
  <1> DEFINE n == pending[id]
  <1>1. TypeOK /\ Tied
    BY DEF IInv
  <1>2. n \in DOMAIN records /\ promises' = promises
    BY <1>1 DEF forwardSystemRun, TypeOK
  <1>3. CASE records[n].decision = "allow-once" /\ consumeAllowOnce(n)
    <2>1. records[n].resolvedAt # Never
      BY <1>1, <1>2, <1>3 DEF Tied, None
    <2>2. records'[n] = [records[n] EXCEPT !.decision = None]
      BY <1>2, <1>3 DEF consumeAllowOnce
    <2>3. \A k \in DOMAIN records \ {n} : records'[k] = records[k]
      BY <1>3 DEF consumeAllowOnce
    <2> HIDE DEF n
    <2>4. Stands(n)
      BY <1>2, <1>3, <2>1, <2>2 DEF Stands
    <2>5. ASSUME NEW k \in DOMAIN records \ {n}
          PROVE  Stands(k)
      BY <1>2, <2>3 DEF Stands
    <2>6. QED
      BY <2>4, <2>5
  <1>4. CASE UNCHANGED records
    BY <1>2, <1>4 DEF Stands
  <1>5. QED
    BY <1>3, <1>4 DEF forwardSystemRun

\* Every step of the specification.
LEMMA StepStands ==
    ASSUME IInv, [Next]_vars
    PROVE  \A k \in DOMAIN records : Stands(k)
  <1>1. TypeOK
    BY DEF IInv
  <1>2. ASSUME UNCHANGED <<records, promises>>
        PROVE  \A k \in DOMAIN records : Stands(k)
    BY <1>2 DEF Stands
  <1>3. CASE Clock \/ UNCHANGED vars
    BY <1>2, <1>3 DEF Clock, vars, manager
  <1>4. ASSUME NEW n \in DOMAIN records, expiryTimer(n)
        PROVE  \A k \in DOMAIN records : Stands(k)
    <2>1. /\ n \in timers /\ records[n].expires <= now
          /\ expire(records[n].id, None, timers \ {n})
      BY <1>4 DEF expiryTimer
    <2>2. QED
      BY <2>1, ExpireStands
  <1>5. ASSUME NEW n \in DOMAIN records, graceTimer(n)
        PROVE  \A k \in DOMAIN records : Stands(k)
    BY <1>2, <1>5 DEF graceTimer
  <1>6. ASSUME NEW c \in DOMAIN calls, decided(c)
        PROVE  \A k \in DOMAIN records : Stands(k)
    BY <1>2, <1>6 DEF decided, manager
  <1>7. ASSUME NEW c \in DOMAIN calls, NEW forwarded \in BOOLEAN,
               requestForwarded(c, forwarded)
        PROVE  \A k \in DOMAIN records : Stands(k)
    <2> DEFINE n == calls[c].of
    <2>1. n \in DOMAIN records
      BY <1>1, CallMoves
    <2>2. CASE calls[c].routed \/ forwarded
      BY <1>2, <1>7, <2>2 DEF requestForwarded, manager
    <2>3. CASE ~(calls[c].routed \/ forwarded)
      <3>1. expire(records[n].id, "no-approval-route", timers)
        BY <1>7, <2>3 DEF requestForwarded
      <3>2. "no-approval-route" # None
        BY DEF None
      <3>3. QED
        BY <2>1, <3>1, <3>2, ExpireStands
    <2>4. QED
      BY <2>2, <2>3
  <1>8. ASSUME NEW id \in Id, NEW timeout \in Timeout, NEW routed \in BOOLEAN,
               request(id, timeout, routed)
        PROVE  \A k \in DOMAIN records : Stands(k)
    <2>1. timeout \in Nat /\ register(id, timeout)
      BY <1>8, ExecApprovalAssumption DEF request
    <2>2. \A k \in DOMAIN records : records'[k] = records[k] /\ promises'[k] = promises[k]
      BY <1>1, <2>1, RegisterEffect
    <2>3. QED
      BY <2>2 DEF Stands
  <1>9. ASSUME NEW id \in Id, waitDecision(id)
        PROVE  \A k \in DOMAIN records : Stands(k)
    BY <1>2, <1>9 DEF waitDecision, manager
  <1>10. ASSUME NEW id \in Id, forwardSystemRun(id)
         PROVE  \A k \in DOMAIN records : Stands(k)
    BY <1>10, ForwardStands
  <1>11. ASSUME NEW input \in Input, NEW decision \in Decision,
                resolveRequest(input, decision)
         PROVE  \A k \in DOMAIN records : Stands(k)
    <2>1. PICK id \in Id : resolve(id, decision)
      BY <1>11 DEF resolveRequest
    <2>2. isOpen(id) /\ settle(pending[id], decision, "operator")
      BY <2>1 DEF resolve
    <2>3. pending[id] \in DOMAIN records /\ records[pending[id]].resolvedAt = Never
      BY <1>1, <2>2, OpenEntry
    <2>4. decision \in Verdict /\ "operator" \in By /\ "operator" # None
      BY DEF Verdict, By, None
    <2>5. QED
      BY <2>2, <2>3, <2>4, SettleStands
  <1>12. QED
    BY <1>3, <1>4, <1>5, <1>6, <1>7, <1>8, <1>9, <1>10, <1>11
       DEF Next, Timer, Answer

\* A decision of exec-approval-manager.ts stands, whatever timers and requests
\* without a route come late; and an approval times out by its own deadline.
THEOREM Verdicts == Spec => VerdictStands
  <1>1. IInv /\ [Next]_vars => [\A n \in DOMAIN records : Stands(n)]_vars
    BY StepStands
  <1>2. QED
    BY <1>1, Invariance, PTL DEF Spec, VerdictStands, Stands

=============================================================================
