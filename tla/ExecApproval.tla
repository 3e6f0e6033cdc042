---------------------------- MODULE ExecApproval ----------------------------
(***************************************************************************)
(* Exec approvals (src/src/gateway/exec-approval-manager.ts, the handlers  *)
(* of server-methods/exec-approval.ts, and the use of a decision by        *)
(* node-invoke-system-run-approval.ts).  An agent asks for leave to run a  *)
(* command and waits; an operator decides, or a timer does; the entry is   *)
(* kept for a grace period, in which late callers read the decision and    *)
(* the node's run uses it.                                                 *)
(*                                                                         *)
(* Handlers are one action each, but for the await on the forwarder that   *)
(* sends the request to chats, and the await on the decision.  A record is *)
(* a place in `records`; the manager's map holds the latest of each id, as *)
(* an id may be used again once its entry is gone.                         *)
(***************************************************************************)
EXTENDS Integers, Sequences, FiniteSets

CONSTANTS
    Id,             \* approval ids, given by the caller or drawn by the manager
    Input,          \* what an operator may type: ids and prefixes of ids
    Matches,        \* Matches[i]: the ids the input i is a prefix of
    Offered,        \* Offered[id]: the decisions its policy allows
    Timeout,        \* the timeouts a request may have
    Grace,          \* RESOLVED_ENTRY_GRACE_MS
    MaxNow,         \* bound on the clock
    MaxRecords,     \* bound on the requests
    MaxCalls,       \* bound on the calls that wait: requests and waitDecision
    MaxForwards     \* bound on the runs forwarded for one approval

Decision == {"allow-once", "allow-always", "deny"}

ASSUME ExecApprovalAssumption ==
    /\ Id \subseteq Input /\ Matches \in [Input -> SUBSET Id]
    /\ Offered \in [Id -> SUBSET Decision]
    /\ Timeout \subseteq Nat /\ {Grace, MaxNow, MaxRecords, MaxCalls, MaxForwards} \subseteq Nat

VARIABLES
    now,        \* Date.now()
    records,    \* every record that was registered
    pending,    \* the manager's map, from ids to records
    promises,   \* what the promise of each record was resolved with
    timers,     \* the records whose expiry timer is set
    graces,     \* the records whose grace timer is set
    calls,      \* the calls that wait for a decision
    forwards    \* how often a run was forwarded on the strength of each record

manager == <<records, pending, promises, timers, graces>>
vars == <<now, manager, calls, forwards>>

None == "none"      \* no decision
Open == "open"      \* a promise that is not resolved
Never == -1

isOpen(id) == id \in DOMAIN pending /\ records[pending[id]].resolvedAt = Never

Init ==
    /\ now = 0
    /\ records = <<>> /\ pending = <<>> /\ promises = <<>>
    /\ timers = {} /\ graces = {}
    /\ calls = <<>> /\ forwards = <<>>

-----------------------------------------------------------------------------
(* The manager.                                                            *)

\* Mutant of register: no timer is set.
register_NoTimer(id, timeout) ==
    LET n == Len(records) + 1 IN
    /\ records' = Append(records, [id |-> id, expires |-> now + timeout,
                     resolvedAt |-> Never, decision |-> None, resolvedBy |-> None])
    /\ pending' = [i \in DOMAIN pending \cup {id} |-> IF i = id THEN n ELSE pending[i]]
    /\ promises' = Append(promises, Open)
    /\ forwards' = Append(forwards, 0)
    /\ UNCHANGED <<timers, graces>>

\* create and register.  The caller has made sure that the id is not in use,
\* so the branches for an entry that exists are out of reach.
register(id, timeout) ==
    LET n == Len(records) + 1 IN
    /\ records' = Append(records, [id |-> id, expires |-> now + timeout,
                     resolvedAt |-> Never, decision |-> None, resolvedBy |-> None])
    /\ pending' = [i \in DOMAIN pending \cup {id} |-> IF i = id THEN n ELSE pending[i]]
    /\ promises' = Append(promises, Open)
    /\ timers' = timers \cup {n}
    /\ forwards' = Append(forwards, 0)
    /\ UNCHANGED graces

\* What resolve and expire do to the record n: the decision is written, the
\* promise resolved (once), and the grace timer set.
settle(n, decision, by) ==
    /\ records' = [records EXCEPT ![n].resolvedAt = now, ![n].decision = decision,
                                  ![n].resolvedBy = by]
    /\ promises' = [promises EXCEPT ![n] = IF @ = Open THEN decision ELSE @]
    /\ graces' = graces \cup {n}
    /\ UNCHANGED pending

\* Mutant of resolve: clearTimeout is forgotten.
resolve_KeepTimer(id, decision) ==
    /\ isOpen(id)
    /\ settle(pending[id], decision, "operator")
    /\ UNCHANGED timers

\* resolve; false, without an effect, when nothing is open under the id.
\* "operator" is whoever decides: the name or the id of the client, and the
\* handshake refuses a client without an id.
resolve(id, decision) ==
    /\ isOpen(id)
    /\ settle(pending[id], decision, "operator")
    /\ timers' = timers \ {pending[id]}

\* Mutant of expire: the promise is left alone.
expire_NoSettle(id, by, armed) ==
    IF isOpen(id)
    THEN /\ records' = [records EXCEPT ![pending[id]].resolvedAt = now,
                                       ![pending[id]].resolvedBy = by]
         /\ graces' = graces \cup {pending[id]}
         /\ timers' = armed \ {pending[id]}
         /\ UNCHANGED <<pending, promises>>
    ELSE timers' = armed /\ UNCHANGED <<records, pending, promises, graces>>

\* expire, of whatever is open under the id.
expire(id, by, armed) ==
    IF isOpen(id)
    THEN /\ settle(pending[id], None, by)
         /\ timers' = armed \ {pending[id]}
    ELSE timers' = armed /\ UNCHANGED <<records, pending, promises, graces>>

\* The expiry timer of the record n: it knows the record by its id.
expiryTimer(n) ==
    /\ n \in timers /\ records[n].expires <= now
    /\ expire(records[n].id, None, timers \ {n})
    /\ UNCHANGED <<now, calls, forwards>>

\* The grace timer of the record n.
graceTimer(n) ==
    /\ n \in graces /\ records[n].resolvedAt + Grace <= now
    /\ graces' = graces \ {n}
    /\ pending' = [i \in {i \in DOMAIN pending : pending[i] # n} |-> pending[i]]
    /\ UNCHANGED <<now, records, promises, timers, calls, forwards>>

\* lookupPendingId: the ids an input may stand for.
lookupPendingId(input) ==
    IF input \in DOMAIN pending THEN {input} \cap {i \in Id : isOpen(i)}
    ELSE {i \in Matches[input] : isOpen(i)}

\* Mutant of consumeAllowOnce: the decision is left in the record.
consumeAllowOnce_Keep(n) == UNCHANGED records

consumeAllowOnce(n) == records' = [records EXCEPT ![n].decision = None]

-----------------------------------------------------------------------------
(* The handlers.                                                           *)

\* exec.approval.request, up to its await on the forwarder.  An id in use is
\* refused.  routed: an operator client is connected, or the turn's own chat
\* can be asked.
request(id, timeout, routed) ==
    /\ Len(records) < MaxRecords /\ Len(calls) < MaxCalls
    /\ now + timeout + Grace <= MaxNow
    /\ id \notin DOMAIN pending
    /\ register(id, timeout)
    /\ calls' = Append(calls, [of |-> Len(records) + 1, pc |-> "forwarding",
                               routed |-> routed])
    /\ UNCHANGED now

\* The forwarder has answered (a throw counts as no).  With nobody to ask, the
\* approval expires at once, and the answer is none (even if an operator has
\* decided during the await).
requestForwarded(c, forwarded) ==
    LET n == calls[c].of IN
    /\ calls[c].pc = "forwarding"
    /\ IF calls[c].routed \/ forwarded
       THEN /\ calls' = [calls EXCEPT ![c].pc = "waiting", ![c].routed = TRUE]
            /\ UNCHANGED manager
       ELSE /\ expire(records[n].id, "no-approval-route", timers)
            /\ calls' = [calls EXCEPT ![c].pc = "answered"]
    /\ UNCHANGED <<now, forwards>>

\* exec.approval.waitDecision, in time or late; without an entry it fails.
waitDecision(id) ==
    /\ id \in DOMAIN pending /\ Len(calls) < MaxCalls
    /\ calls' = Append(calls, [of |-> pending[id], pc |-> "waiting", routed |-> TRUE])
    /\ UNCHANGED <<now, manager, forwards>>

\* Either handler goes on when the promise is resolved.
decided(c) ==
    /\ calls[c].pc = "waiting" /\ promises[calls[c].of] # Open
    /\ calls' = [calls EXCEPT ![c].pc = "answered"]
    /\ UNCHANGED <<now, manager, forwards>>

\* exec.approval.resolve: one approval must be meant, and the decision offered.
resolveRequest(input, decision) == \E id \in Id :
    /\ lookupPendingId(input) = {id} /\ decision \in Offered[id]
    /\ resolve(id, decision)
    /\ UNCHANGED <<now, calls, forwards>>

\* sanitizeSystemRunParamsForForwarding, for a run that fits the approval: a
\* decision lets it pass, and so does a timeout when the client's own policy
\* falls back on allow-once.
forwardSystemRun(id) ==
    LET n == pending[id]
        r == records[n] IN
    /\ id \in DOMAIN pending /\ now <= r.expires
    /\ forwards[n] < MaxForwards
    /\ \/ r.decision = "allow-once" /\ consumeAllowOnce(n)
       \/ r.decision = "allow-always" /\ UNCHANGED records
       \/ r.resolvedAt # Never /\ r.decision = None /\ r.resolvedBy = None /\ UNCHANGED records
    /\ forwards' = [forwards EXCEPT ![n] = @ + 1]
    /\ UNCHANGED <<now, pending, promises, timers, graces, calls>>

Clock ==
    /\ now < MaxNow
    /\ now' = now + 1
    /\ UNCHANGED <<manager, calls, forwards>>

-----------------------------------------------------------------------------
Timer == \E n \in DOMAIN records : expiryTimer(n) \/ graceTimer(n)

Answer == \E c \in DOMAIN calls :
    decided(c) \/ \E forwarded \in BOOLEAN : requestForwarded(c, forwarded)

Next ==
    \/ Clock
    \/ Timer
    \/ Answer
    \/ \E id \in Id, timeout \in Timeout, routed \in BOOLEAN : request(id, timeout, routed)
    \/ \E id \in Id : waitDecision(id) \/ forwardSystemRun(id)
    \/ \E input \in Input, decision \in Decision : resolveRequest(input, decision)

Spec == Init /\ [][Next]_vars

\* Time passes, due timers fire, and the forwarder and the promises answer.
FairSpec == Spec /\ WF_vars(Clock) /\ WF_vars(Timer) /\ WF_vars(Answer)

-----------------------------------------------------------------------------
(* Properties.                                                             *)

Record == [id : Id, expires : Nat, resolvedAt : Nat \cup {Never},
           decision : Decision \cup {None},
           resolvedBy : {None, "operator", "no-approval-route"}]

\* Types; and an approval that is open is in the map under its id, has its
\* timer set, and no answer was given for it.
TypeOK ==
    /\ now \in 0 .. MaxNow
    /\ records \in Seq(Record)
    /\ DOMAIN pending \subseteq Id
    /\ \A id \in DOMAIN pending :
          pending[id] \in DOMAIN records /\ records[pending[id]].id = id
    /\ promises \in Seq(Decision \cup {None, Open}) /\ Len(promises) = Len(records)
    /\ timers \subseteq DOMAIN records /\ graces \subseteq DOMAIN records
    /\ calls \in Seq([of : DOMAIN records, pc : {"forwarding", "waiting", "answered"},
                      routed : BOOLEAN])
    /\ forwards \in Seq(0 .. MaxForwards) /\ Len(forwards) = Len(records)
    /\ \A n \in DOMAIN records :
          LET open == records[n].resolvedAt = Never IN
          /\ open => isOpen(records[n].id) /\ pending[records[n].id] = n /\ n \in timers
          /\ open <=> promises[n] = Open

\* Runs are forwarded as was decided and as the callers were told: once for an
\* allow-once, whoever asks again within the grace period; never while nothing
\* was decided, after a deny, or when there was nobody to ask.
RunsAsDecided ==
    \A n \in DOMAIN records :
        /\ promises[n] \in {"deny", Open} => forwards[n] = 0
        /\ promises[n] = "allow-once" => forwards[n] <= 1
        /\ promises[n] = None /\ forwards[n] > 0 => records[n].resolvedBy = None

\* What was decided stands, whatever timers and requests that found no route
\* come late; and an approval times out by its own deadline, not by the timer
\* of an earlier one with its id.
VerdictStands ==
    [][\A n \in DOMAIN records :
        LET r == records[n]
            new == records'[n] IN
        IF r.resolvedAt # Never
        THEN /\ promises'[n] = promises[n]
             /\ new = r \/ (r.decision = "allow-once" /\ new = [r EXCEPT !.decision = None])
        ELSE new.resolvedAt # Never /\ new.resolvedBy = None => r.expires <= now
      ]_vars

\* Every call that waits for a decision gets an answer: the operator's, or
\* none when the time is over or nobody can be asked.
EveryCallAnswered ==
    \A c \in 1 .. MaxCalls :
        c \in DOMAIN calls ~> (c \in DOMAIN calls /\ calls[c].pc = "answered")

=============================================================================
