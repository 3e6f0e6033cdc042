------------------------------- MODULE Mailbox -------------------------------
(* What a queue of messages promises when nothing may be thrown away: a    *)
(* message is taken in once, and handed over once, in order of arrival, in *)
(* batches that always start at the oldest one.                            *)
EXTENDS Integers, Sequences, SequencesExt

CONSTANT Message

VARIABLES pending, delivered

vars == <<pending, delivered>>

Init == pending = <<>> /\ delivered = <<>>

Accept(m) ==
    /\ m \notin ToSet(pending) \cup ToSet(delivered)
    /\ pending' = Append(pending, m)
    /\ UNCHANGED delivered

Deliver ==
    \E n \in 1..Len(pending) :
        /\ delivered' = delivered \o SubSeq(pending, 1, n)
        /\ pending' = SubSeq(pending, n + 1, Len(pending))

Next == Deliver \/ \E m \in Message : Accept(m)

Spec == Init /\ [][Next]_vars

FairSpec == Spec /\ WF_vars(Deliver)

=============================================================================
