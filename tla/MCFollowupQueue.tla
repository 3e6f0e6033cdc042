--------------------------- MODULE MCFollowupQueue ---------------------------
(* Up to four messages: r1 and r2 are one provider message delivered twice, *)
(* r3 has no id, r4 has an id of its own and another route.                  *)
EXTENDS FollowupQueue

CONSTANTS r1, r2, r3, r4, idA, idB, routeX, routeY

MCMessageKey == [r \in {r1, r2, r3, r4} |->
    CASE r \in {r1, r2} -> idA [] r = r3 -> NoKey [] r = r4 -> idB]

MCRoute == [r \in {r1, r2, r3, r4} |-> IF r = r4 THEN routeY ELSE routeX]

Setting(m, c, p) == [mode |-> m, cap |-> c, dropPolicy |-> p]

\* Every mode with every drop policy that removes messages, at both caps.
MCSettings ==
    {Setting("collect", 2, "old"), Setting("followup", 1, "old"),
     Setting("collect", 1, "summarize"), Setting("followup", 2, "summarize")}

\* Nothing is removed: a full queue refuses.
MCKeepSettings == {Setting(m, c, "new") : m \in {"collect", "followup"}, c \in {1, 2}}

MCDropOld == {Setting("followup", 2, "old")}

\* Queue objects are interchangeable.
MCSymmetry == Permutations(QueueId)

=============================================================================
