---------------------------- MODULE MCExecApproval ----------------------------
(* Two approvals with a common prefix; one of them is asked for every time.   *)
EXTENDS ExecApproval

CONSTANTS a, b, prefix

MCInput == {a, b, prefix}
MCMatches == [i \in MCInput |-> IF i = prefix THEN {a, b} ELSE {i}]
MCOffered == [i \in {a, b} |-> IF i = a THEN Decision ELSE Decision \ {"allow-always"}]

===============================================================================
