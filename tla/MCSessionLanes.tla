---------------------------- MODULE MCSessionLanes ----------------------------
(* Agent runs r1 and r2 and a cron run c1 that shares the session of r1;     *)
(* every lane has one slot.                                                  *)
EXTENDS SessionLanes, TLC

CONSTANTS r1, r2, c1, s1, s2

MCSessionOf == (r1 :> s1) @@ (r2 :> s2) @@ (c1 :> s1)
MCRequestedLane == (r1 :> "main") @@ (r2 :> "main") @@ (c1 :> "cron")
MCConcurrency == ("main" :> 1) @@ ("cron" :> 1) @@ ("nested" :> 1)

=============================================================================
