---------------------------- MODULE MCHeartbeatWake ----------------------------
(* Two targets; a tick stands for 250 ms, and the retry delay for 3 of them. *)
EXTENDS HeartbeatWake

CONSTANTS t1, t2

=============================================================================
