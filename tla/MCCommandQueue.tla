--------------------------- MODULE MCCommandQueue ---------------------------
(* One lane whose queue outgrows its cap.  The module SessionLanes runs the *)
(* queue with several lanes that share waiters and resets.                  *)
EXTENDS CommandQueue, TLC

CONSTANTS t1, t2, t3, main, w1

MCLaneOf == (t1 :> main) @@ (t2 :> main) @@ (t3 :> main)

=============================================================================
