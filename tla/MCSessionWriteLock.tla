-------------------------- MODULE MCSessionWriteLock --------------------------
(* Two instances of the gateway, the second beside the first or after it,   *)
(* with its pid or another: two calls of the first, one of the second.      *)
EXTENDS SessionWriteLock, TLC

CONSTANTS first, second, a1, a2, b

MCProcessOf == a1 :> first @@ a2 :> first @@ b :> second
=============================================================================
