--------------------------- MODULE MCDeliveryQueue ---------------------------
(* Two messages, one of them bestEffort with an onError.                    *)
EXTENDS DeliveryQueue

CONSTANTS d1, d2

=============================================================================
