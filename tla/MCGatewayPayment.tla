-------------------------- MODULE MCGatewayPayment --------------------------
(* Every provider, two requests under way together. *)
EXTENDS GatewayPayment

CONSTANTS r1, r2

MCRequests == {r1, r2}
=============================================================================
