--------------------------- MODULE MCCryptoPayment ---------------------------
(* One invoice of either provider, two outside requests besides the sync job. *)
EXTENDS CryptoPayment

CONSTANTS p1, h1, h2

MCPayments == {p1}
MCRequests == {h1, h2}
=============================================================================
