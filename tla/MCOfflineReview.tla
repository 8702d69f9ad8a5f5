--------------------------- MODULE MCOfflineReview ---------------------------
(* One session of two messages, three reviews in the bot or from the web panel. *)
EXTENDS OfflineReview, TLC

CONSTANTS m1, m2, v1, v2, v3

MCMessages == {m1, m2}
MCReviews == {v1, v2, v3}
MCSymmetry == Permutations(MCMessages) \cup Permutations(MCReviews)
=============================================================================
