--------------------------- MODULE MCReceiptReview ---------------------------
(* One customer, one receipt that pays a purchase and one plain top-up, two  *)
(* review handlers, two tasks.                                               *)
EXTENDS ReceiptReview, TLC

CONSTANTS u1, t1, t2, r1, r2, a1, a2, noDraft, noUser, noReserve

MCUsers == {u1}
MCTasks == {t1, t2}
MCDrafts == {r1}
MCReferrer == u1 :> noUser
MCLimit == u1 :> 0
MCDraftOf == r1 :> [kind |-> "purchase", user |-> u1, price |-> 2]
MCPrices == {2}
MCTopUps == {}
MCReceipts == {r1, r2}
MCReceiptUser == (r1 :> u1) @@ (r2 :> u1)
MCAmount == (r1 :> 2) @@ (r2 :> 1)
MCReviewers == {a1, a2}
=============================================================================
