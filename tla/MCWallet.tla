------------------------------ MODULE MCWallet ------------------------------
(* A small instance: an invitee u1 with two open drafts and the referrer u2. *)
EXTENDS Wallet, TLC

CONSTANTS u1, u2, t1, t2, d1, d2, noDraft, noUser, noReserve

MCUsers == {u1, u2}
MCTasks == {t1, t2}
MCDrafts == {d1, d2}
MCReferrer == (u1 :> u2) @@ (u2 :> noUser)
MCLimit == (u1 :> 0) @@ (u2 :> 2)
MCDraftOf ==
    (d1 :> [kind |-> "purchase", user |-> u1, price |-> 2])
    @@ (d2 :> [kind |-> "renew_reserve", user |-> u1, price |-> 2])
MCPrices == {2}
MCTopUps == {2}
=============================================================================
