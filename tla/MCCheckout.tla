----------------------------- MODULE MCCheckout -----------------------------
(* Three installations that share the ten gateways, small amounts. *)
EXTENDS Checkout

MCShops == {{"card_to_card", "plisio", "payping", "zarinpal"},
            {"perfect_money", "nowpayments", "zibal"},
            {"tronado", "swapino", "aqaye"}}
MCRial == {"payping", "zarinpal", "zibal", "aqaye"}
MCFirstMin == [m \in UNION MCShops |->
                 IF m \in {"card_to_card", "payping", "zibal", "swapino"} THEN 1 ELSE 2]
=============================================================================
