---------------------------- MODULE PaymentLedger ----------------------------
(***************************************************************************)
(* What a payment method promises the wallet: a payment is credited at most *)
(* once and only while it is pending, and the service it paid for is        *)
(* activated at most once and only after the credit.  A payment may be      *)
(* closed, a credited one too, which reverses it.  An operator may count a  *)
(* payment as paid by decree, which is no credit and activates nothing.     *)
(***************************************************************************)
EXTENDS Naturals

CONSTANT Payments

VARIABLES
    paid,       \* "pending", "credited" or "closed"
    credits,    \* times the payment was credited
    launches    \* times its activation job was launched

vars == <<paid, credits, launches>>

Init ==
    /\ paid = [p \in Payments |-> "pending"]
    /\ credits = [p \in Payments |-> 0]
    /\ launches = [p \in Payments |-> 0]

Credit(p) ==
    /\ paid[p] = "pending"
    /\ paid' = [paid EXCEPT ![p] = "credited"]
    /\ credits' = [credits EXCEPT ![p] = @ + 1]
    /\ UNCHANGED launches

Launch(p) ==
    /\ launches[p] < credits[p]
    /\ launches' = [launches EXCEPT ![p] = @ + 1]
    /\ UNCHANGED <<paid, credits>>

Close(p) ==
    /\ paid[p] \in {"pending", "credited"}
    /\ paid' = [paid EXCEPT ![p] = "closed"]
    /\ UNCHANGED <<credits, launches>>

\* An operator counts a payment as paid by decree: it activates nothing.
Overrule(p) ==
    /\ paid[p] # "credited"
    /\ paid' = [paid EXCEPT ![p] = "credited"]
    /\ UNCHANGED <<credits, launches>>

Next == \E p \in Payments : Credit(p) \/ Launch(p) \/ Close(p) \/ Overrule(p)

Spec == Init /\ [][Next]_vars

TypeOK ==
    /\ paid \in [Payments -> {"pending", "credited", "closed"}]
    /\ credits \in [Payments -> Nat]
    /\ launches \in [Payments -> Nat]

\* At most one credit and at most one activation per payment.
AtMostOnce == \A p \in Payments : credits[p] <= 1 /\ launches[p] <= credits[p]
=============================================================================
