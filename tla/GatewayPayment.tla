--------------------------- MODULE GatewayPayment ---------------------------
(***************************************************************************)
(* A payment through a gateway that has to be asked whether it was paid:    *)
(* the rial gateways (PayPing, Aqaye Pardakht, Zibal, Zarinpal), Tronado,   *)
(* and Perfect Money, whose voucher is spent before the payment is written. *)
(* The customer's browser, refreshed at will, and the gateway's server      *)
(* bring requests; each loads the row, passes a rate limit kept in Redis,   *)
(* asks the gateway over HTTP, writes the row without a condition, tells    *)
(* the customer and launches the activation.                                *)
(***************************************************************************)
EXTENDS Naturals, FiniteSets

CONSTANT Requests   \* requests that may be under way together (a bound)

ASSUME GatewayAssumption == IsFiniteSet(Requests) /\ Requests # {}

Rial == {"payping", "aqaye", "zibal", "zarinpal"}
Providers == Rial \cup {"tronado", "perfectmoney"}

VARIABLES
    provider,    \* of the payment
    gateway,     \* "unpaid", "paid" or "verified": the gateway's own record
    status,      \* Transaction.status; "deleted" when the row is gone
    limited,     \* the key user_limited of the payment is in Redis
    launches,    \* activations the payment brought
    pc,          \* per request: where it is
    seen,        \* per request: the status it loaded
    cut,         \* a verification took effect and its answer was not used
    lapsed,      \* the limit ended while a request of its time was under way
    slipped      \* two requests were past the check together

ghosts == <<cut, lapsed, slipped>>
row == <<status, launches>>
requests == <<pc, seen>>
vars == <<provider, gateway, row, limited, requests, ghosts>>

PCs == {"idle", "checking", "setting", "asking", "committing", "telling"}

\* Types of the payment, its requests and the history variables.
GatewayTypeOK ==
    /\ provider \in Providers
    /\ gateway \in {"unpaid", "paid", "verified"}
    /\ status \in {"waiting", "finished", "deleted"}
    /\ launches \in Nat
    /\ limited \in BOOLEAN
    /\ pc \in [Requests -> PCs]
    /\ seen \in [Requests -> {"waiting", "finished"}]
    /\ cut \in BOOLEAN /\ lapsed \in BOOLEAN /\ slipped \in BOOLEAN

Init ==
    /\ provider \in Providers
    /\ gateway = "unpaid" /\ status = "waiting"
    /\ launches = 0 /\ limited = FALSE
    /\ pc = [r \in Requests |-> "idle"]
    /\ seen = [r \in Requests |-> "waiting"]
    /\ cut = FALSE /\ lapsed = FALSE /\ slipped = FALSE

-----------------------------------------------------------------------------
\* What a gateway may answer to verify, by its own record.  A second
\* verification is refused or repeated by PayPing and Aqaye Pardakht (either may
\* be), confirmed by Zibal (201) and told apart by Zarinpal (101).
PaypingVerify(g) ==
    CASE g = "unpaid" -> {"refused"} [] g = "paid" -> {"ok"} [] OTHER -> {"ok", "refused"}

AqayeVerify(g) ==
    CASE g = "unpaid" -> {"refused"} [] g = "paid" -> {"ok"} [] OTHER -> {"ok", "refused"}

\* Broken variant for PaidIsCredited: only result 100 is a success.
ZibalVerify_Only100(g) == IF g = "paid" THEN {"ok"} ELSE {"refused"}

ZibalVerify(g) == IF g = "unpaid" THEN {"refused"} ELSE {"ok"}

\* Broken variant for NoFalseAlready: any code but 100 counts as "already".
ZarinpalVerify_AnyCode(g) == IF g = "paid" THEN {"ok"} ELSE {"already"}

ZarinpalVerify(g) ==
    CASE g = "unpaid" -> {"refused"} [] g = "paid" -> {"ok"} [] OTHER -> {"already"}

\* IsPaid of the order, which asking does not change.
TronadoOrder(g) == IF g = "unpaid" THEN {"refused"} ELSE {"ok"}

\* ev_activate spends a voucher once; a used one is "used or invalid".
VoucherActivate(g) ==
    CASE g = "unpaid" -> {"refused"} [] g = "paid" -> {"ok"} [] OTHER -> {"already"}

Answers ==
    CASE provider = "payping" -> PaypingVerify(gateway)
      [] provider = "aqaye" -> AqayeVerify(gateway)
      [] provider = "zibal" -> ZibalVerify(gateway)
      [] provider = "zarinpal" -> ZarinpalVerify(gateway)
      [] provider = "tronado" -> TronadoOrder(gateway)
      [] provider = "perfectmoney" -> VoucherActivate(gateway)

\* The gateway's record after it answered.
Recorded == IF gateway = "paid" /\ provider # "tronado" THEN "verified" ELSE gateway

PastCheck == {"setting", "asking", "committing"}
Goto(r, where) == pc' = [pc EXCEPT ![r] = where]
Others(r, where) == \E q \in Requests \ {r} : pc[q] \in where

-----------------------------------------------------------------------------
\* The customer pays at the gateway, or holds a voucher.
Pay ==
    /\ gateway = "unpaid" /\ gateway' = "paid"
    /\ UNCHANGED <<provider, row, limited, requests, ghosts>>

\* A request loads its row and turns to the rate limit.
Load(r) ==
    /\ pc[r] = "idle" /\ status # "deleted"
    /\ Goto(r, "checking")
    /\ seen' = [seen EXCEPT ![r] = status]
    /\ UNCHANGED <<provider, gateway, row, limited, ghosts>>

PaypingReturn(r) == provider = "payping" /\ Load(r)
AqayeReturn(r) == provider = "aqaye" /\ Load(r)
ZibalReturn(r) == provider = "zibal" /\ Load(r)
ZarinpalReturn(r) == provider = "zarinpal" /\ Load(r)

\* /pay-json: a payment of any rial gateway.
JsonReport(r) == provider \in Rial /\ Load(r)

\* Tronado's callback has no rate limit: an unfinished row is asked about at once.
TronadoReport(r) ==
    /\ provider = "tronado" /\ pc[r] = "idle" /\ status = "waiting"
    /\ Goto(r, "asking")
    /\ seen' = [seen EXCEPT ![r] = status]
    /\ slipped' = (slipped \/ Others(r, PastCheck))
    /\ UNCHANGED <<provider, gateway, row, limited, cut, lapsed>>

\* The voucher's number is kept in the conversation; its code goes to the gateway.
VoucherCode(r) ==
    /\ provider = "perfectmoney" /\ pc[r] = "idle"
    /\ Goto(r, "asking")
    /\ UNCHANGED <<provider, gateway, row, limited, seen, ghosts>>

\* Broken variant for LaunchedOnce: the answer of the check is not looked at.
CheckLimit_Ignored(r) ==
    /\ pc[r] = "checking"
    /\ Goto(r, "setting")
    /\ slipped' = (slipped \/ (~limited /\ Others(r, {"setting"})))
    /\ UNCHANGED <<provider, gateway, row, limited, seen, cut, lapsed>>

\* RateLimit.throttled looks for the key ...
CheckLimit(r) ==
    /\ pc[r] = "checking"
    /\ Goto(r, IF limited THEN "idle" ELSE "setting")
    /\ slipped' = (slipped \/ (~limited /\ Others(r, {"setting"})))
    /\ UNCHANGED <<provider, gateway, row, limited, seen, cut, lapsed>>

\* ... and sets it in a later call; a row loaded as finished is "already paid".
SetLimit(r) ==
    /\ pc[r] = "setting"
    /\ limited' = TRUE
    /\ Goto(r, IF seen[r] = "finished" THEN "idle" ELSE "asking")
    /\ UNCHANGED <<provider, gateway, row, seen, ghosts>>

\* Eight seconds later; a verification may take fifteen, or twenty-five.
LimitExpires ==
    /\ limited /\ limited' = FALSE
    /\ lapsed' = (lapsed \/ \E r \in Requests : pc[r] \in PastCheck \cup {"checking"})
    /\ UNCHANGED <<provider, gateway, row, requests, cut, slipped>>

-----------------------------------------------------------------------------
Verified(r) ==
    /\ pc[r] = "asking" /\ "ok" \in Answers
    /\ gateway' = Recorded
    /\ Goto(r, "committing")
    /\ UNCHANGED <<provider, row, limited, seen, ghosts>>

\* GatewayError, IsPaid FALSE: the customer is told that the payment failed.
Refused(r) ==
    /\ pc[r] = "asking" /\ "refused" \in Answers
    /\ Goto(r, "idle")
    /\ UNCHANGED <<provider, gateway, row, limited, seen, ghosts>>

\* Zarinpal's 101 answers "already paid" and writes nothing; a spent voucher is
\* said to be used.
AlreadyPaid(r) ==
    /\ pc[r] = "asking" /\ "already" \in Answers
    /\ Goto(r, "idle")
    /\ UNCHANGED <<provider, gateway, row, limited, seen, ghosts>>

\* The request times out before or after the gateway took it.
AnswerLost(r) ==
    /\ pc[r] = "asking"
    /\ Goto(r, "idle")
    /\ \/ gateway' = gateway
       \/ gateway' = Recorded
    /\ cut' = (cut \/ gateway' # gateway)
    /\ UNCHANGED <<provider, row, limited, seen, lapsed, slipped>>

\* The row is written whatever it says by now (a deleted one is not there).  A
\* voucher's payment is created with its message inside the transaction.
Commit(r) ==
    /\ pc[r] = "committing"
    /\ status' = IF status = "deleted" THEN status ELSE "finished"
    /\ Goto(r, IF provider = "perfectmoney" THEN "idle" ELSE "telling")
    /\ UNCHANGED <<provider, gateway, launches, limited, seen, ghosts>>

\* The price or the database fails: the gateway's side is not undone.
CommitFails(r) ==
    /\ pc[r] = "committing"
    /\ Goto(r, "idle")
    /\ cut' = TRUE
    /\ UNCHANGED <<provider, gateway, row, limited, seen, lapsed, slipped>>

\* The customer is told, then the activation launched ...
Notify(r) ==
    /\ pc[r] = "telling"
    /\ launches' = launches + 1
    /\ Goto(r, "idle")
    /\ UNCHANGED <<provider, gateway, status, limited, seen, ghosts>>

\* ... or the message cannot be sent and the activation is lost.
NotifyFails(r) ==
    /\ pc[r] = "telling"
    /\ Goto(r, "idle")
    /\ UNCHANGED <<provider, gateway, row, limited, seen, ghosts>>

\* delete_unpaid_payments, for rows of a fortnight ago.
DeleteUnpaid ==
    /\ status = "waiting" /\ provider # "perfectmoney"
    /\ status' = "deleted"
    /\ UNCHANGED <<provider, gateway, launches, limited, requests, ghosts>>

\* The bot restarts: Redis, the database and the gateway survive.
Restart ==
    /\ cut' = (cut \/ \E r \in Requests : pc[r] = "committing")
    /\ pc' = [r \in Requests |-> "idle"]
    /\ UNCHANGED <<provider, gateway, row, limited, seen, lapsed, slipped>>

Return(r) ==
    \/ PaypingReturn(r) \/ AqayeReturn(r) \/ ZibalReturn(r) \/ ZarinpalReturn(r)
    \/ JsonReport(r) \/ TronadoReport(r) \/ VoucherCode(r)

Step(r) ==
    \/ CheckLimit(r) \/ SetLimit(r)
    \/ Verified(r) \/ Refused(r) \/ AlreadyPaid(r) \/ AnswerLost(r)
    \/ Commit(r) \/ CommitFails(r) \/ Notify(r) \/ NotifyFails(r)

Next ==
    \/ Pay \/ LimitExpires \/ DeleteUnpaid \/ Restart
    \/ \E r \in Requests : Return(r) \/ Step(r)

\* The customer refreshes the page and gateways repeat their calls, Redis drops
\* the key, and the gateway, the database and the bot do not fail for ever.
Fairness ==
    /\ WF_vars(LimitExpires)
    /\ \A r \in Requests :
          /\ WF_vars(Step(r)) /\ SF_vars(Return(r))
          /\ SF_vars(CheckLimit(r) /\ ~limited) /\ SF_vars(SetLimit(r))
          /\ SF_vars(Verified(r)) /\ SF_vars(Commit(r))

Spec == Init /\ [][Next]_vars /\ Fairness

-----------------------------------------------------------------------------
\* A payment activates its service once, although the row is written without a
\* condition: only if the rate limit ended while a request of its time was under
\* way, or two requests were past its check together, can it be twice.
\* Zarinpal and a voucher exclude even that (views.py of the gateways).
LaunchedOnce ==
    launches > 1 => /\ lapsed \/ slipped
                    /\ provider \notin {"zarinpal", "perfectmoney"}

\* Only known statuses are stored, and a payment activates its service once.
GatewaySound == GatewayTypeOK /\ LaunchedOnce

\* "Already paid" is said without reading the row again, on the gateway's word:
\* it is only said for a payment that is not credited if an earlier verification
\* took effect and was not used, or is being written (zarinpal_verify_payment,
\* perfect_money_get_evcode: that customer paid and gets nothing).
NoFalseAlready ==
    [][\A r \in Requests :
        AlreadyPaid(r) => \/ status = "finished" \/ cut
                          \/ status = "deleted"
                          \/ Others(r, {"committing"})]_vars

\* A customer who paid through Zibal or Tronado is credited in the end, whatever
\* answers were lost, for the verification may be repeated.
PaidIsCredited ==
    (gateway = "paid" /\ provider \in {"zibal", "tronado"}) ~> (status # "waiting")
=============================================================================
