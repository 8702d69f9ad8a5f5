---------------------------- MODULE CryptoPayment ----------------------------
(***************************************************************************)
(* Crypto invoices of Plisio and NowPayments.  Gateway callbacks (delayed,  *)
(* duplicated, out of order), the customer's check and cancel buttons, the  *)
(* web panel's review queue and the 15-second sync job all bring reports of *)
(* the gateway to one finalizer, which works on a row it loaded earlier.    *)
(***************************************************************************)
EXTENDS Naturals, Sequences, FiniteSets

CONSTANTS
    Payments,
    Requests,   \* callbacks and button presses, one use each (a bound)
    Sync,       \* the job sync_settings, which runs again and again
    MaxQueue    \* bound: length of a payment's review queue

ASSUME CryptoAssumption ==
    /\ Payments # {} /\ IsFiniteSet(Requests) /\ Sync \notin Requests
    /\ MaxQueue \in Nat

Procs == Requests \cup {Sync}
Providers == {"plisio", "nowpayments"}

\* What a gateway reports: "paid" with the invoice's price, "mispaid" with
\* another one; "cancelled" is also NowPayments' "refunded".
Reports == {"new", "confirming", "sending", "paid", "mispaid", "partial",
            "expired", "cancelled", "failed"}

Statuses == {"waiting", "confirming", "sending", "partially_paid", "finished",
             "canceled", "failed", "deleted"}

VARIABLES
    provider,    \* of each payment
    gateway,     \* what the gateway would report now
    sent,        \* reports it has sent, any of which may still arrive (again)
    status,      \* Transaction.status; "deleted" when the row is gone
    queue,       \* the review queue in Redis
    credits,     \* times the row was claimed
    launches,    \* times activate_service was launched
    reopened,    \* times a finished row was set to another status
    approved,    \* an admin approved it by hand
    pc, at       \* per invocation: where it is, and what it works on

payment == <<status, credits, launches, reopened>>
outside == <<provider, gateway, sent>>
vars == <<outside, payment, queue, approved, pc, at>>

PCs == {"idle", "asking", "reported", "approving", "cancelling", "notifying", "done"}

\* "settled": the row it loaded had a terminal status.
Work == [pay: Payments, via: {"report", "approve"}, settled: BOOLEAN, report: Reports]

CryptoTypeOK ==
    /\ provider \in [Payments -> Providers]
    /\ gateway \in [Payments -> Reports]
    /\ sent \in [Payments -> SUBSET Reports]
    /\ status \in [Payments -> Statuses]
    /\ queue \in [Payments -> Seq({"approve", "check"})]
    /\ credits \in [Payments -> Nat] /\ launches \in [Payments -> Nat]
    /\ reopened \in [Payments -> Nat]
    /\ approved \subseteq Payments
    /\ pc \in [Procs -> PCs]
    /\ at \in [Procs -> Work]

NoWork == [pay |-> CHOOSE p \in Payments : TRUE, via |-> "report",
           settled |-> FALSE, report |-> "new"]

Init ==
    /\ provider \in [Payments -> Providers]
    /\ gateway = [p \in Payments |-> "new"]
    /\ sent = [p \in Payments |-> {}]
    /\ status = [p \in Payments |-> "waiting"]
    /\ queue = [p \in Payments |-> <<>>]
    /\ credits = [p \in Payments |-> 0] /\ launches = [p \in Payments |-> 0]
    /\ reopened = [p \in Payments |-> 0]
    /\ approved = {}
    /\ pc = [h \in Procs |-> "idle"]
    /\ at = [h \in Procs |-> NoWork]

-----------------------------------------------------------------------------
\* The life of an invoice at the gateway.
GatewayMoves ==
    [plisio |-> {<<"new", "confirming">>, <<"new", "expired">>, <<"new", "cancelled">>,
                 <<"confirming", "paid">>, <<"confirming", "mispaid">>,
                 <<"confirming", "failed">>},
     nowpayments |-> {<<"new", "confirming">>, <<"new", "expired">>,
                      <<"confirming", "sending">>, <<"confirming", "partial">>,
                      <<"sending", "paid">>, <<"sending", "mispaid">>,
                      <<"sending", "failed">>, <<"partial", "paid">>,
                      <<"paid", "cancelled">>}]

\* The status a report other than "paid" gives the row (pending, sending, failed
\* and review branches of the two finalizers).
StatusFor ==
    [plisio |-> [new |-> "waiting", confirming |-> "confirming", mispaid |-> "failed",
                 expired |-> "failed", failed |-> "failed", cancelled |-> "canceled"],
     nowpayments |-> [new |-> "waiting", confirming |-> "confirming", sending |-> "sending",
                      mispaid |-> "partially_paid", partial |-> "partially_paid",
                      expired |-> "canceled", cancelled |-> "canceled", failed |-> "failed"]]

\* Statuses no claim and no report may start from.
Terminal(p) ==
    IF provider[p] = "plisio" THEN {"finished", "partially_paid"} ELSE {"finished"}

\* Broken variant for PaymentSettles: Plisio's filter for both providers.
AutoChecked_NoSending(p) == {"waiting", "confirming"}

\* Statuses the sync job asks the gateway about.
AutoChecked(p) ==
    {"waiting", "confirming"} \cup IF provider[p] = "nowpayments" THEN {"sending"} ELSE {}

Pay(h) == at[h].pay
Begin(h, where, w) ==
    /\ pc[h] = "idle"
    /\ pc' = [pc EXCEPT ![h] = where]
    /\ at' = [at EXCEPT ![h] = w]
Proceed(h, where) == pc' = [pc EXCEPT ![h] = where] /\ UNCHANGED at
Finish(h) ==
    /\ pc' = [pc EXCEPT ![h] = IF h = Sync THEN "idle" ELSE "done"]
    /\ at' = [at EXCEPT ![h] = NoWork]
Loaded(p, via, r) ==
    [pay |-> p, via |-> via, settled |-> status[p] \in Terminal(p), report |-> r]

-----------------------------------------------------------------------------
GatewayMove(p, r) ==
    /\ <<gateway[p], r>> \in GatewayMoves[provider[p]]
    /\ gateway' = [gateway EXCEPT ![p] = r]
    /\ sent' = [sent EXCEPT ![p] = @ \cup {r}]
    /\ UNCHANGED <<provider, payment, queue, approved, pc, at>>

\* A signed callback arrives and its row is loaded.
Callback(h, p, r) ==
    /\ h \in Requests /\ r \in sent[p]
    /\ status[p] # "deleted"
    /\ Begin(h, "reported", Loaded(p, "report", r))
    /\ UNCHANGED <<outside, payment, queue, approved>>

\* The buttons "check" of the customer and "accept" of an admin.
CheckButton(h, p) ==
    /\ h \in Requests /\ status[p] \notin {"finished", "deleted"}
    /\ Begin(h, "asking", Loaded(p, "report", "new"))
    /\ UNCHANGED <<outside, payment, queue, approved>>

\* cancel_invoice loads the row, which must not be finished.
CancelButton(h, p) ==
    /\ h \in Requests /\ status[p] \notin {"finished", "deleted"}
    /\ Begin(h, "cancelling", Loaded(p, "report", "new"))
    /\ UNCHANGED <<outside, payment, queue, approved>>

\* The web panel queues a check, or the approval of an unfinished payment.
WebRequest(p, action) ==
    /\ Len(queue[p]) < MaxQueue
    /\ status[p] # "deleted"
    /\ action = "approve" => status[p] # "finished"
    /\ queue' = [queue EXCEPT ![p] = Append(@, action)]
    /\ UNCHANGED <<outside, payment, approved, pc, at>>

\* The sync job pops an item; one whose row is gone or settled does nothing.
PopCheck(p) ==
    /\ queue[p] # <<>> /\ Head(queue[p]) = "check"
    /\ queue' = [queue EXCEPT ![p] = Tail(@)]
    /\ IF status[p] = "deleted" THEN pc[Sync] = "idle" /\ UNCHANGED <<pc, at>>
       ELSE Begin(Sync, "asking", Loaded(p, "report", "new"))
    /\ UNCHANGED <<outside, payment, approved>>

PopApprove(p) ==
    /\ queue[p] # <<>> /\ Head(queue[p]) = "approve"
    /\ queue' = [queue EXCEPT ![p] = Tail(@)]
    /\ IF status[p] \in Terminal(p) \cup {"deleted"}
       THEN pc[Sync] = "idle" /\ UNCHANGED <<approved, pc, at>>
       ELSE /\ Begin(Sync, "approving", Loaded(p, "approve", "new"))
            /\ approved' = approved \cup {p}
    /\ UNCHANGED <<outside, payment>>

\* auto_check_*_payments
AutoCheck(p) ==
    /\ status[p] \in AutoChecked(p)
    /\ Begin(Sync, "asking", Loaded(p, "report", "new"))
    /\ UNCHANGED <<outside, payment, queue, approved>>

\* The gateway answers with its present report, or the request fails.
Answered(h) ==
    /\ pc[h] = "asking"
    /\ pc' = [pc EXCEPT ![h] = "reported"]
    /\ at' = [at EXCEPT ![h].report = gateway[Pay(h)]]
    /\ UNCHANGED <<outside, payment, queue, approved>>

Unanswered(h) ==
    /\ pc[h] = "asking"
    /\ Finish(h)
    /\ UNCHANGED <<outside, payment, queue, approved>>

-----------------------------------------------------------------------------
\* The finalizer: the row it loaded was settled, only extra_data is saved.
AlreadyFinished(h) ==
    /\ pc[h] = "reported" /\ at[h].settled
    /\ Finish(h)
    /\ UNCHANGED <<outside, payment, queue, approved>>

\* Broken variant for PaidFirst: the amounts are not compared.
Claims_AnyAmount(h) ==
    \/ pc[h] = "approving"
    \/ /\ pc[h] = "reported" /\ ~at[h].settled
       /\ at[h].report \in {"paid", "mispaid"}

\* It reports a payment with the right amount, or an admin approved it.
Claims(h) ==
    \/ pc[h] = "approving"
    \/ /\ pc[h] = "reported" /\ ~at[h].settled
       /\ at[h].report = "paid"

\* Broken variant for ClaimsAccounted: the row is saved without a condition.
Claim_Unconditional(h) ==
    /\ Claims(h)
    /\ status' = [status EXCEPT ![Pay(h)] = "finished"]
    /\ credits' = [credits EXCEPT ![Pay(h)] = @ + 1]
    /\ Proceed(h, "notifying")
    /\ UNCHANGED <<outside, launches, reopened, queue, approved>>

\* Broken variant for LaunchedByClaim: the caller that lost the claim goes on.
Claim_LoserGoesOn(h) ==
    LET p == Pay(h)
        won == status[p] \notin Terminal(p) \cup {"deleted"}
    IN  /\ Claims(h)
        /\ status' = [status EXCEPT ![p] = IF won THEN "finished" ELSE @]
        /\ credits' = [credits EXCEPT ![p] = IF won THEN @ + 1 ELSE @]
        /\ Proceed(h, "notifying")
        /\ UNCHANGED <<outside, launches, reopened, queue, approved>>

\* The conditional update: the one caller that flips the row goes on to notify
\* and activate.
Claim(h) ==
    LET p == Pay(h)
    IN  /\ Claims(h)
        /\ IF status[p] \notin Terminal(p) \cup {"deleted"}
           THEN /\ status' = [status EXCEPT ![p] = "finished"]
                /\ credits' = [credits EXCEPT ![p] = @ + 1]
                /\ Proceed(h, "notifying")
           ELSE Finish(h) /\ UNCHANGED <<status, credits>>
        /\ UNCHANGED <<outside, launches, reopened, queue, approved>>

\* An unconditional update of the row, if it is still there.
SetStatus(p, s) ==
    /\ status' = [status EXCEPT ![p] = IF @ = "deleted" THEN @ ELSE s]
    /\ reopened' = [reopened EXCEPT ![p] = IF status[p] = "finished" THEN @ + 1 ELSE @]

\* Any other report sets the status whatever the row says by now.
Record(h) ==
    /\ pc[h] = "reported" /\ ~at[h].settled /\ ~Claims(h)
    /\ SetStatus(Pay(h), StatusFor[provider[Pay(h)]][at[h].report])
    /\ Finish(h)
    /\ UNCHANGED <<outside, credits, launches, queue, approved>>

\* cancel_invoice goes on with the row it loaded.
Cancel(h) ==
    /\ pc[h] = "cancelling"
    /\ SetStatus(Pay(h), "canceled")
    /\ Finish(h)
    /\ UNCHANGED <<outside, credits, launches, queue, approved>>

\* The claimer tells the user and launches activate_service ...
Notify(h) ==
    /\ pc[h] = "notifying"
    /\ launches' = [launches EXCEPT ![Pay(h)] = @ + 1]
    /\ Finish(h)
    /\ UNCHANGED <<outside, status, credits, reopened, queue, approved>>

\* ... or the message cannot be sent, which only Plisio's manual approval survives.
NotifyFails(h) ==
    /\ pc[h] = "notifying"
    /\ ~(provider[Pay(h)] = "plisio" /\ at[h].via = "approve")
    /\ Finish(h)
    /\ UNCHANGED <<outside, payment, queue, approved>>

\* delete_unpaid_payments, for rows of a fortnight ago.
DeleteUnpaid(p) ==
    /\ status[p] \notin {"finished", "partially_paid", "deleted"}
    /\ status' = [status EXCEPT ![p] = "deleted"]
    /\ UNCHANGED <<outside, credits, launches, reopened, queue, approved, pc, at>>

\* The bot restarts: only the database and Redis survive.
Restart ==
    /\ pc' = [h \in Procs |-> IF h = Sync \/ pc[h] = "idle" THEN "idle" ELSE "done"]
    /\ at' = [h \in Procs |-> NoWork]
    /\ UNCHANGED <<outside, payment, queue, approved>>

Step(h) ==
    \/ Answered(h) \/ Unanswered(h) \/ AlreadyFinished(h) \/ Claim(h)
    \/ Record(h) \/ Cancel(h) \/ Notify(h) \/ NotifyFails(h)

Next ==
    \/ \E p \in Payments, r \in Reports : GatewayMove(p, r)
    \/ \E h \in Requests, p \in Payments :
          \/ \E r \in Reports : Callback(h, p, r)
          \/ CheckButton(h, p) \/ CancelButton(h, p)
    \/ \E p \in Payments :
          \/ \E action \in {"approve", "check"} : WebRequest(p, action)
          \/ PopCheck(p) \/ PopApprove(p) \/ AutoCheck(p) \/ DeleteUnpaid(p)
    \/ \E h \in Procs : Step(h)
    \/ Restart

\* Every tick of the job drains the queue and then auto-checks (ten payments, the
\* oldest first: assumed to be all the open ones); the gateway does not fail for
\* ever, and the bot does not restart for ever in the same place.
Fairness ==
    /\ WF_vars(Step(Sync)) /\ SF_vars(Answered(Sync))
    /\ SF_vars(AlreadyFinished(Sync) \/ Claim(Sync) \/ Record(Sync))
    /\ \A p \in Payments : SF_vars(AutoCheck(p))

Spec == Init /\ [][Next]_vars /\ Fairness

-----------------------------------------------------------------------------
\* Every credit is the row's one finished state or was undone by a stale update:
\* callers that race to finish the row never credit it twice (finalize_*_payment,
\* manual_approve_*_payment).
ClaimsAccounted ==
    \A p \in Payments : credits[p] = reopened[p] + (IF status[p] = "finished" THEN 1 ELSE 0)

\* Only known statuses are stored, and every credit is accounted for.
CryptoSound == CryptoTypeOK /\ ClaimsAccounted

\* Only a caller that claimed the row launches its activation, once.
LaunchedByClaim ==
    \A p \in Payments : \A h \in Procs :
        launches[p] + (IF pc[h] = "notifying" /\ Pay(h) = p THEN 1 ELSE 0) <= credits[p]

\* Nothing is credited unless the gateway reported the whole price or an admin
\* approved the payment: a mispaid or partial one waits for review.
PaidFirst ==
    \A p \in Payments : credits[p] > 0 => "paid" \in sent[p] \/ p \in approved

\* A paid invoice whose callback is lost does not stay open: the sync job settles
\* it (auto_check_plisio_payments, auto_check_nowpayments_payments).
PaymentSettles ==
    \A p \in Payments :
        (gateway[p] = "paid" /\ status[p] \in {"waiting", "confirming", "sending"})
            ~> status[p] \notin {"waiting", "confirming", "sending"}

\* plisio_service, nowpayments_service: a paid invoice can only credit and
\* activate once.  It fails: a report or a cancellation that loaded the row before
\* the claim reopens it, and the next report claims it again.
ClaimOnce == \A p \in Payments : credits[p] <= 1
=============================================================================
