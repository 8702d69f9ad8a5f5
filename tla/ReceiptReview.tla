---------------------------- MODULE ReceiptReview ----------------------------
(***************************************************************************)
(* Card-to-card payments: a receipt waits for review, several admins (and   *)
(* the automatic acceptance of trusted users) accept or reject it at the    *)
(* same time, an accepted one launches the activation job, rejecting an     *)
(* accepted one revokes what was activated, and a super user overrules all. *)
(* The jobs and the users' own operations are those of Wallet; here the     *)
(* credit comes from the receipts.                                          *)
(***************************************************************************)
EXTENDS Wallet

CONSTANTS
    Receipts,     \* card-to-card transactions; those in Drafts pay a service
    ReceiptUser,  \* [Receipts -> Users]
    Amount,       \* [Receipts -> Nat]
    Reviewers     \* concurrent invocations of the review handlers

ASSUME ReceiptAssumption ==
    /\ Receipts # {}
    /\ Drafts \subseteq Receipts
    /\ ReceiptUser \in [Receipts -> Users]
    /\ Amount \in [Receipts -> Nat]
    /\ \A d \in Drafts : DraftOf[d].user = ReceiptUser[d]

VARIABLES
    status,    \* Transaction.status
    jobs,      \* activation jobs launched and not yet started
    desk,      \* where each review handler is, and on which receipt
    credits,   \* times the receipt was accepted
    launches,  \* times its activation was launched
    removed,   \* receipts whose account a revocation removed from the panel
    raced      \* receipts revoked while their activation was under way or could start

review == <<status, jobs, desk, credits, launches, removed, raced>>
allVars == <<vars, review>>

DeskSteps == {"idle", "accepting", "notifying", "overruling", "rejecting", "revoking",
              "removing", "voiding", "marking"}

ReviewTypeOK ==
    /\ TypeOK
    /\ status \in [Receipts -> {"waiting", "finished", "rejected"}]
    /\ jobs \in [Receipts -> Nat]
    /\ desk \in [Reviewers -> [at: DeskSteps, receipt: Receipts]]
    /\ credits \in [Receipts -> Nat] /\ launches \in [Receipts -> Nat]
    /\ removed \subseteq Receipts /\ raced \subseteq Receipts

ReviewInit ==
    /\ Init
    /\ status = [r \in Receipts |-> "waiting"]
    /\ jobs = [r \in Receipts |-> 0]
    /\ desk = [a \in Reviewers |-> [at |-> "idle", receipt |-> CHOOSE r \in Receipts : TRUE]]
    /\ credits = [r \in Receipts |-> 0] /\ launches = [r \in Receipts |-> 0]
    /\ removed = {} /\ raced = {}

-----------------------------------------------------------------------------
Sit(a, where, r) == desk' = [desk EXCEPT ![a] = [at |-> where, receipt |-> r]]
Move(a, where) == desk' = [desk EXCEPT ![a].at = where]
At(a, where) == desk[a].at = where
On(a) == desk[a].receipt

\* The job of receipt r is about to be launched, launched or running.
Activating(r) ==
    \/ \E a \in Reviewers : At(a, "notifying") /\ On(a) = r
    \/ jobs[r] > 0
    \/ \E t \in Tasks : job[t].draft = r /\ pc[t] \notin {"idle", "done"}

\* admin_accept: the loaded row must be waiting.
OpenAccept(a, r) ==
    /\ At(a, "idle") /\ status[r] = "waiting"
    /\ Sit(a, "accepting", r)
    /\ UNCHANGED <<vars, status, jobs, credits, launches, removed, raced>>

\* get_card_to_card_reciepts of a user with card_to_card_auto_accept: the
\* receipt is accepted without looking at the loaded row.
OpenAutoAccept(a, r) ==
    /\ At(a, "idle")
    /\ Sit(a, "accepting", r)
    /\ UNCHANGED <<vars, status, jobs, credits, launches, removed, raced>>

\* admin_reject of a row loaded as waiting, or of one loaded as finished once the
\* admin confirmed; admin_reject_trx, a super user's, revokes either.  A row
\* loaded as rejected is only shown again.
OpenReject(a, r) ==
    /\ At(a, "idle")
    /\ \/ status[r] = "waiting" /\ Sit(a, "rejecting", r)
       \/ status[r] # "rejected" /\ Sit(a, "revoking", r)
    /\ UNCHANGED <<vars, status, jobs, credits, launches, removed, raced>>

\* admin_accept_trx: a super user accepts a row loaded as not finished, a
\* rejected one too; the row is saved whatever it is by then, nothing is launched.
OpenOverrule(a, r) ==
    /\ At(a, "idle") /\ status[r] # "finished"
    /\ Sit(a, "overruling", r)
    /\ UNCHANGED <<vars, status, jobs, credits, launches, removed, raced>>

Overrule(a) ==
    /\ At(a, "overruling")
    /\ status' = [status EXCEPT ![On(a)] = "finished"]
    /\ credit' = IF status[On(a)] = "finished" THEN credit
                 ELSE [credit EXCEPT ![ReceiptUser[On(a)]] = @ + Amount[On(a)]]
    /\ Move(a, "idle")
    /\ UNCHANGED <<billed, draft, sold, remote, renewals, extended, reserve>>
    /\ UNCHANGED <<locked, giftVars, pc, locals, jobs, credits, launches, removed, raced>>

\* Broken variant for RefinesLedger: the row is saved, not updated conditionally.
FinishWaiting_SavesRow(a) ==
    /\ At(a, "accepting")
    /\ status' = [status EXCEPT ![On(a)] = "finished"]
    /\ credit' = [credit EXCEPT ![ReceiptUser[On(a)]] = @ + Amount[On(a)]]
    /\ credits' = [credits EXCEPT ![On(a)] = @ + 1]
    /\ Move(a, "notifying")
    /\ UNCHANGED <<billed, draft, sold, remote, renewals, extended, reserve>>
    /\ UNCHANGED <<locked, giftVars, pc, locals, jobs, launches, removed, raced>>

\* Broken variant for OneActivation: the handler that lost the update launches
\* the activation too.
FinishWaiting_LoserNotifies(a) ==
    /\ At(a, "accepting")
    /\ IF status[On(a)] = "waiting"
       THEN /\ status' = [status EXCEPT ![On(a)] = "finished"]
            /\ credit' = [credit EXCEPT ![ReceiptUser[On(a)]] = @ + Amount[On(a)]]
            /\ credits' = [credits EXCEPT ![On(a)] = @ + 1]
       ELSE UNCHANGED <<status, credit, credits>>
    /\ Move(a, "notifying")
    /\ UNCHANGED <<billed, draft, sold, remote, renewals, extended, reserve>>
    /\ UNCHANGED <<locked, giftVars, pc, locals, jobs, launches, removed, raced>>

\* _finish_waiting_transaction: an update conditional on waiting.  The handler
\* that made it goes on to notify the user.
FinishWaiting(a) ==
    /\ At(a, "accepting")
    /\ IF status[On(a)] = "waiting"
       THEN /\ status' = [status EXCEPT ![On(a)] = "finished"]
            /\ credit' = [credit EXCEPT ![ReceiptUser[On(a)]] = @ + Amount[On(a)]]
            /\ credits' = [credits EXCEPT ![On(a)] = @ + 1]
            /\ Move(a, "notifying")
       ELSE Move(a, "idle") /\ UNCHANGED <<status, credit, credits>>
    /\ UNCHANGED <<billed, draft, sold, remote, renewals, extended, reserve>>
    /\ UNCHANGED <<locked, giftVars, pc, locals, jobs, launches, removed, raced>>

\* The message to the user is sent and activate_service is launched ...
Notify(a) ==
    /\ At(a, "notifying")
    /\ jobs' = [jobs EXCEPT ![On(a)] = @ + 1]
    /\ launches' = [launches EXCEPT ![On(a)] = @ + 1]
    /\ Move(a, "idle")
    /\ UNCHANGED <<vars, status, credits, removed, raced>>

\* ... or sending raises (the user blocked the bot) and nothing is launched.
NotifyFails(a) ==
    /\ At(a, "notifying")
    /\ Move(a, "idle")
    /\ UNCHANGED <<vars, status, jobs, credits, launches, removed, raced>>

\* _reject_waiting_transaction: conditional on waiting.
RejectWaiting(a) ==
    /\ At(a, "rejecting")
    /\ status' = IF status[On(a)] = "waiting"
                 THEN [status EXCEPT ![On(a)] = "rejected"] ELSE status
    /\ Move(a, "idle")
    /\ UNCHANGED <<vars, jobs, credits, launches, removed, raced>>

\* Broken variant for RevokeCleans: the invoices are not looked for.
RevokeRead_OnlyMarks(a) ==
    /\ At(a, "revoking")
    /\ Move(a, "marking")
    /\ raced' = IF Activating(On(a)) THEN raced \cup {On(a)} ELSE raced
    /\ UNCHANGED <<vars, status, jobs, credits, launches, removed>>

\* The activation is under way, or the receipt may yet be accepted.
MayActivate(r) == Activating(r) \/ status[r] # "finished"

\* revoke_activated_transaction reads the transaction's non-draft invoices.
RevokeRead(a) ==
    /\ At(a, "revoking")
    /\ IF On(a) \in Drafts /\ draft[On(a)] = "paid"
       THEN Move(a, IF DraftOf[On(a)].kind = "purchase" THEN "removing" ELSE "voiding")
       ELSE Move(a, "marking")
    /\ raced' = IF MayActivate(On(a)) THEN raced \cup {On(a)} ELSE raced
    /\ UNCHANGED <<vars, status, jobs, credits, launches, removed>>

\* _remove_proxy_from_panel, best effort, of an account that is still there.
RevokeRemove(a) ==
    LET r == On(a)
        gone == IF r \in removed THEN {} ELSE {r}
    IN  /\ At(a, "removing")
        /\ \E now \in SUBSET gone :
              /\ removed' = removed \cup now
              /\ remote' = [remote EXCEPT ![ReceiptUser[r]] = @ - Cardinality(now)]
        /\ Move(a, "voiding")
        /\ UNCHANGED <<credit, billed, draft, sold, renewals, extended, reserve>>
        /\ UNCHANGED <<locked, giftVars, pc, locals, status, jobs, credits, launches, raced>>

\* It deletes the invoice it found: of a purchase with its proxy; of a reserved
\* renewal the Reserve row goes by cascade; an immediate renewal stays extended
\* on the panel.
RevokeVoid(a) ==
    LET r == On(a)
        u == ReceiptUser[r]
        kind == DraftOf[r].kind
    IN  /\ At(a, "voiding")
        /\ IF draft[r] = "paid"
           THEN /\ draft' = [draft EXCEPT ![r] = "void"]
                /\ billed' = [billed EXCEPT ![u][kind] = @ - DraftOf[r].price]
                /\ sold' = [sold EXCEPT ![u] = IF kind = "purchase" THEN @ - 1 ELSE @]
                /\ reserve' = IF reserve[u] = r
                              THEN [reserve EXCEPT ![u] = NoReserve] ELSE reserve
           ELSE UNCHANGED <<draft, billed, sold, reserve>>
        /\ Move(a, "marking")
        /\ UNCHANGED <<credit, remote, renewals, extended, locked, giftVars, pc, locals>>
        /\ UNCHANGED <<status, jobs, credits, launches, removed, raced>>

\* It saves status = rejected, which its own loaded row is not.
RevokeMark(a) ==
    /\ At(a, "marking")
    /\ status' = [status EXCEPT ![On(a)] = "rejected"]
    /\ credit' = IF status[On(a)] = "finished"
                 THEN [credit EXCEPT ![ReceiptUser[On(a)]] = @ - Amount[On(a)]] ELSE credit
    /\ Move(a, "idle")
    /\ UNCHANGED <<billed, draft, sold, remote, renewals, extended, reserve>>
    /\ UNCHANGED <<locked, giftVars, pc, locals, jobs, credits, launches, removed, raced>>

-----------------------------------------------------------------------------
\* The launched job starts: as a Wallet task, or it finds no draft and returns.
StartJob(t, r) ==
    /\ jobs[r] > 0
    /\ r \in Drafts
    /\ RunDraft(t, r)
    /\ jobs' = [jobs EXCEPT ![r] = @ - 1]
    /\ UNCHANGED <<status, desk, credits, launches, removed, raced>>

JobReturns(r) ==
    /\ jobs[r] > 0
    /\ r \in Drafts => draft[r] # "draft"
    /\ jobs' = [jobs EXCEPT ![r] = @ - 1]
    /\ UNCHANGED <<vars, status, desk, credits, launches, removed, raced>>

\* The process restarts: review handlers and launched jobs are gone with it.
ReviewRestart ==
    /\ Restart
    /\ jobs' = [r \in Receipts |-> 0]
    /\ desk' = [a \in Reviewers |-> [desk[a] EXCEPT !.at = "idle"]]
    /\ UNCHANGED <<status, credits, launches, removed, raced>>

ReviewStep(a) ==
    \/ FinishWaiting(a) \/ Notify(a) \/ NotifyFails(a) \/ RejectWaiting(a)
    \/ Overrule(a) \/ RevokeRead(a) \/ RevokeRemove(a) \/ RevokeVoid(a) \/ RevokeMark(a)

ReviewNext ==
    \/ \E a \in Reviewers, r \in Receipts :
          OpenAccept(a, r) \/ OpenAutoAccept(a, r) \/ OpenReject(a, r) \/ OpenOverrule(a, r)
    \/ \E a \in Reviewers : ReviewStep(a)
    \/ \E t \in Tasks, r \in Receipts : StartJob(t, r)
    \/ \E r \in Receipts : JobReturns(r)
    \/ \E t \in Tasks : TaskStep(t) /\ UNCHANGED review
    \/ \E t \in Tasks, u \in Users, p \in Prices : BeginPurchase(t, u, p) /\ UNCHANGED review
    \/ ReviewRestart

ReviewSpec == ReviewInit /\ [][ReviewNext]_allVars

-----------------------------------------------------------------------------
\* Transaction.status as the ledger sees it.
Paid ==
    LET seen == [waiting |-> "pending", finished |-> "credited", rejected |-> "closed"]
    IN  [r \in Receipts |-> seen[status[r]]]

Ledger == INSTANCE PaymentLedger WITH Payments <- Receipts, paid <- Paid

\* However reviewers race, card-to-card payments keep the promise of
\* PaymentLedger (the conditional updates _finish_waiting_transaction and
\* _reject_waiting_transaction).
RefinesLedger == Ledger!Spec

\* A draft is used by at most one activation over its whole life: launched,
\* running and done never overlap, so one receipt never buys twice.
OneActivation ==
    \A d \in Drafts :
        LET running == {t \in Tasks : job[t].draft = d /\ pc[t] \notin {"idle", "done"}}
        IN  /\ Cardinality(running) + jobs[d] <= 1
            /\ draft[d] = "paid" => jobs[d] = 0 /\ running = {}

\* The rows of the wallet stay well typed under reviews, and no draft is activated twice.
ReviewSound == ReviewTypeOK /\ OneActivation

\* A rejected receipt keeps an activated invoice only if it was revoked while
\* its activation job was under way or could still be launched
\* (jobs.revoke_activated_transaction).
RevokeCleans ==
    \A d \in Drafts : status[d] = "rejected" /\ draft[d] = "paid" => d \in raced

\* The docstring of revoke_activated_transaction: rejecting an accepted payment
\* undoes the activation so the customer can't keep a free subscription and the
\* balance can't go negative.  It fails: the job commits after the invoices were
\* read, on a balance it read before the rejection.
NoFreeSubscription ==
    \A d \in Drafts :
        status[d] = "rejected" /\ draft[d] = "paid" /\ ~Activating(d)
            => AvailableCredit(ReceiptUser[d]) >= 0
=============================================================================
