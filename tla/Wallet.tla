------------------------------- MODULE Wallet -------------------------------
(***************************************************************************)
(* The bot process spending users' wallets: a purchase                      *)
(* (purchase.activate_service), an immediate renewal (renew_proxy_now) and  *)
(* a reserved renewal (renew_proxy_reserve), each started by a button or by *)
(* the background job that turns a paid draft invoice into a service        *)
(* (jobs.activate_service).                                                 *)
(*                                                                          *)
(* The process is one asyncio loop: a step is the code between two awaits   *)
(* that other handlers can observe.  A database transaction shows its       *)
(* writes when it commits and its first read fixes what it sees of the      *)
(* draft invoice.  Each user owns one proxy that can be renewed.            *)
(***************************************************************************)
EXTENDS Integers, FiniteSets

CONSTANTS
    Users,            \* customers
    Tasks,            \* handler invocations and background jobs, one use each
    Drafts,           \* draft invoices opened together with a payment
    NoDraft, NoUser,  \* "no invoice_id", "no referrer"
    NoReserve,        \* the user's proxy has no Reserve row
    Prices,           \* what services cost after discount
    TopUps,           \* amounts of payments that finish
    MaxCredit,        \* bound: payments finish only up to this credit
    Referrer,         \* [Users -> Users or NoUser]
    ReferralPercent,  \* settings.referral_discount_percent
    PostPaidLimit,    \* [Users -> Nat], max_post_paid_credit, 0 if prepaid
    DraftOf           \* [Drafts -> what the draft invoice is for]

InvoiceTypes == {"purchase", "renew_now", "renew_reserve"}

\* What an invocation carries from its start to its end.
Jobs == [kind: InvoiceTypes, user: Users, price: Prices, draft: Drafts \cup {NoDraft}]

ASSUME WalletAssumption ==
    /\ Users # {}
    /\ Prices # {} /\ Prices \subseteq Nat
    /\ TopUps \subseteq Nat
    /\ ReferralPercent \in Nat
    /\ Referrer \in [Users -> Users \cup {NoUser}]
    /\ NoUser \notin Users
    /\ PostPaidLimit \in [Users -> Nat]
    /\ NoDraft \notin Drafts
    /\ NoReserve \notin Drafts \cup {NoDraft}
    /\ DraftOf \in [Drafts -> [kind: InvoiceTypes, user: Users, price: Prices]]

VARIABLES
    credit,     \* sum of the user's finished transactions, gifts included
    billed,     \* per type, sum of the user's non-draft invoices
    draft,      \* is_draft of each draft invoice; "void" once deleted
    sold,       \* proxies in the database bought by the user
    remote,     \* accounts created for the user on the panel
    renewals,   \* immediate renewals committed
    extended,   \* immediate renewals done on the panel
    reserve,    \* the draft behind the Reserve row of the user's proxy
    locked,     \* TRANSACTION_LOCKS
    gifted,     \* users.gift_given_to_referrer
    gifts,      \* referral gift transactions made for this invitee
    rowCopy,    \* gift flag in a loaded users row about to be saved whole
    pc, job,    \* where an invocation is, and for what
    bal,        \* the available credit it read
    giftSeen,   \* the gift flag in the users row it loaded
    draftSeen   \* its transaction saw its draft invoice still a draft

ledger == <<credit, billed, draft, sold, remote, renewals, extended, reserve>>
giftVars == <<gifted, gifts, rowCopy>>
locals == <<job, bal, giftSeen, draftSeen>>
vars == <<ledger, locked, giftVars, pc, locals>>

PCs == {"idle", "loaded", "priced", "entered", "funded", "created", "renewed", "done"}

TypeOK ==
    /\ credit \in [Users -> Nat]
    /\ billed \in [Users -> [InvoiceTypes -> Nat]]
    /\ draft \in [Drafts -> {"draft", "paid", "void"}]
    /\ sold \in [Users -> Nat] /\ remote \in [Users -> Nat]
    /\ renewals \in [Users -> Nat] /\ extended \in [Users -> Nat]
    /\ reserve \in [Users -> Drafts \cup {NoDraft, NoReserve}]
    /\ locked \in SUBSET Users
    /\ gifted \in [Users -> BOOLEAN] /\ gifts \in [Users -> Nat]
    /\ rowCopy \in [Users -> {"none", "clear", "set"}]
    /\ pc \in [Tasks -> PCs]
    /\ job \in [Tasks -> Jobs]
    /\ bal \in [Tasks -> Int]
    /\ giftSeen \in [Tasks -> BOOLEAN]
    /\ draftSeen \in [Tasks -> BOOLEAN]

NoJob == CHOOSE j \in Jobs : TRUE

Init ==
    /\ credit = [u \in Users |-> 0]
    /\ billed = [u \in Users |-> [k \in InvoiceTypes |-> 0]]
    /\ draft = [d \in Drafts |-> "draft"]
    /\ sold = [u \in Users |-> 0] /\ remote = [u \in Users |-> 0]
    /\ renewals = [u \in Users |-> 0] /\ extended = [u \in Users |-> 0]
    /\ reserve = [u \in Users |-> NoReserve]
    /\ locked = {}
    /\ gifted = [u \in Users |-> FALSE] /\ gifts = [u \in Users |-> 0]
    /\ rowCopy = [u \in Users |-> "none"]
    /\ pc = [t \in Tasks |-> "idle"]
    /\ job = [t \in Tasks |-> NoJob]
    /\ bal = [t \in Tasks |-> 0]
    /\ giftSeen = [t \in Tasks |-> FALSE]
    /\ draftSeen = [t \in Tasks |-> FALSE]

-----------------------------------------------------------------------------
\* User.get_balance: finished transactions minus non-draft invoices.
Balance(u) ==
    credit[u] - billed[u]["purchase"] - billed[u]["renew_now"] - billed[u]["renew_reserve"]

\* User.get_available_credit
AvailableCredit(u) == Balance(u) + PostPaidLimit[u]

\* What the referrer gets, an int() of a percentage of the invoice.
GiftAmount(price) == (price * ReferralPercent) \div 100

UserOf(t) == job[t].user
PriceOf(t) == job[t].price

GoTo(t, where) == pc' = [pc EXCEPT ![t] = where]

\* The invocation returns or raises: its local variables are gone.
Finish(t) ==
    /\ GoTo(t, "done")
    /\ job' = [job EXCEPT ![t] = NoJob]
    /\ bal' = [bal EXCEPT ![t] = 0]
    /\ giftSeen' = [giftSeen EXCEPT ![t] = FALSE]
    /\ draftSeen' = [draftSeen EXCEPT ![t] = FALSE]
Unlock(t) == locked' = locked \ {UserOf(t)}

\* The transaction's query for its invoice_id with is_draft=True.
SeesDraft(t) == job[t].draft # NoDraft /\ draft[job[t].draft] = "draft"

\* Commit of the invoice: the draft the transaction saw is flipped, else a new
\* invoice is created.  A row flipped or deleted since then is not billed again.
BillsNow(t) == draftSeen[t] => draft[job[t].draft] = "draft"

\* Broken variant for TypeOK: the amount is subtracted.
CommitInvoice_SignError(t) ==
    /\ billed' = [billed EXCEPT ![UserOf(t)][job[t].kind] = @ - PriceOf(t)]
    /\ UNCHANGED draft

CommitInvoice(t) ==
    /\ billed' = IF BillsNow(t)
                 THEN [billed EXCEPT ![UserOf(t)][job[t].kind] = @ + PriceOf(t)]
                 ELSE billed
    /\ draft' = IF draftSeen[t] /\ draft[job[t].draft] = "draft"
                THEN [draft EXCEPT ![job[t].draft] = "paid"]
                ELSE draft

-----------------------------------------------------------------------------
\* A payment finishes: its amount enters the wallet.
TopUp(u, a) ==
    /\ credit[u] + a <= MaxCredit
    /\ credit' = [credit EXCEPT ![u] = @ + a]
    /\ UNCHANGED <<billed, draft, sold, remote, renewals, extended, reserve>>
    /\ UNCHANGED <<locked, giftVars, pc, locals>>

\* An invocation starts with the users row it was given.
Start(t, j) ==
    /\ pc[t] = "idle"
    /\ GoTo(t, "loaded")
    /\ job' = [job EXCEPT ![t] = j]
    /\ giftSeen' = [giftSeen EXCEPT ![t] = gifted[j.user]]
    /\ UNCHANGED <<ledger, locked, giftVars, bal, draftSeen>>

\* purchase_service: the button "buy".
BeginPurchase(t, u, p) ==
    Start(t, [kind |-> "purchase", user |-> u, price |-> p, draft |-> NoDraft])

\* renew_proxy_now, confirmed by a button.
BeginRenewNow(t, u, p) ==
    Start(t, [kind |-> "renew_now", user |-> u, price |-> p, draft |-> NoDraft])

\* renew_proxy_reserve, confirmed by a button.
BeginRenewReserve(t, u, p) ==
    Start(t, [kind |-> "renew_reserve", user |-> u, price |-> p, draft |-> NoDraft])

\* The job jobs.activate_service finds the payment's draft invoice (it returns
\* when there is none) and loads the user.
RunDraft(t, d) ==
    /\ draft[d] = "draft"
    /\ Start(t, [kind |-> DraftOf[d].kind, user |-> DraftOf[d].user,
                 price |-> DraftOf[d].price, draft |-> d])

-----------------------------------------------------------------------------
(* purchase.activate_service *)

\* Broken variant for LockExact: is_locked is not asked.
EnterLock_Unchecked(t) ==
    /\ job[t].kind = "purchase" /\ pc[t] = "loaded"
    /\ locked' = locked \cup {UserOf(t)}
    /\ GoTo(t, "entered")
    /\ UNCHANGED <<ledger, giftVars, locals>>

\* is_locked and lock(): nothing is awaited in between.
EnterLock(t) ==
    /\ job[t].kind = "purchase" /\ pc[t] = "loaded"
    /\ UserOf(t) \notin locked
    /\ locked' = locked \cup {UserOf(t)}
    /\ GoTo(t, "entered")
    /\ UNCHANGED <<ledger, giftVars, locals>>

\* Another operation of the user runs: PurchaseError.
PurchaseRefused(t) ==
    /\ job[t].kind = "purchase" /\ pc[t] = "loaded"
    /\ UserOf(t) \in locked
    /\ Finish(t)
    /\ UNCHANGED <<ledger, locked, giftVars>>

\* Broken variant for PurchasesCovered: pending charges of the user are left out
\* of the credit the price is compared with.
CheckBalance_GrossCredit(t) ==
    /\ job[t].kind = "purchase" /\ pc[t] = "entered"
    /\ credit[UserOf(t)] + PostPaidLimit[UserOf(t)] >= PriceOf(t)
    /\ bal' = [bal EXCEPT ![t] = AvailableCredit(UserOf(t))]
    /\ draftSeen' = [draftSeen EXCEPT ![t] = SeesDraft(t)]
    /\ GoTo(t, "funded")
    /\ UNCHANGED <<ledger, locked, giftVars, job, giftSeen>>

\* The transaction opens and reads the balance, which covers the price ...
CheckBalance(t) ==
    /\ job[t].kind = "purchase" /\ pc[t] = "entered"
    /\ AvailableCredit(UserOf(t)) >= PriceOf(t)
    /\ bal' = [bal EXCEPT ![t] = AvailableCredit(UserOf(t))]
    /\ draftSeen' = [draftSeen EXCEPT ![t] = SeesDraft(t)]
    /\ GoTo(t, "funded")
    /\ UNCHANGED <<ledger, locked, giftVars, job, giftSeen>>

\* ... or does not: PurchaseError.
TooPoor(t) ==
    /\ job[t].kind = "purchase" /\ pc[t] = "entered"
    /\ AvailableCredit(UserOf(t)) < PriceOf(t)
    /\ Finish(t) /\ Unlock(t)
    /\ UNCHANGED <<ledger, giftVars>>

\* create_user_on_server succeeded.
CreateOnServer(t) ==
    /\ pc[t] = "funded"
    /\ remote' = [remote EXCEPT ![UserOf(t)] = @ + 1]
    /\ GoTo(t, "created")
    /\ UNCHANGED <<credit, billed, draft, sold, renewals, extended, reserve>>
    /\ UNCHANGED <<locked, giftVars, locals>>

\* It raised: the panel refused, or its answer was lost after it created the user.
CreateFails(t) ==
    /\ pc[t] = "funded"
    /\ \E made \in {0, 1} : remote' = [remote EXCEPT ![UserOf(t)] = @ + made]
    /\ Finish(t) /\ Unlock(t)
    /\ UNCHANGED <<credit, billed, draft, sold, renewals, extended, reserve>>
    /\ UNCHANGED <<giftVars>>

\* The referral gift of an invitee's first paid purchase, decided on the row
\* loaded before the lock; user.save() writes that whole row back.
GivesGift(t) ==
    /\ ~giftSeen[t]
    /\ Referrer[UserOf(t)] # NoUser
    /\ GiftAmount(PriceOf(t)) > 0

\* Broken variant for FlagMeansGift: the flag is set by every first purchase.
GiveGift_BurnsFlag(t) ==
    /\ gifted' = [gifted EXCEPT ![UserOf(t)] = TRUE]
    /\ UNCHANGED <<credit, gifts>>

GiveGift(t) ==
    IF GivesGift(t)
    THEN /\ credit' = [credit EXCEPT ![Referrer[UserOf(t)]] = @ + GiftAmount(PriceOf(t))]
         /\ gifts' = [gifts EXCEPT ![UserOf(t)] = @ + 1]
         /\ gifted' = [gifted EXCEPT ![UserOf(t)] = TRUE]
    ELSE UNCHANGED <<credit, gifts, gifted>>

\* Broken variant for ProvisionedFirst: committed before the panel call.
CommitPurchase_BeforePanel(t) ==
    /\ pc[t] \in {"funded", "created"}
    /\ sold' = [sold EXCEPT ![UserOf(t)] = @ + 1]
    /\ CommitInvoice(t)
    /\ GiveGift(t)
    /\ Finish(t) /\ Unlock(t)
    /\ UNCHANGED <<remote, renewals, extended, reserve, rowCopy>>

CommitPurchase(t) ==
    /\ pc[t] = "created"
    /\ sold' = [sold EXCEPT ![UserOf(t)] = @ + 1]
    /\ CommitInvoice(t)
    /\ GiveGift(t)
    /\ Finish(t) /\ Unlock(t)
    /\ UNCHANGED <<remote, renewals, extended, reserve, rowCopy>>

\* Broken variant for LockReleased: the lock is not released in a finally.
PurchaseRollback_KeepsLock(t) ==
    /\ pc[t] = "created"
    /\ Finish(t)
    /\ UNCHANGED <<ledger, locked, giftVars>>

\* A database error after the panel call: rollback, the panel account stays.
PurchaseRollback(t) ==
    /\ pc[t] = "created"
    /\ Finish(t) /\ Unlock(t)
    /\ UNCHANGED <<ledger, giftVars>>

-----------------------------------------------------------------------------
(* renew_proxy_now and renew_proxy_reserve *)

\* Both read the available credit first; the rate limiter is awaited after it.
ReadCredit(t) ==
    /\ job[t].kind # "purchase" /\ pc[t] = "loaded"
    /\ bal' = [bal EXCEPT ![t] = AvailableCredit(UserOf(t))]
    /\ GoTo(t, "priced")
    /\ UNCHANGED <<ledger, locked, giftVars, job, giftSeen, draftSeen>>

\* Too little credit, or (renew_proxy_now only) the user is locked.
RenewRefused(t) ==
    /\ pc[t] = "priced"
    /\ \/ bal[t] < PriceOf(t)
       \/ job[t].kind = "renew_now" /\ UserOf(t) \in locked
    /\ Finish(t)
    /\ UNCHANGED <<ledger, locked, giftVars>>

\* renew_proxy_now takes the lock and opens its transaction on the invoice.
RenewLock(t) ==
    /\ job[t].kind = "renew_now" /\ pc[t] = "priced"
    /\ bal[t] >= PriceOf(t)
    /\ UserOf(t) \notin locked
    /\ locked' = locked \cup {UserOf(t)}
    /\ draftSeen' = [draftSeen EXCEPT ![t] = SeesDraft(t)]
    /\ GoTo(t, "entered")
    /\ UNCHANGED <<ledger, giftVars, job, bal, giftSeen>>

\* The panel resets and extends the account.
RenewOnPanel(t) ==
    /\ job[t].kind = "renew_now" /\ pc[t] = "entered"
    /\ extended' = [extended EXCEPT ![UserOf(t)] = @ + 1]
    /\ GoTo(t, "renewed")
    /\ UNCHANGED <<credit, billed, draft, sold, remote, renewals, reserve>>
    /\ UNCHANGED <<locked, giftVars, locals>>

CommitRenew(t) ==
    /\ pc[t] = "renewed"
    /\ renewals' = [renewals EXCEPT ![UserOf(t)] = @ + 1]
    /\ CommitInvoice(t)
    /\ Finish(t) /\ Unlock(t)
    /\ UNCHANGED <<credit, sold, remote, extended, reserve, giftVars>>

\* The panel call or a query raised: rollback, an extension already made stays.
RenewRollback(t) ==
    /\ job[t].kind = "renew_now" /\ pc[t] \in {"entered", "renewed"}
    /\ Finish(t) /\ Unlock(t)
    /\ UNCHANGED <<ledger, giftVars>>

\* renew_proxy_reserve takes no lock; its transaction opens on the invoice.
ReserveOpen(t) ==
    /\ job[t].kind = "renew_reserve" /\ pc[t] = "priced"
    /\ bal[t] >= PriceOf(t)
    /\ draftSeen' = [draftSeen EXCEPT ![t] = SeesDraft(t)]
    /\ GoTo(t, "entered")
    /\ UNCHANGED <<ledger, locked, giftVars, job, bal, giftSeen>>

\* The panel's user is active: the Reserve row (its key is the proxy, its
\* foreign key the invoice) and the invoice are committed.
CommitReserve(t) ==
    /\ job[t].kind = "renew_reserve" /\ pc[t] = "entered"
    /\ reserve[UserOf(t)] = NoReserve
    /\ draftSeen[t] => draft[job[t].draft] # "void"
    /\ reserve' = [reserve EXCEPT ![UserOf(t)] = IF draftSeen[t] THEN job[t].draft ELSE NoDraft]
    /\ CommitInvoice(t)
    /\ Finish(t)
    /\ UNCHANGED <<credit, sold, remote, renewals, extended, locked, giftVars>>

\* The panel's user is not active: the handler answers so and returns from
\* inside the transaction block, which commits the invoice.
ReserveInactive(t) ==
    /\ job[t].kind = "renew_reserve" /\ pc[t] = "entered"
    /\ CommitInvoice(t)
    /\ Finish(t)
    /\ UNCHANGED <<credit, sold, remote, renewals, extended, reserve>>
    /\ UNCHANGED <<locked, giftVars>>

\* The panel has no such user or is unreachable, or the row already exists.
ReserveRollback(t) ==
    /\ job[t].kind = "renew_reserve" /\ pc[t] = "entered"
    /\ Finish(t)
    /\ UNCHANGED <<ledger, locked, giftVars>>

-----------------------------------------------------------------------------
\* Handlers that load the users row and later save all of it: setup_chat of the
\* access middleware on every update with a changed name, check_force_join, the
\* phone verification.
ProfileLoad(u) ==
    /\ rowCopy[u] = "none"
    /\ rowCopy' = [rowCopy EXCEPT ![u] = IF gifted[u] THEN "set" ELSE "clear"]
    /\ UNCHANGED <<ledger, locked, gifted, gifts, pc, locals>>

ProfileSave(u) ==
    /\ rowCopy[u] # "none"
    /\ gifted' = [gifted EXCEPT ![u] = (rowCopy[u] = "set")]
    /\ rowCopy' = [rowCopy EXCEPT ![u] = "none"]
    /\ UNCHANGED <<ledger, locked, gifts, pc, locals>>

\* The bot process stops and starts again: open transactions roll back, the
\* in-memory locks and every running invocation are gone.
Restart ==
    /\ pc' = [t \in Tasks |-> IF pc[t] = "idle" THEN "idle" ELSE "done"]
    /\ job' = [t \in Tasks |-> NoJob]
    /\ bal' = [t \in Tasks |-> 0]
    /\ giftSeen' = [t \in Tasks |-> FALSE]
    /\ draftSeen' = [t \in Tasks |-> FALSE]
    /\ locked' = {}
    /\ rowCopy' = [u \in Users |-> "none"]
    /\ UNCHANGED <<ledger, gifted, gifts>>

PurchaseStep(t) ==
    \/ EnterLock(t) \/ PurchaseRefused(t) \/ CheckBalance(t) \/ TooPoor(t)
    \/ CreateOnServer(t) \/ CreateFails(t) \/ CommitPurchase(t) \/ PurchaseRollback(t)

RenewStep(t) ==
    \/ ReadCredit(t) \/ RenewRefused(t) \/ RenewLock(t) \/ RenewOnPanel(t)
    \/ CommitRenew(t) \/ RenewRollback(t)
    \/ ReserveOpen(t) \/ CommitReserve(t) \/ ReserveInactive(t) \/ ReserveRollback(t)

TaskStep(t) == PurchaseStep(t) \/ RenewStep(t)

Begin(t) ==
    \/ \E u \in Users, p \in Prices :
          BeginPurchase(t, u, p) \/ BeginRenewNow(t, u, p) \/ BeginRenewReserve(t, u, p)
    \/ \E d \in Drafts : RunDraft(t, d)

Next ==
    \/ \E u \in Users, a \in TopUps : TopUp(u, a)
    \/ \E t \in Tasks : Begin(t) \/ TaskStep(t)
    \/ \E u \in Users : ProfileLoad(u) \/ ProfileSave(u)
    \/ Restart

\* An invocation that started goes on: every await in it is a database call or
\* an HTTP call with a timeout.
Fairness == \A t \in Tasks : WF_vars(TaskStep(t))

Spec == Init /\ [][Next]_vars /\ Fairness

-----------------------------------------------------------------------------
\* An invocation between lock() and the end of its with-block.
InSection(t) ==
    \/ job[t].kind = "purchase" /\ pc[t] \in {"entered", "funded", "created"}
    \/ job[t].kind = "renew_now" /\ pc[t] \in {"entered", "renewed"}

\* The with-blocks of one user never overlap, and the lock table names exactly
\* the users inside one: a refusal, an error or a restart never leaves a user
\* locked out (is_locked / lock in utils/rate_limit.py and their callers).
LockExact ==
    /\ \A s, t \in Tasks :
          (InSection(s) /\ InSection(t) /\ UserOf(s) = UserOf(t)) => s = t
    /\ locked = {UserOf(t) : t \in {s \in Tasks : InSection(s)}}

\* What a user bought is covered by what the user was credited plus the
\* post-paid limit, however purchases, jobs and lock-free renewals interleave:
\* the balance check of activate_service is made inside the lock.
PurchasesCovered ==
    \A u \in Users : credit[u] + PostPaidLimit[u] >= billed[u]["purchase"]

\* Nothing is in the database that the panel has not done first: errors and
\* restarts can leave panel accounts behind, never a proxy without an account
\* or a billed renewal that did not happen.
ProvisionedFirst ==
    \A u \in Users : sold[u] <= remote[u] /\ renewals[u] <= extended[u]

\* The one-time referral flag is never burned without a gift, whatever whole-row
\* saves of the users table race with purchases (purchase.py: a free purchase
\* must not burn the flag).
FlagMeansGift ==
    \A u \in Users : gifted[u] \/ rowCopy[u] = "set" => gifts[u] > 0

\* A user who is locked is not locked for ever: the operation that holds the
\* lock ends, on every path, and releases it.
LockReleased == \A u \in Users : (u \in locked) ~> (u \notin locked)

\* ROADMAP: the referral gift is a one-time gift of the invitee's first paid
\* purchase.  The flag is read from a row loaded before the lock, so it fails.
GiftOnce == \A u \in Users : gifts[u] <= 1

\* A reserved plan that was billed exists: the handler's answer says that
\* reserving is not possible while the subscription is inactive.  It fails:
\* the early return commits the invoice.
ReserveBacked ==
    \A u \in Users : billed[u]["renew_reserve"] > 0 => reserve[u] # NoReserve
=============================================================================
