---------------------------- MODULE WalletProofs ----------------------------
(***************************************************************************)
(* Proofs about Wallet, for any number of users, invocations and drafts,   *)
(* and any prices: type correctness, the per-user lock, and, resting on    *)
(* the lock, what its operations do to money and accounts: purchases are   *)
(* covered, the panel acts before the database, and the referral flag      *)
(* always stands for a gift.  Then about ReceiptReview, which adds the     *)
(* receipts and their reviewers to the wallet: it implements               *)
(* PaymentLedger, launches one activation of a draft at most, and revokes  *)
(* what it accepted.                                                       *)
(***************************************************************************)
EXTENDS ReceiptReview, FiniteSetTheorems, TLAPS

-----------------------------------------------------------------------------
(* Type correctness *)

\* A default job exists: there is a user and a price.
LEMMA NoJobType == NoJob \in Jobs
<1>1. PICK u \in Users, p \in Prices : TRUE
  BY WalletAssumption
<1>2. [kind |-> "purchase", user |-> u, price |-> p, draft |-> NoDraft] \in Jobs
  BY <1>1 DEF Jobs, InvoiceTypes
<1>3. QED
  BY <1>2 DEF NoJob

\* int(price * percent / 100) of a price is a natural number.
LEMMA GiftType == \A p \in Prices : GiftAmount(p) \in Nat
<1> SUFFICES ASSUME NEW p \in Prices PROVE GiftAmount(p) \in Nat
  OBVIOUS
<1> DEFINE n == p * ReferralPercent
<1>1. p \in Nat /\ ReferralPercent \in Nat
  BY WalletAssumption
<1>2. n \in Nat
  BY <1>1
<1> HIDE DEF n
<1>3. n \div 100 \in Nat
  BY <1>2
<1>4. QED
  BY <1>3 DEF GiftAmount, n

\* What a running invocation carries is typed.
LEMMA JobFields ==
    ASSUME TypeOK, NEW t \in Tasks
    PROVE  /\ job[t].kind \in InvoiceTypes
           /\ UserOf(t) \in Users
           /\ PriceOf(t) \in Nat
           /\ job[t].draft \in Drafts \cup {NoDraft}
  BY WalletAssumption DEF TypeOK, Jobs, UserOf, PriceOf

\* Balances are integers.
LEMMA CreditType ==
    ASSUME TypeOK, NEW u \in Users
    PROVE  AvailableCredit(u) \in Int
  BY WalletAssumption DEF TypeOK, AvailableCredit, Balance, InvoiceTypes

\* The parts of TypeOK that the money, the invocations and the flags touch.
LedgerOK ==
    /\ credit \in [Users -> Nat]
    /\ billed \in [Users -> [InvoiceTypes -> Nat]]
    /\ draft \in [Drafts -> {"draft", "paid", "void"}]
    /\ sold \in [Users -> Nat] /\ remote \in [Users -> Nat]
    /\ renewals \in [Users -> Nat] /\ extended \in [Users -> Nat]
    /\ reserve \in [Users -> Drafts \cup {NoDraft, NoReserve}]

FlagsOK ==
    /\ locked \in SUBSET Users
    /\ gifted \in [Users -> BOOLEAN] /\ gifts \in [Users -> Nat]
    /\ rowCopy \in [Users -> {"none", "clear", "set"}]

LocalsOK ==
    /\ pc \in [Tasks -> PCs]
    /\ job \in [Tasks -> Jobs]
    /\ bal \in [Tasks -> Int]
    /\ giftSeen \in [Tasks -> BOOLEAN]
    /\ draftSeen \in [Tasks -> BOOLEAN]

\* TypeOK is the conjunction of its three parts, now and in the next state.
LEMMA TypeParts ==
    /\ TypeOK <=> LedgerOK /\ FlagsOK /\ LocalsOK
    /\ TypeOK' <=> LedgerOK' /\ FlagsOK' /\ LocalsOK'
  BY DEF TypeOK, LedgerOK, FlagsOK, LocalsOK

\* Ending an invocation keeps the local variables typed.
LEMMA FinishType ==
    ASSUME TypeOK, NEW t \in Tasks, Finish(t)
    PROVE  LocalsOK'
  BY NoJobType DEF TypeOK, LocalsOK, Finish, GoTo, PCs

\* Committing the invoice keeps the ledger's two variables typed.
LEMMA CommitInvoiceType ==
    ASSUME TypeOK, NEW t \in Tasks, CommitInvoice(t)
    PROVE  /\ billed' \in [Users -> [InvoiceTypes -> Nat]]
           /\ draft' \in [Drafts -> {"draft", "paid", "void"}]
<1>1. \A n, m \in Nat : n + m \in Nat
  OBVIOUS
<1>2. PriceOf(t) \in Nat /\ UserOf(t) \in Users /\ job[t].kind \in InvoiceTypes
  BY JobFields
<1>3. QED
  BY <1>1, <1>2 DEF TypeOK, CommitInvoice

\* So does the referral gift.
LEMMA GiveGiftType ==
    ASSUME TypeOK, NEW t \in Tasks, GiveGift(t)
    PROVE  /\ credit' \in [Users -> Nat]
           /\ gifts' \in [Users -> Nat]
           /\ gifted' \in [Users -> BOOLEAN]
<1>1. GiftAmount(PriceOf(t)) \in Nat
  BY GiftType DEF TypeOK, Jobs, PriceOf
<1>2. UserOf(t) \in Users
  BY JobFields
<1>3. CASE GivesGift(t)
  <2>1. Referrer[UserOf(t)] \in Users
    BY <1>2, <1>3, WalletAssumption DEF GivesGift
  <2> DEFINE referrer == Referrer[UserOf(t)]
  <2>2. /\ gifted' = [gifted EXCEPT ![UserOf(t)] = TRUE]
        /\ gifts' = [gifts EXCEPT ![UserOf(t)] = @ + 1]
        /\ credit' = [credit EXCEPT ![referrer] = @ + GiftAmount(PriceOf(t))]
    BY <1>3 DEF GiveGift
  <2>3. gifted' \in [Users -> BOOLEAN]
    BY <2>2 DEF TypeOK
  <2>4. gifts' \in [Users -> Nat]
    BY <1>2, <2>2 DEF TypeOK
  <2> HIDE DEF referrer
  <2>5. credit' \in [Users -> Nat]
    BY <1>1, <2>1, <2>2 DEF TypeOK, referrer
  <2>6. QED
    BY <2>3, <2>4, <2>5
<1>4. CASE ~GivesGift(t)
  BY <1>4 DEF TypeOK, GiveGift
<1>5. QED
  BY <1>3, <1>4

\* Unlocking a user, or locking one, keeps a set of users.
LEMMA LockType ==
    ASSUME TypeOK, NEW t \in Tasks
    PROVE  /\ locked \ {UserOf(t)} \in SUBSET Users
           /\ locked \cup {UserOf(t)} \in SUBSET Users
  BY JobFields DEF TypeOK

\* The initial state is typed.
LEMMA InitType == Init => TypeOK
<1> SUFFICES ASSUME Init PROVE TypeOK
  OBVIOUS
<1>1. LedgerOK
  BY DEF Init, LedgerOK, InvoiceTypes
<1>2. FlagsOK
  BY DEF Init, FlagsOK
<1>3. LocalsOK
  BY NoJobType DEF Init, LocalsOK, PCs
<1>4. QED
  BY <1>1, <1>2, <1>3, TypeParts

\* Starting an invocation for a well-formed job keeps the types.
LEMMA StartType ==
    ASSUME TypeOK, NEW t \in Tasks, NEW j \in Jobs, Start(t, j)
    PROVE  TypeOK'
<1>1. LedgerOK' /\ FlagsOK'
  BY DEF TypeOK, LedgerOK, FlagsOK, Start, ledger, giftVars
<1>2. gifted[j.user] \in BOOLEAN
  BY DEF TypeOK, Jobs
<1>3. pc' \in [Tasks -> PCs] /\ job' \in [Tasks -> Jobs]
  BY DEF TypeOK, Start, GoTo, PCs
<1>4. giftSeen' \in [Tasks -> BOOLEAN]
  BY <1>2 DEF TypeOK, Start
<1>5. bal' \in [Tasks -> Int] /\ draftSeen' \in [Tasks -> BOOLEAN]
  BY DEF TypeOK, Start
<1>6. QED
  BY <1>1, <1>3, <1>4, <1>5, TypeParts DEF LocalsOK, TypeOK

\* So does every button and every draft that starts an invocation.
LEMMA BeginType ==
    ASSUME TypeOK, NEW t \in Tasks, Begin(t)
    PROVE  TypeOK'
<1>1. CASE \E u \in Users, p \in Prices :
             BeginPurchase(t, u, p) \/ BeginRenewNow(t, u, p) \/ BeginRenewReserve(t, u, p)
  <2>1. PICK u \in Users, p \in Prices :
             BeginPurchase(t, u, p) \/ BeginRenewNow(t, u, p) \/ BeginRenewReserve(t, u, p)
    BY <1>1
  <2>2. \A k \in InvoiceTypes :
             [kind |-> k, user |-> u, price |-> p, draft |-> NoDraft] \in Jobs
    BY DEF Jobs
  <2>3. QED
    BY <2>1, <2>2, StartType DEF BeginPurchase, BeginRenewNow, BeginRenewReserve, InvoiceTypes
<1>2. CASE \E d \in Drafts : RunDraft(t, d)
  <2>1. PICK d \in Drafts : RunDraft(t, d)
    BY <1>2
  <2>2. DraftOf[d] \in [kind: InvoiceTypes, user: Users, price: Prices]
    BY WalletAssumption
  <2>3. [kind |-> DraftOf[d].kind, user |-> DraftOf[d].user,
         price |-> DraftOf[d].price, draft |-> d] \in Jobs
    BY <2>2 DEF Jobs
  <2>4. QED
    BY <2>1, <2>3, StartType DEF RunDraft
<1>3. QED
  BY <1>1, <1>2 DEF Begin

\* Every step of a purchase keeps the types.
LEMMA PurchaseType ==
    ASSUME TypeOK, NEW t \in Tasks, PurchaseStep(t)
    PROVE  TypeOK'
<1> USE DEF ledger, giftVars, locals
<1>1. CASE EnterLock(t)
  BY <1>1, LockType DEF TypeOK, EnterLock, GoTo, PCs
<1>2. CASE PurchaseRefused(t)
  BY <1>2, FinishType, TypeParts DEF LedgerOK, FlagsOK, PurchaseRefused
<1>3. CASE CheckBalance(t)
  <2>1. AvailableCredit(UserOf(t)) \in Int /\ SeesDraft(t) \in BOOLEAN
    BY JobFields, CreditType DEF SeesDraft
  <2>2. draftSeen' \in [Tasks -> BOOLEAN]
    BY <1>3, <2>1 DEF TypeOK, CheckBalance
  <2>3. bal' \in [Tasks -> Int] /\ pc' \in [Tasks -> PCs]
    BY <1>3, <2>1 DEF TypeOK, CheckBalance, GoTo, PCs
  <2>4. QED
    BY <1>3, <2>2, <2>3 DEF TypeOK, CheckBalance
<1>4. CASE TooPoor(t)
  BY <1>4, FinishType, LockType, TypeParts DEF LedgerOK, FlagsOK, TooPoor, Unlock
<1>5. CASE CreateOnServer(t)
  <2>1. remote' \in [Users -> Nat]
    BY <1>5, JobFields DEF TypeOK, CreateOnServer
  <2>2. pc' \in [Tasks -> PCs]
    BY <1>5 DEF TypeOK, CreateOnServer, GoTo, PCs
  <2>3. QED
    BY <1>5, <2>1, <2>2 DEF TypeOK, CreateOnServer
<1>6. CASE CreateFails(t)
  <2>1. remote' \in [Users -> Nat]
    BY <1>6, JobFields DEF TypeOK, CreateFails
  <2>2. QED
    BY <1>6, <2>1, FinishType, LockType, TypeParts DEF LedgerOK, FlagsOK, CreateFails, Unlock
<1>7. CASE CommitPurchase(t)
  <2>1. LocalsOK'
    BY <1>7, FinishType DEF CommitPurchase
  <2>2. locked' \in SUBSET Users
    BY <1>7, LockType DEF CommitPurchase, Unlock
  <2>3. sold' \in [Users -> Nat]
    BY <1>7, JobFields DEF TypeOK, CommitPurchase
  <2>4. QED
    BY <1>7, <2>1, <2>2, <2>3, CommitInvoiceType, GiveGiftType, TypeParts
       DEF LedgerOK, FlagsOK, CommitPurchase
<1>8. CASE PurchaseRollback(t)
  BY <1>8, FinishType, LockType, TypeParts DEF LedgerOK, FlagsOK, PurchaseRollback, Unlock
<1>9. QED
  BY <1>1, <1>2, <1>3, <1>4, <1>5, <1>6, <1>7, <1>8 DEF PurchaseStep

\* Every step of a renewal, immediate or reserved, keeps the types.
LEMMA RenewType ==
    ASSUME TypeOK, NEW t \in Tasks, RenewStep(t)
    PROVE  TypeOK'
<1> USE DEF ledger, giftVars, locals
<1>1. CASE ReadCredit(t)
  <2>1. AvailableCredit(UserOf(t)) \in Int
    BY JobFields, CreditType
  <2>2. QED
    BY <1>1, <2>1 DEF TypeOK, ReadCredit, GoTo, PCs
<1>2. CASE RenewRefused(t)
  BY <1>2, FinishType, TypeParts DEF LedgerOK, FlagsOK, RenewRefused
<1>3. CASE RenewLock(t) \/ ReserveOpen(t)
  <2>1. SeesDraft(t) \in BOOLEAN
    BY DEF SeesDraft
  <2>2. draftSeen' \in [Tasks -> BOOLEAN]
    BY <1>3, <2>1 DEF TypeOK, RenewLock, ReserveOpen
  <2>3. pc' \in [Tasks -> PCs]
    BY <1>3 DEF TypeOK, RenewLock, ReserveOpen, GoTo, PCs
  <2>4. locked' \in SUBSET Users
    BY <1>3, LockType DEF TypeOK, RenewLock, ReserveOpen
  <2>5. QED
    BY <1>3, <2>2, <2>3, <2>4 DEF TypeOK, RenewLock, ReserveOpen
<1>4. CASE RenewOnPanel(t)
  <2>1. extended' \in [Users -> Nat]
    BY <1>4, JobFields DEF TypeOK, RenewOnPanel
  <2>2. pc' \in [Tasks -> PCs]
    BY <1>4 DEF TypeOK, RenewOnPanel, GoTo, PCs
  <2>3. QED
    BY <1>4, <2>1, <2>2 DEF TypeOK, RenewOnPanel
<1>5. CASE CommitRenew(t)
  <2>1. renewals' \in [Users -> Nat]
    BY <1>5, JobFields DEF TypeOK, CommitRenew
  <2>2. QED
    BY <1>5, <2>1, FinishType, LockType, CommitInvoiceType, TypeParts
       DEF LedgerOK, FlagsOK, CommitRenew, Unlock
<1>6. CASE RenewRollback(t)
  BY <1>6, FinishType, LockType, TypeParts DEF LedgerOK, FlagsOK, RenewRollback, Unlock
<1>7. CASE CommitReserve(t)
  <2>1. reserve' \in [Users -> Drafts \cup {NoDraft, NoReserve}]
    BY <1>7, JobFields DEF TypeOK, CommitReserve
  <2>2. QED
    BY <1>7, <2>1, FinishType, CommitInvoiceType, TypeParts
       DEF LedgerOK, FlagsOK, CommitReserve
<1>8. CASE ReserveInactive(t)
  BY <1>8, FinishType, CommitInvoiceType, TypeParts DEF LedgerOK, FlagsOK, ReserveInactive
<1>9. CASE ReserveRollback(t)
  BY <1>9, FinishType, TypeParts DEF LedgerOK, FlagsOK, ReserveRollback
<1>10. QED
  BY <1>1, <1>2, <1>3, <1>4, <1>5, <1>6, <1>7, <1>8, <1>9 DEF RenewStep

\* Payments, whole-row saves of the users table and restarts keep the types.
LEMMA EnvironmentType ==
    ASSUME TypeOK
    PROVE  /\ \A u \in Users, a \in TopUps : TopUp(u, a) => TypeOK'
           /\ \A u \in Users : ProfileLoad(u) \/ ProfileSave(u) => TypeOK'
           /\ Restart => TypeOK'
<1> USE DEF ledger, giftVars, locals
<1>1. ASSUME NEW u \in Users, NEW a \in TopUps, TopUp(u, a) PROVE TypeOK'
  BY <1>1, WalletAssumption DEF TypeOK, TopUp
<1>2. ASSUME NEW u \in Users, ProfileLoad(u) PROVE TypeOK'
  BY <1>2 DEF TypeOK, ProfileLoad
<1>3. ASSUME NEW u \in Users, ProfileSave(u) PROVE TypeOK'
  <2>1. (rowCopy[u] = "set") \in BOOLEAN
    OBVIOUS
  <2>2. gifted' \in [Users -> BOOLEAN]
    BY <1>3, <2>1 DEF TypeOK, ProfileSave
  <2>3. QED
    BY <1>3, <2>2 DEF TypeOK, ProfileSave
<1>4. ASSUME Restart PROVE TypeOK'
  BY <1>4, NoJobType DEF TypeOK, Restart, PCs
<1>5. QED
  BY <1>1, <1>2, <1>3, <1>4

\* TypeOK is inductive.
LEMMA NextType == TypeOK /\ [Next]_vars => TypeOK'
<1> SUFFICES ASSUME TypeOK, [Next]_vars PROVE TypeOK'
  OBVIOUS
<1>1. CASE \E t \in Tasks : Begin(t) \/ TaskStep(t)
  BY <1>1, BeginType, PurchaseType, RenewType DEF TaskStep
<1>2. CASE \/ \E u \in Users, a \in TopUps : TopUp(u, a)
           \/ \E u \in Users : ProfileLoad(u) \/ ProfileSave(u)
           \/ Restart
  BY <1>2, EnvironmentType
<1>3. CASE UNCHANGED vars
  BY <1>3 DEF TypeOK, vars, ledger, giftVars, locals
<1>4. QED
  BY <1>1, <1>2, <1>3 DEF Next

\* Type correctness: every variable keeps its type in every behaviour.
THEOREM Typing == Spec => []TypeOK
<1>1. QED
  BY InitType, NextType, PTL DEF Spec

-----------------------------------------------------------------------------
(* The per-user lock *)

\* Which operation the later phases belong to.
PhaseKind ==
    \A t \in Tasks :
        /\ pc[t] \in {"funded", "created"} => job[t].kind = "purchase"
        /\ pc[t] = "renewed" => job[t].kind = "renew_now"

\* The inductive invariant behind LockExact.
LockInv == TypeOK /\ PhaseKind /\ LockExact

\* How a step of invocation t may change the view the lock takes of it: it
\* enters its section, leaves it, or the lock table stays as it is.
OthersStay(t) == \A s \in Tasks : s # t => pc'[s] = pc[s] /\ job'[s] = job[s]

Enters(t) ==
    /\ InSection(t)' /\ UserOf(t)' = UserOf(t)
    /\ UserOf(t) \notin locked
    /\ locked' = locked \cup {UserOf(t)}

Leaves(t) ==
    /\ InSection(t) /\ ~InSection(t)'
    /\ locked' = locked \ {UserOf(t)}

Stays(t) ==
    /\ InSection(t)' <=> InSection(t)
    /\ InSection(t) => UserOf(t)' = UserOf(t)
    /\ locked' = locked

\* An invocation that ends is done and disturbs no other.
LEMMA FinishView ==
    ASSUME TypeOK, NEW t \in Tasks, Finish(t)
    PROVE  OthersStay(t) /\ ~InSection(t)' /\ pc'[t] = "done"
  BY DEF TypeOK, Finish, GoTo, OthersStay, InSection

\* One that goes on keeps its job and disturbs no other.
LEMMA GoToView ==
    ASSUME TypeOK, NEW t \in Tasks, NEW where \in PCs, GoTo(t, where), UNCHANGED job
    PROVE  /\ OthersStay(t)
           /\ pc'[t] = where /\ job'[t] = job[t] /\ UserOf(t)' = UserOf(t)
  BY DEF TypeOK, GoTo, OthersStay, UserOf

\* One that starts is loaded and disturbs no other.
LEMMA BeginView ==
    ASSUME TypeOK, NEW t \in Tasks, Begin(t)
    PROVE  OthersStay(t) /\ Stays(t) /\ pc'[t] = "loaded"
<1>1. PICK j : Start(t, j)
  BY DEF Begin, BeginPurchase, BeginRenewNow, BeginRenewReserve, RunDraft
<1>2. pc[t] = "idle" /\ pc'[t] = "loaded" /\ locked' = locked
  BY <1>1 DEF TypeOK, Start, GoTo
<1>3. OthersStay(t)
  BY <1>1 DEF TypeOK, Start, GoTo, OthersStay
<1>4. QED
  BY <1>2, <1>3 DEF Stays, InSection

\* A purchase step enters, leaves or stays on its side of the lock.
LEMMA PurchaseView ==
    ASSUME TypeOK, PhaseKind, NEW t \in Tasks, PurchaseStep(t)
    PROVE  /\ OthersStay(t)
           /\ Enters(t) \/ Leaves(t) \/ Stays(t)
           /\ \/ pc'[t] = "done"
              \/ job'[t] = job[t] /\ job[t].kind = "purchase" /\ pc'[t] # "renewed"
<1> USE DEF ledger, giftVars, locals
<1> \A where \in {"entered", "funded", "created"} : where \in PCs
  BY DEF PCs
<1>1. CASE EnterLock(t)
  <2>1. OthersStay(t) /\ pc'[t] = "entered" /\ job'[t] = job[t] /\ UserOf(t)' = UserOf(t)
    BY <1>1, GoToView DEF EnterLock
  <2>2. QED
    BY <1>1, <2>1 DEF EnterLock, Enters, InSection
<1>2. CASE PurchaseRefused(t)
  <2>1. OthersStay(t) /\ ~InSection(t)' /\ pc'[t] = "done"
    BY <1>2, FinishView DEF PurchaseRefused
  <2>2. QED
    BY <1>2, <2>1 DEF PurchaseRefused, Stays, InSection
<1>3. CASE CheckBalance(t)
  <2>1. OthersStay(t) /\ pc'[t] = "funded" /\ job'[t] = job[t] /\ UserOf(t)' = UserOf(t)
    BY <1>3, GoToView DEF CheckBalance
  <2>2. QED
    BY <1>3, <2>1 DEF CheckBalance, Stays, InSection
<1>4. CASE CreateOnServer(t)
  <2>1. OthersStay(t) /\ pc'[t] = "created" /\ job'[t] = job[t] /\ UserOf(t)' = UserOf(t)
    BY <1>4, GoToView DEF CreateOnServer
  <2>2. QED
    BY <1>4, <2>1 DEF CreateOnServer, Stays, InSection, PhaseKind
<1>5. CASE TooPoor(t) \/ CreateFails(t) \/ CommitPurchase(t) \/ PurchaseRollback(t)
  <2>1. InSection(t) /\ Finish(t) /\ Unlock(t)
    BY <1>5 DEF TooPoor, CreateFails, CommitPurchase, PurchaseRollback, InSection, PhaseKind
  <2>2. OthersStay(t) /\ ~InSection(t)' /\ pc'[t] = "done"
    BY <2>1, FinishView
  <2>3. QED
    BY <2>1, <2>2 DEF Leaves, Unlock
<1>6. QED
  BY <1>1, <1>2, <1>3, <1>4, <1>5 DEF PurchaseStep

\* So does a renewal step.
LEMMA RenewView ==
    ASSUME TypeOK, PhaseKind, NEW t \in Tasks, RenewStep(t)
    PROVE  /\ OthersStay(t)
           /\ Enters(t) \/ Leaves(t) \/ Stays(t)
           /\ \/ pc'[t] \in {"done", "priced", "entered"}
              \/ job'[t] = job[t] /\ job[t].kind = "renew_now" /\ pc'[t] = "renewed"
<1> USE DEF ledger, giftVars, locals
<1> \A where \in {"priced", "entered", "renewed"} : where \in PCs
  BY DEF PCs
<1>1. CASE ReadCredit(t)
  <2>1. OthersStay(t) /\ pc'[t] = "priced" /\ job'[t] = job[t]
    BY <1>1, GoToView DEF ReadCredit
  <2>2. QED
    BY <1>1, <2>1 DEF ReadCredit, Stays, InSection
<1>2. CASE RenewRefused(t)
  <2>1. OthersStay(t) /\ ~InSection(t)' /\ pc'[t] = "done"
    BY <1>2, FinishView DEF RenewRefused
  <2>2. QED
    BY <1>2, <2>1 DEF RenewRefused, Stays, InSection
<1>3. CASE RenewLock(t)
  <2>1. OthersStay(t) /\ pc'[t] = "entered" /\ job'[t] = job[t] /\ UserOf(t)' = UserOf(t)
    BY <1>3, GoToView DEF RenewLock
  <2>2. QED
    BY <1>3, <2>1 DEF RenewLock, Enters, InSection
<1>4. CASE RenewOnPanel(t)
  <2>1. OthersStay(t) /\ pc'[t] = "renewed" /\ job'[t] = job[t] /\ UserOf(t)' = UserOf(t)
    BY <1>4, GoToView DEF RenewOnPanel
  <2>2. QED
    BY <1>4, <2>1 DEF RenewOnPanel, Stays, InSection
<1>5. CASE CommitRenew(t) \/ RenewRollback(t)
  <2>1. InSection(t) /\ Finish(t) /\ Unlock(t)
    BY <1>5 DEF CommitRenew, RenewRollback, InSection, PhaseKind
  <2>2. OthersStay(t) /\ ~InSection(t)' /\ pc'[t] = "done"
    BY <2>1, FinishView
  <2>3. QED
    BY <2>1, <2>2 DEF Leaves, Unlock
<1>6. CASE ReserveOpen(t)
  <2>1. OthersStay(t) /\ pc'[t] = "entered" /\ job'[t] = job[t]
    BY <1>6, GoToView DEF ReserveOpen
  <2>2. QED
    BY <1>6, <2>1 DEF ReserveOpen, Stays, InSection
<1>7. CASE CommitReserve(t) \/ ReserveInactive(t) \/ ReserveRollback(t)
  <2>1. ~InSection(t) /\ Finish(t) /\ locked' = locked
    BY <1>7 DEF CommitReserve, ReserveInactive, ReserveRollback, InSection
  <2>2. OthersStay(t) /\ ~InSection(t)' /\ pc'[t] = "done"
    BY <2>1, FinishView
  <2>3. QED
    BY <2>1, <2>2 DEF Stays
<1>8. QED
  BY <1>1, <1>2, <1>3, <1>4, <1>5, <1>6, <1>7 DEF RenewStep

\* LockExact in terms of single invocations.
LEMMA LockExactUnfold ==
    /\ LockExact <=>
         /\ \A s, t \in Tasks : InSection(s) /\ InSection(t) /\ UserOf(s) = UserOf(t) => s = t
         /\ \A u : u \in locked <=> \E t \in Tasks : InSection(t) /\ UserOf(t) = u
    /\ LockExact' <=>
         /\ \A s, t \in Tasks :
               InSection(s)' /\ InSection(t)' /\ UserOf(s)' = UserOf(t)' => s = t
         /\ \A u : u \in locked' <=> \E t \in Tasks : InSection(t)' /\ UserOf(t)' = u
  BY DEF LockExact

\* Entering, leaving and staying each keep the lock table exact.
LEMMA LockKept ==
    ASSUME LockExact, NEW t \in Tasks, OthersStay(t), Enters(t) \/ Leaves(t) \/ Stays(t)
    PROVE  LockExact'
<1>1. \A s \in Tasks : s # t => (InSection(s)' <=> InSection(s)) /\ UserOf(s)' = UserOf(s)
  BY DEF OthersStay, InSection, UserOf
<1>2. CASE Enters(t)
  BY <1>1, <1>2, LockExactUnfold DEF Enters
<1>3. CASE Leaves(t)
  BY <1>1, <1>3, LockExactUnfold DEF Leaves
<1>4. CASE Stays(t)
  BY <1>1, <1>4, LockExactUnfold DEF Stays
<1>5. QED
  BY <1>2, <1>3, <1>4

\* The initial state satisfies the lock invariant.
LEMMA LockInit == Init => LockInv
<1> SUFFICES ASSUME Init PROVE LockInv
  OBVIOUS
<1>1. \A t \in Tasks : pc[t] = "idle"
  BY DEF Init
<1>2. PhaseKind
  BY <1>1 DEF PhaseKind
<1>3. (\A t \in Tasks : ~InSection(t)) /\ locked = {}
  BY <1>1 DEF InSection, Init
<1>4. LockExact
  BY <1>3, LockExactUnfold
<1>5. QED
  BY <1>2, <1>4, InitType DEF LockInv

\* The lock invariant is inductive.
LEMMA LockNext == LockInv /\ [Next]_vars => LockInv'
<1> SUFFICES ASSUME LockInv, [Next]_vars PROVE LockInv'
  OBVIOUS
<1>1. TypeOK /\ PhaseKind /\ LockExact /\ TypeOK'
  BY NextType DEF LockInv
<1>2. ASSUME NEW t \in Tasks, Begin(t) PROVE LockInv'
  <2>1. OthersStay(t) /\ Stays(t) /\ pc'[t] = "loaded"
    BY <1>1, <1>2, BeginView
  <2>2. PhaseKind'
    BY <1>1, <2>1 DEF PhaseKind, OthersStay
  <2>3. QED
    BY <1>1, <2>1, <2>2, LockKept DEF LockInv
<1>3. ASSUME NEW t \in Tasks, PurchaseStep(t) PROVE LockInv'
  <2>1. /\ OthersStay(t) /\ (Enters(t) \/ Leaves(t) \/ Stays(t))
        /\ \/ pc'[t] = "done"
           \/ job'[t] = job[t] /\ job[t].kind = "purchase" /\ pc'[t] # "renewed"
    BY <1>1, <1>3, PurchaseView
  <2>2. PhaseKind'
    BY <1>1, <2>1 DEF PhaseKind, OthersStay
  <2>3. QED
    BY <1>1, <2>1, <2>2, LockKept DEF LockInv
<1>4. ASSUME NEW t \in Tasks, RenewStep(t) PROVE LockInv'
  <2>1. /\ OthersStay(t) /\ (Enters(t) \/ Leaves(t) \/ Stays(t))
        /\ \/ pc'[t] \in {"done", "priced", "entered"}
           \/ job'[t] = job[t] /\ job[t].kind = "renew_now" /\ pc'[t] = "renewed"
    BY <1>1, <1>4, RenewView
  <2>2. PhaseKind'
    BY <1>1, <2>1 DEF PhaseKind, OthersStay
  <2>3. QED
    BY <1>1, <2>1, <2>2, LockKept DEF LockInv
<1>5. ASSUME Restart PROVE LockInv'
  <2>1. \A t \in Tasks : pc'[t] \in {"idle", "done"}
    BY <1>5 DEF Restart
  <2>2. PhaseKind'
    BY <2>1 DEF PhaseKind
  <2>3. (\A t \in Tasks : ~InSection(t)') /\ locked' = {}
    BY <1>5, <2>1 DEF InSection, Restart
  <2>4. LockExact'
    BY <2>3, LockExactUnfold
  <2>5. QED
    BY <1>1, <2>2, <2>4 DEF LockInv
<1>6. ASSUME UNCHANGED <<pc, job, locked>> PROVE LockInv'
  <2>1. PhaseKind' /\ LockExact'
    BY <1>1, <1>6 DEF PhaseKind, LockExact, InSection, UserOf
  <2>2. QED
    BY <1>1, <2>1 DEF LockInv
<1>7. ASSUME \/ \E u \in Users, a \in TopUps : TopUp(u, a)
             \/ \E u \in Users : ProfileLoad(u) \/ ProfileSave(u)
             \/ UNCHANGED vars
      PROVE  UNCHANGED <<pc, job, locked>>
  BY <1>7 DEF TopUp, ProfileLoad, ProfileSave, vars, locals
<1>8. QED
  BY <1>2, <1>3, <1>4, <1>5, <1>6, <1>7 DEF Next, TaskStep

\* The with-blocks of one user never overlap and the lock table names exactly the
\* users inside one (utils/rate_limit.py lock, is_locked).
THEOREM LockCorrect == Spec => []LockExact
<1>1. Spec => []LockInv
  BY LockInit, LockNext, PTL DEF Spec
<1>2. LockInv => LockExact
  BY DEF LockInv
<1>3. QED
  BY <1>1, <1>2, PTL

-----------------------------------------------------------------------------
(* Purchases are covered *)

\* While an invocation is between its balance check and its commit, the credit
\* covers what is billed and what it is about to bill.
Funded ==
    \A t \in Tasks :
        pc[t] \in {"funded", "created"} =>
            credit[UserOf(t)] + PostPaidLimit[UserOf(t)]
                >= billed[UserOf(t)]["purchase"] + PriceOf(t)

CoverInv == LockInv /\ PurchasesCovered /\ Funded

\* Credit only grows and no purchase is billed.
MoneyQuiet ==
    \A u \in Users : credit'[u] >= credit[u] /\ billed'[u]["purchase"] = billed[u]["purchase"]

\* Credit only grows, and only invocation t bills a purchase, at most its price.
MoneySpentBy(t) ==
    \A u \in Users :
        /\ credit'[u] >= credit[u]
        /\ u # UserOf(t) => billed'[u]["purchase"] = billed[u]["purchase"]
        /\ u = UserOf(t) =>
             billed'[u]["purchase"] <= billed[u]["purchase"] + PriceOf(t)

\* The amounts that the balance is made of are natural numbers.
LEMMA MoneyType ==
    ASSUME TypeOK, NEW u \in Users
    PROVE  /\ credit[u] \in Nat /\ PostPaidLimit[u] \in Nat
           /\ billed[u]["purchase"] \in Nat /\ billed[u]["renew_now"] \in Nat
           /\ billed[u]["renew_reserve"] \in Nat
  BY WalletAssumption DEF TypeOK, InvoiceTypes

\* A step that leaves credit and invoices alone is quiet.
LEMMA UnchangedMoney ==
    ASSUME TypeOK, UNCHANGED credit, UNCHANGED billed
    PROVE  MoneyQuiet
  BY MoneyType DEF MoneyQuiet

\* A renewal's invoice is of another type.
LEMMA RenewalInvoice ==
    ASSUME TypeOK, NEW t \in Tasks, job[t].kind # "purchase", CommitInvoice(t), UNCHANGED credit
    PROVE  MoneyQuiet
<1>1. CASE BillsNow(t)
  <2>1. billed' = [billed EXCEPT ![UserOf(t)][job[t].kind] = @ + PriceOf(t)]
    BY <1>1 DEF CommitInvoice
  <2>2. \A u \in Users : billed'[u]["purchase"] = billed[u]["purchase"]
    BY <2>1 DEF TypeOK, InvoiceTypes
  <2>3. QED
    BY <2>2, MoneyType DEF MoneyQuiet
<1>2. CASE ~BillsNow(t)
  BY <1>2, UnchangedMoney DEF CommitInvoice
<1>3. QED
  BY <1>1, <1>2

\* A purchase spends at most its price, and a gift only adds credit.
LEMMA PurchaseInvoice ==
    ASSUME TypeOK, NEW t \in Tasks, job[t].kind = "purchase", CommitInvoice(t), GiveGift(t)
    PROVE  MoneySpentBy(t)
<1>1. UserOf(t) \in Users /\ PriceOf(t) \in Nat
  BY JobFields
<1>2. \A u \in Users : credit'[u] >= credit[u]
  <2>1. CASE GivesGift(t)
    <3>1. GiftAmount(PriceOf(t)) \in Nat
      BY GiftType DEF TypeOK, Jobs, PriceOf
    <3> DEFINE referrer == Referrer[UserOf(t)]
    <3>2. credit' = [credit EXCEPT ![referrer] = @ + GiftAmount(PriceOf(t))]
      BY <2>1 DEF GiveGift
    <3> HIDE DEF referrer
    <3>3. QED
      BY <3>1, <3>2 DEF TypeOK
  <2>2. CASE ~GivesGift(t)
    BY <2>2, MoneyType DEF GiveGift
  <2>3. QED
    BY <2>1, <2>2
<1>3. CASE BillsNow(t)
  <2>1. billed' = [billed EXCEPT ![UserOf(t)]["purchase"] = @ + PriceOf(t)]
    BY <1>3 DEF CommitInvoice
  <2>2. QED
    BY <1>1, <1>2, <2>1, MoneyType DEF TypeOK, MoneySpentBy, InvoiceTypes
<1>4. CASE ~BillsNow(t)
  <2>1. billed' = billed
    BY <1>4 DEF CommitInvoice
  <2>2. QED
    BY <1>1, <1>2, <2>1, MoneyType DEF MoneySpentBy
<1>5. QED
  BY <1>3, <1>4

\* Invocation t was not moved into the funded phases by this step.
NotFunding(t) ==
    \/ pc'[t] \notin {"funded", "created"}
    \/ pc'[t] = "created" /\ pc[t] = "funded" /\ job'[t] = job[t]

\* A step that spends nothing keeps the funding of those that wait.
LEMMA QuietKept ==
    ASSUME TypeOK, TypeOK', MoneyQuiet, PurchasesCovered, Funded,
           \A t \in Tasks : (pc'[t] = pc[t] /\ job'[t] = job[t]) \/ NotFunding(t)
    PROVE  PurchasesCovered' /\ Funded'
<1>1. PurchasesCovered'
  <2>1. ASSUME NEW u \in Users
        PROVE  credit'[u] + PostPaidLimit[u] >= billed'[u]["purchase"]
    <3>1. /\ credit'[u] >= credit[u] /\ billed'[u]["purchase"] = billed[u]["purchase"]
          /\ credit[u] + PostPaidLimit[u] >= billed[u]["purchase"]
      BY DEF MoneyQuiet, PurchasesCovered
    <3>2. credit'[u] \in Nat
      BY DEF TypeOK
    <3>3. QED
      BY <3>1, <3>2, MoneyType
  <2>2. QED
    BY <2>1 DEF PurchasesCovered
<1>2. Funded'
  <2>1. SUFFICES ASSUME NEW t \in Tasks, pc'[t] \in {"funded", "created"}
                 PROVE  credit'[UserOf(t)'] + PostPaidLimit[UserOf(t)']
                          >= billed'[UserOf(t)']["purchase"] + PriceOf(t)'
    BY DEF Funded
  <2>2. /\ pc[t] \in {"funded", "created"}
        /\ UserOf(t)' = UserOf(t) /\ PriceOf(t)' = PriceOf(t)
    BY <2>1 DEF NotFunding, UserOf, PriceOf
  <2>3. credit[UserOf(t)] + PostPaidLimit[UserOf(t)]
          >= billed[UserOf(t)]["purchase"] + PriceOf(t)
    BY <2>2 DEF Funded
  <2>4. UserOf(t) \in Users /\ PriceOf(t) \in Nat
    BY JobFields
  <2>5. credit'[UserOf(t)] \in Nat
    BY <2>4 DEF TypeOK
  <2>6. /\ credit'[UserOf(t)] >= credit[UserOf(t)]
        /\ billed'[UserOf(t)]["purchase"] = billed[UserOf(t)]["purchase"]
    BY <2>4 DEF MoneyQuiet
  <2>7. QED
    BY <2>2, <2>3, <2>4, <2>5, <2>6, MoneyType
<1>3. QED
  BY <1>1, <1>2

\* The check inside the lock funds invocation t itself.
LEMMA CheckBalanceKept ==
    ASSUME TypeOK, TypeOK', PurchasesCovered, Funded, NEW t \in Tasks, CheckBalance(t)
    PROVE  PurchasesCovered' /\ Funded'
<1> USE DEF ledger
<1>1. /\ credit' = credit /\ billed' = billed /\ job' = job
      /\ AvailableCredit(UserOf(t)) >= PriceOf(t)
  BY DEF CheckBalance
<1>2. PurchasesCovered'
  BY <1>1 DEF PurchasesCovered
<1>3. UserOf(t) \in Users /\ PriceOf(t) \in Nat
  BY JobFields
<1>4. credit[UserOf(t)] + PostPaidLimit[UserOf(t)]
        >= billed[UserOf(t)]["purchase"] + PriceOf(t)
  BY <1>1, <1>3, MoneyType DEF AvailableCredit, Balance
<1>5. \A s \in Tasks : s # t => pc'[s] = pc[s]
  BY DEF TypeOK, CheckBalance, GoTo
<1>6. Funded'
  BY <1>1, <1>4, <1>5 DEF Funded, UserOf, PriceOf
<1>7. QED
  BY <1>2, <1>6

\* A purchase commits: it was funded, and the lock keeps every other funded
\* purchase of the user out.
LEMMA CommitPurchaseKept ==
    ASSUME TypeOK', LockInv, PurchasesCovered, Funded, NEW t \in Tasks, CommitPurchase(t)
    PROVE  PurchasesCovered' /\ Funded'
<1>1. TypeOK /\ PhaseKind /\ LockExact
  BY DEF LockInv
<1>2. pc[t] = "created" /\ job[t].kind = "purchase" /\ InSection(t)
  BY <1>1 DEF CommitPurchase, PhaseKind, InSection
<1>3. MoneySpentBy(t)
  BY <1>1, <1>2, PurchaseInvoice DEF CommitPurchase
<1>4. OthersStay(t) /\ pc'[t] = "done"
  BY <1>1, FinishView DEF CommitPurchase
<1>5. UserOf(t) \in Users /\ PriceOf(t) \in Nat
  BY <1>1, JobFields
<1>6. \A u \in Users : credit'[u] \in Nat /\ billed'[u]["purchase"] \in Nat
  BY DEF TypeOK, InvoiceTypes
<1>7. PurchasesCovered'
  <2>1. ASSUME NEW u \in Users
        PROVE  credit'[u] + PostPaidLimit[u] >= billed'[u]["purchase"]
    <3>1. CASE u = UserOf(t)
      <4>1. credit[u] + PostPaidLimit[u] >= billed[u]["purchase"] + PriceOf(t)
        BY <1>2, <3>1 DEF Funded
      <4>2. credit'[u] >= credit[u] /\ billed'[u]["purchase"] <= billed[u]["purchase"] + PriceOf(t)
        BY <1>3, <3>1 DEF MoneySpentBy
      <4>3. QED
        BY <1>1, <1>5, <1>6, <4>1, <4>2, MoneyType
    <3>2. CASE u # UserOf(t)
      <4>1. credit'[u] >= credit[u] /\ billed'[u]["purchase"] = billed[u]["purchase"]
        BY <1>3, <3>2 DEF MoneySpentBy
      <4>2. QED
        BY <1>1, <1>6, <4>1, MoneyType DEF PurchasesCovered
    <3>3. QED
      BY <3>1, <3>2
  <2>2. QED
    BY <2>1 DEF PurchasesCovered
<1>8. Funded'
  <2>1. SUFFICES ASSUME NEW s \in Tasks, pc'[s] \in {"funded", "created"}
                 PROVE  credit'[UserOf(s)'] + PostPaidLimit[UserOf(s)']
                          >= billed'[UserOf(s)']["purchase"] + PriceOf(s)'
    BY DEF Funded
  <2>2. /\ s # t /\ pc[s] \in {"funded", "created"}
        /\ UserOf(s)' = UserOf(s) /\ PriceOf(s)' = PriceOf(s)
    BY <1>4, <2>1 DEF OthersStay, UserOf, PriceOf
  <2>3. UserOf(s) # UserOf(t)
    BY <1>1, <1>2, <2>2 DEF LockExact, InSection, PhaseKind
  <2>4. UserOf(s) \in Users /\ PriceOf(s) \in Nat
    BY <1>1, JobFields
  <2>5. credit[UserOf(s)] + PostPaidLimit[UserOf(s)]
          >= billed[UserOf(s)]["purchase"] + PriceOf(s)
    BY <2>2 DEF Funded
  <2>6. /\ credit'[UserOf(s)] >= credit[UserOf(s)]
        /\ billed'[UserOf(s)]["purchase"] = billed[UserOf(s)]["purchase"]
    BY <1>3, <2>3, <2>4 DEF MoneySpentBy
  <2>7. QED
    BY <1>1, <1>6, <2>2, <2>4, <2>5, <2>6, MoneyType
<1>9. QED
  BY <1>7, <1>8

\* Every other step of a purchase is quiet and funds nothing.
LEMMA PurchaseQuiet ==
    ASSUME TypeOK, NEW t \in Tasks, PurchaseStep(t), ~CheckBalance(t), ~CommitPurchase(t)
    PROVE  MoneyQuiet /\ NotFunding(t)
<1> USE DEF ledger, locals
<1>1. MoneyQuiet
  BY UnchangedMoney DEF PurchaseStep, EnterLock, PurchaseRefused, TooPoor, CreateOnServer,
     CreateFails, PurchaseRollback
<1>2. CASE EnterLock(t)
  BY <1>1, <1>2 DEF TypeOK, EnterLock, GoTo, NotFunding
<1>3. CASE CreateOnServer(t)
  BY <1>1, <1>3 DEF TypeOK, CreateOnServer, GoTo, NotFunding
<1>4. CASE Finish(t)
  BY <1>1, <1>4, FinishView DEF NotFunding
<1>5. QED
  BY <1>1, <1>2, <1>3, <1>4 DEF PurchaseStep, PurchaseRefused, TooPoor, CreateFails,
     PurchaseRollback

\* Every step of a renewal is quiet and funds nothing.
LEMMA RenewQuiet ==
    ASSUME TypeOK, PhaseKind, NEW t \in Tasks, RenewStep(t)
    PROVE  MoneyQuiet /\ NotFunding(t)
<1> USE DEF ledger, locals
<1>1. ASSUME ReadCredit(t) \/ RenewRefused(t) \/ RenewLock(t) \/ RenewOnPanel(t)
             \/ RenewRollback(t) \/ ReserveOpen(t) \/ ReserveRollback(t)
      PROVE  MoneyQuiet
  BY <1>1, UnchangedMoney DEF ReadCredit, RenewRefused, RenewLock, RenewOnPanel,
     RenewRollback, ReserveOpen, ReserveRollback
<1>2. ASSUME CommitRenew(t) \/ CommitReserve(t) \/ ReserveInactive(t)
      PROVE  MoneyQuiet
  <2>1. job[t].kind # "purchase" /\ CommitInvoice(t) /\ UNCHANGED credit
    BY <1>2 DEF PhaseKind, CommitRenew, CommitReserve, ReserveInactive
  <2>2. QED
    BY <2>1, RenewalInvoice
<1>3. MoneyQuiet
  BY <1>1, <1>2 DEF RenewStep
<1>4. NotFunding(t)
  BY RenewView DEF NotFunding
<1>5. QED
  BY <1>3, <1>4

\* The initial state satisfies the cover invariant.
LEMMA CoverInit == Init => CoverInv
<1> SUFFICES ASSUME Init PROVE CoverInv
  OBVIOUS
<1>1. TypeOK /\ LockInv
  BY LockInit, InitType
<1>2. PurchasesCovered
  BY <1>1, MoneyType DEF Init, PurchasesCovered, InvoiceTypes
<1>3. Funded
  BY DEF Init, Funded
<1>4. QED
  BY <1>1, <1>2, <1>3 DEF CoverInv

\* The cover invariant is inductive.
LEMMA CoverNext == CoverInv /\ [Next]_vars => CoverInv'
<1> SUFFICES ASSUME CoverInv, [Next]_vars PROVE PurchasesCovered' /\ Funded'
  BY LockNext DEF CoverInv
<1> USE DEF ledger
<1>1. TypeOK /\ PhaseKind /\ TypeOK' /\ PurchasesCovered /\ Funded /\ LockInv
  BY NextType DEF CoverInv, LockInv
<1>2. ASSUME NEW t \in Tasks, Begin(t) PROVE PurchasesCovered' /\ Funded'
  <2>1. OthersStay(t) /\ pc'[t] = "loaded"
    BY <1>1, <1>2, BeginView
  <2>2. MoneyQuiet
    BY <1>1, <1>2, UnchangedMoney
       DEF Begin, BeginPurchase, BeginRenewNow, BeginRenewReserve, RunDraft, Start
  <2>3. QED
    BY <1>1, <2>1, <2>2, QuietKept DEF OthersStay, NotFunding
<1>3. ASSUME NEW t \in Tasks, PurchaseStep(t) PROVE PurchasesCovered' /\ Funded'
  <2>1. CASE CheckBalance(t)
    BY <1>1, <2>1, CheckBalanceKept
  <2>2. CASE CommitPurchase(t)
    BY <1>1, <2>2, CommitPurchaseKept
  <2>3. CASE ~CheckBalance(t) /\ ~CommitPurchase(t)
    <3>1. OthersStay(t)
      BY <1>1, <1>3, PurchaseView
    <3>2. MoneyQuiet /\ NotFunding(t)
      BY <1>1, <1>3, <2>3, PurchaseQuiet
    <3>3. QED
      BY <1>1, <3>1, <3>2, QuietKept DEF OthersStay
  <2>4. QED
    BY <2>1, <2>2, <2>3
<1>4. ASSUME NEW t \in Tasks, RenewStep(t) PROVE PurchasesCovered' /\ Funded'
  <2>1. OthersStay(t)
    BY <1>1, <1>4, RenewView
  <2>2. MoneyQuiet /\ NotFunding(t)
    BY <1>1, <1>4, RenewQuiet
  <2>3. QED
    BY <1>1, <2>1, <2>2, QuietKept DEF OthersStay
<1>5. ASSUME NEW u \in Users, NEW a \in TopUps, TopUp(u, a)
      PROVE  PurchasesCovered' /\ Funded'
  <2>1. a \in Nat
    BY WalletAssumption
  <2>2. MoneyQuiet
    BY <1>1, <1>5, <2>1, MoneyType DEF TypeOK, TopUp, MoneyQuiet
  <2>3. QED
    BY <1>1, <1>5, <2>2, QuietKept DEF TopUp, locals
<1>6. ASSUME NEW u \in Users, ProfileLoad(u) \/ ProfileSave(u)
      PROVE  PurchasesCovered' /\ Funded'
  BY <1>1, <1>6, UnchangedMoney, QuietKept DEF ProfileLoad, ProfileSave, locals
<1>7. ASSUME Restart PROVE PurchasesCovered' /\ Funded'
  <2>1. \A t \in Tasks : NotFunding(t)
    BY <1>7 DEF Restart, NotFunding
  <2>2. QED
    BY <1>1, <1>7, <2>1, UnchangedMoney, QuietKept DEF Restart
<1>8. ASSUME UNCHANGED vars PROVE PurchasesCovered' /\ Funded'
  BY <1>1, <1>8, UnchangedMoney, QuietKept DEF vars, locals
<1>9. QED
  BY <1>2, <1>3, <1>4, <1>5, <1>6, <1>7, <1>8 DEF Next, TaskStep

\* What a user bought never exceeds what the user was credited plus the post-paid
\* limit (the balance check of purchase.activate_service inside its lock).
THEOREM PurchasesAlwaysCovered == Spec => []PurchasesCovered
<1>1. Spec => []CoverInv
  BY CoverInit, CoverNext, PTL DEF Spec
<1>2. CoverInv => PurchasesCovered
  BY DEF CoverInv
<1>3. QED
  BY <1>1, <1>2, PTL

-----------------------------------------------------------------------------
(* The referral flag *)

\* FlagMeansGift is inductive: only a purchase that makes the gift sets the flag.
LEMMA FlagNext == TypeOK /\ FlagMeansGift /\ [Next]_vars => FlagMeansGift'
<1> SUFFICES ASSUME TypeOK, FlagMeansGift, [Next]_vars PROVE FlagMeansGift'
  OBVIOUS
<1>1. ASSUME UNCHANGED giftVars PROVE FlagMeansGift'
  BY <1>1 DEF FlagMeansGift, giftVars
<1>2. ASSUME NEW t \in Tasks, CommitPurchase(t) PROVE FlagMeansGift'
  <2>1. rowCopy' = rowCopy /\ GiveGift(t)
    BY <1>2 DEF CommitPurchase
  <2>2. CASE GivesGift(t)
    <3>1. /\ gifts' = [gifts EXCEPT ![UserOf(t)] = @ + 1]
          /\ gifted' = [gifted EXCEPT ![UserOf(t)] = TRUE]
      BY <2>1, <2>2 DEF GiveGift
    <3>2. \A u \in Users : gifts[u] \in Nat
      BY DEF TypeOK
    <3>3. \A u \in Users : gifts[u] > 0 => gifts'[u] > 0
      BY <3>1, <3>2 DEF TypeOK
    <3>4. gifts'[UserOf(t)] > 0
      BY <3>1, <3>2, JobFields DEF TypeOK
    <3>5. \A u \in Users : u # UserOf(t) => gifted'[u] = gifted[u]
      BY <3>1 DEF TypeOK
    <3>6. QED
      BY <2>1, <3>3, <3>4, <3>5 DEF FlagMeansGift
  <2>3. CASE ~GivesGift(t)
    BY <2>1, <2>3, <1>1 DEF GiveGift, giftVars
  <2>4. QED
    BY <2>2, <2>3
<1>3. ASSUME NEW u \in Users, ProfileLoad(u) PROVE FlagMeansGift'
  BY <1>3 DEF TypeOK, FlagMeansGift, ProfileLoad
<1>4. ASSUME NEW u \in Users, ProfileSave(u) PROVE FlagMeansGift'
  <2>1. /\ gifted' = [gifted EXCEPT ![u] = (rowCopy[u] = "set")]
        /\ rowCopy' = [rowCopy EXCEPT ![u] = "none"]
        /\ gifts' = gifts
    BY <1>4 DEF ProfileSave
  <2>2. \A v \in Users : v # u => gifted'[v] = gifted[v] /\ rowCopy'[v] = rowCopy[v]
    BY <2>1 DEF TypeOK
  <2>3. gifted'[u] = (rowCopy[u] = "set") /\ rowCopy'[u] = "none"
    BY <2>1 DEF TypeOK
  <2>4. QED
    BY <2>1, <2>2, <2>3 DEF FlagMeansGift
<1>5. ASSUME Restart PROVE FlagMeansGift'
  BY <1>5 DEF FlagMeansGift, Restart
<1>6. ASSUME NEW t \in Tasks, Begin(t) PROVE UNCHANGED giftVars
  BY <1>6 DEF Begin, BeginPurchase, BeginRenewNow, BeginRenewReserve, RunDraft, Start
<1>7. ASSUME NEW t \in Tasks, PurchaseStep(t), ~CommitPurchase(t) PROVE UNCHANGED giftVars
  BY <1>7 DEF PurchaseStep, EnterLock, PurchaseRefused, CheckBalance, TooPoor,
     CreateOnServer, CreateFails, PurchaseRollback
<1>8. ASSUME NEW t \in Tasks, RenewStep(t) PROVE UNCHANGED giftVars
  BY <1>8 DEF RenewStep, ReadCredit, RenewRefused, RenewLock, RenewOnPanel, CommitRenew,
     RenewRollback, ReserveOpen, CommitReserve, ReserveInactive, ReserveRollback
<1>9. ASSUME \/ \E u \in Users, a \in TopUps : TopUp(u, a)
             \/ UNCHANGED vars
      PROVE  UNCHANGED giftVars
  BY <1>9 DEF TopUp, vars
<1>10. QED
  BY <1>1, <1>2, <1>3, <1>4, <1>5, <1>6, <1>7, <1>8, <1>9 DEF Next, TaskStep

\* The one-time referral flag always stands for a gift that was made, whatever
\* whole-row saves race with purchases.
THEOREM FlagAlwaysMeansGift == Spec => []FlagMeansGift
<1>1. Init => FlagMeansGift
  BY DEF Init, FlagMeansGift
<1>2. QED
  BY <1>1, InitType, NextType, FlagNext, PTL DEF Spec

-----------------------------------------------------------------------------
(* The panel acts before the database *)

\* An invocation between its panel call and its commit accounts for one account,
\* or one extension, that is not in the database yet.
Ahead ==
    \A t \in Tasks :
        /\ pc[t] = "created" => sold[UserOf(t)] < remote[UserOf(t)]
        /\ pc[t] = "renewed" => renewals[UserOf(t)] < extended[UserOf(t)]

AheadInv == LockInv /\ ProvisionedFirst /\ Ahead

\* Nothing is entered into the database, the panel may have done more.
PanelOnly ==
    \A u \in Users :
        /\ sold'[u] = sold[u] /\ remote'[u] >= remote[u]
        /\ renewals'[u] = renewals[u] /\ extended'[u] >= extended[u]

PanelPhase == {"created", "renewed"}

\* The counts of proxies, accounts and renewals are natural numbers ...
LEMMA ServerType ==
    ASSUME TypeOK, NEW u \in Users
    PROVE  sold[u] \in Nat /\ remote[u] \in Nat /\ renewals[u] \in Nat /\ extended[u] \in Nat
  BY DEF TypeOK

\* ... in the next state too.
LEMMA ServerTypeNext ==
    ASSUME TypeOK', NEW u \in Users
    PROVE  /\ sold'[u] \in Nat /\ remote'[u] \in Nat
           /\ renewals'[u] \in Nat /\ extended'[u] \in Nat
  BY DEF TypeOK

\* A step that leaves all four counts alone is the panel's only.
LEMMA PanelUnchanged ==
    ASSUME TypeOK, UNCHANGED <<sold, remote, renewals, extended>>
    PROVE  PanelOnly
  BY ServerType DEF PanelOnly

\* A step of the panel only, after which no invocation newly counts on a difference.
LEMMA PanelKept ==
    ASSUME TypeOK, TypeOK', PanelOnly, ProvisionedFirst, Ahead,
           \A t \in Tasks : (pc'[t] = pc[t] /\ job'[t] = job[t]) \/ pc'[t] \notin PanelPhase
    PROVE  ProvisionedFirst' /\ Ahead'
<1>1. ProvisionedFirst'
  BY ServerType, ServerTypeNext DEF PanelOnly, ProvisionedFirst
<1>2. ASSUME NEW t \in Tasks, pc'[t] \in PanelPhase
      PROVE  /\ pc'[t] = "created" => sold'[UserOf(t)'] < remote'[UserOf(t)']
             /\ pc'[t] = "renewed" => renewals'[UserOf(t)'] < extended'[UserOf(t)']
  <2>1. pc'[t] = pc[t] /\ UserOf(t)' = UserOf(t) /\ UserOf(t) \in Users
    BY <1>2, JobFields DEF UserOf
  <2>2. QED
    BY <2>1, ServerType, ServerTypeNext DEF PanelOnly, Ahead
<1>3. QED
  BY <1>1, <1>2 DEF Ahead, PanelPhase

\* The panel call of invocation t succeeds.
LEMMA PanelCallKept ==
    ASSUME TypeOK, TypeOK', PhaseKind, ProvisionedFirst, Ahead, NEW t \in Tasks,
           CreateOnServer(t) \/ RenewOnPanel(t)
    PROVE  ProvisionedFirst' /\ Ahead'
<1>1. /\ job' = job /\ UserOf(t) \in Users
      /\ \A s \in Tasks : s # t => pc'[s] = pc[s]
  BY JobFields DEF TypeOK, CreateOnServer, RenewOnPanel, locals, GoTo
<1>2. \A s \in Tasks : UserOf(s)' = UserOf(s) /\ UserOf(s) \in Users
  BY <1>1, JobFields DEF UserOf
<1>3. CASE CreateOnServer(t)
  <2>1. /\ sold' = sold /\ renewals' = renewals /\ extended' = extended
        /\ remote' = [remote EXCEPT ![UserOf(t)] = @ + 1]
        /\ pc'[t] = "created"
    BY <1>3 DEF TypeOK, CreateOnServer, GoTo
  <2>2. \A u \in Users : remote'[u] >= remote[u]
    BY <2>1, ServerType DEF TypeOK
  <2>3. remote'[UserOf(t)] = remote[UserOf(t)] + 1
    BY <1>1, <2>1 DEF TypeOK
  <2>4. ProvisionedFirst'
    BY <2>1, <2>2, ServerType, ServerTypeNext DEF ProvisionedFirst
  <2>5. sold'[UserOf(t)] < remote'[UserOf(t)]
    BY <1>1, <2>1, <2>3, ServerType DEF ProvisionedFirst
  <2>6. Ahead'
    BY <1>1, <1>2, <2>1, <2>2, <2>5, ServerType, ServerTypeNext DEF Ahead
  <2>7. QED
    BY <2>4, <2>6
<1>4. CASE RenewOnPanel(t)
  <2>1. /\ sold' = sold /\ renewals' = renewals /\ remote' = remote
        /\ extended' = [extended EXCEPT ![UserOf(t)] = @ + 1]
        /\ pc'[t] = "renewed"
    BY <1>4 DEF TypeOK, RenewOnPanel, GoTo
  <2>2. \A u \in Users : extended'[u] >= extended[u]
    BY <2>1, ServerType DEF TypeOK
  <2>3. extended'[UserOf(t)] = extended[UserOf(t)] + 1
    BY <1>1, <2>1 DEF TypeOK
  <2>4. ProvisionedFirst'
    BY <2>1, <2>2, ServerType, ServerTypeNext DEF ProvisionedFirst
  <2>5. renewals'[UserOf(t)] < extended'[UserOf(t)]
    BY <1>1, <2>1, <2>3, ServerType DEF ProvisionedFirst
  <2>6. Ahead'
    BY <1>1, <1>2, <2>1, <2>2, <2>5, ServerType, ServerTypeNext DEF Ahead
  <2>7. QED
    BY <2>4, <2>6
<1>5. QED
  BY <1>3, <1>4

\* Its commit enters that one account or extension; the lock keeps out any other
\* invocation of the user that counts on the same difference.
LEMMA PanelCommitKept ==
    ASSUME TypeOK', LockInv, ProvisionedFirst, Ahead, NEW t \in Tasks,
           CommitPurchase(t) \/ CommitRenew(t)
    PROVE  ProvisionedFirst' /\ Ahead'
<1>1. TypeOK /\ PhaseKind /\ LockExact
  BY DEF LockInv
<1>2. InSection(t) /\ Finish(t)
  BY <1>1 DEF CommitPurchase, CommitRenew, PhaseKind, InSection
<1>3. OthersStay(t) /\ pc'[t] = "done"
  BY <1>1, <1>2, FinishView
<1>4. ASSUME NEW s \in Tasks, pc'[s] \in PanelPhase
      PROVE  /\ pc'[s] = pc[s] /\ UserOf(s)' = UserOf(s) /\ UserOf(s) \in Users
             /\ UserOf(s) # UserOf(t)
  <2>1. s # t /\ pc'[s] = pc[s] /\ UserOf(s)' = UserOf(s) /\ UserOf(s) \in Users
    BY <1>1, <1>3, <1>4, JobFields DEF OthersStay, UserOf, PanelPhase
  <2>2. InSection(s)
    BY <1>1, <1>4, <2>1 DEF InSection, PhaseKind, PanelPhase
  <2>3. QED
    BY <1>1, <1>2, <2>1, <2>2 DEF LockExact
<1>5. UserOf(t) \in Users
  BY <1>1, JobFields
<1>6. CASE CommitPurchase(t)
  <2>1. /\ sold' = [sold EXCEPT ![UserOf(t)] = @ + 1]
        /\ remote' = remote /\ renewals' = renewals /\ extended' = extended
        /\ sold[UserOf(t)] < remote[UserOf(t)]
    BY <1>6 DEF CommitPurchase, Ahead
  <2>2. /\ sold'[UserOf(t)] = sold[UserOf(t)] + 1
        /\ \A u \in Users : u # UserOf(t) => sold'[u] = sold[u]
    BY <1>1, <1>5, <2>1 DEF TypeOK
  <2>3. ProvisionedFirst'
    BY <1>1, <1>5, <2>1, <2>2, ServerType DEF ProvisionedFirst
  <2>4. Ahead'
    BY <1>4, <2>1, <2>2 DEF Ahead, PanelPhase
  <2>5. QED
    BY <2>3, <2>4
<1>7. CASE CommitRenew(t)
  <2>1. /\ renewals' = [renewals EXCEPT ![UserOf(t)] = @ + 1]
        /\ remote' = remote /\ sold' = sold /\ extended' = extended
        /\ renewals[UserOf(t)] < extended[UserOf(t)]
    BY <1>7 DEF CommitRenew, Ahead
  <2>2. /\ renewals'[UserOf(t)] = renewals[UserOf(t)] + 1
        /\ \A u \in Users : u # UserOf(t) => renewals'[u] = renewals[u]
    BY <1>1, <1>5, <2>1 DEF TypeOK
  <2>3. ProvisionedFirst'
    BY <1>1, <1>5, <2>1, <2>2, ServerType DEF ProvisionedFirst
  <2>4. Ahead'
    BY <1>4, <2>1, <2>2 DEF Ahead, PanelPhase
  <2>5. QED
    BY <2>3, <2>4
<1>8. QED
  BY <1>6, <1>7

\* A failed creation may leave one more account on the panel.
LEMMA CreateFailsPanel ==
    ASSUME TypeOK, NEW t \in Tasks, CreateFails(t)
    PROVE  PanelOnly
<1>1. PICK made \in {0, 1} : remote' = [remote EXCEPT ![UserOf(t)] = @ + made]
  BY DEF CreateFails
<1>2. \A u \in Users : remote'[u] >= remote[u]
  BY <1>1, ServerType DEF TypeOK
<1>3. QED
  BY <1>2, ServerType DEF CreateFails, PanelOnly

\* The initial state satisfies the panel invariant.
LEMMA AheadInit == Init => AheadInv
<1> SUFFICES ASSUME Init PROVE AheadInv
  OBVIOUS
<1>1. ProvisionedFirst /\ Ahead
  BY DEF Init, ProvisionedFirst, Ahead
<1>2. QED
  BY <1>1, LockInit DEF AheadInv

\* The panel invariant is inductive.
LEMMA AheadNext == AheadInv /\ [Next]_vars => AheadInv'
<1> SUFFICES ASSUME AheadInv, [Next]_vars PROVE ProvisionedFirst' /\ Ahead'
  BY LockNext DEF AheadInv
<1> USE DEF ledger
<1>1. TypeOK /\ PhaseKind /\ TypeOK' /\ LockInv /\ ProvisionedFirst /\ Ahead
  BY NextType DEF AheadInv, LockInv
<1>2. ASSUME NEW t \in Tasks, Begin(t) PROVE ProvisionedFirst' /\ Ahead'
  <2>1. OthersStay(t) /\ pc'[t] = "loaded"
    BY <1>1, <1>2, BeginView
  <2>2. PanelOnly
    BY <1>1, <1>2, PanelUnchanged
       DEF Begin, BeginPurchase, BeginRenewNow, BeginRenewReserve, RunDraft, Start
  <2>3. QED
    BY <1>1, <2>1, <2>2, PanelKept DEF OthersStay, PanelPhase
<1>3. ASSUME NEW t \in Tasks, PurchaseStep(t) PROVE ProvisionedFirst' /\ Ahead'
  <2>1. CASE CreateOnServer(t)
    BY <1>1, <2>1, PanelCallKept
  <2>2. CASE CommitPurchase(t)
    BY <1>1, <2>2, PanelCommitKept
  <2>3. ASSUME EnterLock(t) \/ CheckBalance(t) PROVE PanelOnly /\ pc'[t] \notin PanelPhase
    BY <1>1, <2>3, PanelUnchanged DEF TypeOK, EnterLock, CheckBalance, GoTo, PanelPhase
  <2>4. ASSUME PurchaseRefused(t) \/ TooPoor(t) \/ CreateFails(t) \/ PurchaseRollback(t)
        PROVE  PanelOnly /\ pc'[t] \notin PanelPhase
    <3>1. pc'[t] = "done"
      BY <1>1, <2>4, FinishView DEF PurchaseRefused, TooPoor, CreateFails, PurchaseRollback
    <3>2. PanelOnly
      BY <1>1, <2>4, CreateFailsPanel, PanelUnchanged
         DEF PurchaseRefused, TooPoor, PurchaseRollback
    <3>3. QED
      BY <3>1, <3>2 DEF PanelPhase
  <2>5. OthersStay(t)
    BY <1>1, <1>3, PurchaseView
  <2>6. QED
    BY <1>1, <1>3, <2>1, <2>2, <2>3, <2>4, <2>5, PanelKept DEF PurchaseStep, OthersStay
<1>4. ASSUME NEW t \in Tasks, RenewStep(t) PROVE ProvisionedFirst' /\ Ahead'
  <2>1. CASE RenewOnPanel(t)
    BY <1>1, <2>1, PanelCallKept
  <2>2. CASE CommitRenew(t)
    BY <1>1, <2>2, PanelCommitKept
  <2>3. ASSUME ReadCredit(t) \/ RenewLock(t) \/ ReserveOpen(t)
        PROVE  PanelOnly /\ pc'[t] \notin PanelPhase
    BY <1>1, <2>3, PanelUnchanged DEF TypeOK, ReadCredit, RenewLock, ReserveOpen, GoTo, PanelPhase
  <2>4. ASSUME RenewRefused(t) \/ RenewRollback(t) \/ CommitReserve(t)
                 \/ ReserveInactive(t) \/ ReserveRollback(t)
        PROVE  PanelOnly /\ pc'[t] \notin PanelPhase
    <3>1. pc'[t] = "done"
      BY <1>1, <2>4, FinishView
         DEF RenewRefused, RenewRollback, CommitReserve, ReserveInactive, ReserveRollback
    <3>2. PanelOnly
      BY <1>1, <2>4, PanelUnchanged
         DEF RenewRefused, RenewRollback, CommitReserve, ReserveInactive, ReserveRollback
    <3>3. QED
      BY <3>1, <3>2 DEF PanelPhase
  <2>5. OthersStay(t)
    BY <1>1, <1>4, RenewView
  <2>6. QED
    BY <1>1, <1>4, <2>1, <2>2, <2>3, <2>4, <2>5, PanelKept DEF RenewStep, OthersStay
<1>5. ASSUME \/ \E u \in Users, a \in TopUps : TopUp(u, a)
             \/ \E u \in Users : ProfileLoad(u) \/ ProfileSave(u)
             \/ UNCHANGED vars
      PROVE  ProvisionedFirst' /\ Ahead'
  <2>1. UNCHANGED <<sold, remote, renewals, extended>> /\ UNCHANGED <<pc, job>>
    BY <1>5 DEF TopUp, ProfileLoad, ProfileSave, vars, locals
  <2>2. QED
    BY <1>1, <2>1, PanelUnchanged, PanelKept
<1>6. ASSUME Restart PROVE ProvisionedFirst' /\ Ahead'
  <2>1. \A t \in Tasks : pc'[t] \notin PanelPhase
    BY <1>6 DEF Restart, PanelPhase
  <2>2. QED
    BY <1>1, <1>6, <2>1, PanelUnchanged, PanelKept DEF Restart
<1>7. QED
  BY <1>2, <1>3, <1>4, <1>5, <1>6 DEF Next, TaskStep

\* No proxy is in the database without an account that the panel made, and no
\* renewal is billed that the panel did not do.
THEOREM AlwaysProvisionedFirst == Spec => []ProvisionedFirst
<1>1. Spec => []AheadInv
  BY AheadInit, AheadNext, PTL DEF Spec
<1>2. AheadInv => ProvisionedFirst
  BY DEF AheadInv
<1>3. QED
  BY <1>1, <1>2, PTL

-----------------------------------------------------------------------------
(* Receipts and the ledger *)

\* The part of ReviewTypeOK that the ledger sees.
LedgerType ==
    /\ status \in [Receipts -> {"waiting", "finished", "rejected"}]
    /\ desk \in [Reviewers -> [at: DeskSteps, receipt: Receipts]]
    /\ credits \in [Receipts -> Nat]
    /\ launches \in [Receipts -> Nat]

Notifying(a, r) == At(a, "notifying") /\ On(a) = r

\* A receipt that waits was neither credited nor launched.
WaitingIsNew ==
    \A r \in Receipts : status[r] = "waiting" =>
        credits[r] = 0 /\ \A a \in Reviewers : ~Notifying(a, r)

\* A handler that is about to launch the activation made the receipt's one
\* credit, and it is the only such handler.
OneNotifier ==
    /\ \A a \in Reviewers, r \in Receipts : Notifying(a, r) => launches[r] < credits[r]
    /\ \A a, b \in Reviewers, r \in Receipts : Notifying(a, r) /\ Notifying(b, r) => a = b

CreditedOnce == \A r \in Receipts : credits[r] <= 1 /\ launches[r] <= credits[r]

LedgerInv == LedgerType /\ WaitingIsNew /\ OneNotifier /\ CreditedOnce

\* The receipts and their desks are left alone: jobs start or return, users buy.
Elsewhere == UNCHANGED <<status, desk, credits, launches>>

\* Every step opens a receipt, is a handler's, a restart or elsewhere.
LEMMA ReviewMoves ==
    ASSUME [ReviewNext]_allVars
    PROVE  \/ \E a \in Reviewers, r \in Receipts :
                 OpenAccept(a, r) \/ OpenAutoAccept(a, r) \/ OpenReject(a, r) \/ OpenOverrule(a, r)
           \/ \E a \in Reviewers : ReviewStep(a)
           \/ ReviewRestart
           \/ Elsewhere
  BY DEF ReviewNext, StartJob, JobReturns, review, allVars, Elsewhere

-----------------------------------------------------------------------------
\* The initial state satisfies the invariant.
LEMMA LedgerInvInit == ReviewInit => LedgerInv
  BY ReceiptAssumption DEF ReviewInit, LedgerInv, LedgerType, WaitingIsNew, OneNotifier,
     CreditedOnce, Notifying, At, On, DeskSteps

\* Sitting down on a receipt, anywhere but at the message to the user, keeps it.
LEMMA SitKept ==
    ASSUME LedgerInv, NEW a \in Reviewers, NEW r \in Receipts,
           NEW where \in DeskSteps \ {"notifying"}, Sit(a, where, r),
           UNCHANGED <<status, credits, launches>>
    PROVE  LedgerInv'
<1>1. desk' \in [Reviewers -> [at: DeskSteps, receipt: Receipts]]
  BY DEF LedgerInv, LedgerType, Sit
<1>2. \A b \in Reviewers, q \in Receipts : Notifying(b, q)' => Notifying(b, q)
  BY DEF LedgerInv, LedgerType, Sit, Notifying, At, On
<1>3. QED
  BY <1>1, <1>2 DEF LedgerInv, LedgerType, WaitingIsNew, OneNotifier, CreditedOnce

\* So does moving on to any other place, whatever a status that is no longer
\* waiting becomes.
LEMMA MoveKept ==
    ASSUME LedgerInv, NEW a \in Reviewers,
           NEW where \in DeskSteps \ {"notifying"}, Move(a, where),
           status' \in [Receipts -> {"waiting", "finished", "rejected"}],
           \A r \in Receipts : status'[r] = "waiting" => status[r] = "waiting",
           UNCHANGED <<credits, launches>>
    PROVE  LedgerInv'
<1>1. desk' \in [Reviewers -> [at: DeskSteps, receipt: Receipts]]
  BY DEF LedgerInv, LedgerType, Move
<1>2. \A b \in Reviewers, q \in Receipts : Notifying(b, q)' => Notifying(b, q)
  BY DEF LedgerInv, LedgerType, Move, Notifying, At, On
<1>3. QED
  BY <1>1, <1>2 DEF LedgerInv, LedgerType, WaitingIsNew, OneNotifier, CreditedOnce

\* What a handler's desk shows after it moved.
LEMMA MoveView ==
    ASSUME LedgerInv, NEW a \in Reviewers, NEW where \in DeskSteps, Move(a, where)
    PROVE  /\ desk' \in [Reviewers -> [at: DeskSteps, receipt: Receipts]]
           /\ On(a) \in Receipts /\ desk'[a].at = where
           /\ \A b \in Reviewers : desk'[b].receipt = On(b)
           /\ \A b \in Reviewers : b # a => desk'[b].at = desk[b].at
  BY DEF LedgerInv, LedgerType, Move, On

\* The handler whose conditional update matched makes the first credit.
LEMMA FinishKept ==
    ASSUME LedgerInv, NEW a \in Reviewers, FinishWaiting(a)
    PROVE  LedgerInv'
<1>1. CASE status[On(a)] = "waiting"
  <2>1. /\ status' = [status EXCEPT ![On(a)] = "finished"]
        /\ credits' = [credits EXCEPT ![On(a)] = @ + 1]
        /\ launches' = launches
        /\ Move(a, "notifying")
    BY <1>1 DEF FinishWaiting
  <2>2. /\ desk' \in [Reviewers -> [at: DeskSteps, receipt: Receipts]]
        /\ On(a) \in Receipts /\ desk'[a].at = "notifying"
        /\ \A b \in Reviewers : desk'[b].receipt = On(b)
        /\ \A b \in Reviewers : b # a => desk'[b].at = desk[b].at
    BY <2>1, MoveView DEF DeskSteps
  <2>3. credits[On(a)] = 0 /\ \A b \in Reviewers : ~Notifying(b, On(a))
    BY <1>1, <2>2 DEF LedgerInv, WaitingIsNew
  <2>4. /\ LedgerType'
        /\ credits'[On(a)] = 1 /\ status'[On(a)] # "waiting"
        /\ \A r \in Receipts : r # On(a) => credits'[r] = credits[r] /\ status'[r] = status[r]
    BY <2>1, <2>2, <2>3 DEF LedgerInv, LedgerType
  <2>5. \A b \in Reviewers, r \in Receipts :
           Notifying(b, r)' => (b = a /\ r = On(a)) \/ (r # On(a) /\ Notifying(b, r))
    BY <2>2, <2>3 DEF Notifying, At, On
  <2>6. launches[On(a)] < credits'[On(a)]
    BY <2>2, <2>3, <2>4 DEF LedgerInv, LedgerType, CreditedOnce
  <2>7. WaitingIsNew' /\ CreditedOnce'
    BY <2>1, <2>2, <2>3, <2>4, <2>5 DEF LedgerInv, LedgerType, WaitingIsNew, CreditedOnce
  <2>8. ASSUME NEW b \in Reviewers, NEW r \in Receipts, Notifying(b, r)'
        PROVE  launches'[r] < credits'[r]
    BY <2>1, <2>4, <2>5, <2>6, <2>8 DEF LedgerInv, OneNotifier
  <2>9. ASSUME NEW b \in Reviewers, NEW c \in Reviewers, NEW r \in Receipts,
               Notifying(b, r)', Notifying(c, r)'
        PROVE  b = c
    BY <2>5, <2>9 DEF LedgerInv, OneNotifier
  <2>10. QED
    BY <2>4, <2>7, <2>8, <2>9 DEF LedgerInv, OneNotifier
<1>2. CASE status[On(a)] # "waiting"
  BY <1>2, MoveKept DEF FinishWaiting, LedgerInv, LedgerType, DeskSteps
<1>3. QED
  BY <1>1, <1>2

\* The one notifying handler launches the activation once.
LEMMA NotifyKept ==
    ASSUME LedgerInv, NEW a \in Reviewers, Notify(a)
    PROVE  LedgerInv'
<1>1. /\ launches' = [launches EXCEPT ![On(a)] = @ + 1]
      /\ status' = status /\ credits' = credits
      /\ Notifying(a, On(a)) /\ Move(a, "idle")
  BY DEF Notify, Notifying
<1>2. /\ desk' \in [Reviewers -> [at: DeskSteps, receipt: Receipts]]
      /\ On(a) \in Receipts /\ desk'[a].at = "idle"
      /\ \A b \in Reviewers : desk'[b].receipt = On(b)
      /\ \A b \in Reviewers : b # a => desk'[b].at = desk[b].at
  BY <1>1, MoveView DEF DeskSteps
<1>3. launches[On(a)] < credits[On(a)] /\ credits[On(a)] <= 1
  BY <1>1, <1>2 DEF LedgerInv, OneNotifier, CreditedOnce
<1>4. /\ LedgerType'
      /\ launches'[On(a)] <= credits[On(a)]
      /\ \A r \in Receipts : r # On(a) => launches'[r] = launches[r]
  BY <1>1, <1>2, <1>3 DEF LedgerInv, LedgerType
<1>5. \A b \in Reviewers, r \in Receipts : Notifying(b, r)' => Notifying(b, r) /\ r # On(a)
  BY <1>1, <1>2 DEF LedgerInv, OneNotifier, Notifying, At, On
<1>6. WaitingIsNew' /\ CreditedOnce'
  BY <1>1, <1>3, <1>4, <1>5 DEF LedgerInv, WaitingIsNew, CreditedOnce
<1>7. OneNotifier'
  BY <1>1, <1>4, <1>5 DEF LedgerInv, OneNotifier
<1>8. QED
  BY <1>4, <1>6, <1>7 DEF LedgerInv

\* Every other step of a handler at its desk keeps the invariant.
LEMMA DeskKept ==
    ASSUME LedgerInv, NEW a \in Reviewers, ReviewStep(a)
    PROVE  LedgerInv'
<1> USE DEF LedgerInv, LedgerType, DeskSteps
<1>1. CASE FinishWaiting(a)
  BY <1>1, FinishKept
<1>2. CASE Notify(a)
  BY <1>2, NotifyKept
<1>3. CASE NotifyFails(a)
  BY <1>3, MoveKept DEF NotifyFails
<1>4. CASE RejectWaiting(a)
  BY <1>4, MoveKept DEF RejectWaiting, On
<1>5. CASE Overrule(a)
  BY <1>5, MoveKept DEF Overrule, On
<1>6. CASE RevokeRead(a)
  <2>1. PICK where \in {"removing", "voiding", "marking"} : Move(a, where)
    BY <1>6 DEF RevokeRead
  <2>2. QED
    BY <1>6, <2>1, MoveKept DEF RevokeRead
<1>7. CASE RevokeRemove(a)
  BY <1>7, MoveKept DEF RevokeRemove
<1>8. CASE RevokeVoid(a)
  BY <1>8, MoveKept DEF RevokeVoid
<1>9. CASE RevokeMark(a)
  BY <1>9, MoveKept DEF RevokeMark, On
<1>10. QED
  BY <1>1, <1>2, <1>3, <1>4, <1>5, <1>6, <1>7, <1>8, <1>9 DEF ReviewStep

\* Steps that leave the receipts, their desks and their counts alone.
LEMMA QuietLedger ==
    ASSUME LedgerInv, UNCHANGED <<status, desk, credits, launches>>
    PROVE  LedgerInv'
  BY DEF LedgerInv, LedgerType, WaitingIsNew, OneNotifier, CreditedOnce, Notifying, At, On

\* After a restart no handler is at a desk.
LEMMA RestartKept == LedgerInv /\ ReviewRestart => LedgerInv'
<1> SUFFICES ASSUME LedgerInv, ReviewRestart PROVE LedgerInv'
  OBVIOUS
<1>1. desk' = [a \in Reviewers |-> [desk[a] EXCEPT !.at = "idle"]]
  BY DEF ReviewRestart
<1>2. /\ desk' \in [Reviewers -> [at: DeskSteps, receipt: Receipts]]
      /\ \A a \in Reviewers : desk'[a].at = "idle"
  BY <1>1 DEF LedgerInv, LedgerType, DeskSteps
<1>3. \A a \in Reviewers, r \in Receipts : ~Notifying(a, r)'
  BY <1>2 DEF Notifying, At
<1>4. QED
  BY <1>2, <1>3 DEF ReviewRestart, LedgerInv, LedgerType, WaitingIsNew, OneNotifier, CreditedOnce

\* The invariant is inductive.
LEMMA LedgerInvNext == LedgerInv /\ [ReviewNext]_allVars => LedgerInv'
<1> SUFFICES ASSUME LedgerInv, [ReviewNext]_allVars PROVE LedgerInv'
  OBVIOUS
<1>1. ASSUME NEW a \in Reviewers, NEW r \in Receipts,
             OpenAccept(a, r) \/ OpenAutoAccept(a, r) \/ OpenReject(a, r) \/ OpenOverrule(a, r)
      PROVE  LedgerInv'
  <2>1. PICK where \in {"accepting", "rejecting", "revoking", "overruling"} : Sit(a, where, r)
    BY <1>1 DEF OpenAccept, OpenAutoAccept, OpenReject, OpenOverrule
  <2>2. UNCHANGED <<status, credits, launches>>
    BY <1>1 DEF OpenAccept, OpenAutoAccept, OpenReject, OpenOverrule
  <2>3. QED
    BY <2>1, <2>2, SitKept DEF DeskSteps
<1>2. ASSUME NEW a \in Reviewers, ReviewStep(a) PROVE LedgerInv'
  BY <1>2, DeskKept
<1>3. CASE ReviewRestart
  BY <1>3, RestartKept
<1>4. CASE Elsewhere
  BY <1>4, QuietLedger DEF Elsewhere
<1>5. QED
  BY <1>1, <1>2, <1>3, <1>4, ReviewMoves

-----------------------------------------------------------------------------
(* The refinement *)

\* The ledger's view of one receipt.
LEMMA PaidView ==
    ASSUME LedgerType, NEW r \in Receipts
    PROVE  /\ Paid[r] = "pending" <=> status[r] = "waiting"
           /\ Paid[r] = "credited" <=> status[r] = "finished"
           /\ Paid[r] = "closed" <=> status[r] = "rejected"
  BY DEF LedgerType, Paid

\* A step that leaves the status alone leaves the ledger's view alone.
LEMMA PaidSame ==
    ASSUME UNCHANGED status
    PROVE  Paid' = Paid
  BY DEF Paid

\* Setting one receipt's status sets what the ledger sees of it.
LEMMA PaidSet ==
    ASSUME LedgerType, NEW r \in Receipts, NEW s \in {"finished", "rejected"},
           status' = [status EXCEPT ![r] = s]
    PROVE  Paid' = [Paid EXCEPT ![r] = IF s = "finished" THEN "credited" ELSE "closed"]
<1> DEFINE seen == [waiting |-> "pending", finished |-> "credited", rejected |-> "closed"]
<1>1. seen[s] = IF s = "finished" THEN "credited" ELSE "closed"
  OBVIOUS
<1>2. \A q \in Receipts : status'[q] = IF q = r THEN s ELSE status[q]
  BY DEF LedgerType
<1>3. Paid = [q \in Receipts |-> seen[status[q]]] /\ Paid' = [q \in Receipts |-> seen[status'[q]]]
  BY DEF Paid
<1> HIDE DEF seen
<1>4. QED
  BY <1>1, <1>2, <1>3

\* The initial states are initial states of the ledger.
LEMMA LedgerStarts == ReviewInit => Ledger!Init
  BY DEF ReviewInit, Ledger!Init, Paid

\* A handler's step is a step of the ledger, or none.
LEMMA DeskRefines ==
    ASSUME LedgerInv, NEW a \in Reviewers, ReviewStep(a)
    PROVE  Ledger!Next \/ UNCHANGED <<Paid, credits, launches>>
<1> DEFINE r == On(a)
<1>1. r \in Receipts /\ LedgerType
  BY DEF LedgerInv, LedgerType, On
<1>2. CASE FinishWaiting(a)
  <2>1. CASE status[r] = "waiting"
    <3>1. Ledger!Credit(r)
      BY <1>1, <1>2, <2>1, PaidView, PaidSet DEF FinishWaiting, Ledger!Credit
    <3>2. QED
      BY <1>1, <3>1 DEF Ledger!Next
  <2>2. CASE status[r] # "waiting"
    BY <1>2, <2>2, PaidSame DEF FinishWaiting
  <2>3. QED
    BY <2>1, <2>2
<1>3. CASE Notify(a)
  <2>1. launches[r] < credits[r]
    BY <1>1, <1>3 DEF Notify, LedgerInv, OneNotifier, Notifying
  <2>2. Ledger!Launch(r)
    BY <1>3, <2>1, PaidSame DEF Notify, Ledger!Launch
  <2>3. QED
    BY <1>1, <2>2 DEF Ledger!Next
<1>4. CASE RejectWaiting(a) \/ RevokeMark(a)
  <2>1. UNCHANGED <<credits, launches>>
    BY <1>4 DEF RejectWaiting, RevokeMark
  <2>2. status' = status \/ status' = [status EXCEPT ![r] = "rejected"]
    BY <1>4 DEF RejectWaiting, RevokeMark
  <2>3. CASE status' = status \/ status[r] = "rejected"
    BY <1>1, <2>1, <2>2, <2>3 DEF LedgerType, Paid
  <2>4. CASE status' = [status EXCEPT ![r] = "rejected"] /\ status[r] # "rejected"
    <3>1. Paid[r] \in {"pending", "credited"}
      BY <1>1, <2>4, PaidView DEF LedgerType
    <3>2. Ledger!Close(r)
      BY <1>1, <2>1, <2>4, <3>1, PaidSet DEF Ledger!Close
    <3>3. QED
      BY <1>1, <3>2 DEF Ledger!Next
  <2>5. QED
    BY <2>2, <2>3, <2>4
<1>5. CASE Overrule(a)
  <2>1. status' = [status EXCEPT ![r] = "finished"] /\ UNCHANGED <<credits, launches>>
    BY <1>5 DEF Overrule
  <2>2. CASE status[r] = "finished"
    BY <1>1, <2>1, <2>2 DEF LedgerType, Paid
  <2>3. CASE status[r] # "finished"
    <3>1. Ledger!Overrule(r)
      BY <1>1, <2>1, <2>3, PaidView, PaidSet DEF Ledger!Overrule
    <3>2. QED
      BY <1>1, <3>1 DEF Ledger!Next
  <2>4. QED
    BY <2>2, <2>3
<1>6. CASE NotifyFails(a) \/ RevokeRead(a) \/ RevokeRemove(a) \/ RevokeVoid(a)
  BY <1>6, PaidSame DEF NotifyFails, RevokeRead, RevokeRemove, RevokeVoid
<1>7. QED
  BY <1>2, <1>3, <1>4, <1>5, <1>6 DEF ReviewStep

\* Every step is a step of the ledger, or none.
LEMMA LedgerSteps ==
    LedgerInv /\ [ReviewNext]_allVars => [Ledger!Next]_(Ledger!vars)
<1> SUFFICES ASSUME LedgerInv, [ReviewNext]_allVars
             PROVE  Ledger!Next \/ UNCHANGED <<Paid, credits, launches>>
  BY DEF Ledger!vars
<1>1. ASSUME NEW a \in Reviewers, NEW r \in Receipts,
             OpenAccept(a, r) \/ OpenAutoAccept(a, r) \/ OpenReject(a, r) \/ OpenOverrule(a, r)
      PROVE  UNCHANGED <<Paid, credits, launches>>
  BY <1>1, PaidSame DEF OpenAccept, OpenAutoAccept, OpenReject, OpenOverrule
<1>2. CASE ReviewRestart \/ Elsewhere
  BY <1>2, PaidSame DEF ReviewRestart, Elsewhere
<1>3. QED
  BY <1>1, <1>2, DeskRefines, ReviewMoves

\* However reviewers, automatic acceptance, revocations, restarts and the users'
\* own operations interleave, card-to-card payments implement PaymentLedger.
THEOREM ReceiptsImplementLedger == ReviewSpec => RefinesLedger
<1>1. QED
  BY LedgerInvInit, LedgerInvNext, LedgerStarts, LedgerSteps, PTL
     DEF ReviewSpec, RefinesLedger, Ledger!Spec

-----------------------------------------------------------------------------
(* The ledger's own promise: once a payment, never twice *)

\* A pending payment was never credited, so a credit is its first.
PendingIsNew == \A r \in Receipts : Paid[r] = "pending" => credits[r] = 0

AbstractInv == Ledger!TypeOK /\ PendingIsNew /\ Ledger!AtMostOnce

\* The ledger's initial state satisfies its invariant.
LEMMA AbstractInit == Ledger!Init => AbstractInv
  BY DEF Ledger!Init, AbstractInv, Ledger!TypeOK, PendingIsNew, Ledger!AtMostOnce

\* The ledger's invariant is inductive.
LEMMA AbstractNext == AbstractInv /\ [Ledger!Next]_(Ledger!vars) => AbstractInv'
<1> SUFFICES ASSUME AbstractInv, [Ledger!Next]_(Ledger!vars) PROVE AbstractInv'
  OBVIOUS
<1> USE DEF AbstractInv, Ledger!TypeOK, PendingIsNew, Ledger!AtMostOnce
<1>1. ASSUME NEW r \in Receipts, Ledger!Credit(r) PROVE AbstractInv'
  BY <1>1 DEF Ledger!Credit
<1>2. ASSUME NEW r \in Receipts, Ledger!Launch(r) PROVE AbstractInv'
  BY <1>2 DEF Ledger!Launch
<1>3. ASSUME NEW r \in Receipts, Ledger!Close(r) \/ Ledger!Overrule(r) PROVE AbstractInv'
  BY <1>3 DEF Ledger!Close, Ledger!Overrule
<1>4. CASE UNCHANGED <<Paid, credits, launches>>
  BY <1>4
<1>5. QED
  BY <1>1, <1>2, <1>3, <1>4 DEF Ledger!Next, Ledger!vars

\* Whatever implements PaymentLedger credits no payment twice and activates no
\* service twice.
THEOREM LedgerAtMostOnce == Ledger!Spec => []Ledger!AtMostOnce
<1>1. AbstractInv => Ledger!AtMostOnce
  BY DEF AbstractInv
<1>2. QED
  BY <1>1, AbstractInit, AbstractNext, PTL DEF Ledger!Spec

\* So a receipt is credited at most once and its activation launched at most once.
THEOREM ReceiptsAtMostOnce == ReviewSpec => []Ledger!AtMostOnce
  BY ReceiptsImplementLedger, LedgerAtMostOnce, PTL DEF RefinesLedger

-----------------------------------------------------------------------------
(* Activations and revocations *)

\* Task t works on the draft d.
RunsFor(t, d) == job[t].draft = d /\ pc[t] \notin {"idle", "done"}

\* Launched jobs and the tasks of Wallet; only a task that runs has seen its draft.
JobsType ==
    /\ draft \in [Drafts -> {"draft", "paid", "void"}]
    /\ jobs \in [Receipts -> Nat]
    /\ pc \in [Tasks -> PCs] /\ job \in [Tasks -> Jobs]
    /\ draftSeen \in [Tasks -> BOOLEAN]
    /\ \A t \in Tasks : draftSeen[t] => job[t].draft \in Drafts /\ RunsFor(t, job[t].draft)

\* What was launched waits, runs, or is over: never two of these.
OneRun ==
    \A d \in Drafts :
       /\ \A s, t \in Tasks : RunsFor(s, d) /\ RunsFor(t, d) => s = t
       /\ \A t \in Tasks : RunsFor(t, d) => launches[d] > 0
       /\ jobs[d] > 0 => /\ jobs[d] = 1 /\ launches[d] > 0
                         /\ \A t \in Tasks : ~RunsFor(t, d)
       /\ draft[d] = "paid" => /\ jobs[d] = 0 /\ launches[d] > 0
                               /\ \A t \in Tasks : ~RunsFor(t, d)

\* Nothing will activate draft d any more.
Settled(d) == ~Activating(d) /\ status[d] # "waiting"

\* A revocation that no activation races works on a settled draft and leaves it unpaid.
Revoked ==
    \A d \in Drafts \ raced :
       /\ status[d] = "rejected" => draft[d] # "paid" /\ Settled(d)
       /\ \A a \in Reviewers :
             On(a) = d /\ desk[a].at \in {"removing", "voiding", "marking"} =>
                /\ Settled(d)
                /\ At(a, "marking") => draft[d] # "paid"

ActivationInv == LedgerInv /\ JobsType /\ OneRun /\ Revoked

\* What Activating says, in the terms of the invariant.
LEMMA ActivatingMeans ==
    ASSUME NEW r
    PROVE  Activating(r) <=> \/ \E a \in Reviewers : Notifying(a, r)
                             \/ jobs[r] > 0
                             \/ \E t \in Tasks : RunsFor(t, r)
  BY DEF Activating, Notifying, RunsFor

\* The same of the next state.
LEMMA ActivatingMeansNext ==
    ASSUME NEW r
    PROVE  Activating(r)' <=> \/ \E a \in Reviewers : Notifying(a, r)'
                              \/ jobs'[r] > 0
                              \/ \E t \in Tasks : RunsFor(t, r)'
  BY DEF Activating, Notifying, RunsFor, At, On

\* The initial state satisfies the invariant.
LEMMA ActivationInit == ReviewInit => ActivationInv
<1> SUFFICES ASSUME ReviewInit PROVE ActivationInv
  OBVIOUS
<1>1. JobsType /\ \A t \in Tasks, d \in Drafts : ~RunsFor(t, d)
  BY NoJobType DEF ReviewInit, Init, JobsType, RunsFor, PCs
<1>2. OneRun
  BY <1>1, ReceiptAssumption DEF ReviewInit, Init, OneRun
<1>3. Revoked
  BY ReceiptAssumption DEF ReviewInit, Init, Revoked
<1>4. QED
  BY <1>1, <1>2, <1>3, LedgerInvInit DEF ActivationInv

\* A step of task t at which no draft finds a new task, and only t's is paid.
OnlyEnds(t) ==
    /\ \A s \in Tasks, d \in Drafts : RunsFor(s, d)' => RunsFor(s, d)
    /\ \A d \in Drafts : draft'[d] = "paid" /\ draft[d] # "paid" =>
          RunsFor(t, d) /\ ~RunsFor(t, d)'

\* A task that goes on keeps its draft.
LEMMA TaskStays ==
    ASSUME JobsType, NEW t \in Tasks, pc[t] \notin {"idle", "done"},
           NEW where \in PCs \ {"idle", "done"}, GoTo(t, where),
           draftSeen' = draftSeen \/ draftSeen' = [draftSeen EXCEPT ![t] = SeesDraft(t)],
           UNCHANGED <<job, draft, jobs>>
    PROVE  JobsType' /\ OnlyEnds(t)
<1>1. pc' \in [Tasks -> PCs] /\ \A s \in Tasks : pc'[s] = IF s = t THEN where ELSE pc[s]
  BY DEF JobsType, GoTo
<1>2. \A s \in Tasks : \A d : RunsFor(s, d)' <=> RunsFor(s, d)
  BY <1>1 DEF RunsFor
<1>3. SeesDraft(t) \in BOOLEAN /\ (SeesDraft(t) => job[t].draft \in Drafts)
  BY DEF SeesDraft, JobsType, Jobs
<1>4. /\ draftSeen' \in [Tasks -> BOOLEAN]
      /\ \A s \in Tasks : draftSeen'[s] => draftSeen[s] \/ (s = t /\ SeesDraft(t))
  BY <1>3 DEF JobsType
<1>5. \A s \in Tasks : draftSeen'[s] => job[s].draft \in Drafts /\ RunsFor(s, job[s].draft)'
  BY <1>1, <1>2, <1>3, <1>4 DEF JobsType, RunsFor
<1>6. QED
  BY <1>1, <1>2, <1>4, <1>5 DEF JobsType, OnlyEnds

\* A task that ends has paid its draft or left it alone.
LEMMA TaskEnds ==
    ASSUME JobsType, NEW t \in Tasks, pc[t] \notin {"idle", "done"}, Finish(t),
           UNCHANGED draft \/ CommitInvoice(t), UNCHANGED jobs
    PROVE  JobsType' /\ OnlyEnds(t)
<1>1. /\ pc' \in [Tasks -> PCs] /\ job' \in [Tasks -> Jobs]
      /\ draftSeen' \in [Tasks -> BOOLEAN]
      /\ pc'[t] = "done" /\ ~draftSeen'[t]
      /\ \A s \in Tasks : s # t =>
            pc'[s] = pc[s] /\ job'[s] = job[s] /\ draftSeen'[s] = draftSeen[s]
  BY NoJobType DEF JobsType, Finish, GoTo, PCs
<1>2. /\ draft' \in [Drafts -> {"draft", "paid", "void"}]
      /\ \A d \in Drafts : draft'[d] = "paid" /\ draft[d] # "paid" => RunsFor(t, d)
  <2>1. CASE UNCHANGED draft
    BY <2>1 DEF JobsType
  <2>2. CASE draftSeen[t] /\ draft' = [draft EXCEPT ![job[t].draft] = "paid"]
    BY <2>2 DEF JobsType
  <2>3. QED
    BY <2>1, <2>2 DEF CommitInvoice
<1>3. \A s \in Tasks : \A d : RunsFor(s, d)' <=> s # t /\ RunsFor(s, d)
  BY <1>1 DEF RunsFor
<1>4. QED
  BY <1>1, <1>2, <1>3 DEF JobsType, OnlyEnds

\* Every step of a task goes on or ends.
LEMMA TaskMoves ==
    ASSUME JobsType, NEW t \in Tasks, TaskStep(t), UNCHANGED jobs
    PROVE  JobsType' /\ OnlyEnds(t)
<1> USE DEF ledger, locals, PCs
<1>1. CASE EnterLock(t) \/ CheckBalance(t) \/ CreateOnServer(t) \/ ReadCredit(t)
           \/ RenewLock(t) \/ RenewOnPanel(t) \/ ReserveOpen(t)
  <2>1. PICK where \in {"entered", "funded", "created", "priced", "renewed"} : GoTo(t, where)
    BY <1>1 DEF EnterLock, CheckBalance, CreateOnServer, ReadCredit, RenewLock, RenewOnPanel,
       ReserveOpen
  <2>2. UNCHANGED <<job, draft>> /\ pc[t] \notin {"idle", "done"}
    BY <1>1 DEF EnterLock, CheckBalance, CreateOnServer, ReadCredit, RenewLock, RenewOnPanel,
       ReserveOpen
  <2>3. draftSeen' = draftSeen \/ draftSeen' = [draftSeen EXCEPT ![t] = SeesDraft(t)]
    BY <1>1 DEF EnterLock, CheckBalance, CreateOnServer, ReadCredit, RenewLock, RenewOnPanel,
       ReserveOpen
  <2>4. QED
    BY <2>1, <2>2, <2>3, TaskStays
<1>2. CASE PurchaseRefused(t) \/ TooPoor(t) \/ CreateFails(t) \/ PurchaseRollback(t)
           \/ RenewRefused(t) \/ RenewRollback(t) \/ ReserveRollback(t)
  <2>1. Finish(t) /\ UNCHANGED draft /\ pc[t] \notin {"idle", "done"}
    BY <1>2 DEF PurchaseRefused, TooPoor, CreateFails, PurchaseRollback, RenewRefused,
       RenewRollback, ReserveRollback
  <2>2. QED
    BY <2>1, TaskEnds
<1>3. CASE CommitPurchase(t) \/ CommitRenew(t) \/ CommitReserve(t) \/ ReserveInactive(t)
  <2>1. Finish(t) /\ CommitInvoice(t) /\ pc[t] \notin {"idle", "done"}
    BY <1>3 DEF CommitPurchase, CommitRenew, CommitReserve, ReserveInactive
  <2>2. QED
    BY <2>1, TaskEnds
<1>4. QED
  BY <1>1, <1>2, <1>3 DEF TaskStep, PurchaseStep, RenewStep

\* What starts with a job: a task that was idle runs for the job's draft.
LEMMA TaskStarts ==
    ASSUME JobsType, NEW t \in Tasks, NEW j \in Jobs, Start(t, j),
           jobs' \in [Receipts -> Nat]
    PROVE  /\ JobsType'
           /\ \A s \in Tasks : \A d :
                 RunsFor(s, d)' <=> IF s = t THEN d = j.draft ELSE RunsFor(s, d)
           /\ UNCHANGED draft /\ \A d : ~RunsFor(t, d)
<1>1. /\ pc' \in [Tasks -> PCs] /\ job' \in [Tasks -> Jobs] /\ pc'[t] = "loaded"
      /\ job'[t] = j /\ \A s \in Tasks : s # t => pc'[s] = pc[s] /\ job'[s] = job[s]
      /\ UNCHANGED <<draft, draftSeen>> /\ pc[t] = "idle"
  BY DEF JobsType, Start, GoTo, PCs, ledger
<1>2. \A s \in Tasks : \A d : RunsFor(s, d)' <=> IF s = t THEN d = j.draft ELSE RunsFor(s, d)
  BY <1>1 DEF RunsFor
<1>3. /\ \A d : ~RunsFor(t, d)
      /\ ~draftSeen[t]
  BY <1>1 DEF RunsFor, JobsType
<1>4. \A s \in Tasks : draftSeen'[s] => job'[s].draft \in Drafts /\ RunsFor(s, job[s].draft)'
  <2> SUFFICES ASSUME NEW s \in Tasks, draftSeen'[s]
               PROVE  job'[s].draft \in Drafts /\ RunsFor(s, job[s].draft)'
    OBVIOUS
  <2>1. s # t /\ draftSeen[s] /\ job'[s] = job[s] /\ pc'[s] = pc[s]
    BY <1>1, <1>3
  <2>2. QED
    BY <2>1 DEF JobsType, RunsFor
<1>5. QED
  BY <1>1, <1>2, <1>3, <1>4 DEF JobsType

\* The job of a draft, and that of a button.
LEMMA DraftJob ==
    ASSUME NEW d \in Drafts
    PROVE  [kind |-> DraftOf[d].kind, user |-> DraftOf[d].user,
            price |-> DraftOf[d].price, draft |-> d] \in Jobs
  BY WalletAssumption DEF Jobs

LEMMA ButtonJob ==
    ASSUME NEW u \in Users, NEW p \in Prices
    PROVE  [kind |-> "purchase", user |-> u, price |-> p, draft |-> NoDraft] \in Jobs
  BY DEF Jobs, InvoiceTypes

-----------------------------------------------------------------------------
\* No activation starts at a step: at most some end, and a draft is paid by the task that
\* ran for it.
Calm ==
    /\ \A s \in Tasks, d \in Drafts : RunsFor(s, d)' => RunsFor(s, d)
    /\ \A d \in Drafts : jobs'[d] <= jobs[d]
    /\ \A d \in Drafts : draft'[d] = "paid" /\ draft[d] # "paid" =>
          \E t \in Tasks : RunsFor(t, d) /\ ~RunsFor(t, d)'
    /\ launches' = launches

\* The steps at the desks that launch nothing are calm.
LEMMA DeskCalm ==
    ASSUME JobsType, NEW a \in Reviewers, ReviewStep(a), ~Notify(a)
    PROVE  JobsType' /\ Calm
<1>1. UNCHANGED <<pc, job, draftSeen, jobs, launches>>
  BY DEF ReviewStep, FinishWaiting, NotifyFails, RejectWaiting, Overrule, RevokeRead,
     RevokeRemove, RevokeVoid, RevokeMark, locals, vars
<1>2. /\ draft' \in [Drafts -> {"draft", "paid", "void"}]
      /\ \A d \in Drafts : draft'[d] = "paid" => draft[d] = "paid"
  <2>1. UNCHANGED draft \/ draft' = [draft EXCEPT ![On(a)] = "void"]
    BY DEF ReviewStep, FinishWaiting, NotifyFails, RejectWaiting, Overrule, RevokeRead,
       RevokeRemove, RevokeVoid, RevokeMark, vars, ledger
  <2>2. QED
    BY <2>1 DEF JobsType
<1>3. \A s \in Tasks : \A d : RunsFor(s, d)' <=> RunsFor(s, d)
  BY <1>1 DEF RunsFor
<1>4. \A d \in Drafts : jobs'[d] <= jobs[d]
  BY <1>1, ReceiptAssumption DEF JobsType
<1>5. QED
  BY <1>1, <1>2, <1>3, <1>4 DEF JobsType, Calm

\* A calm step never makes two of one.
LEMMA CalmOneRun ==
    ASSUME JobsType, JobsType', OneRun, Calm
    PROVE  OneRun'
<1>1. Drafts \subseteq Receipts /\ jobs \in [Receipts -> Nat] /\ jobs' \in [Receipts -> Nat]
  BY ReceiptAssumption DEF JobsType
<1> SUFFICES ASSUME NEW d \in Drafts
             PROVE  /\ \A s, t \in Tasks : RunsFor(s, d)' /\ RunsFor(t, d)' => s = t
                    /\ \A t \in Tasks : RunsFor(t, d)' => launches'[d] > 0
                    /\ jobs'[d] > 0 => /\ jobs'[d] = 1 /\ launches'[d] > 0
                                       /\ \A t \in Tasks : ~RunsFor(t, d)'
                    /\ draft'[d] = "paid" => /\ jobs'[d] = 0 /\ launches'[d] > 0
                                             /\ \A t \in Tasks : ~RunsFor(t, d)'
  BY DEF OneRun
<1>2. jobs[d] \in Nat /\ jobs'[d] \in Nat /\ jobs'[d] <= jobs[d]
  BY <1>1 DEF Calm
<1>3. /\ \A s, t \in Tasks : RunsFor(s, d)' /\ RunsFor(t, d)' => s = t
      /\ \A t \in Tasks : RunsFor(t, d)' => launches'[d] > 0
  BY DEF OneRun, Calm
<1>4. jobs'[d] > 0 => /\ jobs'[d] = 1 /\ launches'[d] > 0
                      /\ \A t \in Tasks : ~RunsFor(t, d)'
  <2>1. jobs'[d] > 0 => jobs[d] > 0
    BY <1>2
  <2>2. jobs[d] = 1 /\ jobs'[d] > 0 => jobs'[d] = 1
    BY <1>2
  <2>3. QED
    BY <2>1, <2>2 DEF OneRun, Calm
<1>5. ASSUME draft'[d] = "paid"
      PROVE  jobs'[d] = 0 /\ launches'[d] > 0 /\ \A t \in Tasks : ~RunsFor(t, d)'
  <2>1. CASE draft[d] = "paid"
    <3>1. jobs[d] = 0 /\ launches'[d] > 0 /\ \A t \in Tasks : ~RunsFor(t, d)'
      BY <2>1 DEF OneRun, Calm
    <3>2. QED
      BY <1>2, <3>1
  <2>2. CASE draft[d] # "paid"
    <3>1. PICK t \in Tasks : RunsFor(t, d) /\ ~RunsFor(t, d)'
      BY <1>5, <2>2 DEF Calm
    <3>2. launches'[d] > 0 /\ ~(jobs[d] > 0) /\ \A s \in Tasks : ~RunsFor(s, d)'
      BY <3>1 DEF OneRun, Calm
    <3>3. QED
      BY <1>2, <3>2
  <2>3. QED
    BY <2>1, <2>2
<1>6. QED
  BY <1>3, <1>4, <1>5

\* The launched job waits: before it no job or task of the receipt was there.
LEMMA NotifyOneRun ==
    ASSUME ActivationInv, NEW a \in Reviewers, Notify(a)
    PROVE  JobsType' /\ OneRun'
<1> DEFINE r == On(a)
<1>1. /\ jobs' = [jobs EXCEPT ![r] = @ + 1] /\ launches' = [launches EXCEPT ![r] = @ + 1]
      /\ UNCHANGED <<pc, job, draft, draftSeen>> /\ Notifying(a, r)
  BY DEF Notify, Notifying, vars, ledger, locals
<1>2. r \in Receipts /\ jobs \in [Receipts -> Nat] /\ launches \in [Receipts -> Nat]
  BY DEF ActivationInv, LedgerInv, LedgerType, JobsType, On
<1>3. launches[r] = 0
  <2>1. launches[r] < credits[r] /\ credits[r] <= 1 /\ credits[r] \in Nat
    BY <1>1, <1>2 DEF ActivationInv, LedgerInv, LedgerType, OneNotifier, CreditedOnce
  <2>2. QED
    BY <1>2, <2>1
<1>4. \A t \in Tasks : \A d : RunsFor(t, d)' <=> RunsFor(t, d)
  BY <1>1 DEF RunsFor
<1>5. JobsType'
  <2>1. jobs' \in [Receipts -> Nat]
    BY <1>1, <1>2
  <2>2. QED
    BY <1>1, <1>4, <2>1 DEF ActivationInv, JobsType
<1> HIDE DEF r
<1>6. r \in Drafts => /\ \A t \in Tasks : ~RunsFor(t, r)
                      /\ jobs[r] = 0 /\ draft[r] # "paid"
  <2>1. ~(launches[r] > 0) /\ jobs[r] \in Nat
    BY <1>2, <1>3
  <2>2. QED
    BY <2>1 DEF ActivationInv, OneRun
<1>7. /\ jobs'[r] = jobs[r] + 1 /\ launches'[r] = 1
      /\ \A d \in Receipts : d # r => jobs'[d] = jobs[d] /\ launches'[d] = launches[d]
  BY <1>1, <1>2, <1>3
<1>8. OneRun'
  <2> SUFFICES ASSUME NEW d \in Drafts
               PROVE  /\ \A s, t \in Tasks : RunsFor(s, d)' /\ RunsFor(t, d)' => s = t
                      /\ \A t \in Tasks : RunsFor(t, d)' => launches'[d] > 0
                      /\ jobs'[d] > 0 => /\ jobs'[d] = 1 /\ launches'[d] > 0
                                         /\ \A t \in Tasks : ~RunsFor(t, d)'
                      /\ draft'[d] = "paid" => /\ jobs'[d] = 0 /\ launches'[d] > 0
                                               /\ \A t \in Tasks : ~RunsFor(t, d)'
    BY DEF OneRun
  <2>1. CASE d = r
    BY <1>1, <1>4, <1>6, <1>7, <2>1
  <2>2. CASE d # r
    <3>1. jobs'[d] = jobs[d] /\ launches'[d] = launches[d]
      BY <1>7, <2>2, ReceiptAssumption
    <3>2. QED
      BY <1>1, <1>4, <3>1 DEF ActivationInv, OneRun
  <2>3. QED
    BY <2>1, <2>2
<1>9. QED
  BY <1>5, <1>8

\* A job becomes the one task of its draft.
LEMMA StartOneRun ==
    ASSUME ActivationInv, NEW t \in Tasks, NEW r \in Receipts, StartJob(t, r)
    PROVE  /\ JobsType' /\ OneRun' /\ jobs[r] > 0 /\ r \in Drafts
           /\ \A s \in Tasks : \A d : RunsFor(s, d)' => RunsFor(s, d) \/ d = r
           /\ \A d \in Drafts : jobs'[d] <= jobs[d]
<1>1. /\ jobs[r] > 0 /\ r \in Drafts /\ jobs' = [jobs EXCEPT ![r] = @ - 1]
      /\ launches' = launches
  BY DEF StartJob
<1>2. jobs \in [Receipts -> Nat] /\ JobsType
  BY DEF ActivationInv, JobsType
<1>3. jobs' \in [Receipts -> Nat] /\ jobs'[r] = jobs[r] - 1 /\ jobs[r] \in Nat
      /\ \A d \in Receipts : d # r => jobs'[d] = jobs[d]
  BY <1>1, <1>2
<1> DEFINE j == [kind |-> DraftOf[r].kind, user |-> DraftOf[r].user,
                 price |-> DraftOf[r].price, draft |-> r]
<1>4. j \in Jobs /\ Start(t, j) /\ j.draft = r /\ draft[r] = "draft"
  BY <1>1, DraftJob DEF StartJob, RunDraft
<1> HIDE DEF j
<1>5. /\ JobsType' /\ UNCHANGED draft
      /\ \A s \in Tasks : \A d : RunsFor(s, d)' <=> IF s = t THEN d = r ELSE RunsFor(s, d)
      /\ \A d : ~RunsFor(t, d)
  BY <1>2, <1>3, <1>4, TaskStarts
<1>6. jobs[r] = 1 /\ launches[r] > 0 /\ \A s \in Tasks : ~RunsFor(s, r)
  BY <1>1 DEF ActivationInv, OneRun
<1>7. jobs'[r] = 0
  BY <1>3, <1>6
<1>8. OneRun'
  <2> SUFFICES ASSUME NEW d \in Drafts
               PROVE  /\ \A s, q \in Tasks : RunsFor(s, d)' /\ RunsFor(q, d)' => s = q
                      /\ \A s \in Tasks : RunsFor(s, d)' => launches'[d] > 0
                      /\ jobs'[d] > 0 => /\ jobs'[d] = 1 /\ launches'[d] > 0
                                         /\ \A s \in Tasks : ~RunsFor(s, d)'
                      /\ draft'[d] = "paid" => /\ jobs'[d] = 0 /\ launches'[d] > 0
                                               /\ \A s \in Tasks : ~RunsFor(s, d)'
    BY DEF OneRun
  <2>1. CASE d = r
    BY <1>1, <1>4, <1>5, <1>6, <1>7, <2>1
  <2>2. CASE d # r
    <3>1. jobs'[d] = jobs[d] /\ launches'[d] = launches[d] /\ draft'[d] = draft[d]
          /\ \A s \in Tasks : RunsFor(s, d)' <=> RunsFor(s, d)
      BY <1>1, <1>3, <1>5, <2>2, ReceiptAssumption
    <3>2. QED
      BY <3>1 DEF ActivationInv, OneRun
  <2>3. QED
    BY <2>1, <2>2
<1>9. \A d \in Drafts : jobs'[d] <= jobs[d]
  BY <1>2, <1>3, ReceiptAssumption
<1>10. QED
  BY <1>1, <1>5, <1>8, <1>9

\* Every other step is calm.
LEMMA ElsewhereCalm ==
    ASSUME JobsType, [ReviewNext]_allVars,
           ~\E a \in Reviewers : ReviewStep(a),
           ~\E t \in Tasks, r \in Receipts : StartJob(t, r)
    PROVE  JobsType' /\ Calm
<1>1. Drafts \subseteq Receipts /\ jobs \in [Receipts -> Nat]
      /\ \A d \in Drafts : jobs[d] <= jobs[d]
  BY ReceiptAssumption DEF JobsType
<1>2. CASE UNCHANGED <<vars, jobs, launches>>
  <2>1. UNCHANGED <<pc, job, draft, draftSeen, jobs, launches>>
    BY <1>2 DEF vars, ledger, locals
  <2>2. QED
    BY <1>1, <2>1 DEF JobsType, Calm, RunsFor
<1>3. ASSUME NEW r \in Receipts, JobReturns(r) PROVE JobsType' /\ Calm
  <2>1. UNCHANGED <<pc, job, draft, draftSeen, launches>> /\ jobs[r] > 0
        /\ jobs' = [jobs EXCEPT ![r] = @ - 1]
    BY <1>3 DEF JobReturns, vars, ledger, locals
  <2>2. jobs' \in [Receipts -> Nat] /\ \A d \in Receipts : jobs'[d] <= jobs[d]
    BY <1>1, <2>1
  <2>3. QED
    BY <1>1, <2>1, <2>2 DEF JobsType, Calm, RunsFor
<1>4. ASSUME NEW t \in Tasks, TaskStep(t), UNCHANGED review PROVE JobsType' /\ Calm
  <2>1. UNCHANGED <<jobs, launches>>
    BY <1>4 DEF review
  <2>2. JobsType' /\ OnlyEnds(t)
    BY <1>4, <2>1, TaskMoves
  <2>3. QED
    BY <1>1, <2>1, <2>2 DEF OnlyEnds, Calm
<1>5. ASSUME NEW t \in Tasks, NEW u \in Users, NEW p \in Prices, BeginPurchase(t, u, p),
             UNCHANGED review
      PROVE  JobsType' /\ Calm
  <2> DEFINE j == [kind |-> "purchase", user |-> u, price |-> p, draft |-> NoDraft]
  <2>1. UNCHANGED <<jobs, launches>> /\ j \in Jobs /\ Start(t, j) /\ j.draft \notin Drafts
    BY <1>5, ButtonJob, WalletAssumption DEF review, BeginPurchase
  <2> HIDE DEF j
  <2>2. /\ JobsType' /\ UNCHANGED draft
        /\ \A s \in Tasks : \A d : RunsFor(s, d)' <=> IF s = t THEN d = j.draft ELSE RunsFor(s, d)
    BY <1>1, <2>1, TaskStarts
  <2>3. QED
    BY <1>1, <2>1, <2>2 DEF Calm
<1>6. CASE ReviewRestart
  <2>1. /\ pc' \in [Tasks -> PCs] /\ \A t \in Tasks : pc'[t] \in {"idle", "done"}
        /\ job' \in [Tasks -> Jobs] /\ draftSeen' = [t \in Tasks |-> FALSE]
        /\ draft' = draft /\ launches' = launches /\ jobs' = [r \in Receipts |-> 0]
    BY <1>6, NoJobType DEF ReviewRestart, Restart, ledger, PCs
  <2>2. \A t \in Tasks : \A d : ~RunsFor(t, d)'
    BY <2>1 DEF RunsFor
  <2>3. \A d \in Drafts : jobs'[d] <= jobs[d]
    BY <1>1, <2>1
  <2>4. JobsType'
    BY <2>1 DEF JobsType
  <2>5. QED
    BY <2>1, <2>2, <2>3, <2>4 DEF Calm
<1>7. QED
  <2>1. CASE \E a \in Reviewers, r \in Receipts :
           OpenAccept(a, r) \/ OpenAutoAccept(a, r) \/ OpenReject(a, r) \/ OpenOverrule(a, r)
    BY <1>2, <2>1 DEF OpenAccept, OpenAutoAccept, OpenReject, OpenOverrule
  <2>2. CASE UNCHANGED allVars
    BY <1>2, <2>2 DEF allVars, review
  <2>3. QED
    BY <1>3, <1>4, <1>5, <1>6, <2>1, <2>2 DEF ReviewNext

-----------------------------------------------------------------------------
\* A receipt that was judged does not wait again, and only a waiting one is notified about.
LEMMA JudgedOnce ==
    ASSUME LedgerInv, [ReviewNext]_allVars, NEW r \in Receipts, status[r] # "waiting"
    PROVE  /\ status'[r] # "waiting"
           /\ \A a \in Reviewers : Notifying(a, r)' => Notifying(a, r)
<1> USE DEF LedgerInv, LedgerType
<1>1. CASE Elsewhere
  BY <1>1 DEF Elsewhere, Notifying, At, On
<1>2. CASE ReviewRestart
  <2>1. desk' = [a \in Reviewers |-> [desk[a] EXCEPT !.at = "idle"]] /\ status' = status
    BY <1>2 DEF ReviewRestart
  <2>2. QED
    BY <2>1 DEF Notifying, At
<1>3. ASSUME NEW b \in Reviewers, NEW q \in Receipts,
             OpenAccept(b, q) \/ OpenAutoAccept(b, q) \/ OpenReject(b, q) \/ OpenOverrule(b, q)
      PROVE  /\ status'[r] # "waiting"
             /\ \A a \in Reviewers : Notifying(a, r)' => Notifying(a, r)
  <2>1. PICK where \in {"accepting", "rejecting", "revoking", "overruling"} : Sit(b, where, q)
    BY <1>3 DEF OpenAccept, OpenAutoAccept, OpenReject, OpenOverrule
  <2>2. status' = status
    BY <1>3 DEF OpenAccept, OpenAutoAccept, OpenReject, OpenOverrule
  <2>3. QED
    BY <2>1, <2>2 DEF Sit, Notifying, At, On
<1>4. ASSUME NEW b \in Reviewers, ReviewStep(b)
      PROVE  /\ status'[r] # "waiting"
             /\ \A a \in Reviewers : Notifying(a, r)' => Notifying(a, r)
  <2>1. \/ status' = status
        \/ \E s \in {"finished", "rejected"} : status' = [status EXCEPT ![On(b)] = s]
    BY <1>4 DEF ReviewStep, FinishWaiting, Notify, NotifyFails, RejectWaiting, Overrule,
       RevokeRead, RevokeRemove, RevokeVoid, RevokeMark
  <2>2. \E where \in DeskSteps : /\ Move(b, where)
                                 /\ where = "notifying" => status[On(b)] = "waiting"
    BY <1>4 DEF ReviewStep, FinishWaiting, Notify, NotifyFails, RejectWaiting, Overrule,
       RevokeRead, RevokeRemove, RevokeVoid, RevokeMark, DeskSteps
  <2>3. PICK where \in DeskSteps : /\ Move(b, where)
                                   /\ where = "notifying" => status[On(b)] = "waiting"
    BY <2>2
  <2>4. status'[r] # "waiting"
    BY <2>1
  <2>5. /\ desk'[b].at = where
        /\ \A a \in Reviewers : desk'[a].receipt = On(a)
        /\ \A a \in Reviewers : a # b => desk'[a].at = desk[a].at
    BY <2>3, MoveView
  <2>6. \A a \in Reviewers : Notifying(a, r)' => Notifying(a, r)
    BY <2>3, <2>5 DEF Notifying, At, On
  <2>7. QED
    BY <2>4, <2>6
<1>5. QED
  BY <1>1, <1>2, <1>3, <1>4, ReviewMoves

\* What is settled stays settled, and is not paid any more.
LEMMA SettledStays ==
    ASSUME ActivationInv, JobsType', [ReviewNext]_allVars, NEW d \in Drafts, Settled(d)
    PROVE  Settled(d)' /\ (draft'[d] = "paid" => draft[d] = "paid")
<1>1. /\ d \in Receipts /\ status[d] # "waiting" /\ ~(jobs[d] > 0)
      /\ \A a \in Reviewers : ~Notifying(a, d)
      /\ \A t \in Tasks : ~RunsFor(t, d)
      /\ jobs[d] \in Nat /\ jobs'[d] \in Nat
  BY ActivatingMeans, ReceiptAssumption DEF Settled, ActivationInv, JobsType
<1>2. status'[d] # "waiting" /\ \A a \in Reviewers : ~Notifying(a, d)'
  BY <1>1, JudgedOnce DEF ActivationInv
<1>3. /\ jobs'[d] <= jobs[d] /\ \A t \in Tasks : ~RunsFor(t, d)'
      /\ draft'[d] = "paid" => draft[d] = "paid"
  <2>1. CASE Calm
    BY <1>1, <2>1 DEF Calm
  <2>2. ASSUME NEW a \in Reviewers, Notify(a)
        PROVE  /\ jobs'[d] <= jobs[d] /\ \A t \in Tasks : ~RunsFor(t, d)'
               /\ draft'[d] = "paid" => draft[d] = "paid"
    <3>1. /\ jobs' = [jobs EXCEPT ![On(a)] = @ + 1] /\ On(a) # d
          /\ UNCHANGED <<pc, job, draft>>
      BY <1>1, <2>2 DEF Notify, Notifying, vars, ledger, locals
    <3>2. jobs'[d] = jobs[d]
      BY <1>1, <3>1 DEF ActivationInv, JobsType
    <3>3. QED
      BY <1>1, <3>1, <3>2 DEF RunsFor
  <2>3. ASSUME NEW t \in Tasks, NEW r \in Receipts, StartJob(t, r)
        PROVE  /\ jobs'[d] <= jobs[d] /\ \A s \in Tasks : ~RunsFor(s, d)'
               /\ draft'[d] = "paid" => draft[d] = "paid"
    <3>1. r # d /\ draft' = draft
      BY <1>1, <2>3 DEF StartJob, RunDraft, Start, ledger
    <3>2. QED
      BY <1>1, <2>3, <3>1, StartOneRun
  <2>4. QED
    BY <2>1, <2>2, <2>3, DeskCalm, ElsewhereCalm DEF ActivationInv
<1>4. ~(jobs'[d] > 0)
  BY <1>1, <1>3
<1>5. QED
  BY <1>2, <1>3, <1>4, ActivatingMeansNext DEF Settled

\* A receipt that was never accepted is not being activated.
LEMMA WaitingIsIdle ==
    ASSUME ActivationInv, NEW d \in Drafts, status[d] = "waiting"
    PROVE  ~Activating(d) /\ draft[d] # "paid"
<1>1. d \in Receipts /\ credits[d] = 0 /\ \A a \in Reviewers : ~Notifying(a, d)
  BY ReceiptAssumption DEF ActivationInv, LedgerInv, WaitingIsNew
<1>2. ~(launches[d] > 0)
  BY <1>1 DEF ActivationInv, LedgerInv, LedgerType, CreditedOnce
<1>3. QED
  BY <1>1, <1>2, ActivatingMeans DEF ActivationInv, OneRun

\* Who rejects a receipt.
LEMMA RejectedBy ==
    ASSUME LedgerType, [ReviewNext]_allVars, NEW r \in Receipts,
           status[r] # "rejected", status'[r] = "rejected"
    PROVE  \E a \in Reviewers : /\ On(a) = r
                                /\ \/ RejectWaiting(a) /\ status[r] = "waiting"
                                   \/ RevokeMark(a)
<1>1. PICK a \in Reviewers : ReviewStep(a)
  BY ReviewMoves DEF OpenAccept, OpenAutoAccept, OpenReject, OpenOverrule, ReviewRestart,
     Elsewhere
<1>2. CASE RejectWaiting(a)
  BY <1>2 DEF LedgerType, RejectWaiting
<1>3. CASE RevokeMark(a)
  BY <1>3 DEF LedgerType, RevokeMark
<1>4. CASE FinishWaiting(a) \/ Overrule(a)
  BY <1>4 DEF LedgerType, FinishWaiting, Overrule
<1>5. CASE Notify(a) \/ NotifyFails(a) \/ RevokeRead(a) \/ RevokeRemove(a) \/ RevokeVoid(a)
  BY <1>5 DEF Notify, NotifyFails, RevokeRead, RevokeRemove, RevokeVoid
<1>6. QED
  BY <1>1, <1>2, <1>3, <1>4, <1>5 DEF ReviewStep

Revoking == {"removing", "voiding", "marking"}

\* How a handler comes to where a revocation is under way.
LEMMA RevokingBy ==
    ASSUME LedgerType, [ReviewNext]_allVars, NEW a \in Reviewers, desk'[a].at \in Revoking
    PROVE  /\ desk'[a].receipt = On(a)
           /\ \/ desk'[a] = desk[a]
              \/ RevokeRead(a)
              \/ RevokeRemove(a) /\ desk'[a].at = "voiding"
              \/ RevokeVoid(a)
<1> USE DEF LedgerType, On, Revoking
<1>1. CASE Elsewhere
  BY <1>1 DEF Elsewhere
<1>2. CASE ReviewRestart
  <2>1. desk' = [b \in Reviewers |-> [desk[b] EXCEPT !.at = "idle"]]
    BY <1>2 DEF ReviewRestart
  <2>2. desk'[a].at = "idle"
    BY <2>1
  <2>3. QED
    BY <2>2
<1>3. ASSUME NEW b \in Reviewers, NEW q \in Receipts,
             OpenAccept(b, q) \/ OpenAutoAccept(b, q) \/ OpenReject(b, q) \/ OpenOverrule(b, q)
      PROVE  desk'[a] = desk[a]
  <2>1. PICK where \in {"accepting", "rejecting", "revoking", "overruling"} : Sit(b, where, q)
    BY <1>3 DEF OpenAccept, OpenAutoAccept, OpenReject, OpenOverrule
  <2>2. QED
    BY <2>1 DEF Sit
<1>4. ASSUME NEW b \in Reviewers, ReviewStep(b), b # a
      PROVE  desk'[a] = desk[a]
  <2>1. \E where : Move(b, where)
    BY <1>4 DEF ReviewStep, FinishWaiting, Notify, NotifyFails, RejectWaiting, Overrule,
       RevokeRead, RevokeRemove, RevokeVoid, RevokeMark
  <2>2. QED
    BY <1>4, <2>1 DEF Move
<1>5. ASSUME ReviewStep(a)
      PROVE  /\ desk'[a].receipt = On(a)
             /\ \/ RevokeRead(a)
                \/ RevokeRemove(a) /\ desk'[a].at = "voiding"
                \/ RevokeVoid(a)
  <2>1. CASE FinishWaiting(a) \/ Notify(a) \/ NotifyFails(a) \/ RejectWaiting(a) \/ Overrule(a)
             \/ RevokeMark(a)
    <3>1. Move(a, "notifying") \/ Move(a, "idle")
      BY <2>1 DEF FinishWaiting, Notify, NotifyFails, RejectWaiting, Overrule, RevokeMark
    <3>2. QED
      BY <3>1 DEF Move
  <2>2. CASE RevokeRead(a) \/ RevokeVoid(a)
    <3>1. \E where : Move(a, where)
      BY <2>2 DEF RevokeRead, RevokeVoid
    <3>2. QED
      BY <2>2, <3>1 DEF Move
  <2>3. CASE RevokeRemove(a)
    <3>1. Move(a, "voiding")
      BY <2>3 DEF RevokeRemove
    <3>2. QED
      BY <2>3, <3>1 DEF Move
  <2>4. QED
    BY <1>5, <2>1, <2>2, <2>3 DEF ReviewStep
<1>6. QED
  BY <1>1, <1>2, <1>3, <1>4, <1>5, ReviewMoves

\* A receipt that was raced stays among the raced ones.
LEMMA RacedGrows ==
    ASSUME [ReviewNext]_allVars
    PROVE  raced \subseteq raced'
<1>1. ASSUME NEW a \in Reviewers, ReviewStep(a) PROVE raced \subseteq raced'
  BY <1>1 DEF ReviewStep, FinishWaiting, Notify, NotifyFails, RejectWaiting, Overrule,
     RevokeRead, RevokeRemove, RevokeVoid, RevokeMark
<1>2. QED
  BY <1>1 DEF ReviewNext, OpenAccept, OpenAutoAccept, OpenReject, OpenOverrule, StartJob,
     JobReturns, ReviewRestart, review, allVars

\* A rejected draft is settled and unpaid.
LEMMA RejectedSettled ==
    ASSUME ActivationInv, JobsType', [ReviewNext]_allVars, NEW d \in Drafts \ raced',
           status'[d] = "rejected"
    PROVE  draft'[d] # "paid" /\ Settled(d)'
<1>1. d \in Receipts /\ d \in Drafts \ raced
  BY RacedGrows, ReceiptAssumption
<1>2. CASE status[d] = "rejected"
  BY <1>1, <1>2, SettledStays DEF ActivationInv, Revoked
<1>3. CASE status[d] # "rejected"
  <2>1. PICK a \in Reviewers : /\ On(a) = d
                               /\ \/ RejectWaiting(a) /\ status[d] = "waiting"
                                  \/ RevokeMark(a)
    BY <1>1, <1>3, RejectedBy DEF ActivationInv, LedgerInv
  <2>2. CASE RevokeMark(a)
    <3>1. Settled(d) /\ draft[d] # "paid"
      BY <1>1, <2>1, <2>2 DEF RevokeMark, ActivationInv, Revoked, At
    <3>2. QED
      BY <1>1, <3>1, SettledStays
  <2>3. CASE RejectWaiting(a) /\ status[d] = "waiting"
    <3>1. ~Activating(d) /\ draft[d] # "paid"
      BY <2>3, WaitingIsIdle
    <3>2. UNCHANGED <<pc, job, jobs, draft>> /\ Move(a, "idle")
      BY <2>3 DEF RejectWaiting, vars, ledger, locals
    <3>3. \A b \in Reviewers : Notifying(b, d)' => Notifying(b, d)
      BY <3>2 DEF ActivationInv, LedgerInv, LedgerType, Move, Notifying, At, On
    <3>4. \A t \in Tasks : RunsFor(t, d)' <=> RunsFor(t, d)
      BY <3>2 DEF RunsFor
    <3>5. ~Activating(d)'
      BY <3>1, <3>2, <3>3, <3>4, ActivatingMeans, ActivatingMeansNext
    <3>6. QED
      BY <3>1, <3>2, <3>5 DEF Settled
  <2>4. QED
    BY <2>1, <2>2, <2>3
<1>4. QED
  BY <1>2, <1>3

\* So is one whose revocation is under way.
LEMMA RevokingSettled ==
    ASSUME ActivationInv, JobsType', [ReviewNext]_allVars, NEW d \in Drafts \ raced',
           NEW a \in Reviewers, desk'[a].receipt = d, desk'[a].at \in Revoking
    PROVE  Settled(d)' /\ (desk'[a].at = "marking" => draft'[d] # "paid")
<1>1. d \in Drafts \ raced /\ d \in Receipts /\ On(a) = d
  BY RacedGrows, RevokingBy, ReceiptAssumption DEF ActivationInv, LedgerInv
<1>2. CASE desk'[a] = desk[a]
  <2>1. Settled(d) /\ (desk'[a].at = "marking" => draft[d] # "paid")
    BY <1>1, <1>2 DEF ActivationInv, Revoked, Revoking, At
  <2>2. QED
    BY <1>1, <2>1, SettledStays
<1>3. CASE RevokeRead(a)
  <2>1. ~MayActivate(d) /\ draft' = draft
    BY <1>1, <1>3 DEF RevokeRead, vars, ledger
  <2>2. Settled(d)
    BY <2>1 DEF MayActivate, Settled
  <2>3. desk'[a].at = "marking" => draft[d] # "paid"
    BY <1>1, <1>3 DEF RevokeRead, Move, ActivationInv, LedgerInv, LedgerType
  <2>4. QED
    BY <1>1, <2>1, <2>2, <2>3, SettledStays
<1>4. CASE RevokeRemove(a) /\ desk'[a].at = "voiding"
  <2>1. Settled(d)
    BY <1>1, <1>4 DEF RevokeRemove, ActivationInv, Revoked, At
  <2>2. QED
    BY <1>1, <1>4, <2>1, SettledStays
<1>5. CASE RevokeVoid(a)
  <2>1. Settled(d)
    BY <1>1, <1>5 DEF RevokeVoid, ActivationInv, Revoked, At
  <2>2. draft'[d] # "paid"
    BY <1>1, <1>5 DEF RevokeVoid, ActivationInv, JobsType
  <2>3. QED
    BY <1>1, <2>1, <2>2, SettledStays
<1>6. QED
  BY <1>2, <1>3, <1>4, <1>5, RevokingBy DEF ActivationInv, LedgerInv

\* The invariant is inductive.
LEMMA ActivationNext == ActivationInv /\ [ReviewNext]_allVars => ActivationInv'
<1> SUFFICES ASSUME ActivationInv, [ReviewNext]_allVars PROVE ActivationInv'
  OBVIOUS
<1>1. LedgerInv'
  BY LedgerInvNext DEF ActivationInv
<1>2. JobsType' /\ OneRun'
  <2>1. ASSUME NEW a \in Reviewers, Notify(a) PROVE JobsType' /\ OneRun'
    BY <2>1, NotifyOneRun
  <2>2. ASSUME NEW t \in Tasks, NEW r \in Receipts, StartJob(t, r) PROVE JobsType' /\ OneRun'
    BY <2>2, StartOneRun
  <2>3. CASE JobsType' /\ Calm
    BY <2>3, CalmOneRun DEF ActivationInv
  <2>4. QED
    BY <2>1, <2>2, <2>3, DeskCalm, ElsewhereCalm DEF ActivationInv
<1>3. Revoked'
  BY <1>2, RejectedSettled, RevokingSettled DEF Revoked, Revoking, At, On
<1>4. QED
  BY <1>1, <1>2, <1>3 DEF ActivationInv

\* However reviewers, jobs, revocations and restarts interleave, a draft is used by one
\* activation over its whole life (OneActivation).
THEOREM AlwaysOneActivation == ReviewSpec => []OneActivation
<1>1. ASSUME ActivationInv PROVE OneActivation
  <2> SUFFICES ASSUME NEW d \in Drafts
               PROVE  LET running == {t \in Tasks : job[t].draft = d
                                                     /\ pc[t] \notin {"idle", "done"}}
                      IN  /\ Cardinality(running) + jobs[d] <= 1
                          /\ draft[d] = "paid" => jobs[d] = 0 /\ running = {}
    BY DEF OneActivation
  <2> DEFINE running == {t \in Tasks : job[t].draft = d /\ pc[t] \notin {"idle", "done"}}
  <2>1. running = {t \in Tasks : RunsFor(t, d)}
    BY DEF RunsFor
  <2> HIDE DEF running
  <2>2. jobs[d] \in Nat
    BY <1>1, ReceiptAssumption DEF ActivationInv, JobsType
  <2>3. draft[d] = "paid" => jobs[d] = 0 /\ running = {}
    BY <1>1, <2>1 DEF ActivationInv, OneRun
  <2>4. CASE running = {}
    <3>1. Cardinality(running) = 0
      BY <2>4, FS_EmptySet
    <3>2. jobs[d] <= 1
      BY <1>1, <2>2 DEF ActivationInv, OneRun
    <3>3. QED
      BY <2>2, <2>3, <3>1, <3>2 DEF running
  <2>5. CASE running # {}
    <3>1. PICK t \in running : TRUE
      BY <2>5
    <3>2. running = {t}
      BY <1>1, <2>1, <3>1 DEF ActivationInv, OneRun
    <3>3. Cardinality(running) = 1
      BY <3>2, FS_Singleton
    <3>4. jobs[d] = 0
      BY <1>1, <2>1, <2>2, <3>1 DEF ActivationInv, OneRun
    <3>5. QED
      BY <2>3, <3>3, <3>4 DEF running
  <2>6. QED
    BY <2>4, <2>5
<1>2. QED
  BY <1>1, ActivationInit, ActivationNext, PTL DEF ReviewSpec

\* A rejected receipt keeps an activated invoice only if its revocation raced with the
\* activation (RevokeCleans).
THEOREM AlwaysRevokeCleans == ReviewSpec => []RevokeCleans
<1>1. ActivationInv => RevokeCleans
  BY DEF ActivationInv, Revoked, RevokeCleans
<1>2. QED
  BY <1>1, ActivationInit, ActivationNext, PTL DEF ReviewSpec

-----------------------------------------------------------------------------
(* What the receipts and drafts of a user add up to *)

\* S with each x in it cut into W[x] pieces: their number is the sum of W over S.
Pieces(S, W) == UNION {{x} \X (1 .. W[x]) : x \in S}

\* The number n covers that sum.
Covers(n, S, W) ==
    /\ n \in Nat
    /\ IsFiniteSet(Pieces(S, W))
    /\ Cardinality(Pieces(S, W)) <= n

\* One element more adds its own pieces.
LEMMA PiecesOfOne ==
    ASSUME NEW W, NEW x, W[x] \in Nat
    PROVE  /\ IsFiniteSet({x} \X (1 .. W[x]))
           /\ Cardinality({x} \X (1 .. W[x])) = W[x]
<1>1. IsFiniteSet({x}) /\ Cardinality({x}) = 1
  BY FS_Singleton
<1>2. IsFiniteSet(1 .. W[x]) /\ Cardinality(1 .. W[x]) = W[x]
  BY FS_Interval
<1>3. /\ IsFiniteSet({x} \X (1 .. W[x]))
      /\ Cardinality({x} \X (1 .. W[x])) = Cardinality({x}) * Cardinality(1 .. W[x])
  BY <1>1, <1>2, FS_Product
<1>4. QED
  BY <1>1, <1>2, <1>3

\* Nothing covers nothing.
LEMMA CoversNone == ASSUME NEW W PROVE Covers(0, {}, W)
<1>1. Pieces({}, W) = {}
  BY DEF Pieces
<1>2. QED
  BY <1>1, FS_EmptySet DEF Covers

\* A larger number covers a smaller set.
LEMMA CoversLess ==
    ASSUME NEW W, NEW S, NEW n, Covers(n, S, W),
           NEW T \in SUBSET S, NEW m \in Nat, n <= m
    PROVE  Covers(m, T, W)
<1>1. Pieces(T, W) \subseteq Pieces(S, W)
  BY DEF Pieces
<1>2. IsFiniteSet(Pieces(T, W)) /\ Cardinality(Pieces(T, W)) <= Cardinality(Pieces(S, W))
  BY <1>1, FS_Subset DEF Covers
<1>3. Cardinality(Pieces(T, W)) \in Nat /\ Cardinality(Pieces(S, W)) \in Nat
  BY <1>2, FS_CardinalityType DEF Covers
<1>4. QED
  BY <1>2, <1>3 DEF Covers

\* A number that grew with the set still covers it.
LEMMA CoversMore ==
    ASSUME NEW W, NEW S, NEW n, Covers(n, S, W),
           NEW x, W[x] \in Nat, NEW T \in SUBSET (S \cup {x})
    PROVE  n + W[x] \in Nat /\ Covers(n + W[x], T, W)
<1> DEFINE P == Pieces(S, W)
           Q == {x} \X (1 .. W[x])
<1>1. IsFiniteSet(Q) /\ Cardinality(Q) = W[x]
  BY PiecesOfOne
<1>2. IsFiniteSet(P) /\ Cardinality(P) <= n /\ n \in Nat
  BY DEF Covers
<1>3. Pieces(S \cup {x}, W) = P \cup Q
  BY DEF Pieces
<1> HIDE DEF P, Q
<1>4. /\ IsFiniteSet(P \cup Q)
      /\ Cardinality(P \cup Q) = Cardinality(P) + Cardinality(Q) - Cardinality(P \cap Q)
  BY <1>1, <1>2, FS_Union
<1>5. IsFiniteSet(P \cap Q)
  BY <1>1, <1>2, FS_Intersection
<1>6. /\ Cardinality(P) \in Nat /\ Cardinality(Q) \in Nat
      /\ Cardinality(P \cap Q) \in Nat /\ Cardinality(P \cup Q) \in Nat
  BY <1>1, <1>2, <1>4, <1>5, FS_CardinalityType
<1>7. Cardinality(P \cup Q) <= n + W[x] /\ n + W[x] \in Nat
  BY <1>1, <1>2, <1>4, <1>6
<1>8. Covers(n + W[x], S \cup {x}, W)
  BY <1>3, <1>4, <1>7 DEF Covers
<1>9. QED
  BY <1>7, <1>8, CoversLess

\* What an element adds can be taken back with it.
LEMMA CoversTakenBack ==
    ASSUME NEW W, NEW S, NEW n, Covers(n, S, W),
           NEW x \in S, W[x] \in Nat, NEW T \in SUBSET (S \ {x})
    PROVE  n - W[x] \in Nat /\ Covers(n - W[x], T, W)
<1> DEFINE P == Pieces(S \ {x}, W)
           Q == {x} \X (1 .. W[x])
<1>1. IsFiniteSet(Q) /\ Cardinality(Q) = W[x]
  BY PiecesOfOne
<1>2. /\ IsFiniteSet(Pieces(S, W)) /\ Cardinality(Pieces(S, W)) <= n /\ n \in Nat
  BY DEF Covers
<1>3. Pieces(S, W) = P \cup Q
  BY DEF Pieces
<1>4. P \cap Q = {}
  BY DEF Pieces
<1>5. IsFiniteSet(P)
  BY <1>2, <1>3, FS_Subset
<1> HIDE DEF P, Q
<1>6. Cardinality(P \cup Q) = Cardinality(P) + Cardinality(Q)
  <2>1. Cardinality(P \cup Q) = Cardinality(P) + Cardinality(Q) - Cardinality(P \cap Q)
    BY <1>1, <1>5, FS_Union
  <2>2. Cardinality(P \cap Q) = 0
    BY <1>4, FS_EmptySet
  <2>3. Cardinality(P) \in Nat /\ Cardinality(Q) \in Nat
    BY <1>1, <1>5, FS_CardinalityType
  <2>4. QED
    BY <2>1, <2>2, <2>3
<1>7. Cardinality(P) \in Nat
  BY <1>5, FS_CardinalityType
<1>8. Cardinality(P) <= n - W[x] /\ n - W[x] \in Nat
  BY <1>1, <1>2, <1>3, <1>6, <1>7
<1>9. Covers(n - W[x], S \ {x}, W)
  BY <1>5, <1>8 DEF Covers, P
<1>10. QED
  BY <1>8, <1>9, CoversLess

-----------------------------------------------------------------------------
\* The accepted receipts of a user, the paid drafts of a type, and the purchases whose
\* account is on the panel because a job created it and no revocation removed it.
Finished(u) == {r \in Receipts : ReceiptUser[r] = u /\ status[r] = "finished"}

PaidFor(u, k) ==
    {d \in Drafts : DraftOf[d].user = u /\ DraftOf[d].kind = k /\ draft[d] = "paid"}

Made(d) == \E t \in Tasks : RunsFor(t, d) /\ pc[t] = "created"

OnPanel(u) ==
    {d \in Drafts \ removed : /\ DraftOf[d].user = u /\ DraftOf[d].kind = "purchase"
                              /\ draft[d] # "draft" \/ Made(d)}

PriceTag == [d \in Drafts |-> DraftOf[d].price]
One == [d \in Drafts |-> 1]

\* What the wallet of each user counts covers what revocations may take back.
CreditCovers == \A u \in Users : Covers(credit[u], Finished(u), Amount)

BillsCover ==
    \A u \in Users :
       /\ \A k \in InvoiceTypes : Covers(billed[u][k], PaidFor(u, k), PriceTag)
       /\ Covers(sold[u], PaidFor(u, "purchase"), One)

PanelCovers == \A u \in Users : Covers(remote[u], OnPanel(u), One)

\* A job runs for the user, the price and the kind of its draft.
JobsMatch ==
    \A t \in Tasks, d \in Drafts : RunsFor(t, d) =>
       /\ UserOf(t) = DraftOf[d].user /\ PriceOf(t) = DraftOf[d].price
       /\ job[t].kind = DraftOf[d].kind

\* A revocation takes back what an activation made.
DesksHold ==
    \A a \in Reviewers :
       /\ desk[a].at \in {"removing", "voiding"} => On(a) \in Drafts
       /\ At(a, "removing") => draft[On(a)] # "draft" /\ DraftOf[On(a)].kind = "purchase"

WalletInv ==
    /\ LockInv /\ ReviewTypeOK /\ ActivationInv /\ JobsMatch /\ DesksHold
    /\ CreditCovers /\ BillsCover /\ PanelCovers

\* What a step may be for the rows of the wallet.
LEMMA WalletMoves ==
    ASSUME [ReviewNext]_allVars
    PROVE  \/ UNCHANGED <<vars, status, removed>>
           \/ /\ \E t \in Tasks : Begin(t) \/ TaskStep(t)
              /\ UNCHANGED <<status, removed>>
           \/ Restart /\ UNCHANGED <<status, removed>>
           \/ \E a \in Reviewers :
                 \/ FinishWaiting(a) \/ Overrule(a) \/ RejectWaiting(a)
                 \/ RevokeRemove(a) \/ RevokeVoid(a) \/ RevokeMark(a)
<1>1. ASSUME NEW a \in Reviewers, NEW r \in Receipts,
             OpenAccept(a, r) \/ OpenAutoAccept(a, r) \/ OpenReject(a, r) \/ OpenOverrule(a, r)
      PROVE  UNCHANGED <<vars, status, removed>>
  BY <1>1 DEF OpenAccept, OpenAutoAccept, OpenReject, OpenOverrule
<1>2. ASSUME NEW a \in Reviewers, Notify(a) \/ NotifyFails(a) \/ RevokeRead(a)
      PROVE  UNCHANGED <<vars, status, removed>>
  BY <1>2 DEF Notify, NotifyFails, RevokeRead
<1>3. ASSUME NEW t \in Tasks, NEW r \in Receipts, StartJob(t, r)
      PROVE  Begin(t) /\ UNCHANGED <<status, removed>>
  BY <1>3 DEF StartJob, Begin
<1>4. ASSUME NEW r \in Receipts, JobReturns(r)
      PROVE  UNCHANGED <<vars, status, removed>>
  BY <1>4 DEF JobReturns
<1>5. ASSUME NEW t \in Tasks, TaskStep(t) /\ UNCHANGED review
      PROVE  TaskStep(t) /\ UNCHANGED <<status, removed>>
  BY <1>5 DEF review
<1>6. ASSUME NEW t \in Tasks, NEW u \in Users, NEW p \in Prices,
             BeginPurchase(t, u, p) /\ UNCHANGED review
      PROVE  Begin(t) /\ UNCHANGED <<status, removed>>
  BY <1>6 DEF review, Begin
<1>7. CASE ReviewRestart
  BY <1>7 DEF ReviewRestart
<1>8. CASE UNCHANGED allVars
  BY <1>8 DEF allVars, review
<1>9. QED
  BY <1>1, <1>2, <1>3, <1>4, <1>5, <1>6, <1>7, <1>8 DEF ReviewNext, ReviewStep

-----------------------------------------------------------------------------
\* Receipts that were finished stay so, or one was taken back, with its amount.
LEMMA CreditSame ==
    ASSUME CreditCovers, ReviewTypeOK, UNCHANGED <<status, credit>>
    PROVE  CreditCovers'
  BY DEF CreditCovers, Finished

LEMMA CreditGrows ==
    ASSUME CreditCovers, UNCHANGED status,
           \A u \in Users : credit'[u] \in Nat /\ credit[u] <= credit'[u]
    PROVE  CreditCovers'
<1> SUFFICES ASSUME NEW u \in Users PROVE Covers(credit[u], Finished(u), Amount)'
  BY DEF CreditCovers
<1>1. Finished(u)' = Finished(u)
  BY DEF Finished
<1>2. Covers(credit'[u], Finished(u), Amount)
  BY CoversLess DEF CreditCovers
<1>3. QED
  BY <1>1, <1>2 DEF Covers

\* The first acceptance of a receipt adds its amount.
LEMMA CreditAccepted ==
    ASSUME CreditCovers, ReviewTypeOK, NEW r \in Receipts,
           status' = [status EXCEPT ![r] = "finished"],
           credit' = [credit EXCEPT ![ReceiptUser[r]] = @ + Amount[r]]
    PROVE  CreditCovers'
<1> SUFFICES ASSUME NEW u \in Users PROVE Covers(credit'[u], Finished(u)', Amount)
  BY DEF CreditCovers, Covers
<1>1. Amount[r] \in Nat /\ ReceiptUser[r] \in Users
  BY ReceiptAssumption
<1>2. Covers(credit[u], Finished(u), Amount)
  BY DEF CreditCovers
<1>3. CASE u = ReceiptUser[r]
  <2>1. credit'[u] = credit[u] + Amount[r]
    BY <1>1, <1>3 DEF ReviewTypeOK, TypeOK
  <2>2. Finished(u)' \subseteq Finished(u) \cup {r}
    BY DEF ReviewTypeOK, Finished
  <2>3. QED
    BY <1>1, <1>2, <2>1, <2>2, CoversMore
<1>4. CASE u # ReceiptUser[r]
  <2>1. credit'[u] = credit[u]
    BY <1>1, <1>4 DEF ReviewTypeOK, TypeOK
  <2>2. Finished(u)' = Finished(u)
    BY <1>4 DEF ReviewTypeOK, Finished
  <2>3. QED
    BY <1>2, <2>1, <2>2
<1>5. QED
  BY <1>3, <1>4

\* Its rejection takes the amount back, if it was accepted.
LEMMA CreditRejected ==
    ASSUME CreditCovers, ReviewTypeOK, NEW a \in Reviewers, RevokeMark(a)
    PROVE  CreditCovers'
<1> DEFINE r == On(a)
<1> SUFFICES ASSUME NEW u \in Users PROVE Covers(credit'[u], Finished(u)', Amount)
  BY DEF CreditCovers, Covers
<1>1. r \in Receipts /\ Amount[r] \in Nat /\ ReceiptUser[r] \in Users
  BY ReceiptAssumption DEF ReviewTypeOK, On
<1>2. Covers(credit[u], Finished(u), Amount)
  BY DEF CreditCovers
<1>3. status' = [status EXCEPT ![r] = "rejected"]
  BY DEF RevokeMark
<1>4. CASE status[r] = "finished" /\ u = ReceiptUser[r]
  <2>1. credit'[u] = credit[u] - Amount[r]
    BY <1>1, <1>4 DEF ReviewTypeOK, TypeOK, RevokeMark
  <2>2. r \in Finished(u) /\ Finished(u)' \subseteq Finished(u) \ {r}
    BY <1>1, <1>3, <1>4 DEF ReviewTypeOK, Finished
  <2>3. QED
    BY <1>1, <1>2, <2>1, <2>2, CoversTakenBack
<1>5. CASE ~(status[r] = "finished" /\ u = ReceiptUser[r])
  <2>1. credit'[u] = credit[u]
    BY <1>1, <1>5 DEF ReviewTypeOK, TypeOK, RevokeMark
  <2>2. Finished(u)' = Finished(u)
    BY <1>1, <1>3, <1>5 DEF ReviewTypeOK, Finished
  <2>3. QED
    BY <1>2, <2>1, <2>2
<1>6. QED
  BY <1>4, <1>5

\* The operations of the wallet only add to the credit.
LEMMA TaskCredit ==
    ASSUME TypeOK, NEW t \in Tasks, Begin(t) \/ TaskStep(t), TypeOK'
    PROVE  \A u \in Users : credit'[u] \in Nat /\ credit[u] <= credit'[u]
<1> SUFFICES ASSUME NEW u \in Users PROVE credit[u] <= credit'[u]
  BY DEF TypeOK
<1>1. CASE UNCHANGED credit
  BY <1>1 DEF TypeOK
<1>2. CASE GiveGift(t)
  <2>1. PriceOf(t) \in Prices
    BY DEF TypeOK, Jobs, PriceOf
  <2>2. GiftAmount(PriceOf(t)) \in Nat
    BY <2>1, GiftType
  <2>3. credit[u] \in Nat
    BY DEF TypeOK
  <2>4. credit'[u] = credit[u] \/ credit'[u] = credit[u] + GiftAmount(PriceOf(t))
    BY <1>2 DEF GiveGift, TypeOK
  <2>5. QED
    BY <2>2, <2>3, <2>4
<1>3. UNCHANGED credit \/ GiveGift(t)
  BY DEF Begin, BeginPurchase, BeginRenewNow, BeginRenewReserve, RunDraft, Start, TaskStep,
     PurchaseStep, RenewStep, EnterLock, PurchaseRefused, CheckBalance, TooPoor, CreateOnServer,
     CreateFails, CommitPurchase, PurchaseRollback, ReadCredit, RenewRefused, RenewLock,
     RenewOnPanel, CommitRenew, RenewRollback, ReserveOpen, CommitReserve, ReserveInactive,
     ReserveRollback, ledger
<1>4. QED
  BY <1>1, <1>2, <1>3

\* The credit of a user covers the receipts that may be rejected.
LEMMA CreditNext ==
    ASSUME WalletInv, [ReviewNext]_allVars
    PROVE  CreditCovers'
<1>1. CASE UNCHANGED <<vars, status, removed>>
  BY <1>1, CreditSame DEF WalletInv, vars, ledger
<1>2. ASSUME NEW t \in Tasks, Begin(t) \/ TaskStep(t), UNCHANGED <<status, removed>>
      PROVE  CreditCovers'
  <2>1. TypeOK /\ TypeOK'
    BY <1>2, NextType DEF WalletInv, LockInv, Next
  <2>2. QED
    BY <1>2, <2>1, TaskCredit, CreditGrows DEF WalletInv
<1>3. CASE Restart /\ UNCHANGED <<status, removed>>
  BY <1>3, CreditSame DEF WalletInv, Restart, ledger
<1>4. ASSUME NEW a \in Reviewers, FinishWaiting(a) \/ Overrule(a) PROVE CreditCovers'
  <2>1. On(a) \in Receipts
    BY DEF WalletInv, ReviewTypeOK, On
  <2>2. CASE /\ status' = [status EXCEPT ![On(a)] = "finished"]
             /\ credit' = [credit EXCEPT ![ReceiptUser[On(a)]] = @ + Amount[On(a)]]
    BY <2>1, <2>2, CreditAccepted DEF WalletInv
  <2>3. CASE status' = [status EXCEPT ![On(a)] = "finished"] /\ status[On(a)] = "finished"
             /\ UNCHANGED credit
    <3>1. status' = status
      BY <2>1, <2>3 DEF WalletInv, ReviewTypeOK
    <3>2. QED
      BY <2>3, <3>1, CreditSame DEF WalletInv
  <2>4. CASE UNCHANGED <<status, credit>>
    BY <2>4, CreditSame DEF WalletInv
  <2>5. QED
    BY <1>4, <2>2, <2>3, <2>4 DEF FinishWaiting, Overrule
<1>5. ASSUME NEW a \in Reviewers, RejectWaiting(a) PROVE CreditCovers'
  <2>1. \A u \in Users : Finished(u)' = Finished(u)
    BY <1>5 DEF RejectWaiting, WalletInv, ReviewTypeOK, Finished
  <2>2. credit' = credit
    BY <1>5 DEF RejectWaiting, vars, ledger
  <2>3. QED
    BY <2>1, <2>2 DEF WalletInv, CreditCovers
<1>6. ASSUME NEW a \in Reviewers, RevokeRemove(a) \/ RevokeVoid(a) PROVE CreditCovers'
  BY <1>6, CreditSame DEF WalletInv, RevokeRemove, RevokeVoid
<1>7. ASSUME NEW a \in Reviewers, RevokeMark(a) PROVE CreditCovers'
  BY <1>7, CreditRejected DEF WalletInv
<1>8. QED
  BY <1>1, <1>2, <1>3, <1>4, <1>5, <1>6, <1>7, WalletMoves

-----------------------------------------------------------------------------
\* No step makes a paid or deleted draft a draft again.
LEMMA DraftsOnward ==
    ASSUME WalletInv, [ReviewNext]_allVars, NEW d \in Drafts, draft[d] # "draft"
    PROVE  draft'[d] # "draft"
<1>1. CASE UNCHANGED draft
  BY <1>1
<1>2. ASSUME NEW t \in Tasks, CommitInvoice(t) PROVE draft'[d] # "draft"
  BY <1>2 DEF CommitInvoice, WalletInv, ReviewTypeOK, TypeOK
<1>3. ASSUME NEW a \in Reviewers, RevokeVoid(a) PROVE draft'[d] # "draft"
  BY <1>3 DEF RevokeVoid, WalletInv, ReviewTypeOK, TypeOK
<1>4. ASSUME NEW t \in Tasks, Begin(t) \/ TaskStep(t)
      PROVE  UNCHANGED draft \/ CommitInvoice(t)
  BY <1>4 DEF Begin, BeginPurchase, BeginRenewNow, BeginRenewReserve, RunDraft, Start, TaskStep,
     PurchaseStep, RenewStep, EnterLock, PurchaseRefused, CheckBalance, TooPoor, CreateOnServer,
     CreateFails, CommitPurchase, PurchaseRollback, ReadCredit, RenewRefused, RenewLock,
     RenewOnPanel, CommitRenew, RenewRollback, ReserveOpen, CommitReserve, ReserveInactive,
     ReserveRollback, ledger
<1>5. CASE UNCHANGED vars \/ Restart
  BY <1>1, <1>5 DEF vars, ledger, Restart
<1>6. ASSUME NEW a \in Reviewers,
             FinishWaiting(a) \/ Overrule(a) \/ RejectWaiting(a) \/ RevokeRemove(a) \/ RevokeMark(a)
      PROVE  UNCHANGED draft
  BY <1>6 DEF FinishWaiting, Overrule, RejectWaiting, RevokeRemove, RevokeMark, vars, ledger
<1>7. QED
  BY <1>1, <1>2, <1>3, <1>4, <1>5, <1>6, WalletMoves

\* A revocation works on what an activation paid for.
LEMMA DesksNext ==
    ASSUME WalletInv, [ReviewNext]_allVars
    PROVE  DesksHold'
<1> SUFFICES ASSUME NEW a \in Reviewers, desk'[a].at \in {"removing", "voiding"}
             PROVE  /\ desk'[a].receipt \in Drafts
                    /\ desk'[a].at = "removing" =>
                          /\ draft'[desk'[a].receipt] # "draft"
                          /\ DraftOf[desk'[a].receipt].kind = "purchase"
  BY DEF DesksHold, At, On
<1>1. /\ desk'[a].receipt = On(a)
      /\ \/ desk'[a] = desk[a]
         \/ RevokeRead(a)
         \/ RevokeRemove(a) /\ desk'[a].at = "voiding"
         \/ RevokeVoid(a)
  BY RevokingBy DEF WalletInv, ActivationInv, LedgerInv, Revoking
<1>2. CASE desk'[a] = desk[a]
  BY <1>1, <1>2, DraftsOnward DEF WalletInv, DesksHold, At, On
<1>3. CASE RevokeRead(a)
  <2>1. CASE On(a) \in Drafts /\ draft[On(a)] = "paid"
    <3>1. desk'[a].at = IF DraftOf[On(a)].kind = "purchase" THEN "removing" ELSE "voiding"
      BY <1>3, <2>1 DEF RevokeRead, Move, WalletInv, ReviewTypeOK
    <3>2. draft'[On(a)] # "draft"
      BY <2>1, DraftsOnward
    <3>3. QED
      BY <1>1, <2>1, <3>1, <3>2
  <2>2. CASE ~(On(a) \in Drafts /\ draft[On(a)] = "paid")
    <3>1. desk'[a].at = "marking"
      BY <1>3, <2>2 DEF RevokeRead, Move, WalletInv, ReviewTypeOK
    <3>2. QED
      BY <3>1
  <2>3. QED
    BY <2>1, <2>2
<1>4. CASE RevokeRemove(a) /\ desk'[a].at = "voiding"
  BY <1>1, <1>4 DEF RevokeRemove, WalletInv, DesksHold, At
<1>5. CASE RevokeVoid(a)
  <2>1. desk'[a].at = "marking"
    BY <1>5 DEF RevokeVoid, Move, WalletInv, ReviewTypeOK
  <2>2. QED
    BY <2>1
<1>6. QED
  BY <1>1, <1>2, <1>3, <1>4, <1>5

\* Whoever runs for a draft started with its user, price and kind.
LEMMA JobsNext ==
    ASSUME WalletInv, [ReviewNext]_allVars
    PROVE  JobsMatch'
<1>1. CASE UNCHANGED <<pc, job>>
  BY <1>1 DEF WalletInv, JobsMatch, RunsFor, UserOf, PriceOf
<1>2. ASSUME NEW t \in Tasks, TaskStep(t) PROVE JobsMatch'
  <2>1. OthersStay(t) /\ (pc'[t] = "done" \/ (job'[t] = job[t] /\ pc[t] \notin {"idle", "done"}))
    <3>1. CASE PurchaseStep(t)
      <4>1. pc[t] \notin {"idle", "done"}
        BY <3>1 DEF PurchaseStep, EnterLock, PurchaseRefused, CheckBalance, TooPoor,
           CreateOnServer, CreateFails, CommitPurchase, PurchaseRollback
      <4>2. QED
        BY <3>1, <4>1, PurchaseView DEF WalletInv, LockInv
    <3>2. CASE RenewStep(t)
      <4>1. pc[t] \notin {"idle", "done"}
        BY <3>2 DEF RenewStep, ReadCredit, RenewRefused, RenewLock, RenewOnPanel, CommitRenew,
           RenewRollback, ReserveOpen, CommitReserve, ReserveInactive, ReserveRollback
      <4>2. Finish(t) \/ UNCHANGED job
        BY <3>2 DEF RenewStep, ReadCredit, RenewRefused, RenewLock, RenewOnPanel, CommitRenew,
           RenewRollback, ReserveOpen, CommitReserve, ReserveInactive, ReserveRollback, locals
      <4>3. Finish(t) => pc'[t] = "done"
        BY DEF Finish, GoTo, WalletInv, ReviewTypeOK, TypeOK
      <4>4. QED
        BY <3>2, <4>1, <4>2, <4>3, RenewView DEF WalletInv, LockInv
    <3>3. QED
      BY <1>2, <3>1, <3>2 DEF TaskStep
  <2>2. \A s \in Tasks, d \in Drafts : RunsFor(s, d)' => RunsFor(s, d) /\ job'[s] = job[s]
    BY <2>1 DEF RunsFor, OthersStay
  <2>3. QED
    BY <2>2 DEF WalletInv, JobsMatch, UserOf, PriceOf
<1>3. ASSUME NEW t \in Tasks, NEW j, Start(t, j),
             \A d \in Drafts : j.draft = d =>
                j.user = DraftOf[d].user /\ j.price = DraftOf[d].price /\ j.kind = DraftOf[d].kind
      PROVE  JobsMatch'
  <2>1. /\ pc'[t] = "loaded" /\ job'[t] = j
        /\ \A s \in Tasks : s # t => pc'[s] = pc[s] /\ job'[s] = job[s]
    BY <1>3 DEF Start, GoTo, WalletInv, ReviewTypeOK, TypeOK
  <2>2. QED
    BY <1>3, <2>1 DEF WalletInv, JobsMatch, RunsFor, UserOf, PriceOf
<1>4. ASSUME NEW t \in Tasks, Begin(t) PROVE JobsMatch'
  <2>1. ASSUME NEW u \in Users, NEW p \in Prices,
               BeginPurchase(t, u, p) \/ BeginRenewNow(t, u, p) \/ BeginRenewReserve(t, u, p)
        PROVE  JobsMatch'
    <3>1. PICK k : Start(t, [kind |-> k, user |-> u, price |-> p, draft |-> NoDraft])
      BY <2>1 DEF BeginPurchase, BeginRenewNow, BeginRenewReserve
    <3>2. QED
      BY <1>3, <3>1, WalletAssumption
  <2>2. ASSUME NEW d \in Drafts, RunDraft(t, d) PROVE JobsMatch'
    BY <1>3, <2>2 DEF RunDraft
  <2>3. QED
    BY <1>4, <2>1, <2>2 DEF Begin
<1>5. CASE Restart
  <2>1. \A s \in Tasks : \A d : ~RunsFor(s, d)'
    BY <1>5 DEF Restart, RunsFor
  <2>2. QED
    BY <2>1 DEF JobsMatch
<1>6. CASE UNCHANGED vars
  BY <1>1, <1>6 DEF vars, locals
<1>7. ASSUME NEW a \in Reviewers,
             \/ FinishWaiting(a) \/ Overrule(a) \/ RejectWaiting(a)
             \/ RevokeRemove(a) \/ RevokeVoid(a) \/ RevokeMark(a)
      PROVE  UNCHANGED <<pc, job>>
  BY <1>7 DEF FinishWaiting, Overrule, RejectWaiting, RevokeRemove, RevokeVoid, RevokeMark,
     vars, locals
<1>8. QED
  BY <1>1, <1>2, <1>4, <1>5, <1>6, <1>7, WalletMoves

-----------------------------------------------------------------------------
\* A step of a task leaves the invoices alone, or commits one.
LEMMA TaskBills ==
    ASSUME WalletInv, NEW t \in Tasks, Begin(t) \/ TaskStep(t)
    PROVE  \/ UNCHANGED <<billed, draft, sold>>
           \/ CommitPurchase(t)
           \/ CommitInvoice(t) /\ UNCHANGED sold /\ job[t].kind # "purchase"
<1>1. CASE CommitRenew(t)
  BY <1>1 DEF CommitRenew, WalletInv, LockInv, PhaseKind
<1>2. CASE CommitReserve(t) \/ ReserveInactive(t)
  BY <1>2 DEF CommitReserve, ReserveInactive
<1>3. ASSUME ~CommitPurchase(t), ~CommitRenew(t), ~CommitReserve(t), ~ReserveInactive(t)
      PROVE  UNCHANGED <<billed, draft, sold>>
  BY <1>3 DEF Begin, BeginPurchase, BeginRenewNow, BeginRenewReserve, RunDraft, Start, TaskStep,
     PurchaseStep, RenewStep, EnterLock, PurchaseRefused, CheckBalance, TooPoor, CreateOnServer,
     CreateFails, PurchaseRollback, ReadCredit, RenewRefused, RenewLock, RenewOnPanel,
     RenewRollback, ReserveOpen, ReserveRollback, ledger
<1>4. QED
  BY <1>1, <1>2, <1>3

\* The draft a commit flips is the one of its job.
LEMMA CommitDraft ==
    ASSUME WalletInv, NEW t \in Tasks, CommitInvoice(t)
    PROVE  \/ UNCHANGED draft
           \/ \E d \in Drafts :
                 /\ RunsFor(t, d) /\ BillsNow(t)
                 /\ draft' = [draft EXCEPT ![d] = "paid"]
                 /\ DraftOf[d].user = UserOf(t) /\ DraftOf[d].kind = job[t].kind
                 /\ DraftOf[d].price = PriceOf(t)
<1>1. CASE draftSeen[t] /\ draft[job[t].draft] = "draft"
  <2>1. job[t].draft \in Drafts /\ RunsFor(t, job[t].draft)
    BY <1>1 DEF WalletInv, ActivationInv, JobsType
  <2>2. draft' = [draft EXCEPT ![job[t].draft] = "paid"] /\ BillsNow(t)
    BY <1>1 DEF CommitInvoice, BillsNow
  <2>3. QED
    BY <2>1, <2>2 DEF WalletInv, JobsMatch
<1>2. CASE ~(draftSeen[t] /\ draft[job[t].draft] = "draft")
  BY <1>2 DEF CommitInvoice
<1>3. QED
  BY <1>1, <1>2

\* What a commit adds to the paid drafts.
LEMMA CommitPays ==
    ASSUME WalletInv, NEW t \in Tasks, CommitInvoice(t), NEW u \in Users, NEW k \in InvoiceTypes
    PROVE  \/ PaidFor(u, k)' = PaidFor(u, k)
           \/ /\ u = UserOf(t) /\ k = job[t].kind /\ BillsNow(t)
              /\ \E d \in Drafts : /\ PaidFor(u, k)' \subseteq PaidFor(u, k) \cup {d}
                                   /\ PriceTag[d] = PriceOf(t) /\ One[d] = 1
<1>1. CASE UNCHANGED draft
  BY <1>1 DEF PaidFor
<1>2. ASSUME NEW d \in Drafts, BillsNow(t), draft' = [draft EXCEPT ![d] = "paid"],
             DraftOf[d].user = UserOf(t), DraftOf[d].kind = job[t].kind,
             DraftOf[d].price = PriceOf(t)
      PROVE  \/ PaidFor(u, k)' = PaidFor(u, k)
             \/ /\ u = UserOf(t) /\ k = job[t].kind /\ BillsNow(t)
                /\ \E c \in Drafts : /\ PaidFor(u, k)' \subseteq PaidFor(u, k) \cup {c}
                                     /\ PriceTag[c] = PriceOf(t) /\ One[c] = 1
  <2>1. \A c \in Drafts : c # d => draft'[c] = draft[c]
    BY <1>2 DEF WalletInv, ReviewTypeOK, TypeOK
  <2>2. CASE u = UserOf(t) /\ k = job[t].kind
    <3>1. PaidFor(u, k)' \subseteq PaidFor(u, k) \cup {d}
      BY <2>1 DEF PaidFor
    <3>2. PriceTag[d] = PriceOf(t) /\ One[d] = 1
      BY <1>2 DEF PriceTag, One
    <3>3. QED
      BY <1>2, <2>2, <3>1, <3>2
  <2>3. CASE ~(u = UserOf(t) /\ k = job[t].kind)
    <3>1. PaidFor(u, k)' = PaidFor(u, k)
      BY <1>2, <2>1, <2>3 DEF PaidFor
    <3>2. QED
      BY <3>1
  <2>4. QED
    BY <2>2, <2>3
<1>3. QED
  BY <1>1, <1>2, CommitDraft

\* A commit bills what it adds.
LEMMA CommitBills ==
    ASSUME WalletInv, NEW t \in Tasks, CommitInvoice(t), NEW u \in Users, NEW k \in InvoiceTypes
    PROVE  Covers(billed'[u][k], PaidFor(u, k)', PriceTag)
<1>1. PriceOf(t) \in Nat /\ billed[u][k] \in Nat /\ UserOf(t) \in Users
  BY JobFields DEF WalletInv, ReviewTypeOK, TypeOK
<1>2. Covers(billed[u][k], PaidFor(u, k), PriceTag)
  BY DEF WalletInv, BillsCover
<1>3. billed'[u][k] = IF BillsNow(t) /\ u = UserOf(t) /\ k = job[t].kind
                      THEN billed[u][k] + PriceOf(t) ELSE billed[u][k]
  BY <1>1 DEF CommitInvoice, WalletInv, ReviewTypeOK, TypeOK
<1>4. CASE PaidFor(u, k)' = PaidFor(u, k)
  <2>1. billed'[u][k] \in Nat /\ billed[u][k] <= billed'[u][k]
    BY <1>1, <1>3
  <2>2. QED
    BY <1>2, <1>4, <2>1, CoversLess
<1>5. ASSUME u = UserOf(t), k = job[t].kind, BillsNow(t), NEW d \in Drafts,
             PaidFor(u, k)' \subseteq PaidFor(u, k) \cup {d}, PriceTag[d] = PriceOf(t)
      PROVE  Covers(billed'[u][k], PaidFor(u, k)', PriceTag)
  <2>1. PriceTag[d] \in Nat /\ billed'[u][k] = billed[u][k] + PriceTag[d]
    BY <1>1, <1>3, <1>5
  <2>2. QED
    BY <1>2, <1>5, <2>1, CoversMore
<1>6. QED
  BY <1>4, <1>5, CommitPays

\* A step that leaves the invoices alone.
LEMMA BillsSame ==
    ASSUME BillsCover, UNCHANGED <<billed, draft, sold>>
    PROVE  BillsCover'
  BY DEF BillsCover, PaidFor

\* The deletion of an invoice takes its own price, and the proxy of a purchase.
LEMMA BillsVoided ==
    ASSUME WalletInv, NEW a \in Reviewers, RevokeVoid(a)
    PROVE  BillsCover'
<1> DEFINE r == On(a)
<1>1. CASE draft[r] # "paid"
  BY <1>1, BillsSame DEF RevokeVoid, WalletInv
<1>2. CASE draft[r] = "paid"
  <2>1. r \in Drafts /\ ReceiptUser[r] = DraftOf[r].user
    BY ReceiptAssumption DEF WalletInv, DesksHold, RevokeVoid, At
  <2>2. /\ DraftOf[r].user \in Users /\ DraftOf[r].kind \in InvoiceTypes
        /\ DraftOf[r].price \in Nat /\ PriceTag[r] = DraftOf[r].price /\ One[r] = 1
    BY <2>1, WalletAssumption DEF PriceTag, One
  <2>3. /\ draft' = [draft EXCEPT ![r] = "void"]
        /\ billed' = [billed EXCEPT ![DraftOf[r].user][DraftOf[r].kind] = @ - DraftOf[r].price]
        /\ sold' = [sold EXCEPT ![DraftOf[r].user] =
                       IF DraftOf[r].kind = "purchase" THEN @ - 1 ELSE @]
    BY <1>2, <2>1 DEF RevokeVoid
  <2>4. \A c \in Drafts : draft'[c] = IF c = r THEN "void" ELSE draft[c]
    BY <2>3 DEF WalletInv, ReviewTypeOK, TypeOK
  <2>5. ASSUME NEW u \in Users, NEW k \in InvoiceTypes
        PROVE  Covers(billed'[u][k], PaidFor(u, k)', PriceTag)
    <3>1. Covers(billed[u][k], PaidFor(u, k), PriceTag)
      BY DEF WalletInv, BillsCover
    <3>2. CASE u = DraftOf[r].user /\ k = DraftOf[r].kind
      <4>1. billed'[u][k] = billed[u][k] - PriceTag[r]
        BY <2>2, <2>3, <3>2 DEF WalletInv, ReviewTypeOK, TypeOK
      <4>2. r \in PaidFor(u, k) /\ PaidFor(u, k)' \subseteq PaidFor(u, k) \ {r}
        BY <1>2, <2>1, <2>4, <3>2 DEF PaidFor
      <4>3. QED
        BY <2>2, <3>1, <4>1, <4>2, CoversTakenBack
    <3>3. CASE ~(u = DraftOf[r].user /\ k = DraftOf[r].kind)
      <4>1. billed'[u][k] = billed[u][k]
        BY <2>2, <2>3, <3>3 DEF WalletInv, ReviewTypeOK, TypeOK
      <4>2. PaidFor(u, k)' = PaidFor(u, k)
        BY <2>4, <3>3 DEF PaidFor
      <4>3. QED
        BY <3>1, <4>1, <4>2
    <3>4. QED
      BY <3>2, <3>3
  <2>6. ASSUME NEW u \in Users
        PROVE  Covers(sold'[u], PaidFor(u, "purchase")', One)
    <3>1. Covers(sold[u], PaidFor(u, "purchase"), One)
      BY DEF WalletInv, BillsCover
    <3>2. CASE u = DraftOf[r].user /\ DraftOf[r].kind = "purchase"
      <4>1. sold'[u] = sold[u] - One[r]
        BY <2>2, <2>3, <3>2 DEF WalletInv, ReviewTypeOK, TypeOK
      <4>2. /\ r \in PaidFor(u, "purchase")
            /\ PaidFor(u, "purchase")' \subseteq PaidFor(u, "purchase") \ {r}
        BY <1>2, <2>1, <2>4, <3>2 DEF PaidFor
      <4>3. QED
        BY <2>2, <3>1, <4>1, <4>2, CoversTakenBack
    <3>3. CASE ~(u = DraftOf[r].user /\ DraftOf[r].kind = "purchase")
      <4>1. sold'[u] = sold[u]
        BY <2>2, <2>3, <3>3 DEF WalletInv, ReviewTypeOK, TypeOK
      <4>2. PaidFor(u, "purchase")' = PaidFor(u, "purchase")
        BY <2>4, <3>3 DEF PaidFor
      <4>3. QED
        BY <3>1, <4>1, <4>2
    <3>4. QED
      BY <3>2, <3>3
  <2>7. QED
    BY <2>5, <2>6 DEF BillsCover
<1>3. QED
  BY <1>1, <1>2

\* The invoices of a user cover the drafts that may be revoked.
LEMMA BillsNext ==
    ASSUME WalletInv, [ReviewNext]_allVars
    PROVE  BillsCover'
<1>1. CASE UNCHANGED vars \/ Restart
  BY <1>1, BillsSame DEF WalletInv, vars, ledger, Restart
<1>2. ASSUME NEW t \in Tasks, CommitInvoice(t),
             \/ UNCHANGED sold /\ job[t].kind # "purchase"
             \/ sold' = [sold EXCEPT ![UserOf(t)] = @ + 1]
      PROVE  BillsCover'
  <2> SUFFICES ASSUME NEW u \in Users
               PROVE  Covers(sold'[u], PaidFor(u, "purchase")', One)
    BY <1>2, CommitBills DEF BillsCover, Covers
  <2>1. /\ Covers(sold[u], PaidFor(u, "purchase"), One) /\ sold[u] \in Nat
        /\ "purchase" \in InvoiceTypes /\ UserOf(t) \in Users
    BY JobFields DEF WalletInv, BillsCover, ReviewTypeOK, TypeOK, InvoiceTypes
  <2>2. sold'[u] \in Nat /\ sold[u] <= sold'[u]
    BY <1>2, <2>1 DEF WalletInv, ReviewTypeOK, TypeOK
  <2>3. CASE PaidFor(u, "purchase")' = PaidFor(u, "purchase")
    BY <2>1, <2>2, <2>3, CoversLess
  <2>4. ASSUME u = UserOf(t), "purchase" = job[t].kind, NEW d \in Drafts, One[d] = 1,
               PaidFor(u, "purchase")' \subseteq PaidFor(u, "purchase") \cup {d}
        PROVE  Covers(sold'[u], PaidFor(u, "purchase")', One)
    <3>1. sold'[u] = sold[u] + One[d]
      BY <1>2, <2>1, <2>4 DEF WalletInv, ReviewTypeOK, TypeOK
    <3>2. QED
      BY <2>1, <2>4, <3>1, CoversMore
  <2>5. QED
    BY <1>2, <2>1, <2>3, <2>4, CommitPays
<1>3. ASSUME NEW t \in Tasks, Begin(t) \/ TaskStep(t) PROVE BillsCover'
  <2>1. CASE UNCHANGED <<billed, draft, sold>>
    BY <2>1, BillsSame DEF WalletInv
  <2>2. CASE CommitPurchase(t)
    BY <1>2, <2>2 DEF CommitPurchase
  <2>3. QED
    BY <1>2, <1>3, <2>1, <2>2, TaskBills
<1>4. ASSUME NEW a \in Reviewers, RevokeVoid(a) PROVE BillsCover'
  BY <1>4, BillsVoided
<1>5. ASSUME NEW a \in Reviewers,
             FinishWaiting(a) \/ Overrule(a) \/ RejectWaiting(a) \/ RevokeRemove(a) \/ RevokeMark(a)
      PROVE  UNCHANGED <<billed, draft, sold>>
  BY <1>5 DEF FinishWaiting, Overrule, RejectWaiting, RevokeRemove, RevokeMark, vars, ledger
<1>6. QED
  BY <1>1, <1>3, <1>4, <1>5, BillsSame, WalletMoves DEF WalletInv

-----------------------------------------------------------------------------
\* Accounts that leave the set, or whose task ends, are covered all the same.
LEMMA PanelLess ==
    ASSUME PanelCovers, UNCHANGED removed,
           \A u \in Users : remote'[u] \in Nat /\ remote[u] <= remote'[u],
           \A d \in Drafts : DraftOf[d].kind = "purchase" /\ (draft'[d] # "draft" \/ Made(d)')
                                => draft[d] # "draft" \/ Made(d)
    PROVE  PanelCovers'
<1> SUFFICES ASSUME NEW u \in Users PROVE Covers(remote'[u], OnPanel(u)', One)
  BY DEF PanelCovers, Covers
<1>1. OnPanel(u)' \subseteq OnPanel(u)
  BY DEF OnPanel
<1>2. QED
  BY <1>1, CoversLess DEF PanelCovers

\* A task that is not at the panel makes no account.
LEMMA TaskElsewhere ==
    ASSUME WalletInv, NEW t \in Tasks, Begin(t) \/ TaskStep(t), ~CreateOnServer(t)
    PROVE  \A d \in Drafts : Made(d)' => Made(d)
<1>1. /\ \A s \in Tasks : s # t => pc'[s] = pc[s] /\ job'[s] = job[s]
      /\ pc'[t] # "created"
  <2>1. CASE Begin(t)
    BY <2>1, BeginView DEF WalletInv, LockInv, OthersStay
  <2>2. CASE RenewStep(t)
    <3>1. \/ pc'[t] \in {"done", "priced", "entered"} \/ pc'[t] = "renewed"
      BY <2>2, RenewView DEF WalletInv, LockInv
    <3>2. QED
      BY <2>2, <3>1, RenewView DEF WalletInv, LockInv, OthersStay
  <2>3. CASE PurchaseStep(t)
    <3>1. Finish(t) \/ GoTo(t, "entered") \/ GoTo(t, "funded")
      BY <2>3 DEF PurchaseStep, EnterLock, PurchaseRefused, CheckBalance, TooPoor, CreateFails,
         CommitPurchase, PurchaseRollback
    <3>2. pc'[t] \in {"done", "entered", "funded"}
      BY <3>1 DEF Finish, GoTo, WalletInv, ReviewTypeOK, TypeOK
    <3>3. QED
      BY <2>3, <3>2, PurchaseView DEF WalletInv, LockInv, OthersStay
  <2>4. QED
    BY <2>1, <2>2, <2>3 DEF TaskStep
<1>2. QED
  BY <1>1 DEF Made, RunsFor

\* Creating the account is what the panel counts.
LEMMA PanelCreated ==
    ASSUME WalletInv, NEW t \in Tasks, CreateOnServer(t), UNCHANGED removed
    PROVE  PanelCovers'
<1>1. /\ UNCHANGED <<job, draft>> /\ UserOf(t) \in Users
      /\ \A s \in Tasks : pc'[s] = IF s = t THEN "created" ELSE pc[s]
      /\ \A u \in Users : remote'[u] = IF u = UserOf(t) THEN remote[u] + 1 ELSE remote[u]
      /\ \A u \in Users : remote[u] \in Nat /\ remote'[u] \in Nat /\ remote[u] <= remote'[u]
  BY JobFields DEF CreateOnServer, GoTo, WalletInv, ReviewTypeOK, TypeOK, locals
<1>2. \A d \in Drafts : Made(d)' => Made(d) \/ RunsFor(t, d)
  BY <1>1 DEF Made, RunsFor, CreateOnServer
<1>3. CASE \A d \in Drafts : ~RunsFor(t, d)
  BY <1>1, <1>2, <1>3, PanelLess DEF WalletInv
<1>4. ASSUME NEW d \in Drafts, RunsFor(t, d) PROVE PanelCovers'
  <2> SUFFICES ASSUME NEW u \in Users PROVE Covers(remote'[u], OnPanel(u)', One)
    BY DEF PanelCovers, Covers
  <2>1. \A c \in Drafts : RunsFor(t, c) => c = d
    BY <1>4 DEF RunsFor
  <2>2. DraftOf[d].user = UserOf(t) /\ One[d] = 1
    BY <1>4 DEF WalletInv, JobsMatch, One
  <2>3. Covers(remote[u], OnPanel(u), One)
    BY DEF WalletInv, PanelCovers
  <2>4. CASE u = UserOf(t)
    <3>1. OnPanel(u)' \subseteq OnPanel(u) \cup {d}
      BY <1>1, <1>2, <2>1 DEF OnPanel
    <3>2. remote'[u] = remote[u] + One[d]
      BY <1>1, <2>2, <2>4
    <3>3. QED
      BY <2>2, <2>3, <3>1, <3>2, CoversMore
  <2>5. CASE u # UserOf(t)
    <3>1. OnPanel(u)' \subseteq OnPanel(u)
      BY <1>1, <1>2, <2>1, <2>2, <2>5 DEF OnPanel
    <3>2. QED
      BY <1>1, <2>3, <3>1, CoversLess
  <2>6. QED
    BY <2>4, <2>5
<1>5. QED
  BY <1>3, <1>4

\* Removing an account takes it from the panel once.
LEMMA PanelRemoved ==
    ASSUME WalletInv, NEW a \in Reviewers, RevokeRemove(a)
    PROVE  PanelCovers'
<1> DEFINE r == On(a)
<1>1. /\ r \in Drafts /\ draft[r] # "draft" /\ DraftOf[r].kind = "purchase"
      /\ DraftOf[r].user = ReceiptUser[r]
  BY ReceiptAssumption DEF WalletInv, DesksHold, RevokeRemove, At
<1>2. PICK now \in SUBSET (IF r \in removed THEN {} ELSE {r}) :
         /\ removed' = removed \cup now
         /\ remote' = [remote EXCEPT ![ReceiptUser[r]] = @ - Cardinality(now)]
  BY DEF RevokeRemove
<1>3. UNCHANGED <<draft, pc, job>>
  BY DEF RevokeRemove, locals
<1>4. \A d \in Drafts : Made(d)' <=> Made(d)
  BY <1>3 DEF Made, RunsFor
<1> SUFFICES ASSUME NEW u \in Users PROVE Covers(remote'[u], OnPanel(u)', One)
  BY DEF PanelCovers, Covers
<1>5. Covers(remote[u], OnPanel(u), One) /\ remote[u] \in Nat /\ One[r] = 1
  BY <1>1 DEF WalletInv, PanelCovers, ReviewTypeOK, TypeOK, One
<1>6. CASE now = {} \/ u # ReceiptUser[r]
  <2>1. Cardinality({}) = 0
    BY FS_EmptySet
  <2>2. remote'[u] = remote[u]
    <3>1. CASE now = {}
      <4>1. remote' = [remote EXCEPT ![ReceiptUser[r]] = @ - 0]
        BY <1>2, <2>1, <3>1
      <4>2. QED
        BY <1>5, <4>1 DEF WalletInv, ReviewTypeOK, TypeOK
    <3>2. CASE u # ReceiptUser[r]
      BY <1>2, <3>2 DEF WalletInv, ReviewTypeOK, TypeOK
    <3>3. QED
      BY <1>6, <3>1, <3>2
  <2>3. OnPanel(u)' \subseteq OnPanel(u)
    BY <1>2, <1>3, <1>4 DEF OnPanel
  <2>4. QED
    BY <1>5, <2>2, <2>3, CoversLess
<1>7. CASE now = {r} /\ r \notin removed /\ u = ReceiptUser[r]
  <2>1. Cardinality({r}) = 1
    BY FS_Singleton
  <2>2. remote'[u] = remote[u] - One[r]
    BY <1>2, <1>5, <1>7, <2>1 DEF WalletInv, ReviewTypeOK, TypeOK
  <2>3. r \in OnPanel(u) /\ OnPanel(u)' \subseteq OnPanel(u) \ {r}
    BY <1>1, <1>2, <1>3, <1>4, <1>7 DEF OnPanel
  <2>4. QED
    BY <1>5, <2>2, <2>3, CoversTakenBack
<1>8. QED
  BY <1>2, <1>6, <1>7

\* The panel's accounts cover those that revocations may remove.
LEMMA PanelNext ==
    ASSUME WalletInv, [ReviewNext]_allVars
    PROVE  PanelCovers'
<1>1. \A u \in Users : remote[u] \in Nat
  BY DEF WalletInv, ReviewTypeOK, TypeOK
<1>2. CASE UNCHANGED <<vars, status, removed>>
  BY <1>1, <1>2, PanelLess DEF WalletInv, vars, ledger, locals, Made, RunsFor
<1>3. CASE Restart /\ UNCHANGED <<status, removed>>
  <2>1. \A d : ~Made(d)'
    BY <1>3 DEF Restart, Made, RunsFor
  <2>2. QED
    BY <1>1, <1>3, <2>1, PanelLess DEF WalletInv, Restart, ledger
<1>4. ASSUME NEW t \in Tasks, Begin(t) \/ TaskStep(t), ~CreateOnServer(t), UNCHANGED removed
      PROVE  PanelCovers'
  <2>1. \A u \in Users : remote'[u] \in Nat /\ remote[u] <= remote'[u]
    <3>1. CASE CreateFails(t)
      BY <1>1, <3>1 DEF CreateFails, WalletInv, ReviewTypeOK, TypeOK
    <3>2. CASE ~CreateFails(t)
      <4>1. UNCHANGED remote
        BY <1>4, <3>2
           DEF Begin, BeginPurchase, BeginRenewNow, BeginRenewReserve, RunDraft, Start, TaskStep,
               PurchaseStep, RenewStep, EnterLock, PurchaseRefused, CheckBalance, TooPoor,
               CommitPurchase, PurchaseRollback, ReadCredit, RenewRefused, RenewLock,
               RenewOnPanel, CommitRenew, RenewRollback, ReserveOpen, CommitReserve,
               ReserveInactive, ReserveRollback, ledger
      <4>2. QED
        BY <1>1, <4>1
    <3>3. QED
      BY <3>1, <3>2
  <2>2. ASSUME NEW d \in Drafts, DraftOf[d].kind = "purchase", draft'[d] # "draft",
               draft[d] = "draft"
        PROVE  Made(d)
    <3>1. CommitInvoice(t) /\ (CommitPurchase(t) \/ job[t].kind # "purchase")
      BY <1>4, <2>2, TaskBills DEF CommitPurchase
    <3>2. PICK c \in Drafts : /\ RunsFor(t, c) /\ draft' = [draft EXCEPT ![c] = "paid"]
                              /\ DraftOf[c].kind = job[t].kind
      BY <2>2, <3>1, CommitDraft
    <3>3. c = d
      BY <2>2, <3>2 DEF WalletInv, ReviewTypeOK, TypeOK
    <3>4. CommitPurchase(t)
      BY <2>2, <3>1, <3>2, <3>3
    <3>5. QED
      BY <3>2, <3>3, <3>4 DEF CommitPurchase, Made
  <2>3. QED
    BY <1>4, <2>1, <2>2, TaskElsewhere, PanelLess DEF WalletInv
<1>5. ASSUME NEW t \in Tasks, CreateOnServer(t), UNCHANGED removed PROVE PanelCovers'
  BY <1>5, PanelCreated
<1>6. ASSUME NEW a \in Reviewers, RevokeRemove(a) PROVE PanelCovers'
  BY <1>6, PanelRemoved
<1>7. ASSUME NEW a \in Reviewers,
             FinishWaiting(a) \/ Overrule(a) \/ RejectWaiting(a) \/ RevokeVoid(a) \/ RevokeMark(a)
      PROVE  PanelCovers'
  <2>1. UNCHANGED <<remote, removed, pc, job>>
    BY <1>7 DEF FinishWaiting, Overrule, RejectWaiting, RevokeVoid, RevokeMark, vars, ledger,
       locals
  <2>2. \A d \in Drafts : draft'[d] # "draft" => draft[d] # "draft"
    <3>1. CASE RevokeVoid(a)
      <4>1. UNCHANGED draft \/ (draft[On(a)] = "paid" /\ draft' = [draft EXCEPT ![On(a)] = "void"])
        BY <3>1 DEF RevokeVoid
      <4>2. QED
        BY <4>1 DEF WalletInv, ReviewTypeOK, TypeOK
    <3>2. CASE ~RevokeVoid(a)
      BY <1>7, <3>2 DEF FinishWaiting, Overrule, RejectWaiting, RevokeMark, vars, ledger
    <3>3. QED
      BY <3>1, <3>2
  <2>3. \A d : Made(d)' <=> Made(d)
    BY <2>1 DEF Made, RunsFor
  <2>4. QED
    BY <1>1, <2>1, <2>2, <2>3, PanelLess DEF WalletInv
<1>8. QED
  BY <1>2, <1>3, <1>4, <1>5, <1>6, <1>7, WalletMoves

-----------------------------------------------------------------------------
\* The steps at the desks keep the rows of the wallet well typed ...
LEMMA DeskTypes ==
    ASSUME WalletInv, CreditCovers', BillsCover', PanelCovers', JobsType',
           NEW a \in Reviewers,
           \/ FinishWaiting(a) \/ Overrule(a) \/ RejectWaiting(a)
           \/ RevokeRemove(a) \/ RevokeVoid(a) \/ RevokeMark(a)
    PROVE  TypeOK' /\ UNCHANGED <<pc, job, locked>>
<1> USE DEF vars, ledger, locals, giftVars
<1>1. UNCHANGED <<renewals, extended, locked, gifted, gifts, rowCopy, pc, job, bal, giftSeen,
                  draftSeen>>
  BY DEF FinishWaiting, Overrule, RejectWaiting, RevokeRemove, RevokeVoid, RevokeMark
<1>2. credit' \in [Users -> Nat]
  <2>1. DOMAIN credit' = Users /\ credit' = [u \in Users |-> credit'[u]]
    BY DEF FinishWaiting, Overrule, RejectWaiting, RevokeRemove, RevokeVoid, RevokeMark,
       WalletInv, ReviewTypeOK, TypeOK
  <2>2. \A u \in Users : credit'[u] \in Nat
    BY DEF CreditCovers, Covers
  <2>3. QED
    BY <2>1, <2>2
<1>3. sold' \in [Users -> Nat]
  <2>1. sold' = [u \in Users |-> sold'[u]]
    BY DEF FinishWaiting, Overrule, RejectWaiting, RevokeRemove, RevokeVoid, RevokeMark,
       WalletInv, ReviewTypeOK, TypeOK
  <2>2. \A u \in Users : sold'[u] \in Nat
    BY DEF BillsCover, Covers
  <2>3. QED
    BY <2>1, <2>2
<1>4. remote' \in [Users -> Nat]
  <2>1. remote' = [u \in Users |-> remote'[u]]
    BY DEF FinishWaiting, Overrule, RejectWaiting, RevokeRemove, RevokeVoid, RevokeMark,
       WalletInv, ReviewTypeOK, TypeOK
  <2>2. \A u \in Users : remote'[u] \in Nat
    BY DEF PanelCovers, Covers
  <2>3. QED
    BY <2>1, <2>2
<1>5. billed' \in [Users -> [InvoiceTypes -> Nat]]
  <2>1. /\ billed' = [u \in Users |-> billed'[u]]
        /\ \A u \in Users : billed'[u] = [k \in InvoiceTypes |-> billed'[u][k]]
    <3>1. CASE UNCHANGED billed
      BY <3>1 DEF WalletInv, ReviewTypeOK, TypeOK
    <3>2. CASE \E v, k, n : billed' = [billed EXCEPT ![v][k] = n]
      BY <3>2 DEF WalletInv, ReviewTypeOK, TypeOK
    <3>3. QED
      BY <3>1, <3>2 DEF FinishWaiting, Overrule, RejectWaiting, RevokeRemove, RevokeVoid,
         RevokeMark
  <2>2. \A u \in Users, k \in InvoiceTypes : billed'[u][k] \in Nat
    BY DEF BillsCover, Covers
  <2>3. QED
    BY <2>1, <2>2
<1>6. reserve' \in [Users -> Drafts \cup {NoDraft, NoReserve}]
  BY DEF FinishWaiting, Overrule, RejectWaiting, RevokeRemove, RevokeVoid, RevokeMark,
     WalletInv, ReviewTypeOK, TypeOK
<1>7. draft' \in [Drafts -> {"draft", "paid", "void"}]
  BY DEF JobsType
<1>8. QED
  BY <1>1, <1>2, <1>3, <1>4, <1>5, <1>6, <1>7 DEF WalletInv, ReviewTypeOK, TypeOK

\* ... and its locks exact.
LEMMA WalletTypes ==
    ASSUME WalletInv, [ReviewNext]_allVars,
           CreditCovers', BillsCover', PanelCovers', ActivationInv'
    PROVE  LockInv' /\ ReviewTypeOK'
<1>1. LockInv'
  <2>1. ASSUME NEW t \in Tasks, Begin(t) \/ TaskStep(t) PROVE LockInv'
    BY <2>1, LockNext DEF WalletInv, Next
  <2>2. CASE Restart \/ UNCHANGED vars
    BY <2>2, LockNext DEF WalletInv, Next
  <2>3. ASSUME NEW a \in Reviewers,
               \/ FinishWaiting(a) \/ Overrule(a) \/ RejectWaiting(a)
               \/ RevokeRemove(a) \/ RevokeVoid(a) \/ RevokeMark(a)
        PROVE  LockInv'
    <3>1. TypeOK' /\ UNCHANGED <<pc, job, locked>>
      BY <2>3, DeskTypes DEF ActivationInv
    <3>2. PhaseKind' /\ LockExact'
      BY <3>1 DEF WalletInv, LockInv, PhaseKind, LockExact, InSection, UserOf
    <3>3. QED
      BY <3>1, <3>2 DEF LockInv
  <2>4. QED
    BY <2>1, <2>2, <2>3, WalletMoves
<1>2. removed' \subseteq Receipts /\ raced' \subseteq Receipts
  <2>1. ASSUME NEW a \in Reviewers, ReviewStep(a)
        PROVE  removed' \subseteq Receipts /\ raced' \subseteq Receipts
    <3>1. On(a) \in Receipts
      BY DEF WalletInv, ReviewTypeOK, On
    <3>2. raced' = raced \/ raced' = raced \cup {On(a)}
      BY <2>1 DEF ReviewStep, FinishWaiting, Notify, NotifyFails, RejectWaiting, Overrule,
         RevokeRead, RevokeRemove, RevokeVoid, RevokeMark
    <3>3. removed' = removed \/ \E now \in SUBSET {On(a)} : removed' = removed \cup now
      <4>1. CASE RevokeRemove(a)
        BY <4>1 DEF RevokeRemove
      <4>2. CASE ~RevokeRemove(a)
        BY <2>1, <4>2 DEF ReviewStep, FinishWaiting, Notify, NotifyFails, RejectWaiting, Overrule,
           RevokeRead, RevokeVoid, RevokeMark
      <4>3. QED
        BY <4>1, <4>2
    <3>4. QED
      BY <3>1, <3>2, <3>3 DEF WalletInv, ReviewTypeOK
  <2>2. ASSUME ~\E a \in Reviewers : ReviewStep(a)
        PROVE  UNCHANGED <<removed, raced>>
    BY <2>2 DEF ReviewNext, OpenAccept, OpenAutoAccept, OpenReject, OpenOverrule, StartJob,
       JobReturns, ReviewRestart, review, allVars
  <2>3. QED
    BY <2>1, <2>2 DEF WalletInv, ReviewTypeOK
<1>3. QED
  BY <1>1, <1>2 DEF LockInv, ActivationInv, LedgerInv, LedgerType, JobsType, ReviewTypeOK

\* Nothing is counted at the start.
LEMMA WalletStart == ReviewInit => WalletInv
<1> SUFFICES ASSUME ReviewInit PROVE WalletInv
  OBVIOUS
<1>1. LockInv /\ ActivationInv
  BY LockInit, ActivationInit DEF ReviewInit
<1>2. ReviewTypeOK
  BY <1>1 DEF LockInv, ActivationInv, LedgerInv, LedgerType, JobsType, ReviewTypeOK, ReviewInit
<1>3. \A t \in Tasks : \A d : ~RunsFor(t, d)
  BY DEF ReviewInit, Init, RunsFor
<1>4. JobsMatch /\ DesksHold
  BY <1>3 DEF JobsMatch, DesksHold, ReviewInit, At
<1>5. ASSUME NEW u \in Users
      PROVE  /\ Finished(u) = {} /\ OnPanel(u) = {}
             /\ \A k : PaidFor(u, k) = {}
  BY <1>3 DEF ReviewInit, Init, Finished, OnPanel, PaidFor, Made
<1>6. CreditCovers /\ BillsCover /\ PanelCovers
  BY <1>5, CoversNone DEF ReviewInit, Init, CreditCovers, BillsCover, PanelCovers
<1>7. QED
  BY <1>1, <1>2, <1>4, <1>6 DEF WalletInv

\* The invariant is inductive.
LEMMA WalletNext == WalletInv /\ [ReviewNext]_allVars => WalletInv'
<1> SUFFICES ASSUME WalletInv, [ReviewNext]_allVars PROVE WalletInv'
  OBVIOUS
<1>1. ActivationInv'
  BY ActivationNext DEF WalletInv
<1>2. CreditCovers' /\ BillsCover' /\ PanelCovers'
  BY CreditNext, BillsNext, PanelNext
<1>3. JobsMatch' /\ DesksHold'
  BY JobsNext, DesksNext
<1>4. LockInv' /\ ReviewTypeOK'
  BY <1>1, <1>2, WalletTypes
<1>5. QED
  BY <1>1, <1>2, <1>3, <1>4 DEF WalletInv

\* However reviewers, jobs, revocations and the users' own purchases interleave, no rejection
\* takes back more than an acceptance gave: credit, invoices, proxies and the accounts on the
\* panel never fall below zero; and no draft is activated twice (ReviewSound).
THEOREM AlwaysReviewSound == ReviewSpec => []ReviewSound
<1>1. WalletInv => ReviewTypeOK
  BY DEF WalletInv
<1>2. ReviewSpec => []ReviewTypeOK
  BY <1>1, WalletStart, WalletNext, PTL DEF ReviewSpec
<1>3. QED
  BY <1>2, AlwaysOneActivation, PTL DEF ReviewSound

\* A user is locked exactly while a purchase or an immediate renewal is in its section, under
\* reviews and revocations, too (LockExact).
THEOREM ReviewLockCorrect == ReviewSpec => []LockExact
<1>1. WalletInv => LockExact
  BY DEF WalletInv, LockInv
<1>2. QED
  BY <1>1, WalletStart, WalletNext, PTL DEF ReviewSpec
=============================================================================
