---------------------------- MODULE GatewayProofs ----------------------------
(***************************************************************************)
(* GatewayPayment for any number of requests: a payment of a gateway that   *)
(* has to be asked activates its service once, although the row is written  *)
(* without a condition, as long as the rate limit covers the requests; and  *)
(* nobody is told without ground that he has paid already; each step but the *)
(* named ones keeps the payment ledger.                                      *)
(***************************************************************************)
EXTENDS GatewayPayment, TLAPS

\* A request that may still launch: it loaded an open payment and passed the check.
Active(r) ==
    /\ pc[r] \in {"setting", "asking", "committing", "telling"}
    /\ seen[r] = "waiting"

\* Tronado's requests meet no rate limit; a voucher's launch none.
OwnPath ==
    /\ provider = "tronado" => \A r \in Requests : pc[r] \notin {"checking", "setting"}
    /\ provider = "perfectmoney" => launches = 0 /\ \A r \in Requests : pc[r] # "telling"

\* Past the check with a row that was finished means about to be told so.
FinishedStops ==
    provider # "perfectmoney" =>
       \A r \in Requests : pc[r] \in {"asking", "committing", "telling"} => seen[r] = "waiting"

\* What was written before the customer is told stays written.
WrittenFirst ==
    /\ launches > 0 => status # "waiting"
    /\ \A r \in Requests : pc[r] = "telling" => status # "waiting"

\* While the limit holds for every request of its time, one of them is past the check.
OneActive ==
    /\ \A q, r \in Requests : Active(q) /\ Active(r) => q = r
    /\ \A r \in Requests : Active(r) => launches = 0
    /\ launches =< 1

\* The limit is there for the requests that wait for it.
LimitCovers ==
    /\ provider # "tronado" =>
          \A q \in Requests : pc[q] \in {"asking", "committing"} => limited
    /\ \A r \in Requests : pc[r] = "checking" /\ seen[r] = "waiting" =>
          \/ limited
          \/ /\ status # "finished" /\ launches = 0
             /\ \A q \in Requests : pc[q] \notin {"asking", "committing", "telling"}

\* Zarinpal confirms a payment once, and its own record says when.
ConfirmedOnce ==
    LET won(r) == pc[r] \in {"committing", "telling"}
    IN  /\ \A q, r \in Requests : won(q) /\ won(r) => q = r
        /\ \A r \in Requests : won(r) => launches = 0
        /\ gateway # "verified" => launches = 0 /\ \A r \in Requests : ~won(r)
        /\ launches =< 1

GatewayInv ==
    /\ GatewayTypeOK /\ OwnPath /\ FinishedStops /\ WrittenFirst
    /\ provider \in {"payping", "aqaye", "zibal", "tronado"} /\ ~lapsed /\ ~slipped =>
          OneActive /\ LimitCovers
    /\ provider = "zarinpal" => ConfirmedOnce

-----------------------------------------------------------------------------
\* The initial state satisfies the invariant.
LEMMA GatewayInit == Init => GatewayInv
<1> SUFFICES ASSUME Init PROVE GatewayInv
  OBVIOUS
<1>1. GatewayTypeOK
  BY DEF Init, GatewayTypeOK, PCs
<1>2. OwnPath /\ FinishedStops /\ WrittenFirst
  BY DEF Init, OwnPath, FinishedStops, WrittenFirst
<1>3. OneActive /\ LimitCovers
  BY DEF Init, OneActive, LimitCovers, Active
<1>4. ConfirmedOnce
  BY DEF Init, ConfirmedOnce
<1>5. QED
  BY <1>1, <1>2, <1>3, <1>4 DEF GatewayInv

\* What a gateway answers: "ok" only for a payment that was made, and Zarinpal only once.
LEMMA OkMeansPaid ==
    ASSUME GatewayTypeOK, "ok" \in Answers
    PROVE  /\ gateway # "unpaid"
           /\ provider = "zarinpal" => gateway = "paid"
<1> USE DEF GatewayTypeOK, Providers, Rial
<1>1. CASE provider = "payping"
  <2>1. Answers = PaypingVerify(gateway)
    BY <1>1 DEF Answers
  <2>2. QED
    BY <1>1, <2>1 DEF PaypingVerify
<1>2. CASE provider = "aqaye"
  <2>1. Answers = AqayeVerify(gateway)
    BY <1>2 DEF Answers
  <2>2. QED
    BY <1>2, <2>1 DEF AqayeVerify
<1>3. CASE provider = "zibal"
  <2>1. Answers = ZibalVerify(gateway)
    BY <1>3 DEF Answers
  <2>2. QED
    BY <1>3, <2>1 DEF ZibalVerify
<1>4. CASE provider = "zarinpal"
  <2>1. Answers = ZarinpalVerify(gateway)
    BY <1>4 DEF Answers
  <2>2. QED
    BY <1>4, <2>1 DEF ZarinpalVerify
<1>5. CASE provider = "tronado"
  <2>1. Answers = TronadoOrder(gateway)
    BY <1>5 DEF Answers
  <2>2. QED
    BY <1>5, <2>1 DEF TronadoOrder
<1>6. CASE provider = "perfectmoney"
  <2>1. Answers = VoucherActivate(gateway)
    BY <1>6 DEF Answers
  <2>2. QED
    BY <1>6, <2>1 DEF VoucherActivate
<1>7. QED
  BY <1>1, <1>2, <1>3, <1>4, <1>5, <1>6

\* The invariant is inductive.
LEMMA GatewayNext == GatewayInv /\ [Next]_vars => GatewayInv'
<1> SUFFICES ASSUME GatewayInv, [Next]_vars PROVE GatewayInv'
  OBVIOUS
<1> USE DEF GatewayInv, GatewayTypeOK, OwnPath, FinishedStops, WrittenFirst, OneActive,
            LimitCovers, ConfirmedOnce, Active, Providers, Rial, PCs, PastCheck,
            row, requests, ghosts
<1>1. CASE Pay
  BY <1>1 DEF Pay
<1>2. ASSUME NEW r \in Requests, Load(r), provider \in Rial PROVE GatewayInv'
  BY <1>2 DEF Load, Goto
<1>3. ASSUME NEW r \in Requests, TronadoReport(r) PROVE GatewayInv'
  <2>1. /\ pc' = [pc EXCEPT ![r] = "asking"] /\ seen' = [seen EXCEPT ![r] = "waiting"]
        /\ provider' = "tronado" /\ status' = "waiting" /\ launches' = launches
        /\ UNCHANGED <<gateway, limited, cut, lapsed>>
    BY <1>3 DEF TronadoReport, Goto
  <2>2. /\ slipped' \in BOOLEAN
        /\ ~slipped' => ~slipped /\ \A q \in Requests \ {r} : pc[q] \notin PastCheck
    BY <1>3 DEF TronadoReport, Others
  <2>3. QED
    BY <1>3, <2>1, <2>2 DEF TronadoReport
<1>4. ASSUME NEW r \in Requests, VoucherCode(r) PROVE GatewayInv'
  BY <1>4 DEF VoucherCode, Goto
<1>5. ASSUME NEW r \in Requests, CheckLimit(r) PROVE GatewayInv'
  <2>1. /\ pc[r] = "checking"
        /\ pc' = [pc EXCEPT ![r] = IF limited THEN "idle" ELSE "setting"]
        /\ UNCHANGED <<provider, gateway, status, launches, limited, seen, cut, lapsed>>
    BY <1>5 DEF CheckLimit, Goto
  <2>2. /\ slipped' \in BOOLEAN
        /\ ~slipped' => /\ ~slipped
                        /\ limited \/ \A q \in Requests \ {r} : pc[q] # "setting"
    BY <1>5 DEF CheckLimit, Others
  <2>3. QED
    BY <2>1, <2>2
<1>6. ASSUME NEW r \in Requests, SetLimit(r) PROVE GatewayInv'
  BY <1>6 DEF SetLimit, Goto
<1>7. CASE LimitExpires
  BY <1>7 DEF LimitExpires
<1>8. ASSUME NEW r \in Requests, Verified(r) PROVE GatewayInv'
  BY <1>8, OkMeansPaid DEF Verified, Goto, Recorded
<1>9. ASSUME NEW r \in Requests, Refused(r) \/ AlreadyPaid(r) PROVE GatewayInv'
  BY <1>9 DEF Refused, AlreadyPaid, Goto
<1>10. ASSUME NEW r \in Requests, AnswerLost(r) PROVE GatewayInv'
  BY <1>10 DEF AnswerLost, Goto, Recorded
<1>11. ASSUME NEW r \in Requests, Commit(r) PROVE GatewayInv'
  BY <1>11 DEF Commit, Goto
<1>12. ASSUME NEW r \in Requests, CommitFails(r) PROVE GatewayInv'
  BY <1>12 DEF CommitFails, Goto
<1>13. ASSUME NEW r \in Requests, Notify(r) PROVE GatewayInv'
  BY <1>13 DEF Notify, Goto
<1>14. ASSUME NEW r \in Requests, NotifyFails(r) PROVE GatewayInv'
  BY <1>14 DEF NotifyFails, Goto
<1>15. CASE DeleteUnpaid
  BY <1>15 DEF DeleteUnpaid
<1>16. CASE Restart
  BY <1>16 DEF Restart
<1>17. CASE UNCHANGED vars
  BY <1>17 DEF vars
<1>18. QED
  BY <1>1, <1>2, <1>3, <1>4, <1>5, <1>6, <1>7, <1>8, <1>9, <1>10, <1>11, <1>12, <1>13,
     <1>14, <1>15, <1>16, <1>17
     DEF Next, Return, Step, PaypingReturn, AqayeReturn, ZibalReturn, ZarinpalReturn, JsonReport

\* A payment of a gateway that has to be asked activates its service once, unless the limit
\* ended while a request of its time was under way or two requests passed its check together
\* (the payment views of the gateways, which write the row without a condition).
THEOREM LaunchedOnceAlways == Spec => []GatewaySound
<1>1. GatewayInv => GatewaySound
  BY DEF GatewayInv, GatewaySound, LaunchedOnce, GatewayTypeOK, OwnPath, OneActive,
         ConfirmedOnce, Providers, Rial
<1>2. QED
  BY <1>1, GatewayInit, GatewayNext, PTL DEF Spec

\* Zarinpal's 101 and a spent voucher are answers about a verification that took effect: its
\* row is written, it is being written, or its answer was not used.
Answerable ==
    gateway = "verified" /\ provider \in {"zarinpal", "perfectmoney"} =>
       \/ status # "waiting" \/ cut
       \/ \E q \in Requests : pc[q] = "committing"

\* Only they say "already", and only after a verification.
LEMMA AlreadyMeansVerified ==
    ASSUME GatewayTypeOK, "already" \in Answers
    PROVE  gateway = "verified" /\ provider \in {"zarinpal", "perfectmoney"}
<1> USE DEF GatewayTypeOK, Providers, Rial
<1>1. provider \notin {"payping", "aqaye", "zibal", "tronado"}
  BY DEF Answers, PaypingVerify, AqayeVerify, ZibalVerify, TronadoOrder
<1>2. CASE provider = "zarinpal"
  <2>1. Answers = ZarinpalVerify(gateway)
    BY <1>2 DEF Answers
  <2>2. QED
    BY <1>2, <2>1 DEF ZarinpalVerify
<1>3. CASE provider = "perfectmoney"
  <2>1. Answers = VoucherActivate(gateway)
    BY <1>3 DEF Answers
  <2>2. QED
    BY <1>3, <2>1 DEF VoucherActivate
<1>4. QED
  BY <1>1, <1>2, <1>3

\* A verification is written, lost, or still under way after every step.
LEMMA AnswerableNext ==
    ASSUME GatewayTypeOK, Answerable, [Next]_vars
    PROVE  Answerable'
<1> USE DEF GatewayTypeOK, Answerable, PCs, row, requests, ghosts
<1>1. CASE Pay
  BY <1>1 DEF Pay
<1>2. ASSUME NEW r \in Requests, Return(r) PROVE Answerable'
  <2>1. /\ pc[r] = "idle" /\ UNCHANGED <<provider, gateway, status, cut>>
        /\ \A q \in Requests \ {r} : pc'[q] = pc[q]
    BY <1>2 DEF Return, PaypingReturn, AqayeReturn, ZibalReturn, ZarinpalReturn, JsonReport,
                TronadoReport, VoucherCode, Load, Goto
  <2>2. QED
    BY <2>1
<1>3. ASSUME NEW r \in Requests, CheckLimit(r) \/ SetLimit(r) PROVE Answerable'
  BY <1>3 DEF CheckLimit, SetLimit, Goto
<1>4. ASSUME NEW r \in Requests, Verified(r) PROVE Answerable'
  BY <1>4 DEF Verified, Goto
<1>5. ASSUME NEW r \in Requests, Refused(r) \/ AlreadyPaid(r) PROVE Answerable'
  BY <1>5 DEF Refused, AlreadyPaid, Goto
<1>6. ASSUME NEW r \in Requests, AnswerLost(r) PROVE Answerable'
  BY <1>6 DEF AnswerLost, Goto
<1>7. ASSUME NEW r \in Requests, Commit(r) \/ CommitFails(r) PROVE Answerable'
  BY <1>7 DEF Commit, CommitFails, Goto
<1>8. ASSUME NEW r \in Requests, Notify(r) \/ NotifyFails(r) PROVE Answerable'
  BY <1>8 DEF Notify, NotifyFails, Goto
<1>9. CASE LimitExpires \/ DeleteUnpaid
  BY <1>9 DEF LimitExpires, DeleteUnpaid
<1>10. CASE Restart
  BY <1>10 DEF Restart
<1>11. CASE UNCHANGED vars
  BY <1>11 DEF vars
<1>12. QED
  BY <1>1, <1>2, <1>3, <1>4, <1>5, <1>6, <1>7, <1>8, <1>9, <1>10, <1>11 DEF Next, Step

\* A customer is told "already paid" about a payment that is not credited only if an earlier
\* verification took effect and was not used, or is just being written (NoFalseAlready).
THEOREM AlwaysNoFalseAlready == Spec => NoFalseAlready
<1> DEFINE Inv == GatewayInv /\ Answerable
<1>1. Init => Inv
  BY GatewayInit DEF Init, Answerable
<1>2. Inv /\ [Next]_vars => Inv'
  BY GatewayNext, AnswerableNext DEF GatewayInv
<1>3. Inv => \A r \in Requests :
         AlreadyPaid(r) => \/ status = "finished" \/ cut
                           \/ status = "deleted"
                           \/ Others(r, {"committing"})
  <2> SUFFICES ASSUME Inv, NEW r \in Requests, AlreadyPaid(r)
               PROVE  \/ status = "finished" \/ cut \/ status = "deleted"
                      \/ Others(r, {"committing"})
    OBVIOUS
  <2>1. gateway = "verified" /\ provider \in {"zarinpal", "perfectmoney"}
    BY AlreadyMeansVerified DEF GatewayInv, AlreadyPaid
  <2>2. pc[r] = "asking"
    BY DEF AlreadyPaid
  <2>3. QED
    BY <2>1, <2>2 DEF Answerable, Others, GatewayInv, GatewayTypeOK
<1>4. QED
  BY <1>1, <1>2, <1>3, PTL DEF Spec, NoFalseAlready

-----------------------------------------------------------------------------
(* One such payment and PaymentLedger, which counts what the row does not *)

It == "payment"
Paid == [p \in {It} |-> IF status = "waiting" THEN "pending"
                        ELSE IF status = "finished" THEN "credited" ELSE "closed"]
Credits == [p \in {It} |-> IF status = "finished" THEN 1 ELSE 0]
Launches == [p \in {It} |-> launches]

Ledger == INSTANCE PaymentLedger WITH
    Payments <- {It}, paid <- Paid, credits <- Credits, launches <- Launches

\* The row was deleted while the request that asked about it was under way.
LaunchesDeleted == status = "deleted" /\ launches' = launches + 1 /\ UNCHANGED status

\* One activation more, of a gateway whose verification may be repeated.
LaunchesAgain ==
    /\ launches > 0 /\ launches' = launches + 1 /\ UNCHANGED status
    /\ lapsed \/ slipped
    /\ provider \notin {"zarinpal", "perfectmoney"}

\* A step that changes neither the row nor the launches leaves the ledger as it is.
LEMMA LedgerRests ==
    ASSUME UNCHANGED <<status, launches>>
    PROVE  UNCHANGED Ledger!vars
  BY DEF Ledger!vars, Paid, Credits, Launches

\* The first write of an open row is the ledger's credit; another one changes nothing.
LEMMA CommitCredits ==
    ASSUME GatewayTypeOK, NEW r \in Requests, Commit(r)
    PROVE  Ledger!Next \/ UNCHANGED Ledger!vars
<1>1. CASE status = "waiting"
  <2>1. status' = "finished" /\ launches' = launches
    BY <1>1 DEF Commit
  <2>2. /\ Paid = [p \in {It} |-> "pending"] /\ Paid' = [p \in {It} |-> "credited"]
        /\ Credits = [p \in {It} |-> 0] /\ Credits' = [p \in {It} |-> 1]
    BY <1>1, <2>1 DEF Paid, Credits
  <2>3. Paid' = [Paid EXCEPT ![It] = "credited"]
    BY <2>2
  <2>4. Credits' = [Credits EXCEPT ![It] = 1] /\ Credits[It] + 1 = 1
    BY <2>2
  <2>5. Ledger!Credit(It)
    BY <2>1, <2>2, <2>3, <2>4 DEF Ledger!Credit, Launches
  <2>6. QED
    BY <2>5 DEF Ledger!Next
<1>2. CASE status # "waiting"
  BY <1>2, LedgerRests DEF Commit, GatewayTypeOK
<1>3. QED
  BY <1>1, <1>2

\* A launch has its credit, unless the row is gone or the limit did not cover the requests.
LEMMA NotifyLaunches ==
    ASSUME GatewayInv, NEW r \in Requests, Notify(r)
    PROVE  Ledger!Next \/ LaunchesDeleted \/ LaunchesAgain
<1>1. pc[r] = "telling" /\ launches' = launches + 1 /\ launches' # launches /\ status' = status
  BY DEF Notify, GatewayInv, GatewayTypeOK
<1>2. provider # "perfectmoney" /\ status # "waiting" /\ seen[r] = "waiting"
  BY <1>1 DEF GatewayInv, OwnPath, WrittenFirst, FinishedStops
<1>3. CASE status = "deleted"
  BY <1>1, <1>3 DEF LaunchesDeleted
<1>4. CASE status = "finished" /\ launches = 0
  <2>1. Ledger!Launch(It)
    BY <1>1, <1>4 DEF Ledger!Launch, Paid, Credits, Launches
  <2>2. QED
    BY <2>1 DEF Ledger!Next
<1>5. CASE launches > 0
  <2>1. provider # "zarinpal"
    BY <1>1, <1>5 DEF GatewayInv, ConfirmedOnce
  <2>2. lapsed \/ slipped
    BY <1>1, <1>2, <1>5, <2>1
       DEF GatewayInv, GatewayTypeOK, Providers, Rial, OneActive, Active
  <2>3. QED
    BY <1>1, <1>2, <1>5, <2>1, <2>2 DEF LaunchesAgain
<1>6. QED
  BY <1>2, <1>3, <1>4, <1>5 DEF GatewayInv, GatewayTypeOK

\* Each step is a step of the ledger or none, but for the two that are named.
LEMMA GatewaySteps ==
    ASSUME GatewayInv, [Next]_vars
    PROVE  Ledger!Next \/ LaunchesDeleted \/ LaunchesAgain \/ UNCHANGED Ledger!vars
<1>1. CASE DeleteUnpaid
  <2>1. status = "waiting" /\ status' = "deleted" /\ launches' = launches
    BY <1>1 DEF DeleteUnpaid
  <2>2. Ledger!Close(It)
    BY <2>1 DEF Ledger!Close, Paid, Credits, Launches
  <2>3. QED
    BY <2>2 DEF Ledger!Next
<1>2. ASSUME NEW r \in Requests, Commit(r) PROVE Ledger!Next \/ UNCHANGED Ledger!vars
  BY <1>2, CommitCredits DEF GatewayInv
<1>3. ASSUME NEW r \in Requests, Notify(r)
      PROVE  Ledger!Next \/ LaunchesDeleted \/ LaunchesAgain
  BY <1>3, NotifyLaunches
<1>4. ASSUME NEW r \in Requests,
             \/ Return(r) \/ CheckLimit(r) \/ SetLimit(r) \/ Verified(r) \/ Refused(r)
             \/ AlreadyPaid(r) \/ AnswerLost(r) \/ CommitFails(r) \/ NotifyFails(r)
      PROVE  UNCHANGED Ledger!vars
  BY <1>4, LedgerRests
     DEF Return, PaypingReturn, AqayeReturn, ZibalReturn, ZarinpalReturn, JsonReport,
         TronadoReport, VoucherCode, Load, CheckLimit, SetLimit, Verified, Refused,
         AlreadyPaid, AnswerLost, CommitFails, NotifyFails, row
<1>5. CASE Pay \/ LimitExpires \/ Restart \/ UNCHANGED vars
  BY <1>5, LedgerRests DEF Pay, LimitExpires, Restart, vars, row
<1>6. QED
  BY <1>1, <1>2, <1>3, <1>4, <1>5 DEF Next, Step

\* The ledger starts where the payment does.
LEMMA LedgerStarts == Init => Ledger!Init
  BY DEF Init, Ledger!Init, Paid, Credits, Launches

\* A payment of a gateway that has to be asked keeps the promise of PaymentLedger in every
\* step, although its row is written without a condition, but for an activation of a payment
\* that was deleted under way, and one more where the rate limit did not cover the requests.
THEOREM GatewaysKeepLedger ==
    Spec => Ledger!Init /\ [][Ledger!Next \/ LaunchesDeleted \/ LaunchesAgain]_(Ledger!vars)
<1>1. GatewayInv /\ [Next]_vars =>
         [Ledger!Next \/ LaunchesDeleted \/ LaunchesAgain]_(Ledger!vars)
  BY GatewaySteps
<1>2. QED
  BY <1>1, LedgerStarts, GatewayInit, GatewayNext, PTL DEF Spec
=============================================================================
