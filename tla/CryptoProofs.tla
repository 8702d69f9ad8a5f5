---------------------------- MODULE CryptoProofs ----------------------------
(***************************************************************************)
(* CryptoPayment for any payments and any requests: whatever order reports  *)
(* and buttons come in, every credit of an invoice is accounted for, was    *)
(* paid for or approved, and pays for each activation that it launches; so   *)
(* each step but the named ones keeps the payment ledger.                    *)
(***************************************************************************)
EXTENDS CryptoPayment, FiniteSetTheorems, TLAPS

\* What the gateway of a payment may report, which the finalizer has a branch for.
Known(p) == DOMAIN StatusFor[provider[p]] \cup {"paid"}

ReportsKnown ==
    /\ \A p \in Payments : gateway[p] \in Known(p) /\ sent[p] \subseteq Known(p)
    /\ \A h \in Procs : at[h].report \in Known(Pay(h))

\* "paid" was reported by the gateway, whoever holds the report now, and an approval asked for.
Grounds ==
    /\ \A p \in Payments : gateway[p] = "paid" => "paid" \in sent[p]
    /\ \A h \in Procs :
          /\ at[h].report = "paid" => "paid" \in sent[Pay(h)]
          /\ pc[h] = "approving" => Pay(h) \in approved

\* Callers that claimed payment p and have not launched its activation.
Claimers(p) == {h \in Procs : pc[h] = "notifying" /\ Pay(h) = p}

\* Each has a credit of its own.
ClaimersCounted ==
    \A p \in Payments : launches[p] + Cardinality(Claimers(p)) =< credits[p]

CryptoInv ==
    /\ CryptoTypeOK /\ ReportsKnown /\ Grounds
    /\ ClaimsAccounted /\ PaidFirst /\ ClaimersCounted

-----------------------------------------------------------------------------
\* An invocation that has nothing in hand points at a payment that exists.
LEMMA NoWorkType == NoWork \in Work /\ NoWork.report = "new"
  BY CryptoAssumption DEF NoWork, Work, Reports

\* What a loaded row looks like.
LEMMA LoadedType ==
    ASSUME NEW p \in Payments, NEW via \in {"report", "approve"}, NEW r \in Reports
    PROVE  Loaded(p, via, r) \in Work /\ Loaded(p, via, r).pay = p /\ Loaded(p, via, r).report = r
  BY DEF Loaded, Work

\* Every report but "paid" has its status, which is neither finished nor deleted.
LEMMA StatusOfReport ==
    ASSUME CryptoTypeOK, NEW p \in Payments, NEW r \in Known(p), r # "paid"
    PROVE  StatusFor[provider[p]][r] \in Statuses \ {"finished", "deleted"}
<1> provider[p] \in {"plisio", "nowpayments"}
  BY DEF CryptoTypeOK, Providers
<1>1. CASE provider[p] = "plisio"
  BY <1>1 DEF Known, StatusFor, Statuses
<1>2. CASE provider[p] = "nowpayments"
  BY <1>2 DEF Known, StatusFor, Statuses
<1>3. QED
  BY <1>1, <1>2

\* The gateway moves only to reports that the finalizer knows.
LEMMA MovesKnown ==
    ASSUME CryptoTypeOK, NEW p \in Payments, NEW r, <<gateway[p], r>> \in GatewayMoves[provider[p]]
    PROVE  r \in Known(p)
<1> provider[p] \in {"plisio", "nowpayments"}
  BY DEF CryptoTypeOK, Providers
<1>1. CASE provider[p] = "plisio"
  BY <1>1 DEF Known, StatusFor, GatewayMoves
<1>2. CASE provider[p] = "nowpayments"
  BY <1>2 DEF Known, StatusFor, GatewayMoves
<1>3. QED
  BY <1>1, <1>2

\* The report "new" is known for every payment.
LEMMA NewKnown == ASSUME CryptoTypeOK, NEW p \in Payments PROVE "new" \in Known(p)
<1> provider[p] \in {"plisio", "nowpayments"}
  BY DEF CryptoTypeOK, Providers
<1>1. CASE provider[p] = "plisio"
  BY <1>1 DEF Known, StatusFor
<1>2. CASE provider[p] = "nowpayments"
  BY <1>2 DEF Known, StatusFor
<1>3. QED
  BY <1>1, <1>2

-----------------------------------------------------------------------------
\* The types are kept by every step.
LEMMA CryptoTypeNext == CryptoTypeOK /\ ReportsKnown /\ [Next]_vars => CryptoTypeOK'
<1> SUFFICES ASSUME CryptoTypeOK, ReportsKnown, [Next]_vars PROVE CryptoTypeOK'
  OBVIOUS
<1> USE NoWorkType DEF CryptoTypeOK, payment, outside, PCs
<1>1. ASSUME NEW p \in Payments, NEW r \in Reports, GatewayMove(p, r) PROVE CryptoTypeOK'
  BY <1>1 DEF GatewayMove
<1>2. ASSUME NEW h \in Procs, NEW p \in Payments, NEW r \in Reports, Callback(h, p, r)
      PROVE  CryptoTypeOK'
  BY <1>2, LoadedType DEF Callback, Begin
<1>3. ASSUME NEW h \in Procs, NEW p \in Payments, CheckButton(h, p) \/ CancelButton(h, p)
      PROVE  CryptoTypeOK'
  <2>1. Loaded(p, "report", "new") \in Work
    BY LoadedType DEF Reports
  <2>2. QED
    BY <1>3, <2>1 DEF CheckButton, CancelButton, Begin
<1>4. ASSUME NEW p \in Payments, NEW action \in {"approve", "check"}, WebRequest(p, action)
      PROVE  CryptoTypeOK'
  BY <1>4 DEF WebRequest
<1>5. ASSUME NEW p \in Payments, PopCheck(p) \/ PopApprove(p) \/ AutoCheck(p)
      PROVE  CryptoTypeOK'
  <2>1. Loaded(p, "report", "new") \in Work /\ Loaded(p, "approve", "new") \in Work
    BY LoadedType DEF Reports
  <2>2. CASE AutoCheck(p)
    BY <2>1, <2>2 DEF AutoCheck, Begin, Procs
  <2>3. CASE PopCheck(p) \/ PopApprove(p)
    <3>1. queue' \in [Payments -> Seq({"approve", "check"})]
      <4>1. queue[p] # <<>> /\ queue' = [queue EXCEPT ![p] = Tail(queue[p])]
        BY <2>3 DEF PopCheck, PopApprove
      <4>2. Tail(queue[p]) \in Seq({"approve", "check"})
        BY <4>1
      <4>3. QED
        BY <4>1, <4>2
    <3>2. pc' \in [Procs -> PCs] /\ at' \in [Procs -> Work]
      BY <2>1, <2>3 DEF PopCheck, PopApprove, Begin, Procs
    <3>3. approved' \subseteq Payments /\ UNCHANGED <<outside, payment>>
      BY <2>3 DEF PopCheck, PopApprove
    <3>4. QED
      BY <3>1, <3>2, <3>3
  <2>4. QED
    BY <1>5, <2>2, <2>3
<1>6. ASSUME NEW p \in Payments, DeleteUnpaid(p) PROVE CryptoTypeOK'
  BY <1>6 DEF DeleteUnpaid, Statuses
<1>7. ASSUME NEW h \in Procs, Answered(h) PROVE CryptoTypeOK'
  BY <1>7 DEF Answered, Pay, Work
<1>8. ASSUME NEW h \in Procs, Unanswered(h) \/ AlreadyFinished(h) \/ NotifyFails(h)
      PROVE  CryptoTypeOK'
  BY <1>8 DEF Unanswered, AlreadyFinished, NotifyFails, Finish
<1>9. ASSUME NEW h \in Procs, Claim(h) PROVE CryptoTypeOK'
  <2>1. Pay(h) \in Payments
    BY DEF Pay, Work
  <2>2. \/ UNCHANGED <<status, credits>>
        \/ /\ status' = [status EXCEPT ![Pay(h)] = "finished"]
           /\ credits' = [credits EXCEPT ![Pay(h)] = @ + 1]
    BY <1>9 DEF Claim
  <2>3. pc' \in [Procs -> PCs] /\ at' \in [Procs -> Work]
    BY <1>9 DEF Claim, Proceed, Finish
  <2>4. UNCHANGED <<outside, launches, reopened, queue, approved>>
    BY <1>9 DEF Claim
  <2>5. status' \in [Payments -> Statuses] /\ credits' \in [Payments -> Nat]
    <3>1. CASE UNCHANGED <<status, credits>>
      BY <3>1
    <3>2. CASE /\ status' = [status EXCEPT ![Pay(h)] = "finished"]
               /\ credits' = [credits EXCEPT ![Pay(h)] = @ + 1]
      <4>1. credits[Pay(h)] + 1 \in Nat /\ "finished" \in Statuses
        BY <2>1 DEF Statuses
      <4>2. QED
        BY <2>1, <3>2, <4>1
    <3>3. QED
      BY <2>2, <3>1, <3>2
  <2>6. QED
    BY <2>3, <2>4, <2>5
<1>10. ASSUME NEW h \in Procs, Record(h) PROVE CryptoTypeOK'
  <2>1. Pay(h) \in Payments /\ at[h].report \in Known(Pay(h)) /\ at[h].report # "paid"
    BY <1>10 DEF Record, Claims, ReportsKnown, Pay, Work
  <2>2. StatusFor[provider[Pay(h)]][at[h].report] \in Statuses
    BY <2>1, StatusOfReport
  <2>3. QED
    BY <1>10, <2>1, <2>2 DEF Record, SetStatus, Finish
<1>11. ASSUME NEW h \in Procs, Cancel(h) PROVE CryptoTypeOK'
  BY <1>11 DEF Cancel, SetStatus, Finish, Statuses, Pay, Work
<1>12. ASSUME NEW h \in Procs, Notify(h) PROVE CryptoTypeOK'
  BY <1>12 DEF Notify, Finish, Pay, Work
<1>13. CASE Restart
  BY <1>13 DEF Restart
<1>14. CASE UNCHANGED vars
  BY <1>14 DEF vars
<1>15. QED
  BY <1>1, <1>2, <1>3, <1>4, <1>5, <1>6, <1>7, <1>8, <1>9, <1>10, <1>11, <1>12, <1>13, <1>14
     DEF Next, Step, Procs

-----------------------------------------------------------------------------
\* What a step does to payments: nothing, or it is one of five that write the row.
LEMMA StepCases ==
    ASSUME [Next]_vars
    PROVE  \/ UNCHANGED payment
           \/ \E h \in Procs : Claim(h) \/ Record(h) \/ Cancel(h) \/ Notify(h)
           \/ \E p \in Payments : DeleteUnpaid(p)
  BY DEF Next, Step, vars, payment, GatewayMove, Callback, CheckButton, CancelButton, WebRequest,
         PopCheck, PopApprove, AutoCheck, Answered, Unanswered, AlreadyFinished, NotifyFails,
         Restart

\* What was reported or approved stays so, and the provider of a payment is the same.
LEMMA GroundsGrow ==
    ASSUME CryptoTypeOK, [Next]_vars
    PROVE  /\ \A p \in Payments : sent[p] \subseteq sent'[p]
           /\ approved \subseteq approved' /\ provider' = provider
<1>1. ASSUME NEW p \in Payments, NEW r \in Reports, GatewayMove(p, r)
      PROVE  /\ \A q \in Payments : sent[q] \subseteq sent'[q]
             /\ approved \subseteq approved' /\ provider' = provider
  BY <1>1 DEF GatewayMove, CryptoTypeOK
<1>2. ASSUME NEW p \in Payments, PopApprove(p)
      PROVE  UNCHANGED outside /\ approved \subseteq approved'
  BY <1>2 DEF PopApprove
<1>3. CASE UNCHANGED <<outside, approved>>
  BY <1>3 DEF outside
<1>4. QED
  BY <1>1, <1>2, <1>3
     DEF Next, Step, vars, outside, payment, Callback, CheckButton, CancelButton, WebRequest,
         PopCheck, AutoCheck, Answered, Unanswered, AlreadyFinished, Claim, Record, Cancel,
         Notify, NotifyFails, DeleteUnpaid, Restart

\* What an invocation holds: nothing, a row just loaded, or what it had.
LEMMA HoldCases ==
    ASSUME CryptoTypeOK, [Next]_vars, NEW h \in Procs
    PROVE  \/ pc'[h] = pc[h] /\ at'[h] = at[h]
           \/ pc'[h] \in {"idle", "done"} /\ at'[h] = NoWork
           \/ /\ pc'[h] = "notifying" /\ pc[h] # "notifying" /\ at'[h] = at[h]
              /\ credits' # credits
           \/ /\ pc'[h] \in {"asking", "cancelling"} /\ pc[h] = "idle"
              /\ \E p \in Payments : at'[h] = Loaded(p, "report", "new")
           \/ /\ pc'[h] = "approving" /\ pc[h] = "idle"
              /\ \E p \in approved' : at'[h] = Loaded(p, "approve", "new")
           \/ /\ pc'[h] = "reported" /\ pc[h] = "idle"
              /\ \E p \in Payments : \E r \in sent[p] : at'[h] = Loaded(p, "report", r)
           \/ /\ pc[h] = "asking" /\ pc'[h] = "reported" /\ gateway' = gateway
              /\ at'[h] = [at[h] EXCEPT !.report = gateway[Pay(h)]]
<1> USE DEF CryptoTypeOK
<1> DEFINE Cases ==
           \/ pc'[h] = pc[h] /\ at'[h] = at[h]
           \/ pc'[h] \in {"idle", "done"} /\ at'[h] = NoWork
           \/ /\ pc'[h] = "notifying" /\ pc[h] # "notifying" /\ at'[h] = at[h]
              /\ credits' # credits
           \/ /\ pc'[h] \in {"asking", "cancelling"} /\ pc[h] = "idle"
              /\ \E p \in Payments : at'[h] = Loaded(p, "report", "new")
           \/ /\ pc'[h] = "approving" /\ pc[h] = "idle"
              /\ \E p \in approved' : at'[h] = Loaded(p, "approve", "new")
           \/ /\ pc'[h] = "reported" /\ pc[h] = "idle"
              /\ \E p \in Payments : \E r \in sent[p] : at'[h] = Loaded(p, "report", r)
           \/ /\ pc[h] = "asking" /\ pc'[h] = "reported" /\ gateway' = gateway
              /\ at'[h] = [at[h] EXCEPT !.report = gateway[Pay(h)]]
<1>1. CASE UNCHANGED <<pc, at>>
  BY <1>1
<1>2. ASSUME NEW g \in Procs, Finish(g) PROVE Cases
  BY <1>2 DEF Finish
<1>3. ASSUME NEW g \in Procs, NEW p \in Payments, NEW r \in Reports, Callback(g, p, r) PROVE Cases
  BY <1>3 DEF Callback, Begin
<1>4. ASSUME NEW g \in Procs, NEW p \in Payments, CheckButton(g, p) \/ CancelButton(g, p)
      PROVE  Cases
  BY <1>4 DEF CheckButton, CancelButton, Begin
<1>5. ASSUME NEW p \in Payments, PopCheck(p) \/ AutoCheck(p) PROVE Cases
  BY <1>5 DEF PopCheck, AutoCheck, Begin, Procs
<1>6. ASSUME NEW p \in Payments, PopApprove(p) PROVE Cases
  BY <1>6 DEF PopApprove, Begin, Procs
<1>7. ASSUME NEW g \in Procs, Answered(g) PROVE Cases
  BY <1>7 DEF Answered, outside
<1>8. ASSUME NEW g \in Procs, Claim(g) PROVE Cases
  <2>1. CASE Finish(g)
    BY <1>2, <2>1
  <2>2. CASE /\ Proceed(g, "notifying") /\ credits' = [credits EXCEPT ![Pay(g)] = @ + 1]
    <3>1. pc[g] # "notifying"
      BY <1>8 DEF Claim, Claims
    <3>2. credits'[Pay(g)] = credits[Pay(g)] + 1 /\ credits[Pay(g)] \in Nat
      BY <2>2 DEF Pay, Work
    <3>3. credits' # credits
      BY <3>2
    <3>4. QED
      BY <2>2, <3>1, <3>3 DEF Proceed
  <2>3. QED
    BY <1>8, <2>1, <2>2 DEF Claim
<1>9. CASE Restart
  BY <1>9 DEF Restart
<1>10. ASSUME NEW g \in Procs, Step(g) PROVE Cases
  BY <1>10, <1>2, <1>7, <1>8
     DEF Step, Unanswered, AlreadyFinished, Record, Cancel, Notify, NotifyFails
<1>11. QED
  BY <1>1, <1>3, <1>4, <1>5, <1>6, <1>9, <1>10
     DEF Next, vars, GatewayMove, WebRequest, DeleteUnpaid, Procs

-----------------------------------------------------------------------------
\* Reports stay known, and "paid" and an approval keep their grounds.
LEMMA GroundsNext ==
    CryptoTypeOK /\ ReportsKnown /\ Grounds /\ [Next]_vars => ReportsKnown' /\ Grounds'
<1> SUFFICES ASSUME CryptoTypeOK, ReportsKnown, Grounds, [Next]_vars
             PROVE  ReportsKnown' /\ Grounds'
  OBVIOUS
<1>1. /\ \A p \in Payments : sent[p] \subseteq sent'[p] /\ Known(p)' = Known(p)
      /\ approved \subseteq approved'
  BY GroundsGrow DEF Known
<1>2. ASSUME NEW p \in Payments
      PROVE  /\ gateway'[p] \in Known(p)' /\ sent'[p] \subseteq Known(p)'
             /\ gateway'[p] = "paid" => "paid" \in sent'[p]
  <2>1. ASSUME NEW q \in Payments, NEW r \in Reports, GatewayMove(q, r)
        PROVE  /\ gateway'[p] \in Known(p) /\ sent'[p] \subseteq Known(p)
               /\ gateway'[p] = "paid" => "paid" \in sent'[p]
    <3>1. r \in Known(q)
      BY <2>1, MovesKnown DEF GatewayMove
    <3>2. QED
      BY <2>1, <3>1 DEF GatewayMove, CryptoTypeOK, ReportsKnown, Grounds
  <2>2. CASE UNCHANGED <<gateway, sent>>
    BY <2>2, <1>1 DEF ReportsKnown, Grounds
  <2>3. (\E q \in Payments, r \in Reports : GatewayMove(q, r)) \/ UNCHANGED <<gateway, sent>>
    BY DEF Next, Step, vars, outside, Callback, CheckButton, CancelButton, WebRequest, PopCheck,
           PopApprove, AutoCheck, Answered, Unanswered, AlreadyFinished, Claim, Record, Cancel,
           Notify, NotifyFails, DeleteUnpaid, Restart
  <2>4. QED
    BY <1>1, <2>1, <2>2, <2>3
<1>3. ASSUME NEW h \in Procs
      PROVE  /\ at'[h].report \in Known(at'[h].pay)
             /\ at'[h].report = "paid" => "paid" \in sent'[at'[h].pay]
             /\ pc'[h] = "approving" => at'[h].pay \in approved'
  <2> USE DEF CryptoTypeOK, Pay
  <2>1. CASE pc'[h] = pc[h] /\ at'[h] = at[h]
    BY <1>1, <2>1 DEF ReportsKnown, Grounds, Work
  <2>2. CASE pc'[h] \in {"idle", "done"} /\ at'[h] = NoWork
    BY <2>2, NoWorkType, NewKnown DEF Work
  <2>3. CASE pc'[h] = "notifying" /\ at'[h] = at[h]
    BY <1>1, <2>3 DEF ReportsKnown, Grounds, Work
  <2>4. ASSUME pc'[h] # "approving", NEW p \in Payments, at'[h] = Loaded(p, "report", "new")
        PROVE  /\ at'[h].report \in Known(at'[h].pay)
               /\ at'[h].report # "paid" /\ pc'[h] # "approving"
    BY <2>4, NewKnown DEF Loaded
  <2>5. ASSUME NEW p \in approved', p \in Payments, at'[h] = Loaded(p, "approve", "new")
        PROVE  /\ at'[h].report \in Known(at'[h].pay)
               /\ at'[h].report # "paid" /\ at'[h].pay \in approved'
    BY <2>5, NewKnown DEF Loaded
  <2>6. ASSUME pc'[h] = "reported", NEW p \in Payments, NEW r \in sent[p],
               at'[h] = Loaded(p, "report", r)
        PROVE  /\ at'[h].report \in Known(at'[h].pay)
               /\ at'[h].report = "paid" => "paid" \in sent'[at'[h].pay]
               /\ pc'[h] # "approving"
    BY <2>6, <1>1 DEF Loaded, ReportsKnown
  <2>7. CASE /\ pc'[h] = "reported" /\ gateway' = gateway
             /\ at'[h] = [at[h] EXCEPT !.report = gateway[Pay(h)]]
    <3>1. at[h].pay \in Payments
      BY DEF Work
    <3>2. at'[h].pay = at[h].pay /\ at'[h].report = gateway[at[h].pay]
      BY <2>7 DEF Work
    <3>3. QED
      BY <1>1, <2>7, <3>1, <3>2 DEF ReportsKnown, Grounds
  <2>8. approved' \subseteq Payments
    BY CryptoTypeNext
  <2>9. QED
    BY HoldCases, <2>1, <2>2, <2>3, <2>4, <2>5, <2>6, <2>7, <2>8
<1>4. provider' = provider
  BY GroundsGrow
<1>5. QED
  BY <1>2, <1>3, <1>4 DEF ReportsKnown, Grounds, Pay, Known

\* A claim finds the row unfinished and its caller among the claimers; it has its grounds.
LEMMA ClaimGrounds ==
    ASSUME CryptoTypeOK, Grounds, NEW h \in Procs, Claims(h)
    PROVE  Pay(h) \in Payments /\ ("paid" \in sent[Pay(h)] \/ Pay(h) \in approved)
  BY DEF CryptoTypeOK, Grounds, Claims, Pay, Work

\* Every credit stays accounted for.
LEMMA AccountsNext ==
    CryptoTypeOK /\ ReportsKnown /\ ClaimsAccounted /\ [Next]_vars => ClaimsAccounted'
<1> SUFFICES ASSUME CryptoTypeOK, ReportsKnown, ClaimsAccounted, [Next]_vars
             PROVE  ClaimsAccounted'
  OBVIOUS
<1> USE DEF CryptoTypeOK, ClaimsAccounted
<1>1. CASE UNCHANGED payment
  BY <1>1 DEF payment
<1>2. ASSUME NEW p \in Payments, DeleteUnpaid(p) PROVE ClaimsAccounted'
  BY <1>2 DEF DeleteUnpaid
<1>3. ASSUME NEW h \in Procs, Claim(h) PROVE ClaimsAccounted'
  <2>1. \/ UNCHANGED payment
        \/ /\ status[Pay(h)] # "finished" /\ reopened' = reopened
           /\ status' = [status EXCEPT ![Pay(h)] = "finished"]
           /\ credits' = [credits EXCEPT ![Pay(h)] = @ + 1]
    BY <1>3 DEF Claim, Terminal, payment
  <2>2. Pay(h) \in Payments
    BY DEF Pay, Work
  <2>3. CASE /\ status[Pay(h)] # "finished" /\ reopened' = reopened
             /\ status' = [status EXCEPT ![Pay(h)] = "finished"]
             /\ credits' = [credits EXCEPT ![Pay(h)] = @ + 1]
    <3>1. ASSUME NEW p \in Payments, p # Pay(h)
          PROVE  credits'[p] = reopened'[p] + (IF status'[p] = "finished" THEN 1 ELSE 0)
      BY <2>3, <3>1
    <3>2. credits'[Pay(h)] = reopened'[Pay(h)] + 1 /\ status'[Pay(h)] = "finished"
      BY <2>2, <2>3
    <3>3. QED
      BY <3>1, <3>2
  <2>4. QED
    BY <1>1, <2>1, <2>3
<1>4. ASSUME NEW p \in Payments, NEW s \in Statuses \ {"finished", "deleted"}, SetStatus(p, s),
             credits' = credits
      PROVE  ClaimsAccounted'
  BY <1>4 DEF SetStatus
<1>5. ASSUME NEW h \in Procs, Record(h) PROVE ClaimsAccounted'
  <2>1. Pay(h) \in Payments /\ at[h].report \in Known(Pay(h)) /\ at[h].report # "paid"
    BY <1>5 DEF Record, Claims, ReportsKnown, Pay, Work
  <2>2. QED
    BY <1>4, <1>5, <2>1, StatusOfReport DEF Record
<1>6. ASSUME NEW h \in Procs, Cancel(h) PROVE ClaimsAccounted'
  <2>1. Pay(h) \in Payments
    BY DEF Pay, Work
  <2>2. QED
    BY <1>4, <1>6, <2>1 DEF Cancel, Statuses
<1>7. ASSUME NEW h \in Procs, Notify(h) PROVE ClaimsAccounted'
  BY <1>7 DEF Notify
<1>8. QED
  BY <1>1, <1>2, <1>3, <1>5, <1>6, <1>7, StepCases

\* Every credit keeps its grounds, and a new one has them.
LEMMA PaidNext == CryptoTypeOK /\ Grounds /\ PaidFirst /\ [Next]_vars => PaidFirst'
<1> SUFFICES ASSUME CryptoTypeOK, Grounds, PaidFirst, [Next]_vars, NEW p \in Payments,
                    credits'[p] > 0
             PROVE  "paid" \in sent'[p] \/ p \in approved'
  BY DEF PaidFirst
<1>1. sent[p] \subseteq sent'[p] /\ approved \subseteq approved'
  BY GroundsGrow
<1>2. CASE credits' = credits
  BY <1>1, <1>2 DEF PaidFirst
<1>3. ASSUME NEW h \in Procs, Claim(h) PROVE "paid" \in sent[p] \/ p \in approved
  <2>1. credits'[p] = credits[p] \/ p = Pay(h)
    BY <1>3 DEF Claim, CryptoTypeOK
  <2>2. Claims(h)
    BY <1>3 DEF Claim
  <2>3. QED
    BY <2>1, <2>2, ClaimGrounds DEF PaidFirst
<1>4. QED
  BY <1>1, <1>2, <1>3, StepCases DEF payment, Record, Cancel, Notify, DeleteUnpaid

-----------------------------------------------------------------------------
\* There are finitely many claimers.
LEMMA ClaimersFinite ==
    ASSUME NEW p \in Payments
    PROVE  IsFiniteSet(Claimers(p)) /\ Cardinality(Claimers(p)) \in Nat
<1>1. IsFiniteSet(Procs)
  BY CryptoAssumption, FS_AddElement DEF Procs
<1>2. QED
  BY <1>1, FS_Subset, FS_CardinalityType DEF Claimers

\* One more or one less is counted.
LEMMA ClaimersChange ==
    ASSUME NEW p \in Payments, NEW h
    PROVE  /\ h \notin Claimers(p) =>
                 Cardinality(Claimers(p) \cup {h}) = Cardinality(Claimers(p)) + 1
           /\ h \in Claimers(p) =>
                 Cardinality(Claimers(p) \ {h}) = Cardinality(Claimers(p)) - 1
  BY ClaimersFinite, FS_AddElement, FS_RemoveElement

\* Launches and claimers keep within the credits.
LEMMA CountedNext == CryptoTypeOK /\ ClaimersCounted /\ [Next]_vars => ClaimersCounted'
<1> SUFFICES ASSUME CryptoTypeOK, ClaimersCounted, [Next]_vars, NEW p \in Payments
             PROVE  launches'[p] + Cardinality(Claimers(p)') =< credits'[p]
  BY DEF ClaimersCounted
<1> USE ClaimersFinite, ClaimersChange DEF CryptoTypeOK
<1>1. launches[p] + Cardinality(Claimers(p)) =< credits[p]
  BY DEF ClaimersCounted
<1>2. ASSUME launches' = launches, credits' = credits, Claimers(p)' \subseteq Claimers(p)
      PROVE  launches'[p] + Cardinality(Claimers(p)') =< credits'[p]
  <2>1. /\ Cardinality(Claimers(p)') \in Nat
        /\ Cardinality(Claimers(p)') =< Cardinality(Claimers(p))
    BY <1>2, FS_Subset, FS_CardinalityType
  <2>2. QED
    BY <1>1, <1>2, <2>1
<1>3. ASSUME NEW h \in Procs, Claim(h), credits' # credits
      PROVE  launches'[p] + Cardinality(Claimers(p)') =< credits'[p]
  <2>1. /\ Claims(h) /\ launches' = launches /\ at' = at
        /\ pc' = [pc EXCEPT ![h] = "notifying"] /\ credits' = [credits EXCEPT ![Pay(h)] = @ + 1]
    BY <1>3 DEF Claim, Proceed
  <2>2. pc[h] # "notifying" /\ Pay(h) \in Payments
    BY <2>1 DEF Claims, Pay, Work
  <2>3. CASE p = Pay(h)
    <3>1. h \notin Claimers(p) /\ Claimers(p)' = Claimers(p) \cup {h}
      <4>1. h \notin Claimers(p)
        BY <2>2 DEF Claimers
      <4>2. \A g \in Procs : pc'[g] = IF g = h THEN "notifying" ELSE pc[g]
        BY <2>1
      <4>3. \A g \in Procs : g \in Claimers(p)' <=> g \in Claimers(p) \cup {h}
        BY <2>1, <2>3, <4>2 DEF Claimers, Pay
      <4>4. Claimers(p)' \subseteq Procs /\ Claimers(p) \cup {h} \subseteq Procs
        BY DEF Claimers
      <4>5. QED
        BY <4>1, <4>3, <4>4
    <3>2. credits'[p] = credits[p] + 1 /\ launches'[p] = launches[p]
      BY <2>1, <2>2, <2>3
    <3>3. Cardinality(Claimers(p)') = Cardinality(Claimers(p)) + 1
      BY <3>1, ClaimersChange
    <3>4. launches[p] \in Nat /\ credits[p] \in Nat /\ Cardinality(Claimers(p)) \in Nat
      BY ClaimersFinite
    <3>5. QED
      BY <1>1, <3>2, <3>3, <3>4
  <2>4. CASE p # Pay(h)
    <3>1. Claimers(p)' = Claimers(p)
      BY <2>1, <2>2, <2>4 DEF Claimers, Pay
    <3>2. credits'[p] = credits[p] /\ launches'[p] = launches[p]
      BY <2>1, <2>2, <2>4
    <3>3. QED
      BY <1>1, <3>1, <3>2
  <2>5. QED
    BY <2>3, <2>4
<1>4. ASSUME NEW h \in Procs, Notify(h)
      PROVE  launches'[p] + Cardinality(Claimers(p)') =< credits'[p]
  <2>1. /\ pc[h] = "notifying" /\ launches' = [launches EXCEPT ![Pay(h)] = @ + 1]
        /\ credits' = credits /\ Pay(h) \in Payments
    BY <1>4 DEF Notify, Pay, Work
  <2>2. /\ \A g \in Procs \ {h} : pc'[g] = pc[g] /\ at'[g] = at[g]
        /\ pc'[h] # "notifying"
    BY <1>4 DEF Notify, Finish
  <2>3. CASE p = Pay(h)
    <3>1. h \in Claimers(p) /\ Claimers(p)' = Claimers(p) \ {h}
      <4>1. h \in Claimers(p)
        BY <2>1, <2>3 DEF Claimers
      <4>2. \A g \in Procs : g \in Claimers(p)' <=> g \in Claimers(p) \ {h}
        BY <2>2 DEF Claimers, Pay
      <4>3. Claimers(p)' \subseteq Procs /\ Claimers(p) \subseteq Procs
        BY DEF Claimers
      <4>4. QED
        BY <4>1, <4>2, <4>3
    <3>2. launches'[p] = launches[p] + 1 /\ credits'[p] = credits[p]
      BY <2>1, <2>3
    <3>3. Cardinality(Claimers(p)') = Cardinality(Claimers(p)) - 1
      BY <3>1, ClaimersChange
    <3>4. launches[p] \in Nat /\ credits[p] \in Nat /\ Cardinality(Claimers(p)) \in Nat
      BY ClaimersFinite
    <3>5. QED
      BY <1>1, <3>2, <3>3, <3>4
  <2>4. CASE p # Pay(h)
    <3>1. Claimers(p)' = Claimers(p)
      BY <2>1, <2>2, <2>4 DEF Claimers, Pay
    <3>2. launches'[p] = launches[p] /\ credits'[p] = credits[p]
      BY <2>1, <2>4
    <3>3. QED
      BY <1>1, <3>1, <3>2
  <2>5. QED
    BY <2>3, <2>4
<1>5. launches' = launches \/ \E h \in Procs : Notify(h)
  BY StepCases DEF payment, Claim, Record, Cancel, DeleteUnpaid
<1>6. credits' = credits \/ \E h \in Procs : Claim(h)
  BY StepCases DEF payment, Record, Cancel, Notify, DeleteUnpaid
<1>7. CASE launches' = launches /\ credits' = credits
  <2>1. ASSUME NEW h \in Procs, pc'[h] = "notifying", at'[h].pay = p PROVE h \in Claimers(p)
    <3>1. pc'[h] = pc[h] /\ at'[h] = at[h]
      BY <1>7, <2>1, HoldCases
    <3>2. QED
      BY <2>1, <3>1 DEF Claimers, Pay
  <2>2. QED
    BY <1>2, <1>7, <2>1 DEF Claimers, Pay
<1>8. QED
  BY <1>3, <1>4, <1>5, <1>6, <1>7

-----------------------------------------------------------------------------
\* The initial state satisfies the invariant.
LEMMA CryptoInit == Init => CryptoInv
<1> SUFFICES ASSUME Init PROVE CryptoInv
  OBVIOUS
<1>1. CryptoTypeOK
  BY NoWorkType DEF Init, CryptoTypeOK, Reports, Statuses, PCs
<1>2. ReportsKnown /\ Grounds
  BY <1>1, NoWorkType, NewKnown DEF Init, ReportsKnown, Grounds, Pay, Work
<1>3. ClaimsAccounted /\ PaidFirst
  BY DEF Init, ClaimsAccounted, PaidFirst
<1>4. ASSUME NEW p \in Payments PROVE Cardinality(Claimers(p)) = 0
  <2>1. Claimers(p) = {}
    BY DEF Init, Claimers
  <2>2. QED
    BY <2>1, FS_EmptySet
<1>5. ClaimersCounted
  BY <1>4 DEF Init, ClaimersCounted
<1>6. QED
  BY <1>1, <1>2, <1>3, <1>5 DEF CryptoInv

\* The invariant is inductive.
LEMMA CryptoNext == CryptoInv /\ [Next]_vars => CryptoInv'
  BY CryptoTypeNext, GroundsNext, AccountsNext, PaidNext, CountedNext DEF CryptoInv

\* A claimer is among the claimers of its payment, so it has a credit of its own.
LEMMA CountedLaunches == CryptoInv => LaunchedByClaim
<1> SUFFICES ASSUME CryptoInv, NEW p \in Payments, NEW h \in Procs
             PROVE  launches[p] + (IF pc[h] = "notifying" /\ Pay(h) = p THEN 1 ELSE 0) =< credits[p]
  BY DEF LaunchedByClaim
<1>1. /\ launches[p] \in Nat /\ credits[p] \in Nat
      /\ launches[p] + Cardinality(Claimers(p)) =< credits[p]
  BY DEF CryptoInv, CryptoTypeOK, ClaimersCounted
<1>2. Cardinality(Claimers(p)) \in Nat
  BY ClaimersFinite
<1>3. ASSUME pc[h] = "notifying", Pay(h) = p PROVE Cardinality(Claimers(p)) >= 1
  <2>1. h \in Claimers(p)
    BY <1>3 DEF Claimers
  <2>2. Cardinality(Claimers(p)) # 0
    BY <2>1, ClaimersFinite, FS_EmptySet
  <2>3. QED
    BY <1>2, <2>2
<1>4. QED
  BY <1>1, <1>2, <1>3

\* Callers that race to finish a row never credit it twice: every credit is the row's one
\* finished state or was undone by an update from an old copy (finalize_*_payment,
\* manual_approve_*_payment), for any number of requests.
THEOREM ClaimsAlwaysAccounted == Spec => []CryptoSound
<1>1. CryptoInv => CryptoSound
  BY DEF CryptoInv, CryptoSound
<1>2. QED
  BY <1>1, CryptoInit, CryptoNext, PTL DEF Spec

\* An activation is launched only by a caller that claimed the row, once for each claim
\* (the conditional updates of plisio_service.py and nowpayments_service.py).
THEOREM AlwaysLaunchedByClaim == Spec => []LaunchedByClaim
  BY CountedLaunches, CryptoInit, CryptoNext, PTL DEF Spec

\* Nothing is credited that the gateway did not report as paid and no admin approved,
\* whatever reports are delayed, repeated or reordered.
THEOREM AlwaysPaidFirst == Spec => []PaidFirst
<1>1. CryptoInv => PaidFirst
  BY DEF CryptoInv
<1>2. QED
  BY <1>1, CryptoInit, CryptoNext, PTL DEF Spec

-----------------------------------------------------------------------------
(* Crypto payments and PaymentLedger *)

\* Transaction.status as the ledger sees it.
Paid ==
    [p \in Payments |-> IF status[p] = "finished" THEN "credited"
                        ELSE IF status[p] = "deleted" THEN "closed" ELSE "pending"]

Ledger == INSTANCE PaymentLedger WITH paid <- Paid

\* A finished row is set to another status, as reports and cancellations may.
Reopens ==
    /\ \E p \in Payments : /\ status[p] = "finished"
                           /\ status' = [status EXCEPT ![p] = status'[p]]
                           /\ status'[p] \notin {"finished", "deleted"}
    /\ UNCHANGED <<credits, launches>>

\* A step that touches no row leaves the ledger as it is.
LEMMA LedgerRests ==
    ASSUME UNCHANGED <<status, credits, launches>>
    PROVE  UNCHANGED Ledger!vars
  BY DEF Ledger!vars, Paid

\* What one new status of a row is for the ledger.
LEMMA PaidMoves ==
    ASSUME CryptoTypeOK, NEW p \in Payments, NEW s \in Statuses,
           status' = [status EXCEPT ![p] = s]
    PROVE  Paid' = [Paid EXCEPT ![p] = IF s = "finished" THEN "credited"
                                       ELSE IF s = "deleted" THEN "closed" ELSE "pending"]
  BY DEF CryptoTypeOK, Paid

\* An unconditional update is a stutter of the ledger unless it reopens a finished row.
LEMMA UpdateRests ==
    ASSUME CryptoTypeOK, NEW p \in Payments, NEW s \in Statuses \ {"finished", "deleted"},
           SetStatus(p, s), UNCHANGED <<credits, launches>>
    PROVE  UNCHANGED Ledger!vars \/ Reopens
<1>1. CASE status[p] = "finished"
  BY <1>1 DEF SetStatus, CryptoTypeOK, Reopens
<1>2. CASE status[p] # "finished"
  <2>1. Paid' = Paid
    BY <1>2 DEF SetStatus, CryptoTypeOK, Paid
  <2>2. QED
    BY <2>1 DEF Ledger!vars
<1>3. QED
  BY <1>1, <1>2

\* The claim that wins is the ledger's credit; one that loses changes nothing.
LEMMA ClaimCredits ==
    ASSUME CryptoTypeOK, NEW h \in Procs, Claim(h)
    PROVE  Ledger!Next \/ UNCHANGED Ledger!vars
<1> DEFINE p == Pay(h)
<1>1. p \in Payments
  BY DEF CryptoTypeOK, Work, Pay
<1>2. CASE status[p] \notin Terminal(p) \cup {"deleted"}
  <2>1. /\ status' = [status EXCEPT ![p] = "finished"]
        /\ credits' = [credits EXCEPT ![p] = @ + 1]
        /\ launches' = launches
    BY <1>2 DEF Claim
  <2>2. Paid' = [Paid EXCEPT ![p] = "credited"]
    BY <1>1, <2>1, PaidMoves DEF Statuses
  <2>3. status[p] # "finished" /\ status[p] # "deleted"
    BY <1>2 DEF Terminal
  <2>4. Paid[p] = "pending"
    BY <1>1, <2>3 DEF Paid
  <2>5. Ledger!Credit(p)
    BY <2>1, <2>2, <2>4 DEF Ledger!Credit
  <2>6. QED
    BY <1>1, <2>5 DEF Ledger!Next
<1>3. CASE status[p] \in Terminal(p) \cup {"deleted"}
  BY <1>3, LedgerRests DEF Claim
<1>4. QED
  BY <1>2, <1>3

\* A caller that claimed the row has a credit left to launch for.
LEMMA NotifyLaunches ==
    ASSUME CryptoTypeOK, LaunchedByClaim, NEW h \in Procs, Notify(h)
    PROVE  Ledger!Next
<1> DEFINE p == Pay(h)
<1>1. p \in Payments
  BY DEF CryptoTypeOK, Work, Pay
<1>2. pc[h] = "notifying" /\ Pay(h) = p
  BY DEF Notify
<1>3. launches[p] + 1 =< credits[p]
  BY <1>1, <1>2 DEF LaunchedByClaim
<1>4. launches[p] < credits[p]
  BY <1>1, <1>3 DEF CryptoTypeOK
<1>5. UNCHANGED Paid
  BY DEF Notify, Paid
<1>6. Ledger!Launch(p)
  BY <1>4, <1>5 DEF Ledger!Launch, Notify
<1>7. QED
  BY <1>1, <1>6 DEF Ledger!Next

\* Each step is a step of the ledger or none, but for the ones that reopen a row.
LEMMA CryptoSteps ==
    ASSUME CryptoInv, [Next]_vars
    PROVE  Ledger!Next \/ Reopens \/ UNCHANGED Ledger!vars
<1> USE DEF CryptoInv
<1>1. ASSUME NEW p \in Payments, DeleteUnpaid(p)
      PROVE  Ledger!Next
  <2>1. status' = [status EXCEPT ![p] = "deleted"] /\ UNCHANGED <<credits, launches>>
    BY <1>1 DEF DeleteUnpaid
  <2>2. Paid' = [Paid EXCEPT ![p] = "closed"]
    BY <2>1, PaidMoves DEF Statuses
  <2>3. Paid[p] = "pending"
    BY <1>1 DEF DeleteUnpaid, Paid
  <2>4. Ledger!Close(p)
    BY <2>1, <2>2, <2>3 DEF Ledger!Close
  <2>5. QED
    BY <2>4 DEF Ledger!Next
<1>2. ASSUME NEW h \in Procs, Record(h)
      PROVE  UNCHANGED Ledger!vars \/ Reopens
  <2>1. /\ Pay(h) \in Payments /\ at[h].report \in Known(Pay(h))
        /\ at[h].report # "paid"
    BY <1>2 DEF CryptoTypeOK, Work, Pay, ReportsKnown, Record, Claims
  <2>2. StatusFor[provider[Pay(h)]][at[h].report] \in Statuses \ {"finished", "deleted"}
    BY <2>1, StatusOfReport
  <2>3. QED
    BY <1>2, <2>1, <2>2, UpdateRests DEF Record
<1>3. ASSUME NEW h \in Procs, Cancel(h)
      PROVE  UNCHANGED Ledger!vars \/ Reopens
  <2>1. Pay(h) \in Payments
    BY DEF CryptoTypeOK, Work, Pay
  <2>2. QED
    BY <1>3, <2>1, UpdateRests DEF Cancel, Statuses
<1>4. ASSUME NEW h \in Procs, Claim(h) PROVE Ledger!Next \/ UNCHANGED Ledger!vars
  BY <1>4, ClaimCredits
<1>5. ASSUME NEW h \in Procs, Notify(h) PROVE Ledger!Next
  BY <1>5, NotifyLaunches, CountedLaunches
<1>6. ASSUME NEW h \in Procs,
             Answered(h) \/ Unanswered(h) \/ AlreadyFinished(h) \/ NotifyFails(h)
      PROVE  UNCHANGED Ledger!vars
  BY <1>6, LedgerRests DEF Answered, Unanswered, AlreadyFinished, NotifyFails, payment
<1>7. ASSUME NEW p \in Payments,
             \/ \E r \in Reports : GatewayMove(p, r)
             \/ \E h \in Requests : \/ \E r \in Reports : Callback(h, p, r)
                                   \/ CheckButton(h, p) \/ CancelButton(h, p)
             \/ \E action \in {"approve", "check"} : WebRequest(p, action)
             \/ PopCheck(p) \/ PopApprove(p) \/ AutoCheck(p)
      PROVE  UNCHANGED Ledger!vars
  BY <1>7, LedgerRests DEF GatewayMove, Callback, CheckButton, CancelButton, WebRequest,
                           PopCheck, PopApprove, AutoCheck, payment
<1>8. CASE Restart \/ UNCHANGED vars
  BY <1>8, LedgerRests DEF Restart, vars, payment
<1>9. QED
  BY <1>1, <1>2, <1>3, <1>4, <1>5, <1>6, <1>7, <1>8 DEF Next, Step

\* The ledger starts where the invoices do.
LEMMA LedgerStarts == Init => Ledger!Init
  BY DEF Init, Ledger!Init, Paid

\* A crypto payment keeps the promise of PaymentLedger in every step but those in which a
\* report or a cancellation that loaded the row earlier takes a finished one back
\* (finalize_*_payment, cancel_invoice).
THEOREM CryptoKeepsLedger ==
    Spec => Ledger!Init /\ [][Ledger!Next \/ Reopens]_(Ledger!vars)
<1>1. CryptoInv /\ [Next]_vars => [Ledger!Next \/ Reopens]_(Ledger!vars)
  BY CryptoSteps
<1>2. QED
  BY <1>1, LedgerStarts, CryptoInit, CryptoNext, PTL DEF Spec
=============================================================================
