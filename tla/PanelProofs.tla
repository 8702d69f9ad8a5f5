---------------------------- MODULE PanelProofs ----------------------------
(***************************************************************************)
(* What the bot and the web panel keep between them, for any number of      *)
(* reviews, messages and editors.  OfflineReview: a proof becomes one       *)
(* payment, both of its rows agree unless reviews overlapped or a restart   *)
(* cut one, and an approval is only reversed when that was asked for.       *)
(* SettingsStore: an edit changes what its form is for, stays in range and  *)
(* is undone only by the races that are named.                              *)
(***************************************************************************)
EXTENDS OfflineReview, SettingsStore, FiniteSetTheorems, SequenceTheorems, TLAPS

-----------------------------------------------------------------------------
(* Offline reviews *)

Payment == [status: Statuses, cp: {"waiting", "finished", "failed"},
            launches: Nat, reversals: Nat]
MessagePCs == {"idle", "read", "ready", "creating", "done"}
Review == [pc: {"idle", "queued", "done"} \cup Applying, pay: Nat,
           action: {"approve", "reject"}, web: BOOLEAN, confirmed: BOOLEAN]

\* Every variable is typed, and a review that began points at a payment.
Shapes ==
    /\ required \in Parts /\ "txid" \in required
    /\ coin \in {"shown", "changed", "gone"}
    /\ conv \in {"proof", "closed"} /\ kept \in Parts
    /\ pays \in Seq(Payment)
    /\ msg \in [Messages -> [pc: MessagePCs, parts: Parts]]
    /\ rev \in [Reviews -> Review]
    /\ queue \in Seq(Reviews)
    /\ \A v \in Reviews : rev[v].pc # "idle" => Pay(v) \in DOMAIN pays
    /\ overlapped \subseteq DOMAIN pays /\ torn \subseteq DOMAIN pays

\* A message that may still become a payment.
Pending(m) == msg[m].pc \in {"read", "ready", "creating"}

\* A closed conversation made a payment, is making one, or was given up; one message at a
\* time is pending unless two were handled together, and none once there is a payment.
OneProof ==
    /\ conv = "closed" => \/ dropped \/ pays # <<>>
                          \/ \E m \in Messages : msg[m].pc = "creating"
    /\ pays # <<>> \/ (\E m \in Messages : msg[m].pc = "creating") => conv = "closed"
    /\ ~crossed => /\ Len(pays) <= 1
                   /\ \A m, n \in Messages : Pending(m) /\ Pending(n) => m = n
                   /\ pays # <<>> => \A m \in Messages : ~Pending(m)

\* What waits in the queue has not begun, and waits once.
QueueWaits ==
    /\ \A i \in DOMAIN queue : rev[queue[i]].pc = "queued" /\ rev[queue[i]].web
    /\ \A i, j \in DOMAIN queue : queue[i] = queue[j] => i = j

OnPay(v, p) == Pay(v) = p /\ rev[v].pc \in Applying

\* One review of a payment is under way unless they overlapped, on a status that is still the
\* one it judged; one that reverses an approval was asked to.
OneReview ==
    \A p \in DOMAIN pays \ overlapped :
       /\ \A v, w \in Reviews : OnPay(v, p) /\ OnPay(w, p) => v = w
       /\ \A v \in Reviews : Pay(v) = p =>
             /\ rev[v].pc = "approving" => pays[p].status # "finished"
             /\ rev[v].pc = "launching" => pays[p].status = "finished"
             /\ rev[v].pc = "marking" => pays[p].status = "rejected"
             /\ rev[v].pc = "revoking" /\ pays[p].status = "finished" =>
                   rev[v].confirmed \/ rev[v].web

\* The two rows agree but between the two saves of a rejection, and each launch has an
\* approval of its own.
RowsAgree ==
    \A p \in DOMAIN pays \ (overlapped \cup torn) :
       /\ (\A v \in Reviews : Pay(v) = p => rev[v].pc # "marking") =>
             /\ pays[p].status = "finished" <=> pays[p].cp = "finished"
             /\ pays[p].status = "rejected" <=> pays[p].cp = "failed"
       /\ pays[p].launches <= 1 + pays[p].reversals
       /\ pays[p].status # "finished" \/ (\E v \in Reviews : Pay(v) = p /\ rev[v].pc = "launching")
             => pays[p].launches <= pays[p].reversals

OfflineInv == Shapes /\ OneProof /\ QueueWaits /\ OneReview /\ RowsAgree

-----------------------------------------------------------------------------
(* Payments, messages, reviews *)

LEMMA EndedIs ==
    /\ Ended \in Review /\ Ended.pc = "done" /\ Ended.pay = 1
  BY DEF Ended, NoReview, Review

\* The payments of the sequence.
LEMMA PaysIs ==
    ASSUME Shapes
    PROVE  /\ Len(pays) \in Nat /\ DOMAIN pays = 1..Len(pays)
           /\ \A p \in DOMAIN pays : pays[p] \in Payment
           /\ pays = <<>> <=> Len(pays) = 0
  BY LenProperties, EmptySeq DEF Shapes

\* One payment is written.
LEMMA PaySet ==
    ASSUME Shapes, NEW p \in DOMAIN pays, NEW x \in Payment, pays' = [pays EXCEPT ![p] = x]
    PROVE  /\ pays' \in Seq(Payment) /\ Len(pays') = Len(pays)
           /\ DOMAIN pays' = DOMAIN pays /\ pays'[p] = x
           /\ \A q \in DOMAIN pays : q # p => pays'[q] = pays[q]
<1>1. p \in 1..Len(pays) /\ pays \in Seq(Payment)
  BY PaysIs DEF Shapes
<1>2. /\ pays' \in Seq(Payment) /\ Len(pays') = Len(pays)
      /\ \A q \in 1..Len(pays) : pays'[q] = IF q = p THEN x ELSE pays[q]
  BY <1>1, ExceptSeq
<1>3. DOMAIN pays' = 1..Len(pays')
  BY <1>2, LenProperties
<1>4. QED
  BY <1>1, <1>2, <1>3, PaysIs

\* One payment is made.
New == [status |-> "waiting", cp |-> "waiting", launches |-> 0, reversals |-> 0]
LEMMA PayMade ==
    ASSUME Shapes, pays' = Append(pays, New)
    PROVE  /\ pays' \in Seq(Payment) /\ pays' # <<>> /\ Len(pays') = Len(pays) + 1
           /\ DOMAIN pays' = DOMAIN pays \cup {Len(pays) + 1}
           /\ Len(pays) + 1 \notin DOMAIN pays /\ pays'[Len(pays) + 1] = New
           /\ \A q \in DOMAIN pays : pays'[q] = pays[q]
<1>1. New \in Payment /\ pays \in Seq(Payment) /\ Len(pays) \in Nat
  BY PaysIs DEF New, Payment, Statuses, Shapes
<1>2. /\ pays' \in Seq(Payment) /\ pays' # <<>> /\ Len(pays') = Len(pays) + 1
      /\ pays'[Len(pays) + 1] = New /\ \A q \in 1..Len(pays) : pays'[q] = pays[q]
  BY <1>1, AppendProperties
<1>3. DOMAIN pays' = 1..(Len(pays) + 1)
  BY <1>2, LenProperties
<1>4. QED
  BY <1>1, <1>2, <1>3, PaysIs

\* One review moves.
LEMMA ReviewSet ==
    ASSUME Shapes, NEW v \in Reviews, NEW e \in Review, rev' = [rev EXCEPT ![v] = e]
    PROVE  /\ rev' \in [Reviews -> Review] /\ rev'[v] = e
           /\ \A w \in Reviews : w # v => rev'[w] = rev[w]
  BY DEF Shapes

\* A review enters its next step, or ends.
LEMMA EnterSets ==
    ASSUME Shapes, NEW v \in Reviews, NEW where \in {"launching", "marking"}, Enter(v, where)
    PROVE  \E e \in Review : /\ rev' = [rev EXCEPT ![v] = e]
                             /\ e.pc = where /\ e.pay = Pay(v)
<1> DEFINE e == [rev[v] EXCEPT !.pc = where]
<1>1. rev[v] \in Review
  BY DEF Shapes
<1>2. e \in Review /\ e.pc = where /\ e.pay = Pay(v)
  BY <1>1 DEF Review, Applying, Pay
<1>3. Begun(e) = e
  BY <1>2 DEF Begun
<1>4. rev' = [rev EXCEPT ![v] = e]
  BY <1>3 DEF Enter
<1>5. QED
  BY <1>2, <1>4

LEMMA EnterEnds ==
    ASSUME Shapes, NEW v \in Reviews, Enter(v, "done")
    PROVE  rev' = [rev EXCEPT ![v] = Ended]
<1>1. [rev[v] EXCEPT !.pc = "done"].pc = "done"
  BY DEF Shapes, Review
<1>2. Begun([rev[v] EXCEPT !.pc = "done"]) = Ended
  BY <1>1 DEF Begun
<1>3. QED
  BY <1>2 DEF Enter

\* The initial state satisfies the invariant.
LEMMA OfflineInit == Init => OfflineInv
<1> SUFFICES ASSUME Init PROVE OfflineInv
  OBVIOUS
<1>1. pays = <<>> /\ queue = <<>> /\ Len(pays) = 0 /\ DOMAIN pays = {} /\ DOMAIN queue = {}
      /\ pays \in Seq(Payment) /\ queue \in Seq(Reviews)
  BY EmptySeq, LenProperties DEF Init
<1>2. Shapes
  BY <1>1 DEF Init, Shapes, NoReview, Review, Parts, MessagePCs
<1>3. OneProof
  BY <1>1 DEF Init, OneProof, Pending
<1>4. QueueWaits /\ OneReview /\ RowsAgree
  BY <1>1 DEF QueueWaits, OneReview, RowsAgree
<1>5. QED
  BY <1>2, <1>3, <1>4 DEF OfflineInv

-----------------------------------------------------------------------------
(* The session *)

\* What the session leaves alone, and what it does to the payments.
LEMMA SessionLeaves ==
    ASSUME OfflineInv, UNCHANGED review, pays' = pays \/ pays' = Append(pays, New)
    PROVE  /\ pays' \in Seq(Payment) /\ rev' \in [Reviews -> Review] /\ queue' \in Seq(Reviews)
           /\ \A v \in Reviews : rev'[v].pc # "idle" => rev'[v].pay \in DOMAIN pays'
           /\ overlapped' \subseteq DOMAIN pays' /\ torn' \subseteq DOMAIN pays'
           /\ QueueWaits' /\ OneReview' /\ RowsAgree'
<1>1. UNCHANGED <<queue, rev, overlapped, torn>>
  BY DEF review
<1>2. Shapes /\ QueueWaits /\ OneReview /\ RowsAgree
  BY DEF OfflineInv
<1>3. QueueWaits'
  BY <1>1, <1>2 DEF QueueWaits
<1>4. CASE pays' = pays
  BY <1>1, <1>2, <1>3, <1>4 DEF Shapes, OneReview, OnPay, RowsAgree, Pay
<1>5. CASE pays' = Append(pays, New)
  <2> DEFINE n == Len(pays) + 1
  <2>1. /\ pays' \in Seq(Payment)
        /\ DOMAIN pays' = DOMAIN pays \cup {n} /\ n \notin DOMAIN pays /\ pays'[n] = New
        /\ \A q \in DOMAIN pays : pays'[q] = pays[q]
    BY <1>2, <1>5, PayMade
  <2> HIDE DEF n
  <2>2. \A v \in Reviews : Pay(v) = n => rev[v].pc = "idle"
    BY <1>2, <2>1 DEF Shapes
  <2>3. OneReview'
    <3> SUFFICES ASSUME NEW p \in DOMAIN pays' \ overlapped'
                 PROVE  /\ \A v, w \in Reviews : OnPay(v, p)' /\ OnPay(w, p)' => v = w
                        /\ \A v \in Reviews : Pay(v)' = p =>
                             /\ rev'[v].pc = "approving" => pays'[p].status # "finished"
                             /\ rev'[v].pc = "launching" => pays'[p].status = "finished"
                             /\ rev'[v].pc = "marking" => pays'[p].status = "rejected"
                             /\ rev'[v].pc = "revoking" /\ pays'[p].status = "finished" =>
                                   rev'[v].confirmed \/ rev'[v].web
      BY DEF OneReview
    <3>1. CASE p = n
      BY <1>1, <2>2, <3>1 DEF OnPay, Pay, Applying
    <3>2. CASE p # n
      <4>1. p \in DOMAIN pays \ overlapped /\ pays'[p] = pays[p]
        BY <1>1, <2>1, <3>2
      <4>2. QED
        BY <1>1, <1>2, <4>1 DEF OneReview, OnPay, Pay
    <3>3. QED
      BY <3>1, <3>2
  <2>4. RowsAgree'
    <3> SUFFICES ASSUME NEW p \in DOMAIN pays' \ (overlapped' \cup torn')
                 PROVE  /\ (\A v \in Reviews : Pay(v)' = p => rev'[v].pc # "marking") =>
                             /\ pays'[p].status = "finished" <=> pays'[p].cp = "finished"
                             /\ pays'[p].status = "rejected" <=> pays'[p].cp = "failed"
                        /\ pays'[p].launches <= 1 + pays'[p].reversals
                        /\ pays'[p].status # "finished"
                             \/ (\E v \in Reviews : Pay(v)' = p /\ rev'[v].pc = "launching")
                             => pays'[p].launches <= pays'[p].reversals
      BY DEF RowsAgree
    <3>1. CASE p = n
      BY <2>1, <3>1 DEF New
    <3>2. CASE p # n
      <4>1. p \in DOMAIN pays \ (overlapped \cup torn) /\ pays'[p] = pays[p]
        BY <1>1, <2>1, <3>2
      <4>2. QED
        BY <1>1, <1>2, <4>1 DEF RowsAgree, Pay
    <3>3. QED
      BY <3>1, <3>2
  <2>5. QED
    BY <1>1, <1>2, <1>3, <2>1, <2>3, <2>4 DEF Shapes, Pay
<1>6. QED
  BY <1>4, <1>5

\* One message moves.
LEMMA MessageSet ==
    ASSUME Shapes, NEW m \in Messages, NEW where \in MessagePCs, NEW parts \in Parts,
           \/ msg' = [msg EXCEPT ![m] = [pc |-> where, parts |-> parts]]
           \/ msg' = [msg EXCEPT ![m].pc = where]
    PROVE  /\ msg' \in [Messages -> [pc: MessagePCs, parts: Parts]]
           /\ msg'[m].pc = where
           /\ \A q \in Messages : q # m => msg'[q] = msg[q]
  BY DEF Shapes

SessionShapes ==
    /\ required \in Parts /\ "txid" \in required
    /\ coin \in {"shown", "changed", "gone"}
    /\ conv \in {"proof", "closed"} /\ kept \in Parts
    /\ msg \in [Messages -> [pc: MessagePCs, parts: Parts]]

\* A message brings parts.
LEMMA ReadKeeps ==
    ASSUME OfflineInv, NEW m \in Messages, NEW parts \in Parts, ReadProof(m, parts)
    PROVE  SessionShapes' /\ OneProof'
<1>1. /\ conv = "proof" /\ msg[m].pc = "idle"
      /\ msg' = [msg EXCEPT ![m] = [pc |-> "read", parts |-> kept \cup parts]]
      /\ crossed' = (crossed \/ \E q \in Messages : msg[q].pc \in {"read", "ready"})
      /\ UNCHANGED <<required, coin, conv, kept, dropped, pays>>
  BY DEF ReadProof
<1>2. Shapes /\ OneProof /\ kept \cup parts \in Parts
  BY DEF OfflineInv, Shapes, Parts
<1>3. /\ msg' \in [Messages -> [pc: MessagePCs, parts: Parts]]
      /\ msg'[m].pc = "read" /\ \A q \in Messages : q # m => msg'[q] = msg[q]
  BY <1>1, <1>2, MessageSet DEF MessagePCs
<1>4. pays = <<>> /\ ~\E q \in Messages : msg[q].pc = "creating"
  BY <1>1, <1>2 DEF OneProof
<1>5. Len(pays) = 0
  BY <1>2, <1>4, PaysIs
<1>6. ~crossed' => \A q \in Messages : ~Pending(q)
  BY <1>1, <1>4 DEF Pending
<1>7. OneProof'
  BY <1>1, <1>3, <1>4, <1>5, <1>6 DEF OneProof, Pending
<1>8. QED
  BY <1>1, <1>2, <1>3, <1>7 DEF SessionShapes, Shapes

\* It goes on collecting, or ends: any step of a message that stays out of "creating".
LEMMA KeepKeeps ==
    ASSUME OfflineInv, NEW m \in Messages, KeepProof(m)
    PROVE  SessionShapes' /\ OneProof'
<1>1. /\ msg[m].pc = "read" /\ kept' = msg[m].parts
      /\ UNCHANGED <<required, coin, conv, crossed, dropped, pays>>
  BY DEF KeepProof
<1>2. Shapes /\ OneProof /\ msg[m].parts \in Parts
  BY DEF OfflineInv, Shapes
<1>3. PICK where \in {"ready", "done"} : msg' = [msg EXCEPT ![m].pc = where]
  BY DEF KeepProof
<1>4. /\ msg' \in [Messages -> [pc: MessagePCs, parts: Parts]]
      /\ msg'[m].pc = where /\ \A q \in Messages : q # m => msg'[q] = msg[q]
  BY <1>2, <1>3, MessageSet DEF MessagePCs
<1>5. /\ \A q \in Messages : msg'[q].pc = "creating" <=> msg[q].pc = "creating"
      /\ \A q \in Messages : Pending(q)' => Pending(q)
  BY <1>1, <1>3, <1>4 DEF Pending
<1>6. OneProof'
  BY <1>1, <1>2, <1>5 DEF OneProof
<1>7. QED
  BY <1>1, <1>2, <1>4, <1>6 DEF SessionShapes, Shapes

\* The conversation closes.
LEMMA CloseKeeps ==
    ASSUME OfflineInv, NEW m \in Messages, CloseSession(m)
    PROVE  SessionShapes' /\ OneProof'
<1>1. /\ msg[m].pc = "ready" /\ kept' = {} /\ conv' = "closed"
      /\ dropped' = (dropped \/ coin = "gone")
      /\ UNCHANGED <<required, coin, crossed, pays>>
  BY DEF CloseSession
<1>2. Shapes /\ OneProof /\ {} \in Parts
  BY DEF OfflineInv, Parts
<1>3. PICK where \in {"creating", "done"} : /\ msg' = [msg EXCEPT ![m].pc = where]
                                            /\ where = "done" => coin = "gone"
  BY DEF CloseSession
<1>4. /\ msg' \in [Messages -> [pc: MessagePCs, parts: Parts]]
      /\ msg'[m].pc = where /\ \A q \in Messages : q # m => msg'[q] = msg[q]
  BY <1>2, <1>3, MessageSet DEF MessagePCs
<1>5. \A q \in Messages : Pending(q)' => Pending(q)
  BY <1>1, <1>3, <1>4 DEF Pending
<1>6. OneProof'
  BY <1>1, <1>2, <1>3, <1>4, <1>5 DEF OneProof
<1>7. QED
  BY <1>1, <1>2, <1>4, <1>6 DEF SessionShapes, Shapes

\* The payment is made, or not.
LEMMA CreateKeeps ==
    ASSUME OfflineInv, NEW m \in Messages, CreatePayment(m) \/ CreateFails(m)
    PROVE  SessionShapes' /\ OneProof'
<1>1. /\ msg[m].pc = "creating" /\ msg' = [msg EXCEPT ![m].pc = "done"]
      /\ UNCHANGED <<required, coin, conv, kept, crossed>>
      /\ \/ pays' = Append(pays, New) /\ UNCHANGED dropped
         \/ pays' = pays /\ dropped'
  BY DEF CreatePayment, CreateFails, New
<1>2. Shapes /\ OneProof
  BY DEF OfflineInv
<1>3. /\ msg' \in [Messages -> [pc: MessagePCs, parts: Parts]]
      /\ msg'[m].pc = "done" /\ \A q \in Messages : q # m => msg'[q] = msg[q]
  BY <1>1, <1>2, MessageSet DEF MessagePCs, Shapes
<1>4. Pending(m) /\ ~Pending(m)' /\ conv' = "closed"
      /\ \A q \in Messages : Pending(q)' => Pending(q)
  BY <1>1, <1>2, <1>3 DEF Pending, OneProof
<1>5. ~crossed => pays = <<>> /\ \A q \in Messages : ~Pending(q)'
  BY <1>2, <1>4 DEF OneProof
<1>6. pays = <<>> => Len(pays) = 0
  BY <1>2, PaysIs
<1>7. CASE pays' = Append(pays, New)
  <2>1. pays' # <<>> /\ Len(pays') = Len(pays) + 1
    BY <1>2, <1>7, PayMade
  <2>2. ~crossed => Len(pays') <= 1
    BY <1>5, <1>6, <2>1
  <2>3. OneProof'
    BY <1>1, <1>4, <1>5, <2>1, <2>2 DEF OneProof
  <2>4. QED
    BY <1>1, <1>2, <1>3, <2>3 DEF SessionShapes, Shapes
<1>8. CASE pays' = pays /\ dropped'
  <2>1. OneProof'
    BY <1>1, <1>2, <1>4, <1>8 DEF OneProof
  <2>2. QED
    BY <1>1, <1>2, <1>3, <2>1 DEF SessionShapes, Shapes
<1>9. QED
  BY <1>1, <1>7, <1>8

\* Coins are edited, or the customer gives up.
LEMMA EditKeeps ==
    ASSUME OfflineInv, (\E c \in {"changed", "gone"} : EditCoins(c)) \/ CancelSession
    PROVE  SessionShapes' /\ OneProof'
<1>1. /\ UNCHANGED <<required, msg, crossed, pays>>
      /\ coin' \in {"shown", "changed", "gone"} /\ conv' \in {"proof", "closed"}
      /\ kept' \in Parts
      /\ UNCHANGED <<conv, dropped>> \/ (conv' = "closed" /\ dropped')
  BY DEF EditCoins, CancelSession, OfflineInv, Shapes, Parts
<1>2. OneProof'
  BY <1>1 DEF OfflineInv, OneProof, Pending
<1>3. QED
  BY <1>1, <1>2 DEF SessionShapes, OfflineInv, Shapes

\* Every step of the session keeps the invariant.
LEMMA SessionKeeps ==
    ASSUME OfflineInv, UNCHANGED review, pays' = pays \/ pays' = Append(pays, New),
           SessionShapes', OneProof'
    PROVE  OfflineInv'
  BY SessionLeaves DEF OfflineInv, Shapes, SessionShapes, Pay

-----------------------------------------------------------------------------
(* The reviews *)

\* A step of a review leaves the session alone.
LEMMA ReviewLeaves ==
    ASSUME OfflineInv, UNCHANGED session, pays' \in Seq(Payment), Len(pays') = Len(pays)
    PROVE  SessionShapes' /\ OneProof'
<1>1. UNCHANGED <<required, coin, conv, kept, msg, crossed, dropped>>
  BY DEF session
<1>2. pays' = <<>> <=> pays = <<>>
  BY EmptySeq, PaysIs DEF OfflineInv
<1>3. SessionShapes'
  BY <1>1 DEF OfflineInv, Shapes, SessionShapes
<1>4. OneProof'
  BY <1>1, <1>2 DEF OfflineInv, OneProof, Pending
<1>5. QED
  BY <1>3, <1>4

\* A review that does not wait in the queue moves: the queue waits on.
LEMMA QueueLeaves ==
    ASSUME OfflineInv, NEW v \in Reviews, NEW e \in Review, rev' = [rev EXCEPT ![v] = e],
           rev[v].pc # "queued", UNCHANGED queue
    PROVE  QueueWaits'
<1>1. \A i \in DOMAIN queue : queue[i] \in Reviews /\ queue[i] # v
  BY LenProperties DEF OfflineInv, Shapes, QueueWaits
<1>2. \A i \in DOMAIN queue : rev'[queue[i]] = rev[queue[i]]
  BY <1>1, ReviewSet DEF OfflineInv
<1>3. QED
  BY <1>2 DEF OfflineInv, QueueWaits

\* A review begins on payment p, waits, or ends at once.
LEMMA BeginKeeps ==
    ASSUME OfflineInv, NEW v \in Reviews, NEW p \in DOMAIN pays, NEW e \in Review,
           rev' = [rev EXCEPT ![v] = e], rev[v].pc \in {"idle", "queued"},
           e.pc \in {"queued", "done", "approving", "revoking"},
           e.pc # "done" => e.pay = p,
           e.pc = "done" => e.pay = 1,
           e.pc = "approving" => pays[p].status # "finished",
           e.pc = "revoking" /\ pays[p].status = "finished" => e.confirmed \/ e.web,
           overlapped \subseteq overlapped', overlapped' \subseteq overlapped \cup {p},
           e.pc \in Applying /\ Open(p) => p \in overlapped',
           UNCHANGED <<session, pays, torn>>, queue' \in Seq(Reviews), QueueWaits'
    PROVE  OfflineInv'
<1>1. Shapes /\ OneReview /\ RowsAgree
  BY DEF OfflineInv
<1>2. /\ rev' \in [Reviews -> Review] /\ rev'[v] = e
      /\ \A w \in Reviews : w # v => rev'[w] = rev[w]
  BY <1>1, ReviewSet
<1>3. 1 \in DOMAIN pays
  BY <1>1, PaysIs
<1>4. \A w \in Reviews : \A q :
         OnPay(w, q)' => OnPay(w, q) \/ (w = v /\ q = p /\ e.pc \in Applying)
  BY <1>2 DEF OnPay, Pay, Applying
<1>5. OneReview'
  <2> SUFFICES ASSUME NEW q \in DOMAIN pays \ overlapped'
               PROVE  /\ \A u, w \in Reviews : OnPay(u, q)' /\ OnPay(w, q)' => u = w
                      /\ \A w \in Reviews : Pay(w)' = q =>
                           /\ rev'[w].pc = "approving" => pays[q].status # "finished"
                           /\ rev'[w].pc = "launching" => pays[q].status = "finished"
                           /\ rev'[w].pc = "marking" => pays[q].status = "rejected"
                           /\ rev'[w].pc = "revoking" /\ pays[q].status = "finished" =>
                                 rev'[w].confirmed \/ rev'[w].web
    BY DEF OneReview
  <2>1. q \in DOMAIN pays \ overlapped
    OBVIOUS
  <2>2. q = p /\ e.pc \in Applying => \A w \in Reviews : ~OnPay(w, p)
    BY DEF Open, OnPay
  <2>3. \A u, w \in Reviews : OnPay(u, q)' /\ OnPay(w, q)' => u = w
    BY <1>1, <1>4, <2>1, <2>2 DEF OneReview
  <2>4. ASSUME NEW w \in Reviews, Pay(w)' = q
        PROVE  /\ rev'[w].pc = "approving" => pays[q].status # "finished"
               /\ rev'[w].pc = "launching" => pays[q].status = "finished"
               /\ rev'[w].pc = "marking" => pays[q].status = "rejected"
               /\ rev'[w].pc = "revoking" /\ pays[q].status = "finished" =>
                     rev'[w].confirmed \/ rev'[w].web
    <3>1. CASE w = v
      BY <1>2, <2>4, <3>1 DEF Pay
    <3>2. CASE w # v
      BY <1>1, <1>2, <2>1, <2>4, <3>2 DEF OneReview, Pay
    <3>3. QED
      BY <3>1, <3>2
  <2>5. QED
    BY <2>3, <2>4
<1>6. RowsAgree'
  <2>1. \A w \in Reviews : \A q : \A x \in {"marking", "launching"} :
           rev'[w].pay = q /\ rev'[w].pc = x <=> rev[w].pay = q /\ rev[w].pc = x
    BY <1>2
  <2>2. QED
    BY <1>1, <2>1 DEF RowsAgree, Pay
<1>7. /\ \A w \in Reviews : rev'[w].pc # "idle" => rev'[w].pay \in DOMAIN pays
      /\ overlapped' \subseteq DOMAIN pays
  BY <1>1, <1>2, <1>3 DEF Shapes, Pay
<1>8. SessionShapes' /\ OneProof'
  BY <1>1, ReviewLeaves DEF Shapes
<1>9. QED
  BY <1>1, <1>2, <1>5, <1>6, <1>7, <1>8 DEF OfflineInv, Shapes, SessionShapes, Pay

\* A review under way writes its payment and goes on, or ends.
LEMMA ApplyKeeps ==
    ASSUME OfflineInv, NEW v \in Reviews, NEW p \in DOMAIN pays, OnPay(v, p),
           NEW e \in Review, rev' = [rev EXCEPT ![v] = e],
           e.pc \in {"launching", "marking", "done"},
           e.pay = IF e.pc = "done" THEN 1 ELSE p,
           NEW x \in Payment, pays' = [pays EXCEPT ![p] = x],
           UNCHANGED <<session, queue, overlapped, torn>>,
           e.pc = "launching" => x.status = "finished",
           e.pc = "marking" => x.status = "rejected",
           p \notin overlapped \cup torn =>
              /\ e.pc # "marking" => /\ x.status = "finished" <=> x.cp = "finished"
                                     /\ x.status = "rejected" <=> x.cp = "failed"
              /\ x.launches <= 1 + x.reversals
              /\ x.status # "finished" \/ e.pc = "launching" => x.launches <= x.reversals
    PROVE  OfflineInv'
<1>1. Shapes /\ OneReview /\ RowsAgree
  BY DEF OfflineInv
<1>2. /\ rev' \in [Reviews -> Review] /\ rev'[v] = e
      /\ \A w \in Reviews : w # v => rev'[w] = rev[w]
  BY <1>1, ReviewSet
<1>3. /\ pays' \in Seq(Payment) /\ Len(pays') = Len(pays) /\ DOMAIN pays' = DOMAIN pays
      /\ pays'[p] = x /\ \A q \in DOMAIN pays : q # p => pays'[q] = pays[q]
  BY <1>1, PaySet
<1>4. 1 \in DOMAIN pays
  BY <1>1, PaysIs
<1>5. Pay(v) = p /\ rev[v].pc \in Applying
  BY DEF OnPay
<1>6. p \notin overlapped => \A w \in Reviews : OnPay(w, p) => w = v
  BY <1>1 DEF OneReview
<1>7. \A w \in Reviews : \A q : OnPay(w, q)' => OnPay(w, q)
  BY <1>2, <1>5 DEF OnPay, Pay, Applying
<1>8. OneReview'
  <2> SUFFICES ASSUME NEW q \in DOMAIN pays \ overlapped
               PROVE  /\ \A u, w \in Reviews : OnPay(u, q)' /\ OnPay(w, q)' => u = w
                      /\ \A w \in Reviews : Pay(w)' = q =>
                           /\ rev'[w].pc = "approving" => pays'[q].status # "finished"
                           /\ rev'[w].pc = "launching" => pays'[q].status = "finished"
                           /\ rev'[w].pc = "marking" => pays'[q].status = "rejected"
                           /\ rev'[w].pc = "revoking" /\ pays'[q].status = "finished" =>
                                 rev'[w].confirmed \/ rev'[w].web
    BY <1>3 DEF OneReview
  <2>1. \A u, w \in Reviews : OnPay(u, q)' /\ OnPay(w, q)' => u = w
    BY <1>1, <1>7 DEF OneReview
  <2>2. ASSUME NEW w \in Reviews, Pay(w)' = q
        PROVE  /\ rev'[w].pc = "approving" => pays'[q].status # "finished"
               /\ rev'[w].pc = "launching" => pays'[q].status = "finished"
               /\ rev'[w].pc = "marking" => pays'[q].status = "rejected"
               /\ rev'[w].pc = "revoking" /\ pays'[q].status = "finished" =>
                     rev'[w].confirmed \/ rev'[w].web
    <3>1. CASE w = v
      BY <1>2, <1>3, <2>2, <3>1 DEF Pay
    <3>2. CASE w # v /\ q = p
      <4>1. rev'[w].pc \notin Applying
        BY <1>2, <1>6, <2>2, <3>2 DEF OnPay, Pay
      <4>2. QED
        BY <4>1 DEF Applying
    <3>3. CASE w # v /\ q # p
      BY <1>1, <1>2, <1>3, <2>2, <3>3 DEF OneReview, Pay
    <3>4. QED
      BY <3>1, <3>2, <3>3
  <2>3. QED
    BY <2>1, <2>2
<1>9. RowsAgree'
  <2> SUFFICES ASSUME NEW q \in DOMAIN pays \ (overlapped \cup torn)
               PROVE  /\ (\A w \in Reviews : Pay(w)' = q => rev'[w].pc # "marking") =>
                           /\ pays'[q].status = "finished" <=> pays'[q].cp = "finished"
                           /\ pays'[q].status = "rejected" <=> pays'[q].cp = "failed"
                      /\ pays'[q].launches <= 1 + pays'[q].reversals
                      /\ pays'[q].status # "finished"
                           \/ (\E w \in Reviews : Pay(w)' = q /\ rev'[w].pc = "launching")
                           => pays'[q].launches <= pays'[q].reversals
    BY <1>3 DEF RowsAgree
  <2>1. CASE q = p
    <3>1. \A w \in Reviews : Pay(w)' = p /\ rev'[w].pc \in {"marking", "launching"} => w = v
      BY <1>2, <1>6, <2>1 DEF OnPay, Pay, Applying
    <3>2. (\E w \in Reviews : Pay(w)' = p /\ rev'[w].pc = "launching") => e.pc = "launching"
      BY <1>2, <3>1
    <3>3. (\A w \in Reviews : Pay(w)' = p => rev'[w].pc # "marking") => e.pc # "marking"
      BY <1>2 DEF Pay
    <3>4. QED
      BY <1>3, <2>1, <3>2, <3>3
  <2>2. CASE q # p
    <3>1. \A w \in Reviews : \A y \in {"marking", "launching"} :
             Pay(w)' = q /\ rev'[w].pc = y <=> Pay(w) = q /\ rev[w].pc = y
      BY <1>2, <1>5, <2>2 DEF Pay
    <3>2. pays'[q] = pays[q]
      BY <1>3, <2>2
    <3>3. QED
      BY <1>1, <3>1, <3>2 DEF RowsAgree
  <2>3. QED
    BY <2>1, <2>2
<1>10. \A w \in Reviews : rev'[w].pc # "idle" => rev'[w].pay \in DOMAIN pays'
  BY <1>1, <1>2, <1>3, <1>4 DEF Shapes, Pay
<1>11. SessionShapes' /\ OneProof' /\ QueueWaits'
  BY <1>3, <1>5, ReviewLeaves, QueueLeaves DEF Applying
<1>12. QED
  BY <1>1, <1>2, <1>3, <1>8, <1>9, <1>10, <1>11 DEF OfflineInv, Shapes, SessionShapes, Pay

-----------------------------------------------------------------------------
\* A tap that judges the row begins a review.
LEMMA TapKeeps ==
    ASSUME OfflineInv, NEW v \in Reviews, NEW p \in DOMAIN pays,
           NEW action \in {"approve", "reject"}, NEW confirmed \in BOOLEAN,
           Tap(v, p, action, confirmed)
    PROVE  OfflineInv'
<1> DEFINE r == [pc |-> Judged(action, pays[p].status), pay |-> p, action |-> action,
                 web |-> FALSE, confirmed |-> confirmed]
           e == Begun(r)
<1>1. /\ rev[v].pc = "idle" /\ rev' = [rev EXCEPT ![v] = e]
      /\ action = "reject" /\ pays[p].status = "finished" => confirmed
      /\ overlapped' = overlapped \cup (IF Open(p) THEN {p} ELSE {})
      /\ UNCHANGED <<session, pays, torn, queue>>
  BY DEF Tap
<1>2. /\ Judged(action, pays[p].status) \in {"done", "approving", "revoking"}
      /\ Judged(action, pays[p].status) = "approving" => pays[p].status # "finished"
      /\ Judged(action, pays[p].status) = "revoking" => action = "reject"
  BY DEF Judged
<1>3. r \in Review /\ p \in Nat
  BY <1>2, PaysIs DEF OfflineInv, Review, Applying
<1>4. /\ e \in Review /\ e.pc = Judged(action, pays[p].status)
      /\ e.pc # "done" => e = r
      /\ e.pc = "done" => e.pay = 1
  BY <1>3, EndedIs DEF Begun
<1>5. e.pc # "done" => e.pay = p /\ e.confirmed = confirmed
  BY <1>4
<1> HIDE DEF e
<1>6. QueueWaits' /\ queue' \in Seq(Reviews)
  BY <1>1, <1>4, QueueLeaves DEF OfflineInv, Shapes
<1>7. QED
  BY <1>1, <1>2, <1>4, <1>5, <1>6, BeginKeeps

\* The web panel queues a review.
LEMMA QueueKeeps ==
    ASSUME OfflineInv, NEW v \in Reviews, NEW p \in DOMAIN pays,
           NEW action \in {"approve", "reject"}, QueueReview(v, p, action)
    PROVE  OfflineInv'
<1> DEFINE e == [pc |-> "queued", pay |-> p, action |-> action, web |-> TRUE,
                 confirmed |-> FALSE]
<1>1. /\ rev[v].pc = "idle" /\ rev' = [rev EXCEPT ![v] = e] /\ queue' = Append(queue, v)
      /\ UNCHANGED <<session, pays, overlapped, torn>>
  BY DEF QueueReview
<1>2. p \in Nat /\ queue \in Seq(Reviews) /\ Len(queue) \in Nat /\ Shapes
  BY PaysIs, LenProperties DEF OfflineInv, Shapes
<1>3. e \in Review /\ e.pc = "queued" /\ e.pay = p /\ e.web
  BY <1>2 DEF Review
<1> HIDE DEF e
<1>4. rev'[v] = e /\ \A w \in Reviews : w # v => rev'[w] = rev[w]
  BY <1>1, <1>2, <1>3, ReviewSet
<1>5. /\ queue' \in Seq(Reviews) /\ Len(queue') = Len(queue) + 1
      /\ \A i \in 1..Len(queue) : queue'[i] = queue[i]
      /\ queue'[Len(queue) + 1] = v
  BY <1>1, <1>2, AppendProperties
<1>6. DOMAIN queue = 1..Len(queue) /\ DOMAIN queue' = 1..(Len(queue) + 1)
  BY <1>2, <1>5, LenProperties
<1>7. \A i \in 1..Len(queue) : queue[i] \in Reviews /\ queue[i] # v
  BY <1>1, <1>2, <1>6, LenProperties DEF OfflineInv, QueueWaits
<1>8. QueueWaits'
  <2>1. \A i \in DOMAIN queue' : i \in 1..Len(queue) \/ i = Len(queue) + 1
    BY <1>2, <1>6
  <2>2. \A i \in DOMAIN queue' : rev'[queue'[i]].pc = "queued" /\ rev'[queue'[i]].web
    BY <1>3, <1>4, <1>5, <1>6, <1>7, <2>1 DEF OfflineInv, QueueWaits
  <2>3. \A i, j \in DOMAIN queue' : queue'[i] = queue'[j] => i = j
    BY <1>5, <1>6, <1>7, <2>1 DEF OfflineInv, QueueWaits
  <2>4. QED
    BY <2>2, <2>3 DEF QueueWaits
<1>9. QED
  BY <1>1, <1>3, <1>5, <1>8, BeginKeeps DEF Applying

\* The bot takes the first item of the queue.
LEMMA PopKeeps == OfflineInv /\ PopReview => OfflineInv'
<1> SUFFICES ASSUME OfflineInv, PopReview PROVE OfflineInv'
  OBVIOUS
<1> DEFINE v == Head(queue)
           p == Pay(v)
           where == Judged(rev[v].action, pays[p].status)
           r == [rev[v] EXCEPT !.pc = where]
           e == Begun(r)
<1>1. /\ queue # <<>> /\ queue' = Tail(queue) /\ rev' = [rev EXCEPT ![v] = e]
      /\ overlapped' = overlapped \cup (IF Open(p) THEN {p} ELSE {})
      /\ UNCHANGED <<session, pays, torn>>
  BY DEF PopReview
<1>2. Shapes /\ queue \in Seq(Reviews) /\ Len(queue) \in Nat /\ DOMAIN queue = 1..Len(queue)
  BY LenProperties DEF OfflineInv, Shapes
<1>3. /\ v \in Reviews /\ queue' \in Seq(Reviews) /\ Len(queue') = Len(queue) - 1
      /\ \A i \in 1..Len(queue') : queue'[i] = queue[i + 1]
  BY <1>1, <1>2, HeadTailProperties
<1>4. v = queue[1] /\ Len(queue) > 0
  BY <1>1, <1>2, EmptySeq
<1>5. DOMAIN queue' = 1..(Len(queue) - 1)
  BY <1>3, LenProperties
<1>6. rev[v].pc = "queued" /\ rev[v].web /\ rev[v] \in Review
  BY <1>2, <1>3, <1>4 DEF OfflineInv, QueueWaits, Shapes
<1>7. p \in DOMAIN pays
  BY <1>2, <1>3, <1>6 DEF Shapes
<1>8. /\ where \in {"done", "approving", "revoking"}
      /\ where = "approving" => pays[p].status # "finished"
  BY DEF Judged
<1>9. r \in Review /\ r.pc = where /\ r.pay = p /\ r.web
  BY <1>6, <1>8 DEF Review, Applying, Pay
<1> HIDE DEF where, r
<1>10. /\ e \in Review /\ e.pc = where
       /\ e.pc # "done" => e.pay = p /\ e.web
       /\ e.pc = "done" => e.pay = 1
  BY <1>9, EndedIs DEF Begun
<1> HIDE DEF e, p, v
<1>11. \A i \in DOMAIN queue' : i + 1 \in DOMAIN queue /\ queue'[i] = queue[i + 1]
                                /\ queue[i + 1] \in Reviews /\ queue[i + 1] # v
  <2>1. \A i \in DOMAIN queue' : i + 1 \in DOMAIN queue /\ queue'[i] = queue[i + 1] /\ i + 1 # 1
    BY <1>2, <1>3, <1>5
  <2>2. \A i \in DOMAIN queue : queue[i] \in Reviews
    BY <1>2, LenProperties
  <2>3. 1 \in DOMAIN queue
    BY <1>2, <1>4
  <2>4. QED
    BY <1>4, <2>1, <2>2, <2>3 DEF OfflineInv, QueueWaits
<1>12. \A w \in Reviews : w # v => rev'[w] = rev[w]
  BY <1>1, <1>2, <1>3, <1>10, ReviewSet
<1>13. QueueWaits'
  <2>1. \A i \in DOMAIN queue' : rev'[queue'[i]].pc = "queued" /\ rev'[queue'[i]].web
    BY <1>11, <1>12 DEF OfflineInv, QueueWaits
  <2>2. ASSUME NEW i \in DOMAIN queue', NEW j \in DOMAIN queue', queue'[i] = queue'[j]
        PROVE  i = j
    <3>1. i + 1 = j + 1
      BY <1>11, <2>2 DEF OfflineInv, QueueWaits
    <3>2. QED
      BY <1>2, <1>5, <3>1
  <2>3. QED
    BY <2>1, <2>2 DEF QueueWaits
<1>14. QED
  BY <1>1, <1>3, <1>6, <1>7, <1>8, <1>10, <1>13, BeginKeeps

\* What the invariant says of the payment that a review works on.
LEMMA Working ==
    ASSUME OfflineInv, NEW v \in Reviews, rev[v].pc \in Applying
    PROVE  /\ Pay(v) \in DOMAIN pays /\ OnPay(v, Pay(v)) /\ pays[Pay(v)] \in Payment
           /\ Pay(v) \notin overlapped => \A w \in Reviews : OnPay(w, Pay(v)) => w = v
  BY PaysIs DEF OfflineInv, Shapes, OnPay, OneReview, Applying

LEMMA ApproveKeeps ==
    ASSUME OfflineInv, NEW v \in Reviews, Approve(v)
    PROVE  OfflineInv'
<1> DEFINE p == Pay(v)
           x == [pays[p] EXCEPT !.status = "finished", !.cp = "finished"]
<1>1. /\ rev[v].pc = "approving" /\ Enter(v, "launching") /\ pays' = [pays EXCEPT ![p] = x]
      /\ UNCHANGED <<session, queue, overlapped, torn>>
  BY DEF Approve
<1>2. p \in DOMAIN pays /\ OnPay(v, p) /\ pays[p] \in Payment
  BY <1>1, Working DEF Applying
<1>3. /\ x \in Payment /\ x.status = "finished" /\ x.cp = "finished"
      /\ x.launches = pays[p].launches /\ x.reversals = pays[p].reversals
      /\ x.launches \in Nat /\ x.reversals \in Nat
  BY <1>2 DEF Payment, Statuses
<1>4. PICK e \in Review : /\ rev' = [rev EXCEPT ![v] = e]
                          /\ e.pc = "launching" /\ e.pay = p
  BY <1>1, EnterSets DEF OfflineInv
<1> HIDE DEF x, p
<1>5. p \notin overlapped \cup torn => x.launches <= x.reversals
  <2>1. p \notin overlapped => pays[p].status # "finished"
    BY <1>1, <1>2 DEF OfflineInv, OneReview, p
  <2>2. QED
    BY <1>2, <1>3, <2>1 DEF OfflineInv, RowsAgree
<1>6. p \notin overlapped \cup torn => x.launches <= 1 + x.reversals
  BY <1>3, <1>5
<1>7. QED
  BY <1>1, <1>2, <1>3, <1>4, <1>5, <1>6, ApplyKeeps

LEMMA LaunchKeeps ==
    ASSUME OfflineInv, NEW v \in Reviews, Launch(v)
    PROVE  OfflineInv'
<1> DEFINE p == Pay(v)
           x == [pays[p] EXCEPT !.launches = @ + 1]
<1>1. /\ rev[v].pc = "launching" /\ Enter(v, "done") /\ pays' = [pays EXCEPT ![p] = x]
      /\ UNCHANGED <<session, queue, overlapped, torn>>
  BY DEF Launch
<1>2. /\ p \in DOMAIN pays /\ OnPay(v, p) /\ pays[p] \in Payment
      /\ p \notin overlapped => \A w \in Reviews : OnPay(w, p) => w = v
  BY <1>1, Working DEF Applying
<1>3. /\ x \in Payment /\ x.status = pays[p].status /\ x.cp = pays[p].cp
      /\ x.launches = pays[p].launches + 1 /\ x.reversals = pays[p].reversals
      /\ pays[p].launches \in Nat /\ x.reversals \in Nat
  BY <1>2 DEF Payment
<1>4. rev' = [rev EXCEPT ![v] = Ended]
  BY <1>1, EnterEnds DEF OfflineInv
<1> HIDE DEF x
<1>5. ASSUME p \notin overlapped \cup torn
      PROVE  /\ x.status = "finished" /\ x.cp = "finished"
             /\ x.launches <= 1 + x.reversals
  <2>1. pays[p].status = "finished"
    BY <1>1, <1>2, <1>5 DEF OfflineInv, OneReview
  <2>2. \A w \in Reviews : Pay(w) = p => rev[w].pc # "marking"
    BY <1>1, <1>2, <1>5 DEF OnPay, Applying
  <2>3. pays[p].cp = "finished"
    BY <1>2, <1>5, <2>1, <2>2 DEF OfflineInv, RowsAgree
  <2>4. pays[p].launches <= pays[p].reversals
    BY <1>1, <1>2, <1>5 DEF OfflineInv, RowsAgree
  <2>5. QED
    BY <1>3, <2>1, <2>3, <2>4
<1> HIDE DEF p
<1>6. QED
  BY <1>1, <1>2, <1>3, <1>4, <1>5, EndedIs, ApplyKeeps

LEMMA RevokeKeeps ==
    ASSUME OfflineInv, NEW v \in Reviews, Revoke(v)
    PROVE  OfflineInv'
<1> DEFINE p == Pay(v)
           n == IF pays[p].status = "finished" THEN pays[p].reversals + 1
                ELSE pays[p].reversals
           x == [pays[p] EXCEPT !.status = "rejected", !.reversals = n]
<1>1. /\ rev[v].pc = "revoking" /\ Enter(v, "marking") /\ pays' = [pays EXCEPT ![p] = x]
      /\ UNCHANGED <<session, queue, overlapped, torn>>
  BY DEF Revoke
<1>2. p \in DOMAIN pays /\ OnPay(v, p) /\ pays[p] \in Payment
  BY <1>1, Working DEF Applying
<1>3. pays[p].launches \in Nat /\ pays[p].reversals \in Nat /\ n \in Nat
  BY <1>2 DEF Payment
<1>4. /\ x \in Payment /\ x.status = "rejected"
      /\ x.launches = pays[p].launches /\ x.reversals = n
  BY <1>2, <1>3 DEF Payment, Statuses
<1>5. PICK e \in Review : /\ rev' = [rev EXCEPT ![v] = e]
                          /\ e.pc = "marking" /\ e.pay = p
  BY <1>1, EnterSets DEF OfflineInv
<1> HIDE DEF x
<1>6. p \notin overlapped \cup torn => x.launches <= x.reversals
  <2>1. p \notin overlapped \cup torn =>
           /\ pays[p].launches <= 1 + pays[p].reversals
           /\ pays[p].status # "finished" => pays[p].launches <= pays[p].reversals
    BY <1>2 DEF OfflineInv, RowsAgree
  <2>2. QED
    BY <1>3, <1>4, <2>1
<1>7. x.launches \in Nat /\ x.reversals \in Nat
  BY <1>3, <1>4
<1> HIDE DEF p, n
<1>8. p \notin overlapped \cup torn => x.launches <= 1 + x.reversals
  BY <1>6, <1>7
<1>9. QED
  BY <1>1, <1>2, <1>4, <1>5, <1>6, <1>8, ApplyKeeps

LEMMA MarkKeeps ==
    ASSUME OfflineInv, NEW v \in Reviews, Mark(v)
    PROVE  OfflineInv'
<1> DEFINE p == Pay(v)
           x == [pays[p] EXCEPT !.cp = "failed"]
<1>1. /\ rev[v].pc = "marking" /\ Enter(v, "done") /\ pays' = [pays EXCEPT ![p] = x]
      /\ UNCHANGED <<session, queue, overlapped, torn>>
  BY DEF Mark
<1>2. p \in DOMAIN pays /\ OnPay(v, p) /\ pays[p] \in Payment
  BY <1>1, Working DEF Applying
<1>3. /\ x \in Payment /\ x.status = pays[p].status /\ x.cp = "failed"
      /\ x.launches = pays[p].launches /\ x.reversals = pays[p].reversals
  BY <1>2 DEF Payment
<1>4. rev' = [rev EXCEPT ![v] = Ended]
  BY <1>1, EnterEnds DEF OfflineInv
<1> HIDE DEF x
<1>5. ASSUME p \notin overlapped \cup torn
      PROVE  /\ x.status = "rejected" /\ x.launches <= x.reversals
             /\ x.launches <= 1 + x.reversals
  <2>1. pays[p].status = "rejected"
    BY <1>1, <1>2, <1>5 DEF OfflineInv, OneReview
  <2>2. pays[p].launches <= pays[p].reversals /\ pays[p].launches <= 1 + pays[p].reversals
    BY <1>2, <1>5, <2>1 DEF OfflineInv, RowsAgree
  <2>3. QED
    BY <1>3, <2>1, <2>2
<1> HIDE DEF p
<1>6. QED
  BY <1>1, <1>2, <1>3, <1>4, <1>5, EndedIs, ApplyKeeps

\* The bot restarts: messages and reviews under way are gone.
LEMMA RestartKeeps == OfflineInv /\ Restart => OfflineInv'
<1> SUFFICES ASSUME OfflineInv, Restart PROVE OfflineInv'
  OBVIOUS
<1>1. Shapes /\ OneProof /\ QueueWaits /\ OneReview /\ RowsAgree
  BY DEF OfflineInv
<1>2. /\ UNCHANGED <<required, coin, conv, kept, crossed, pays, queue, overlapped>>
      /\ torn' = torn \cup {Pay(v) : v \in {w \in Reviews : rev[w].pc = "marking"}}
      /\ dropped' = (dropped \/ \E m \in Messages : msg[m].pc = "creating")
  BY DEF Restart
<1>3. /\ msg' \in [Messages -> [pc: MessagePCs, parts: Parts]]
      /\ \A m \in Messages : msg'[m].pc \in {"idle", "done"}
  <2>1. \A m \in Messages : LET e == IF msg[m].pc = "idle" THEN msg[m]
                                      ELSE [msg[m] EXCEPT !.pc = "done"]
                            IN  /\ e \in [pc: MessagePCs, parts: Parts]
                                /\ e.pc \in {"idle", "done"}
    BY <1>1 DEF Shapes, MessagePCs
  <2>2. QED
    BY <2>1 DEF Restart
<1>4. /\ rev' \in [Reviews -> Review]
      /\ \A v \in Reviews : rev'[v] = IF rev[v].pc \in Applying THEN Ended ELSE rev[v]
  BY <1>1, EndedIs DEF Restart, Shapes
<1>5. \A v \in Reviews : rev'[v].pc \notin Applying
  BY <1>4, EndedIs DEF Applying
<1>6. \A v \in Reviews : rev'[v].pc # "idle" => rev'[v].pay \in DOMAIN pays
  <2> SUFFICES ASSUME NEW v \in Reviews, rev'[v].pc # "idle"
               PROVE  rev'[v].pay \in DOMAIN pays
    OBVIOUS
  <2>1. CASE rev[v].pc \in Applying
    <3>1. Pay(v) \in DOMAIN pays
      BY <1>1, <2>1 DEF Shapes, Applying
    <3>2. 1 \in DOMAIN pays
      BY <1>1, <3>1, PaysIs
    <3>3. QED
      BY <1>4, <2>1, <3>2, EndedIs
  <2>2. CASE rev[v].pc \notin Applying
    BY <1>1, <1>4, <2>2 DEF Shapes, Pay
  <2>3. QED
    BY <2>1, <2>2
<1>7. torn' \subseteq DOMAIN pays
  BY <1>1, <1>2 DEF Shapes
<1>8. Shapes'
  BY <1>1, <1>2, <1>3, <1>4, <1>6, <1>7 DEF Shapes, Pay
<1>9. OneProof'
  BY <1>1, <1>2, <1>3 DEF OneProof, Pending
<1>10. QueueWaits'
  <2>1. \A i \in DOMAIN queue : queue[i] \in Reviews
    BY <1>1, LenProperties DEF Shapes
  <2>2. QED
    BY <1>1, <1>2, <1>4, <2>1 DEF QueueWaits, Applying
<1>11. OneReview'
  BY <1>5 DEF OneReview, OnPay, Applying
<1>12. RowsAgree'
  <2> SUFFICES ASSUME NEW p \in DOMAIN pays \ (overlapped \cup torn')
               PROVE  /\ pays[p].status = "finished" <=> pays[p].cp = "finished"
                      /\ pays[p].status = "rejected" <=> pays[p].cp = "failed"
                      /\ pays[p].launches <= 1 + pays[p].reversals
                      /\ pays[p].status # "finished" => pays[p].launches <= pays[p].reversals
    BY <1>2, <1>5 DEF RowsAgree, Applying
  <2>1. /\ p \in DOMAIN pays \ (overlapped \cup torn)
        /\ \A v \in Reviews : Pay(v) = p => rev[v].pc # "marking"
    BY <1>2
  <2>2. QED
    BY <1>1, <2>1 DEF RowsAgree
<1>13. QED
  BY <1>8, <1>9, <1>10, <1>11, <1>12 DEF OfflineInv

\* The invariant is inductive.
LEMMA OfflineNext == OfflineInv /\ [Next]_vars => OfflineInv'
<1> SUFFICES ASSUME OfflineInv, [Next]_vars PROVE OfflineInv'
  OBVIOUS
<1>1. CASE UNCHANGED vars
  <2>1. UNCHANGED <<review, pays, session>>
    BY <1>1 DEF vars
  <2>2. SessionShapes' /\ OneProof'
    BY <2>1, ReviewLeaves DEF OfflineInv, Shapes
  <2>3. QED
    BY <2>1, <2>2, SessionKeeps
<1>2. CASE (\E c \in {"changed", "gone"} : EditCoins(c)) \/ CancelSession
  <2>1. UNCHANGED <<review, pays>>
    BY <1>2 DEF EditCoins, CancelSession
  <2>2. QED
    BY <1>2, <2>1, EditKeeps, SessionKeeps
<1>3. ASSUME NEW m \in Messages, NEW parts \in Parts, ReadProof(m, parts) PROVE OfflineInv'
  <2>1. UNCHANGED <<review, pays>>
    BY <1>3 DEF ReadProof
  <2>2. QED
    BY <1>3, <2>1, ReadKeeps, SessionKeeps
<1>4. ASSUME NEW m \in Messages,
             KeepProof(m) \/ CloseSession(m) \/ CreatePayment(m) \/ CreateFails(m)
      PROVE  OfflineInv'
  <2>1. UNCHANGED review /\ (pays' = pays \/ pays' = Append(pays, New))
    BY <1>4 DEF KeepProof, CloseSession, CreatePayment, CreateFails, New
  <2>2. SessionShapes' /\ OneProof'
    BY <1>4, KeepKeeps, CloseKeeps, CreateKeeps
  <2>3. QED
    BY <2>1, <2>2, SessionKeeps
<1>5. ASSUME NEW v \in Reviews, NEW p \in DOMAIN pays, NEW action \in {"approve", "reject"},
             (\E confirmed \in BOOLEAN : Tap(v, p, action, confirmed))
                \/ QueueReview(v, p, action)
      PROVE  OfflineInv'
  BY <1>5, TapKeeps, QueueKeeps
<1>6. ASSUME NEW v \in Reviews, Approve(v) \/ Launch(v) \/ Revoke(v) \/ Mark(v)
      PROVE  OfflineInv'
  BY <1>6, ApproveKeeps, LaunchKeeps, RevokeKeeps, MarkKeeps
<1>7. QED
  BY <1>1, <1>2, <1>3, <1>4, <1>5, <1>6, PopKeeps, RestartKeeps DEF Next

-----------------------------------------------------------------------------
\* However a proof is split into messages and whatever restarts, it becomes one payment unless
\* two messages were handled together, and none only if it was given up (OfflineSound).
THEOREM ProofAlwaysBecomesPayment == Spec => []OfflineSound
<1>1. ASSUME OfflineInv PROVE OfflineSound
  <2>1. \A p \in DOMAIN pays : pays[p] \in Payment
    BY <1>1, PaysIs DEF OfflineInv
  <2>2. OfflineTypeOK
    <3>1. \A p \in DOMAIN pays :
            /\ pays[p].status \in Statuses /\ pays[p].cp \in {"waiting", "finished", "failed"}
            /\ pays[p].launches \in Nat /\ pays[p].reversals \in Nat
      BY <2>1 DEF Payment
    <3>2. \A m \in Messages :
            msg[m].pc \in {"idle", "read", "ready", "creating", "done"} /\ msg[m].parts \in Parts
      BY <1>1 DEF OfflineInv, Shapes, MessagePCs
    <3>3. \A v \in Reviews :
            rev[v].pc \in {"idle", "queued", "approving", "launching", "revoking",
                          "marking", "done"}
      BY <1>1 DEF OfflineInv, Shapes, Review, Applying
    <3>4. \A v \in Reviews : rev[v].pc # "idle" => rev[v].pay \in DOMAIN pays
      BY <1>1 DEF OfflineInv, Shapes, Pay
    <3>5. /\ required \in Parts /\ "txid" \in required
          /\ coin \in {"shown", "changed", "gone"}
          /\ conv \in {"proof", "closed"} /\ kept \in Parts
          /\ queue \in Seq(Reviews)
          /\ overlapped \subseteq DOMAIN pays /\ torn \subseteq DOMAIN pays
      BY <1>1 DEF OfflineInv, Shapes
    <3>6. QED
      BY <3>1, <3>2, <3>3, <3>4, <3>5 DEF OfflineTypeOK
  <2>3. Len(pays) > 1 => crossed
    BY <1>1, PaysIs DEF OfflineInv, OneProof
  <2>4. conv = "closed" /\ Handled /\ pays = <<>> => dropped
    BY <1>1 DEF OfflineInv, OneProof, Handled
  <2>5. QED
    BY <2>2, <2>3, <2>4 DEF OfflineSound, ProofBecomesPayment
<1>2. QED
  BY <1>1, OfflineInit, OfflineNext, PTL DEF Spec

\* The transaction and the payment's own row agree when no review is under way, unless two
\* overlapped or a restart cut a rejection in two (StatusesAgree).
THEOREM RowsAlwaysAgree == Spec => []StatusesAgree
<1>1. OfflineInv => StatusesAgree
  BY DEF OfflineInv, RowsAgree, StatusesAgree, Open, Applying
<1>2. QED
  BY <1>1, OfflineInit, OfflineNext, PTL DEF Spec

\* No approval is reversed that nobody asked to reverse, unless reviews overlapped or the
\* item came from the web panel's queue (ReversalAskedFor).
THEOREM ReversalsAlwaysAskedFor == Spec => ReversalAskedFor
<1> DEFINE Asked == \A v \in Reviews :
        (Revoke(v) /\ pays[Pay(v)].status = "finished") =>
            \/ rev[v].confirmed \/ rev[v].web
            \/ Pay(v) \in overlapped
<1>1. OfflineInv => Asked
  <2> SUFFICES ASSUME OfflineInv, NEW v \in Reviews, Revoke(v), pays[Pay(v)].status = "finished",
                      Pay(v) \notin overlapped
               PROVE  rev[v].confirmed \/ rev[v].web
    OBVIOUS
  <2>1. rev[v].pc = "revoking"
    BY DEF Revoke
  <2>2. Pay(v) \in DOMAIN pays \ overlapped
    BY <2>1 DEF OfflineInv, Shapes
  <2>3. QED
    BY <2>1, <2>2 DEF OfflineInv, OneReview
<1>2. OfflineInv /\ [Next]_vars => [Asked]_vars
  BY <1>1
<1> HIDE DEF Asked
<1>3. Spec => [][Asked]_vars
  BY <1>2, OfflineInit, OfflineNext, PTL DEF Spec
<1>4. QED
  BY <1>3 DEF ReversalAskedFor, Asked

-----------------------------------------------------------------------------
(* Settings *)

Classes == {"flag", "choice", "role", "hours", "dialog", "text", "title", "secret", "probed",
            "amount", "threshold", "percent", "share", "floor", "list"}

\* A table of forms whose classes are these.
Table(T, classes) == \A form \in DOMAIN T : T[form] \in classes /\ form # "access_only"

LEMMA TextTables ==
    /\ Table(GatewayTexts, {"text"}) /\ Table(NowpaymentsTextForms, {"text"})
    /\ Table(PerfectMoneyTextForms, {"text"}) /\ Table(CardTextForms, {"text"})
    /\ Table(GreetingTexts, {"text"}) /\ Table(HelpTexts, {"text"}) /\ Table(OtherTexts, {"text"})
  BY DEF Table, GatewayTexts, NowpaymentsTextForms, PerfectMoneyTextForms, CardTextForms,
         GreetingTexts, HelpTexts, OtherTexts

LEMMA OtherTables ==
    /\ Table(RialSettings, Classes \ {"text"})
    /\ Table(SwapinoForms, Classes \ {"text"})
    /\ Table(TronadoForms, Classes \ {"text"})
    /\ Table(NowpaymentsForms, Classes \ {"text"})
    /\ Table(PerfectMoneyForms, Classes \ {"text"})
    /\ Table(CardForms, Classes \ {"text"})
    /\ Table(AutoSelectForms, Classes \ {"text"})
    /\ Table(OfflineForms, Classes \ {"text"})
    /\ Table(PlisioForms, Classes \ {"text"})
    /\ Table(SwitchForms, {"dialog"})
    /\ Table(CycleForms, Classes \ {"text"})
    /\ Table(UserForms, Classes \ {"text"})
    /\ Table(LogForms, Classes \ {"text"})
    /\ Table(PaybackForms, Classes \ {"text"})
    /\ Table(ReminderForms, Classes \ {"text"})
    /\ Table(PayButtonForms, {"list"})
    /\ Table(ReportForms, Classes \ {"text"})
  BY DEF Table, Classes, RialSettings, SwapinoForms, TronadoForms, NowpaymentsForms,
         PerfectMoneyForms, CardForms, AutoSelectForms, OfflineForms, PlisioForms, SwitchForms,
         CycleForms, UserForms, LogForms, PaybackForms, ReminderForms, PayButtonForms, ReportForms

LEMMA FormsOf ==
    /\ \A p \in {"payping", "zarinpal", "zibal", "aqaye"} : Forms(p) = RialSettings
    /\ Forms("swapino") = SwapinoForms
    /\ Forms("tronado") = TronadoForms
    /\ Forms("nowpayments") = NowpaymentsForms
    /\ Forms("perfect_money") = PerfectMoneyForms
    /\ Forms("card_to_card") = CardForms
    /\ Forms("auto_select") = AutoSelectForms
    /\ Forms("offline") = OfflineForms
    /\ Forms("plisio") = PlisioForms
    /\ Forms("nowpayments texts") = NowpaymentsTextForms
    /\ Forms("perfect_money texts") = PerfectMoneyTextForms
    /\ Forms("card_to_card texts") = CardTextForms
    /\ \A p \in {"payping texts", "zarinpal texts", "zibal texts", "aqaye texts",
                 "swapino texts", "tronado texts"} : Forms(p) = GatewayTexts
    /\ Forms("access") = AccessForms
    /\ Forms("switches") = SwitchForms
    /\ Forms("cycles") = CycleForms
    /\ Forms("users") = UserForms
    /\ Forms("logs") = LogForms
    /\ Forms("payback") = PaybackForms
    /\ Forms("reminders") = ReminderForms
    /\ Forms("greetings") = GreetingTexts
    /\ Forms("help texts") = HelpTexts
    /\ Forms("other texts") = OtherTexts
    /\ Forms("pay buttons") = PayButtonForms
    /\ Forms("reports") = ReportForms
  BY Zenon DEF Forms, TextPages, PaypingForms, ZarinpalForms, ZibalForms, AqayeForms

SettingValues == {"off", "on", "old", "new", "empty", "negative", "zero", "small", "large"}
Ranged(class) == class \in {"threshold", "percent", "share", "floor", "hours"}

\* The fields of a page that a form is named for and whose values have a range.
RangedFields(p) == {f \in Fields(p) \cap DOMAIN Forms(p) : Ranged(Class(p, f))}

\* What a page can hold: a gateway has no negative threshold, percentage or share.
PageStates(p) ==
    {x \in [Fields(p) -> SettingValues] :
        OneRow(p) => \A f \in RangedFields(p) : x[f] # "negative"}

SettingTables ==
    /\ page \in Pages /\ row \in PageStates(page) /\ meant \in [Fields(page) -> SettingValues]
    /\ objs \in Seq(PageStates(page)) /\ Len(objs) > 0
    /\ flag \in BOOLEAN /\ risky \in BOOLEAN /\ missed \in BOOLEAN
    /\ by \in [Fields(page) -> {"none", "bot", "web"}]
    /\ DOMAIN ed = Editors /\ DOMAIN rd = Readers

IsEdit(x) == x = [pc |-> x.pc, who |-> x.who, form |-> x.form, value |-> x.value, obj |-> x.obj,
                  shown |-> x.shown, buf |-> x.buf, todo |-> x.todo]

\* An editor's progress, before and after his values are on their way.
EditorOK(e) ==
    LET x == ed[e]
    IN  /\ IsEdit(x) /\ x.who \in {"bot", "web"}
        /\ x.pc \in {"idle", "asked", "trying", "merging", "writing", "flagging", "done"}
        /\ x.pc \notin {"idle", "done"} => x.form \in DOMAIN Forms(page)
        /\ x.pc \in {"merging", "flagging"} => x.who = "web"
        /\ x.pc \in {"idle", "asked", "trying"} => x.who = "bot"
        /\ x.obj # 0 => x.who = "bot" /\ x.pc \in {"trying", "writing"} /\ x.obj \in DOMAIN objs
        /\ x.obj = 0 => x.pc # "trying"
        /\ x.pc = "trying" =>
              Tries(Class(page, x.form)) /\ x.value \in BotKeeps(Class(page, x.form))
        /\ x.pc = "merging" => OneRow(page) /\ x.value \in WebKeeps(page, x.form)

\* Values on their way: a whole page, ...
WholeOK(e) ==
    LET x == ed[e]
    IN  /\ x.buf \in PageStates(page) /\ x.todo = <<Fields(page)>>
        /\ x.pc = "writing" /\ x.who = "bot" =>
              \A f \in Edited(e) \cap RangedFields(page) : InRange(Class(page, f), x.buf[f])

\* ... or some fields, those with a range one at a time.
FieldsOK(e) ==
    LET x == ed[e]
    IN  /\ x.buf \in [Edited(e) -> SettingValues]
        /\ x.todo \in Seq(SUBSET Edited(e)) /\ x.todo # <<>>
        /\ IsFiniteSet(Edited(e)) /\ Len(x.todo) =< Cardinality(Edited(e))
        /\ page \in BotTexts => x.todo = <<Edited(e)>>
        /\ \A f \in Edited(e) \cap RangedFields(page) :
              /\ x.todo = <<{f}>>
              /\ x.who = "bot" => InRange(Class(page, f), x.buf[f])

Sends(e) == ed[e].pc \in {"merging", "writing"}
SendingOK(e) ==
    Sends(e) => /\ Edited(e) \subseteq Fields(page)
                /\ IF OneRow(page) THEN WholeOK(e) ELSE FieldsOK(e)

ReaderOK(r) ==
    /\ rd[r] = [pc |-> rd[r].pc, buf |-> rd[r].buf, base |-> rd[r].base]
    /\ rd[r].pc \in {"no", "reading", "filling", "again", "assigning"}
    /\ rd[r].pc \in {"filling", "assigning"} => rd[r].buf \in PageStates(page)

\* A value on its way leaves the other fields alone, and the row is what was meant but for the
\* fields still to be written.
WholeAgrees(e) ==
    LET x == ed[e]
    IN  /\ x.pc = "merging" => x.buf = row
        /\ \A f \in Fields(page) \ Edited(e) : x.buf[f] = row[f]
FieldsAgree(e) ==
    LET x == ed[e]
    IN  /\ \A f \in Fields(page) \ Edited(e) : row[f] = meant[f]
        /\ \A f \in Edited(e) : \/ \E i \in DOMAIN x.todo : f \in x.todo[i]
                                \/ row[f] = x.buf[f] /\ meant[f] = x.buf[f]
        /\ Len(x.todo) < Cardinality(Edited(e)) \/ row = meant

Agreed ==
    /\ \A d, e \in Editors : Sends(d) /\ Sends(e) => d = e
    /\ OneRow(page) \/ page \in BotTexts \/ (\A e \in Editors : ~Sends(e)) => row = meant
    /\ \A e \in Editors : Sends(e) => IF OneRow(page) THEN WholeAgrees(e) ELSE FieldsAgree(e)

RowInRange ==
    \A f \in RangedFields(page) :
       \/ InRange(Class(page, f), row[f])
       \/ by[f] = "web" \/ (risky /\ OneRow(page))

SettingsInv ==
    /\ SettingTables /\ RowInRange
    /\ \A e \in Editors : EditorOK(e) /\ SendingOK(e)
    /\ \A r \in Readers : ReaderOK(r)
    /\ ~risky => Agreed

-----------------------------------------------------------------------------
LEMMA PageKnown ==
    ASSUME NEW p \in Pages, NEW form \in DOMAIN Forms(p)
    PROVE  /\ Class(p, form) \in Classes /\ (form = "access_only" => p = "access")
           /\ p \in TextPages => Class(p, form) = "text"
           /\ p \in {"pay buttons", "reports"} => Class(p, form) # "text"
           /\ p = "access" => Class(p, form) = "dialog"
<1> DEFINE T == Forms(p)
<1>1. CASE p \in TextPages
  <2>1. Table(T, {"text"})
    BY <1>1, FormsOf, TextTables DEF TextPages
  <2>2. p # "access" /\ p \notin {"pay buttons", "reports"}
    BY <1>1 DEF TextPages
  <2>3. QED
    BY <2>1, <2>2 DEF Table, Class, Classes
<1>2. CASE p \in BotTexts
  <2>1. Table(T, {"text"})
    BY <1>2, FormsOf, TextTables DEF BotTexts
  <2>2. p # "access" /\ p \notin {"pay buttons", "reports"}
    BY <1>2 DEF BotTexts
  <2>3. QED
    BY <2>1, <2>2 DEF Table, Class, Classes
<1>3. CASE p = "access"
  <2>1. T = AccessForms /\ p \notin TextPages
    BY <1>3, FormsOf DEF TextPages
  <2>2. \A g \in DOMAIN AccessForms : AccessForms[g] = "dialog"
    BY DEF AccessForms
  <2>3. QED
    BY <1>3, <2>1, <2>2 DEF Class, Classes
<1>4. CASE p \notin TextPages \cup BotTexts \cup {"access"}
  <2>1. CASE p \in Gateways
    <3>1. Table(T, Classes \ {"text"})
      BY <2>1, FormsOf, OtherTables DEF Gateways
    <3>2. QED
      BY <1>4, <3>1 DEF Table, Class
  <2>2. CASE p \notin Gateways
    <3>1. p \in {"switches", "cycles", "users", "logs", "payback", "reminders", "pay buttons",
                 "reports"}
      BY <1>4, <2>2 DEF Pages, RowPages
    <3>2. Table(T, Classes \ {"text"}) \/ Table(T, {"dialog"}) \/ Table(T, {"list"})
      BY <3>1, FormsOf, OtherTables
    <3>3. QED
      BY <1>4, <3>2 DEF Table, Class, Classes
  <2>3. QED
    BY <2>1, <2>2
<1>5. QED
  BY <1>1, <1>2, <1>3, <1>4

LEMMA AssignedOf ==
    ASSUME NEW p \in Pages, NEW form \in DOMAIN Forms(p)
    PROVE  /\ p = "pay buttons" => Assigned(p, form) = PayButtonRows
           /\ p = "reports" => Assigned(p, form) = ReportRows(form)
           /\ p \notin {"pay buttons", "reports"} =>
                 \/ Assigned(p, form) = <<form>>
                 \/ /\ Assigned(p, form) = <<"choose_amount">>
                    /\ p \in {"zarinpal texts", "aqaye texts", "swapino texts", "tronado texts"}
<1>1. p = "pay buttons" => Assigned(p, form) = PayButtonRows
  BY Zenon DEF Assigned
<1>2. p = "reports" => Assigned(p, form) = ReportRows(form)
  BY Zenon DEF Assigned
<1>3. ASSUME p \notin {"pay buttons", "reports"}
      PROVE  \/ Assigned(p, form) = <<form>>
             \/ /\ Assigned(p, form) = <<"choose_amount">>
                /\ p \in {"zarinpal texts", "aqaye texts", "swapino texts", "tronado texts"}
  BY <1>3, Zenon DEF Assigned, PaypingTexts, ZibalTexts, ZarinpalTexts, AqayeTexts, SwapinoTexts,
               TronadoTexts
<1>4. QED
  BY <1>1, <1>2, <1>3

LEMMA PurposeOf ==
    ASSUME NEW p \in Pages, NEW form \in DOMAIN Forms(p)
    PROVE  \/ p \in {"pay buttons", "reports"} /\ Purpose(p, form) = Assigned(p, form)
           \/ /\ p \notin {"pay buttons", "reports"} /\ form = "access_only"
              /\ Purpose(p, form) = <<"access_only", "referral_system">>
           \/ /\ p \notin {"pay buttons", "reports"} /\ form # "access_only"
              /\ Purpose(p, form) = <<form>>
<1>1. CASE p \in {"pay buttons", "reports"}
  <2>1. p # "access"
    BY <1>1
  <2>2. form # "access_only"
    BY <2>1, PageKnown
  <2>3. QED
    BY <1>1, <2>2, Zenon DEF Purpose
<1>2. CASE p \notin {"pay buttons", "reports"} /\ form = "access_only"
  BY <1>2, Zenon DEF Purpose
<1>3. CASE p \notin {"pay buttons", "reports"} /\ form # "access_only"
  BY <1>3, Zenon DEF Purpose
<1>4. QED
  BY <1>1, <1>2, <1>3

\* The fields of a page, without mention of purposes: those that its forms are for.
LEMMA PurposeInFields ==
    ASSUME NEW p \in Pages, NEW form \in DOMAIN Forms(p)
    PROVE  ToSet(Purpose(p, form)) \subseteq Fields(p)
  BY DEF Fields

\* What a form writes: fields of the page, in an order, each once; those with a range alone.
Sheet(p, form, order, changes, value) ==
    /\ order \in Seq(Fields(p)) /\ order # <<>>
    /\ changes \in [ToSet(order) -> SettingValues]
    /\ IsFiniteSet(ToSet(order)) /\ Len(order) =< Cardinality(ToSet(order))
    /\ p \in BotTexts => Len(order) = 1
    /\ \A f \in ToSet(order) \cap RangedFields(p) :
          order = <<f>> /\ form = f /\ changes[f] = value

LEMMA One ==
    ASSUME NEW f
    PROVE  ToSet(<<f>>) = {f} /\ IsFiniteSet({f}) /\ Cardinality({f}) = 1
<1>1. ToSet(<<f>>) = {f}
  BY DEF ToSet
<1>2. QED
  BY <1>1, FS_Singleton

LEMMA Two ==
    ASSUME NEW f, NEW g, f # g
    PROVE  ToSet(<<f, g>>) = {f, g} /\ IsFiniteSet({f, g}) /\ Cardinality({f, g}) = 2
<1>1. ToSet(<<f, g>>) = {f, g}
  BY DEF ToSet
<1> DEFINE S == {f}
<1>3. S \cup {g} = {f, g} /\ IsFiniteSet(S) /\ Cardinality(S) = 1 /\ g \notin S
  BY One
<1> HIDE DEF S
<1>2. IsFiniteSet(S \cup {g}) /\ Cardinality(S \cup {g}) = 2
  BY <1>3, FS_AddElement
<1>4. QED
  BY <1>1, <1>2, <1>3

LEMMA Three ==
    ASSUME NEW f, NEW g, NEW h, f # g, h # f, h # g
    PROVE  ToSet(<<f, g, h>>) = {f, g, h} /\ IsFiniteSet({f, g, h}) /\ Cardinality({f, g, h}) = 3
<1>1. ToSet(<<f, g, h>>) = {f, g, h}
  BY DEF ToSet
<1>2. IsFiniteSet({f, g}) /\ Cardinality({f, g}) = 2 /\ h \notin {f, g}
  BY Two
<1> DEFINE S == {f, g}
<1>3. S \cup {h} = {f, g, h}
  OBVIOUS
<1> HIDE DEF S
<1>4. IsFiniteSet(S \cup {h}) /\ Cardinality(S \cup {h}) = 3
  BY <1>2, FS_AddElement DEF S
<1>5. QED
  BY <1>1, <1>3, <1>4

\* A sheet of one field.
LEMMA OneField ==
    ASSUME NEW p \in Pages, NEW form, NEW value, NEW f \in Fields(p), NEW order, order = <<f>>,
           NEW changes \in [{f} -> SettingValues], changes[f] = value,
           f = form \/ f \notin RangedFields(p)
    PROVE  Sheet(p, form, order, changes, value)
<1>1. ToSet(<<f>>) = {f} /\ IsFiniteSet({f}) /\ Cardinality({f}) = 1
  BY One, Zenon
<1>2. <<f>> \in Seq(Fields(p)) /\ <<f>> # <<>> /\ Len(<<f>>) = 1
  OBVIOUS
<1>3. ToSet(order) = {f} /\ order \in Seq(Fields(p)) /\ order # <<>> /\ Len(order) = 1
  BY <1>1, <1>2
<1>4. \A g \in ToSet(order) \cap RangedFields(p) :
         order = <<g>> /\ form = g /\ changes[g] = value
  BY <1>3
<1>5. QED
  BY <1>1, <1>3, <1>4 DEF Sheet

\* The fields that are assigned are the page's; and they are what the form is for, but for the
\* misplaced ones.
LEMMA AssignedSheet ==
    ASSUME NEW p \in Pages, NEW form \in DOMAIN Forms(p), NEW value \in SettingValues,
           NEW changes, changes = [f \in ToSet(Assigned(p, form)) |-> value]
    PROVE  /\ Sheet(p, form, Assigned(p, form), changes, value)
           /\ \/ ToSet(Assigned(p, form)) \subseteq ToSet(Purpose(p, form))
              \/ /\ form = "show_invoice"
                 /\ p \in {"zarinpal texts", "aqaye texts", "swapino texts", "tronado texts"}
           /\ Class(p, form) = "dialog" => Assigned(p, form) = <<form>> /\ form \in Fields(p)
           /\ Class(p, form) = "text" => form \in Fields(p)
<1> DEFINE o == Assigned(p, form)
           F == Fields(p)
<1>1. ASSUME p \notin {"pay buttons", "reports"}
      PROVE  form \in ToSet(Purpose(p, form))
  <2>1. /\ ToSet(<<form>>) = {form}
        /\ ToSet(<<"access_only", "referral_system">>) = {"access_only", "referral_system"}
    BY DEF ToSet
  <2>2. QED
    BY <1>1, <2>1, PurposeOf
<1>2. ToSet(Purpose(p, form)) \subseteq F
  BY PurposeInFields
<1>3. ASSUME Assigned(p, form) = <<form>>, p \notin {"pay buttons", "reports"}
      PROVE  /\ Sheet(p, form, o, changes, value) /\ ToSet(o) \subseteq ToSet(Purpose(p, form))
             /\ form \in F
  <2>1. ToSet(<<form>>) = {form}
    BY DEF ToSet
  <2>2. form \in F /\ ToSet(o) \subseteq ToSet(Purpose(p, form))
    BY <1>1, <1>2, <1>3, <2>1
  <2>3. changes \in [{form} -> SettingValues] /\ changes[form] = value
    BY <1>3, <2>1
  <2>4. QED
    BY <1>3, <2>2, <2>3, OneField, Zenon
<1>4. CASE Assigned(p, form) = <<form>> /\ p \notin {"pay buttons", "reports"}
  BY <1>3, <1>4
<1>5. CASE /\ Assigned(p, form) = <<"choose_amount">>
           /\ p \in {"zarinpal texts", "aqaye texts", "swapino texts", "tronado texts"}
  <2>1. /\ Forms(p) = GatewayTexts /\ p \in TextPages /\ p \notin {"pay buttons", "reports"}
    BY <1>5, FormsOf DEF TextPages
  <2>2. /\ DOMAIN Forms(p) = {"choose_amount", "show_invoice"}
        /\ Class(p, "choose_amount") = "text" /\ Class(p, form) = "text"
    <3>1. DOMAIN GatewayTexts = {"choose_amount", "show_invoice"}
      BY DEF GatewayTexts
    <3>2. \A g \in DOMAIN Forms(p) : Class(p, g) = "text"
      BY <2>1, PageKnown
    <3>3. QED
      BY <2>1, <3>1, <3>2
  <2>3. /\ "choose_amount" \in ToSet(Purpose(p, "choose_amount"))
        /\ ToSet(Purpose(p, form)) = {form} /\ ToSet(<<"choose_amount">>) = {"choose_amount"}
    <3>1. Purpose(p, "choose_amount") = <<"choose_amount">>
      BY <2>1, <2>2, PurposeOf
    <3>2. Purpose(p, form) = <<form>>
      BY <2>1, <2>2, PurposeOf
    <3>3. QED
      BY <3>1, <3>2, One
  <2>4. "choose_amount" \in F /\ form \in F
    BY <1>2, <2>2, <2>3, PurposeInFields
  <2>5. "choose_amount" \notin RangedFields(p)
    BY <2>2 DEF RangedFields, Ranged
  <2>6. changes \in [{"choose_amount"} -> SettingValues] /\ changes["choose_amount"] = value
    BY <1>5, <2>3
  <2>7. Sheet(p, form, o, changes, value)
    BY <1>5, <2>4, <2>5, <2>6, OneField, Zenon
  <2>8. QED
    BY <1>5, <2>2, <2>3, <2>4, <2>7
<1>6. CASE p = "pay buttons" /\ Assigned(p, form) = PayButtonRows
  <2>1. o = <<"charge_amount_list", "charge_amount_orders">> /\ Purpose(p, form) = o
    BY <1>6, PurposeOf DEF PayButtonRows
  <2>8. /\ ToSet(o) = {"charge_amount_list", "charge_amount_orders"}
        /\ IsFiniteSet(ToSet(o)) /\ Cardinality(ToSet(o)) = 2
    <3>1. /\ ToSet(<<"charge_amount_list", "charge_amount_orders">>)
                = {"charge_amount_list", "charge_amount_orders"}
          /\ IsFiniteSet({"charge_amount_list", "charge_amount_orders"})
          /\ Cardinality({"charge_amount_list", "charge_amount_orders"}) = 2
      BY Two, Zenon
    <3>2. QED
      BY <2>1, <3>1
  <2>2. DOMAIN Forms(p) = {"amounts", "reset"} /\ Class(p, form) \notin {"text", "dialog"}
    <3>1. Forms(p) = PayButtonForms
      BY <1>6, FormsOf
    <3>2. DOMAIN PayButtonForms = {"amounts", "reset"}
      BY DEF PayButtonForms
    <3>3. Forms(p)[form] = "list"
      BY <3>1, OtherTables DEF Table
    <3>4. QED
      BY <3>1, <3>2, <3>3 DEF Class
  <2>3. "charge_amount_list" \in F /\ "charge_amount_orders" \in F
    BY <1>2, <2>1, <2>8
  <2>4. ToSet(o) \cap RangedFields(p) = {} /\ p \notin BotTexts
    BY <1>6, <2>2, <2>8 DEF RangedFields, BotTexts
  <2>5. Sheet(p, form, o, changes, value)
    BY <2>1, <2>3, <2>4, <2>8 DEF Sheet
  <2>6. QED
    BY <2>1, <2>2, <2>5
<1>7. CASE p = "reports" /\ Assigned(p, form) = ReportRows(form)
  <2>1. Purpose(p, form) = o /\ ToSet(o) \subseteq F /\ p \notin BotTexts
    BY <1>2, <1>7, PurposeOf DEF BotTexts
  <2>2. /\ DOMAIN Forms(p) = {"group", "disconnect", "topic", "nightly_report_enabled",
                              "backup_interval_hours"}
        /\ Class(p, form) \notin {"text", "dialog"}
    <3>1. Forms(p) = ReportForms
      BY <1>7, FormsOf
    <3>2. /\ DOMAIN ReportForms = {"group", "disconnect", "topic", "nightly_report_enabled",
                                   "backup_interval_hours"}
          /\ \A g \in DOMAIN ReportForms : ReportForms[g] \notin {"text", "dialog"}
      BY DEF ReportForms
    <3>3. QED
      BY <3>1, <3>2 DEF Class
  <2>3. CASE form = "group"
    <3>1. o = <<"reports_group_id", "reports_topics", "reports_disabled_topics">>
      BY <1>7, <2>3, Zenon DEF ReportRows
    <3>2. /\ ToSet(o) = {"reports_group_id", "reports_topics", "reports_disabled_topics"}
          /\ IsFiniteSet(ToSet(o)) /\ Cardinality(ToSet(o)) = 3
      <4>1. /\ ToSet(<<"reports_group_id", "reports_topics", "reports_disabled_topics">>)
                  = {"reports_group_id", "reports_topics", "reports_disabled_topics"}
            /\ IsFiniteSet({"reports_group_id", "reports_topics", "reports_disabled_topics"})
            /\ Cardinality({"reports_group_id", "reports_topics", "reports_disabled_topics"}) = 3
        BY Three, Zenon
      <4>2. QED
        BY <3>1, <4>1
    <3>3. ToSet(o) \cap RangedFields(p) = {}
      BY <2>2, <3>2 DEF RangedFields
    <3>4. Sheet(p, form, o, changes, value)
      BY <2>1, <3>1, <3>2, <3>3 DEF Sheet
    <3>5. QED
      BY <2>1, <2>2, <3>4
  <2>4. CASE form = "disconnect"
    <3>1. o = <<"reports_group_id", "reports_topics">>
      BY <1>7, <2>4, Zenon DEF ReportRows
    <3>2. /\ ToSet(o) = {"reports_group_id", "reports_topics"}
          /\ IsFiniteSet(ToSet(o)) /\ Cardinality(ToSet(o)) = 2
      <4>1. /\ ToSet(<<"reports_group_id", "reports_topics">>)
                  = {"reports_group_id", "reports_topics"}
            /\ IsFiniteSet({"reports_group_id", "reports_topics"})
            /\ Cardinality({"reports_group_id", "reports_topics"}) = 2
        BY Two, Zenon
      <4>2. QED
        BY <3>1, <4>1
    <3>3. ToSet(o) \cap RangedFields(p) = {}
      BY <2>2, <3>2 DEF RangedFields
    <3>4. Sheet(p, form, o, changes, value)
      BY <2>1, <3>1, <3>2, <3>3 DEF Sheet
    <3>5. QED
      BY <2>1, <2>2, <3>4
  <2>5. CASE form = "topic"
    <3>1. o = <<"reports_disabled_topics">>
      BY <1>7, <2>5, Zenon DEF ReportRows
    <3>2. /\ ToSet(o) = {"reports_disabled_topics"}
          /\ IsFiniteSet(ToSet(o)) /\ Cardinality(ToSet(o)) = 1
      BY <3>1, One
    <3>3. "reports_disabled_topics" \notin RangedFields(p)
      BY <2>2 DEF RangedFields
    <3>4. Sheet(p, form, o, changes, value)
      BY <2>1, <3>1, <3>2, <3>3 DEF Sheet
    <3>5. QED
      BY <2>1, <2>2, <3>4
  <2>6. CASE form \in {"nightly_report_enabled", "backup_interval_hours"}
    <3>1. o = <<form>>
      BY <1>7, <2>6, Zenon DEF ReportRows
    <3>2. ToSet(o) = {form} /\ IsFiniteSet(ToSet(o)) /\ Cardinality(ToSet(o)) = 1
      BY <3>1, One
    <3>3. Sheet(p, form, o, changes, value)
      BY <2>1, <3>1, <3>2 DEF Sheet
    <3>4. QED
      BY <2>1, <2>2, <3>3
  <2>7. QED
    BY <2>2, <2>3, <2>4, <2>5, <2>6
<1>8. QED
  BY <1>4, <1>5, <1>6, <1>7, AssignedOf

\* It changes what its form is for, but for the misplaced texts; a dialog's is its setting.
SheetLands(p, form, order, changes, value) ==
    /\ \/ ToSet(order) \subseteq ToSet(Purpose(p, form))
       \/ /\ form = "show_invoice"
          /\ p \in {"zarinpal texts", "aqaye texts", "swapino texts", "tronado texts"}
    /\ Class(p, form) = "dialog" => form \in ToSet(order) /\ changes[form] = value

\* What a choice in the bot writes: that, or with the closed bot the end of the referrals.
LEMMA ChangesSheet ==
    ASSUME NEW p \in Pages, NEW form \in DOMAIN Forms(p), NEW value \in SettingValues,
           NEW order, order = Order(p, form, value),
           NEW changes, changes = Changes(p, form, value)
    PROVE  /\ Sheet(p, form, order, changes, value)
           /\ SheetLands(p, form, order, changes, value)
           /\ OneRow(p) => ToSet(order) = ToSet(Assigned(p, form))
<1>1. CASE form = "access_only" /\ value = "on"
  <2>1. p = "access" /\ p \notin {"pay buttons", "reports"} /\ p \notin BotTexts /\ ~OneRow(p)
    <3>1. p = "access"
      BY <1>1, PageKnown
    <3>2. QED
      BY <3>1 DEF BotTexts, OneRow, Gateways, TextPages
  <2>2. order = <<"access_only", "referral_system">> /\ Purpose(p, form) = order
    BY <1>1, <2>1, PurposeOf DEF Order
  <2>3. changes = [access_only |-> "on", referral_system |-> "off"]
    BY <1>1 DEF Changes
  <2>4. /\ ToSet(<<"access_only", "referral_system">>) = {"access_only", "referral_system"}
        /\ IsFiniteSet({"access_only", "referral_system"})
        /\ Cardinality({"access_only", "referral_system"}) = 2
    BY Two, Zenon
  <2>5. "access_only" \in Fields(p) /\ "referral_system" \in Fields(p)
    BY <2>2, <2>4, PurposeInFields
  <2>6. \A f \in RangedFields(p) : FALSE
    BY <2>1, PageKnown DEF RangedFields, Ranged
  <2>7. changes \in [{"access_only", "referral_system"} -> SettingValues]
    BY <2>3 DEF SettingValues
  <2>8. Sheet(p, form, order, changes, value)
    <3>1. order \in Seq(Fields(p)) /\ order # <<>> /\ Len(order) = 2
      BY <2>2, <2>5
    <3>2. /\ ToSet(order) = {"access_only", "referral_system"}
          /\ IsFiniteSet(ToSet(order)) /\ Cardinality(ToSet(order)) = 2
      BY <2>2, <2>4
    <3>3. changes \in [ToSet(order) -> SettingValues]
      BY <2>7, <3>2
    <3>4. Len(order) =< Cardinality(ToSet(order))
      BY <3>1, <3>2
    <3>5. QED
      BY <2>1, <2>6, <3>1, <3>2, <3>3, <3>4, Zenon DEF Sheet
  <2>9. QED
    BY <1>1, <2>1, <2>2, <2>3, <2>4, <2>8 DEF SheetLands
<1>2. CASE ~(form = "access_only" /\ value = "on")
  <2>1. order = Assigned(p, form) /\ changes = [f \in ToSet(Assigned(p, form)) |-> value]
    BY <1>2 DEF Order, Changes
  <2>2. Class(p, form) = "dialog" => form \in ToSet(order) /\ changes[form] = value
    <3>1. ToSet(<<form>>) = {form}
      BY One, Zenon
    <3>2. QED
      BY <2>1, <3>1, AssignedSheet
  <2>3. QED
    BY <2>1, <2>2, AssignedSheet DEF SheetLands
<1>3. QED
  BY <1>1, <1>2

\* A text's default, put back over the right field.
LEMMA ResetSheet ==
    ASSUME NEW p \in Pages, NEW form \in DOMAIN Forms(p), Class(p, form) = "text"
    PROVE  /\ Sheet(p, form, <<form>>, [f \in {form} |-> "old"], "old")
           /\ ToSet(<<form>>) = {form} /\ form \in Fields(p)
           /\ ToSet(<<form>>) \subseteq ToSet(Purpose(p, form))
<1>1. form \in Fields(p)
  BY AssignedSheet DEF SettingValues
<1>2. form \notin RangedFields(p)
  BY DEF RangedFields, Ranged
<1>3. "old" \in SettingValues
  BY DEF SettingValues
<1>4. p \notin {"pay buttons", "reports"}
  BY PageKnown
<1>5. form # "access_only"
  BY PageKnown
<1>6. Purpose(p, form) = <<form>>
  BY <1>4, <1>5, PurposeOf
<1>7. ToSet(<<form>>) = {form}
  BY One, Zenon
<1> DEFINE c == [f \in {form} |-> "old"]
<1>8. c \in [{form} -> SettingValues] /\ c[form] = "old"
  BY <1>3
<1> HIDE DEF c
<1>9. Sheet(p, form, <<form>>, c, "old")
  BY <1>1, <1>2, <1>8, OneField, Zenon
<1>10. QED
  BY <1>1, <1>6, <1>7, <1>9 DEF c

\* The values that are kept have no negative where there is a range, and the bot's are in it.
LEMMA AnswersInRange ==
    ASSUME NEW class \in Classes, NEW value \in BotKeeps(class)
    PROVE  /\ value \in SettingValues \ {"old"}
           /\ Ranged(class) => value # "negative" /\ InRange(class, value)
           /\ class \notin {"flag", "dialog", "choice", "role"}
<1>1. BotKeeps(class) \in {{}, {"new"}, {"new", "empty"}, {"negative", "small"},
                           {"zero", "small"}, {"small"}}
  BY Zenon DEF BotKeeps, Classes
<1>2. class \in {"flag", "dialog", "choice", "role"} => BotKeeps(class) = {}
  BY Zenon DEF BotKeeps
<1>3. class \in {"threshold", "percent", "hours"} => BotKeeps(class) = {"zero", "small"}
  BY Zenon DEF BotKeeps
<1>4. class \in {"share", "floor"} => BotKeeps(class) = {"small"}
  BY Zenon DEF BotKeeps
<1>5. QED
  BY <1>1, <1>2, <1>3, <1>4 DEF SettingValues, Ranged, InRange

LEMMA WebInRange ==
    ASSUME NEW p \in Pages, NEW form \in DOMAIN Forms(p), NEW value \in WebKeeps(p, form)
    PROVE  /\ value \in SettingValues \ {"old"}
           /\ OneRow(p) /\ Ranged(Class(p, form)) => value # "negative"
<1>1. CASE OneRow(p)
  <2>1. value \in WebKeepsGateway(Class(p, form))
    BY <1>1 DEF WebKeeps
  <2>2. WebKeepsGateway(Class(p, form)) \in {{"off", "on"}, {"zero", "large"}, {"new"}}
    BY Zenon DEF WebKeepsGateway
  <2>3. QED
    BY <2>1, <2>2 DEF SettingValues
<1>2. CASE ~OneRow(p)
  <2>1. value \in WebKeepsRow(Class(p, form))
    BY <1>2 DEF WebKeeps
  <2>2. WebKeepsRow(Class(p, form)) \in {{"off", "on"}, {"negative", "large"}, {"zero"},
                                         {"new", "empty"}, {"new"}, {}}
    BY Zenon DEF WebKeepsRow
  <2>3. QED
    BY <1>2, <2>1, <2>2 DEF SettingValues
<1>3. QED
  BY <1>1, <1>2

\* The first row of a page.
LEMMA FirstPage ==
    ASSUME NEW p \in Pages
    PROVE  InitialRow(p) \in PageStates(p) /\ \A f \in RangedFields(p) : InitialRow(p)[f] = "small"
<1>1. \A class \in Classes : Initially(class) \in {"off", "small", "old"}
  BY Zenon DEF Initially
<1>2. \A class \in Classes : Ranged(class) => Initially(class) = "small"
  BY Zenon DEF Initially, Ranged
<1>3. \A form \in DOMAIN Forms(p) : Class(p, form) \in Classes
  BY PageKnown
<1>4. InitialRow(p) \in [Fields(p) -> SettingValues]
  BY <1>1, <1>3 DEF InitialRow, SettingValues
<1>5. \A f \in RangedFields(p) : InitialRow(p)[f] = "small"
  BY <1>2, <1>3 DEF InitialRow, RangedFields
<1>6. QED
  BY <1>4, <1>5 DEF PageStates

-----------------------------------------------------------------------------
LEMMA SettingsStart == SettingsInit => SettingsInv
<1> SUFFICES ASSUME SettingsInit PROVE SettingsInv
  OBVIOUS
<1>1. /\ page \in Pages /\ row \in PageStates(page) /\ objs = <<row>> /\ meant = row
      /\ \A f \in RangedFields(page) : row[f] = "small"
  BY FirstPage DEF SettingsInit
<1>2. SettingTables
  <2>1. row \in [Fields(page) -> SettingValues]
    BY <1>1 DEF PageStates
  <2>2. objs \in Seq(PageStates(page)) /\ Len(objs) = 1
    BY <1>1
  <2>3. by \in [Fields(page) -> {"none", "bot", "web"}]
    BY DEF SettingsInit
  <2>4. QED
    <3>1. DOMAIN ed = Editors /\ DOMAIN rd = Readers
      BY DEF SettingsInit
    <3>2. flag \in BOOLEAN /\ risky \in BOOLEAN /\ missed \in BOOLEAN
      BY DEF SettingsInit
    <3>3. QED
      BY <1>1, <2>1, <2>2, <2>3, <3>1, <3>2 DEF SettingTables
<1>3. RowInRange
  BY <1>1 DEF RowInRange, InRange
<1>4. ASSUME NEW e \in Editors
      PROVE  EditorOK(e) /\ SendingOK(e) /\ ~Sends(e)
  <2>1. ed[e] = NoEdit
    BY DEF SettingsInit
  <2>5. NoEdit.pc = "idle" /\ NoEdit.who = "bot" /\ NoEdit.obj = 0 /\ IsEdit(NoEdit)
    BY DEF NoEdit, IsEdit
  <2>2. ~Sends(e)
    BY <2>1, <2>5 DEF Sends
  <2>3. EditorOK(e)
    BY <2>1, <2>5 DEF EditorOK
  <2>4. QED
    BY <2>2, <2>3 DEF SendingOK
<1>5. \A r \in Readers : ReaderOK(r)
  BY DEF SettingsInit, ReaderOK, NoReload
<1>6. Agreed
  BY <1>1, <1>4 DEF Agreed
<1>7. QED
  BY <1>2, <1>3, <1>4, <1>5, <1>6 DEF SettingsInv

\* An editor who does nothing.
LEMMA Stays ==
    ASSUME SettingsInv, page' = page, NEW d \in Editors, ed'[d] = ed[d],
           ed[d].obj = 0 \/ DOMAIN objs \subseteq DOMAIN objs'
    PROVE  /\ EditorOK(d)' /\ SendingOK(d)' /\ Edited(d)' = Edited(d) /\ Sends(d)' = Sends(d)
<1>1. EditorOK(d) /\ SendingOK(d)
  BY DEF SettingsInv
<1>2. Edited(d)' = Edited(d) /\ Sends(d)' = Sends(d)
  BY DEF Edited, Sends
<1>3. EditorOK(d)'
  BY <1>1 DEF EditorOK, IsEdit
<1>4. WholeOK(d) => WholeOK(d)'
  BY <1>2 DEF WholeOK
<1>5. FieldsOK(d) => FieldsOK(d)'
  BY <1>2 DEF FieldsOK
<1>6. SendingOK(d)'
  BY <1>1, <1>2, <1>4, <1>5 DEF SendingOK
<1>7. QED
  BY <1>2, <1>3, <1>6

\* A step that leaves the row alone, and what was meant, and sends nothing new.
LEMMA QuietStep ==
    ASSUME SettingsInv, UNCHANGED <<page, row, meant, by>>,
           flag' \in BOOLEAN, risky' \in BOOLEAN, missed' \in BOOLEAN, risky => risky',
           objs' \in Seq(PageStates(page)), DOMAIN objs \subseteq DOMAIN objs',
           DOMAIN ed' = Editors, DOMAIN rd' = Readers, \A r \in Readers : ReaderOK(r)',
           \A d \in Editors : \/ ed'[d] = ed[d]
                              \/ /\ EditorOK(d)' /\ ~Sends(d)'
                                 /\ Sends(d) /\ ~risky' => row = meant
    PROVE  SettingsInv'
<1>1. SettingTables'
  <2>1. Len(objs) \in Nat /\ Len(objs') \in Nat /\ DOMAIN objs = 1 .. Len(objs)
        /\ DOMAIN objs' = 1 .. Len(objs') /\ Len(objs) > 0
    BY DEF SettingsInv, SettingTables
  <2>2. Len(objs') > 0
    BY <2>1
  <2>3. QED
    BY <2>2 DEF SettingsInv, SettingTables
<1>2. RowInRange'
  BY DEF SettingsInv, RowInRange
<1>3. ASSUME NEW d \in Editors
      PROVE  EditorOK(d)' /\ SendingOK(d)'
  <2>1. CASE ed'[d] = ed[d]
    BY <2>1, Stays
  <2>2. CASE EditorOK(d)' /\ ~Sends(d)'
    BY <2>2 DEF SendingOK
  <2>3. QED
    BY <2>1, <2>2
<1>4. ASSUME ~risky'
      PROVE  Agreed'
  <2>1. Agreed
    BY <1>4 DEF SettingsInv
  <2>2. \A d \in Editors : Sends(d)' => Sends(d) /\ ed'[d] = ed[d] /\ Edited(d)' = Edited(d)
    BY Stays
  <2>3. OneRow(page) \/ page \in BotTexts \/ (\A d \in Editors : ~Sends(d)') => row = meant
    <3>1. CASE OneRow(page) \/ page \in BotTexts \/ \A d \in Editors : ~Sends(d)
      BY <2>1, <3>1 DEF Agreed
    <3>2. CASE \E d \in Editors : Sends(d) /\ ~Sends(d)'
      <4>1. PICK d \in Editors : Sends(d) /\ ~Sends(d)'
        BY <3>2
      <4>2. ed'[d] # ed[d]
        BY <4>1, Stays
      <4>3. QED
        BY <1>4, <4>1, <4>2
    <3>3. QED
      BY <3>1, <3>2
  <2>4. \A d \in Editors : Sends(d)' => (WholeAgrees(d) => WholeAgrees(d)')
    BY <2>2 DEF WholeAgrees
  <2>5. \A d \in Editors : Sends(d)' => (FieldsAgree(d) => FieldsAgree(d)')
    BY <2>2 DEF FieldsAgree
  <2>6. QED
    BY <2>1, <2>2, <2>3, <2>4, <2>5 DEF Agreed
<1>5. QED
  BY <1>1, <1>2, <1>3, <1>4 DEF SettingsInv

-----------------------------------------------------------------------------
\* An editor's entry in the bot: what he chose, as a sheet, with the object he holds.
Entry(e, form, value, obj, order, changes) ==
    /\ e \in Editors /\ ed[e].pc \in {"idle", "asked", "trying"}
    /\ form \in DOMAIN Forms(page) /\ obj \in DOMAIN objs
    /\ Sheet(page, form, order, changes, value)
    /\ Ranged(Class(page, form)) => value # "negative" /\ InRange(Class(page, form), value)
    /\ IF value = "old" THEN ToSet(order) = {form}
       ELSE OneRow(page) => ToSet(order) = ToSet(Assigned(page, form))

\* What an entry makes of the object and of the editor.
EntryBuf(obj, changes) == IF OneRow(page) THEN Updated(objs[obj], changes) ELSE changes
EntryTodo(order) ==
    IF OneRow(page) THEN <<Fields(page)>> ELSE [i \in DOMAIN order |-> {order[i]}]
Entered(e, form, value, obj, order, changes) ==
    [pc |-> "writing", who |-> "bot", form |-> form, value |-> value, obj |-> obj,
     shown |-> ed[e].shown, buf |-> EntryBuf(obj, changes), todo |-> EntryTodo(order)]

\* The record of an edit with most of its fields set.
Written(x, form, value, obj, buf, todo) ==
    [x EXCEPT !.pc = "writing", !.form = form, !.value = value, !.obj = obj, !.buf = buf,
              !.todo = todo]
Writing(x, form, value, obj, buf, todo) ==
    [pc |-> "writing", who |-> x.who, form |-> form, value |-> value, obj |-> obj,
     shown |-> x.shown, buf |-> buf, todo |-> todo]

LEMMA Writes ==
    ASSUME NEW x, IsEdit(x), NEW form, NEW value, NEW obj, NEW buf, NEW todo
    PROVE  Written(x, form, value, obj, buf, todo) = Writing(x, form, value, obj, buf, todo)
<1> DEFINE D == {"pc", "who", "form", "value", "obj", "shown", "buf", "todo"}
           y == [x EXCEPT !.pc = "writing", !.form = form, !.value = value, !.obj = obj,
                     !.buf = buf, !.todo = todo]
<1>1. DOMAIN x = D /\ x = [f \in D |-> x[f]]
  BY DEF IsEdit
<1>2. DOMAIN y = D /\ y = [f \in D |-> y[f]]
  BY <1>1
<1>3. /\ y.pc = "writing" /\ y.who = x.who /\ y.form = form /\ y.value = value /\ y.obj = obj
      /\ y.shown = x.shown /\ y.buf = buf /\ y.todo = todo
  BY <1>1
<1> HIDE DEF y
<1> DEFINE z == [pc |-> "writing", who |-> x.who, form |-> form, value |-> value, obj |-> obj,
                 shown |-> x.shown, buf |-> buf, todo |-> todo]
<1>4. /\ DOMAIN z = D /\ z = [f \in D |-> z[f]]
      /\ z.pc = "writing" /\ z.who = x.who /\ z.form = form /\ z.value = value /\ z.obj = obj
      /\ z.shown = x.shown /\ z.buf = buf /\ z.todo = todo
  OBVIOUS
<1> HIDE DEF z
<1>5. \A f \in D : y[f] = z[f]
  BY <1>3, <1>4
<1> HIDE DEF D
<1>6. y = z
  BY <1>2, <1>4, <1>5
<1>7. QED
  BY <1>6 DEF y, z, Written, Writing

LEMMA TakeIs ==
    ASSUME SettingsInv, NEW e, NEW form, NEW value, NEW obj, NEW order, NEW changes,
           Entry(e, form, value, obj, order, changes), Take(e, form, value, obj, order, changes)
    PROVE  /\ ed' = [ed EXCEPT ![e] = Entered(e, form, value, obj, order, changes)]
           /\ ed'[e] = Entered(e, form, value, obj, order, changes)
           /\ \A d \in Editors \ {e} : ed'[d] = ed[d]
           /\ UNCHANGED <<page, row, flag, rd, meant, by, missed>>
           /\ risky' = (risky \/ Underway(e) \/ (OneRow(page) /\ objs[obj] # row))
           /\ objs' = IF OneRow(page) THEN [objs EXCEPT ![obj] = Updated(objs[obj], changes)]
                      ELSE objs
<1> DEFINE buf == EntryBuf(obj, changes)
           todo == EntryTodo(order)
<1>1. IsEdit(ed[e]) /\ ed[e].who = "bot" /\ e \in Editors /\ DOMAIN ed = Editors
  BY DEF SettingsInv, SettingTables, EditorOK, Entry
<1>2. ed' = [ed EXCEPT ![e] = Written(ed[e], form, value, obj, buf, todo)]
  BY DEF Take, EntryBuf, EntryTodo, Written
<1>3. Written(ed[e], form, value, obj, buf, todo) = Writing(ed[e], form, value, obj, buf, todo)
  <2> HIDE DEF buf, todo
  <2>1. QED
    BY <1>1, Writes
<1>4. ed' = [ed EXCEPT ![e] = Entered(e, form, value, obj, order, changes)]
  BY <1>1, <1>2, <1>3 DEF Entered, Writing
<1>5. /\ ed'[e] = Entered(e, form, value, obj, order, changes)
      /\ \A d \in Editors \ {e} : ed'[d] = ed[d]
  BY <1>1, <1>4
<1>6. QED
  BY <1>4, <1>5 DEF Take

\* A page's object with a sheet's changes: complete, and the other fields are as they were.
LEMMA UpdatedIs ==
    ASSUME NEW p \in Pages, p = page, NEW old \in PageStates(p), NEW form, NEW order, NEW changes,
           NEW value, Sheet(p, form, order, changes, value),
           OneRow(p) /\ Ranged(Class(p, form)) => value # "negative"
    PROVE  /\ Updated(old, changes) \in PageStates(p)
           /\ DOMAIN Updated(old, changes) = Fields(p)
           /\ \A f \in Fields(p) \ ToSet(order) : Updated(old, changes)[f] = old[f]
           /\ \A f \in ToSet(order) : Updated(old, changes)[f] = changes[f]
           /\ ToSet(order) \subseteq Fields(p) /\ DOMAIN changes = ToSet(order)
<1> DEFINE new == Updated(old, changes)
<1>1. ToSet(order) \subseteq Fields(p)
  <2>1. order \in Seq(Fields(p))
    BY DEF Sheet
  <2>2. QED
    BY <2>1 DEF ToSet
<1>2. changes \in [ToSet(order) -> SettingValues]
  BY DEF Sheet
<1>3. old \in [Fields(p) -> SettingValues]
  BY DEF PageStates
<1>4. new = [f \in Fields(p) |-> IF f \in ToSet(order) THEN changes[f] ELSE old[f]]
  BY <1>2, <1>3 DEF Updated
<1>5. new \in [Fields(p) -> SettingValues]
  BY <1>2, <1>3, <1>4
<1>6. OneRow(p) => \A f \in RangedFields(p) : new[f] # "negative"
  <2>1. OneRow(p) => \A f \in RangedFields(p) : old[f] # "negative"
    BY DEF PageStates
  <2>2. RangedFields(p) \subseteq Fields(p)
    BY DEF RangedFields
  <2>3. \A f \in ToSet(order) \cap RangedFields(p) : form = f /\ changes[f] = value
    BY DEF Sheet
  <2>4. \A f \in RangedFields(p) : Ranged(Class(p, f))
    BY DEF RangedFields
  <2>5. QED
    BY <1>4, <2>1, <2>2, <2>3, <2>4
<1>7. new \in PageStates(p)
  BY <1>5, <1>6 DEF PageStates
<1>8. QED
  BY <1>1, <1>2, <1>4, <1>7

\* The rows that a sheet fills, one after the other.
RowsOf(order) == [i \in DOMAIN order |-> {order[i]}]

LEMMA SheetTodo ==
    ASSUME NEW p \in Pages, NEW form, NEW order, NEW changes, NEW value,
           Sheet(p, form, order, changes, value),
           NEW todo, todo = RowsOf(order)
    PROVE  /\ todo \in Seq(SUBSET ToSet(order)) /\ todo # <<>>
           /\ IsFiniteSet(ToSet(order)) /\ Len(todo) =< Cardinality(ToSet(order))
           /\ p \in BotTexts => todo = <<ToSet(order)>>
           /\ \A f \in ToSet(order) \cap RangedFields(p) : todo = <<{f}>>
           /\ \A f \in ToSet(order) : \E i \in DOMAIN todo : f \in todo[i]
<1> DEFINE E == ToSet(order)
<1>1. /\ order \in Seq(Fields(p)) /\ order # <<>> /\ IsFiniteSet(E)
      /\ Len(order) =< Cardinality(E) /\ (p \in BotTexts => Len(order) = 1)
      /\ \A f \in E \cap RangedFields(p) : order = <<f>>
  BY DEF Sheet
<1>2. Len(order) \in Nat /\ DOMAIN order = 1 .. Len(order) /\ Len(order) > 0
  BY <1>1
<1>3. todo \in Seq(SUBSET E) /\ Len(todo) = Len(order) /\ todo # <<>>
  <2>1. \A i \in 1 .. Len(order) : {order[i]} \in SUBSET E
    BY <1>2 DEF ToSet
  <2>2. todo = [i \in 1 .. Len(order) |-> {order[i]}]
    BY <1>2 DEF RowsOf
  <2>3. QED
    BY <1>2, <2>1, <2>2, IsASeq
<1>4. ASSUME NEW f \in E \cap RangedFields(p)
      PROVE  todo = <<{f}>>
  <2>1. order = <<f>>
    BY <1>1
  <2>2. QED
    BY <2>1 DEF RowsOf
<1>5. ASSUME p \in BotTexts
      PROVE  todo = <<E>>
  <2>1. Len(order) = 1 /\ DOMAIN order = 1 .. 1
    BY <1>1, <1>2, <1>5
  <2>2. E = {order[1]}
    BY <2>1 DEF ToSet
  <2>3. Len(todo) = 1 /\ todo[1] = {order[1]}
    BY <1>3, <2>1 DEF RowsOf
  <2>4. QED
    BY <1>3, <2>2, <2>3
<1>6. \A f \in E : \E i \in DOMAIN todo : f \in todo[i]
  BY DEF ToSet, RowsOf
<1>7. QED
  BY <1>1, <1>3, <1>4, <1>5, <1>6

\* The object stays complete, and keeps the fields that were not entered.
LEMMA EntryIs ==
    ASSUME SettingsInv, NEW e, NEW form, NEW value, NEW obj, NEW order, NEW changes,
           Entry(e, form, value, obj, order, changes)
    PROVE  /\ ToSet(order) \subseteq Fields(page) /\ DOMAIN changes = ToSet(order)
           /\ objs[obj] \in PageStates(page)
           /\ Updated(objs[obj], changes) \in PageStates(page)
           /\ \A f \in Fields(page) \ ToSet(order) :
                 Updated(objs[obj], changes)[f] = objs[obj][f]
           /\ \A f \in ToSet(order) : Updated(objs[obj], changes)[f] = changes[f]
           /\ \A f \in ToSet(order) \cap RangedFields(page) :
                 order = <<f>> /\ InRange(Class(page, f), changes[f]) /\ changes[f] # "negative"
<1>1. /\ page \in Pages /\ objs[obj] \in PageStates(page)
      /\ Sheet(page, form, order, changes, value)
      /\ Ranged(Class(page, form)) => value # "negative"
  BY DEF Entry, SettingsInv, SettingTables
<1>2. /\ Updated(objs[obj], changes) \in PageStates(page)
      /\ \A f \in Fields(page) \ ToSet(order) : Updated(objs[obj], changes)[f] = objs[obj][f]
      /\ \A f \in ToSet(order) : Updated(objs[obj], changes)[f] = changes[f]
      /\ ToSet(order) \subseteq Fields(page) /\ DOMAIN changes = ToSet(order)
  BY <1>1, UpdatedIs
<1>3. \A f \in ToSet(order) \cap RangedFields(page) :
         order = <<f>> /\ InRange(Class(page, f), changes[f]) /\ changes[f] # "negative"
  BY DEF Entry, Sheet, RangedFields
<1>4. QED
  BY <1>1, <1>2, <1>3

LEMMA TakeSends ==
    ASSUME SettingsInv, NEW e, NEW form, NEW value, NEW obj, NEW order, NEW changes,
           Entry(e, form, value, obj, order, changes), Take(e, form, value, obj, order, changes)
    PROVE  /\ Edited(e)' = ToSet(order) /\ Sends(e)'
           /\ DOMAIN objs' = DOMAIN objs /\ Len(objs') = Len(objs)
           /\ objs' \in Seq(PageStates(page))
           /\ EditorOK(e)' /\ SendingOK(e)'
<1> DEFINE y == Entered(e, form, value, obj, order, changes)
           E == ToSet(order)
<1>1. /\ ed'[e] = y /\ page' = page
      /\ y.pc = "writing" /\ y.who = "bot" /\ y.form = form /\ y.value = value /\ y.obj = obj
      /\ y.buf = EntryBuf(obj, changes) /\ y.todo = EntryTodo(order) /\ IsEdit(y)
  BY TakeIs DEF Entered, IsEdit
<1>2. /\ E \subseteq Fields(page) /\ DOMAIN changes = E
      /\ Updated(objs[obj], changes) \in PageStates(page)
      /\ \A f \in E : Updated(objs[obj], changes)[f] = changes[f]
      /\ \A f \in E \cap RangedFields(page) : order = <<f>> /\ InRange(Class(page, f), changes[f])
  BY EntryIs
<1>3. Edited(e)' = E /\ Sends(e)'
  <2>1. CASE value = "old"
    BY <1>1, <2>1 DEF Edited, Sends, Entry
  <2>2. CASE value # "old" /\ OneRow(page)
    BY <1>1, <2>2 DEF Edited, Sends, Entry
  <2>3. CASE value # "old" /\ ~OneRow(page)
    BY <1>1, <1>2, <2>3 DEF Edited, Sends, EntryBuf
  <2>4. QED
    BY <2>1, <2>2, <2>3
<1>4. /\ DOMAIN objs' = DOMAIN objs /\ Len(objs') = Len(objs)
      /\ objs' \in Seq(PageStates(page))
  <2>1. objs \in Seq(PageStates(page)) /\ obj \in DOMAIN objs
    BY DEF SettingsInv, SettingTables, Entry
  <2>2. CASE OneRow(page)
    <3> DEFINE new == Updated(objs[obj], changes)
    <3>1. objs' = [objs EXCEPT ![obj] = new] /\ new \in PageStates(page)
      BY <1>2, <2>2, TakeIs
    <3> HIDE DEF new
    <3>2. obj \in 1 .. Len(objs)
      BY <2>1
    <3>3. QED
      BY <2>1, <3>1, <3>2, ExceptSeq
  <2>3. CASE ~OneRow(page)
    BY <2>1, <2>3, TakeIs
  <2>4. QED
    BY <2>2, <2>3
<1>5. EditorOK(e)'
  BY <1>1, <1>4 DEF EditorOK, Entry
<1>6. ASSUME OneRow(page)
      PROVE  WholeOK(e)'
  BY <1>1, <1>2, <1>3, <1>6 DEF WholeOK, EntryBuf, EntryTodo
<1>7. ASSUME ~OneRow(page)
      PROVE  FieldsOK(e)'
  <2>1. y.buf = changes /\ y.todo = RowsOf(order)
    BY <1>1, <1>7 DEF EntryBuf, EntryTodo, RowsOf
  <2>2. page \in Pages /\ Sheet(page, form, order, changes, value)
    BY DEF Entry, SettingsInv, SettingTables
  <2>3. changes \in [E -> SettingValues]
    BY <2>2 DEF Sheet
  <2> HIDE DEF y
  <2>4. /\ y.todo \in Seq(SUBSET E) /\ y.todo # <<>>
        /\ IsFiniteSet(E) /\ Len(y.todo) =< Cardinality(E)
        /\ page \in BotTexts => y.todo = <<E>>
        /\ \A f \in E \cap RangedFields(page) : y.todo = <<{f}>>
    BY <2>1, <2>2, SheetTodo
  <2>5. QED
    BY <1>1, <1>2, <1>3, <2>1, <2>3, <2>4 DEF FieldsOK
<1>8. SendingOK(e)'
  BY <1>1, <1>2, <1>3, <1>6, <1>7 DEF SendingOK
<1>9. QED
  BY <1>3, <1>4, <1>5, <1>8

LEMMA TakeKeeps ==
    ASSUME SettingsInv, NEW e, NEW form, NEW value, NEW obj, NEW order, NEW changes,
           Entry(e, form, value, obj, order, changes), Take(e, form, value, obj, order, changes)
    PROVE  SettingsInv'
<1>1. /\ UNCHANGED <<page, row, flag, rd, meant, by, missed>>
      /\ risky' = (risky \/ Underway(e) \/ (OneRow(page) /\ objs[obj] # row))
      /\ \A d \in Editors \ {e} : ed'[d] = ed[d]
      /\ ed'[e] = Entered(e, form, value, obj, order, changes)
  BY TakeIs
<1>2. /\ Edited(e)' = ToSet(order) /\ Sends(e)'
      /\ DOMAIN objs' = DOMAIN objs /\ Len(objs') = Len(objs)
      /\ objs' \in Seq(PageStates(page)) /\ EditorOK(e)' /\ SendingOK(e)'
  BY TakeSends
<1>3. SettingTables /\ risky \in BOOLEAN /\ e \in Editors
  BY DEF SettingsInv, SettingTables, Entry
<1>4. SettingTables'
  <2>1. DOMAIN ed' = Editors
    BY <1>3, TakeIs DEF SettingTables
  <2>2. risky' \in BOOLEAN
    BY <1>1, <1>3 DEF Underway
  <2>3. QED
    BY <1>1, <1>2, <1>3, <2>1, <2>2 DEF SettingTables
<1>5. RowInRange'
  BY <1>1 DEF SettingsInv, RowInRange
<1>6. \A d \in Editors \ {e} : EditorOK(d)' /\ SendingOK(d)' /\ Sends(d)' = Sends(d)
  BY <1>1, <1>2, Stays
<1>7. \A r \in Readers : ReaderOK(r)'
  BY <1>1 DEF SettingsInv, ReaderOK
<1>8. ASSUME ~risky'
      PROVE  Agreed'
  <2>1. ~risky /\ ~Underway(e) /\ (OneRow(page) => objs[obj] = row)
    BY <1>1, <1>8
  <2>2. \A d \in Editors : ~Sends(d)
    BY <2>1 DEF Underway, Sends, Entry
  <2>3. row = meant
    BY <2>1, <2>2 DEF SettingsInv, Agreed
  <2>4. \A d \in Editors : Sends(d)' => d = e
    BY <1>6, <2>2
  <2>5. ASSUME OneRow(page)
        PROVE  WholeAgrees(e)'
    <3>1. ed'[e].pc = "writing" /\ ed'[e].buf = Updated(objs[obj], changes)
      BY <1>1, <2>5 DEF Entered, EntryBuf
    <3>2. \A f \in Fields(page) \ ToSet(order) : Updated(objs[obj], changes)[f] = objs[obj][f]
      BY EntryIs
    <3>3. QED
      BY <1>1, <1>2, <2>1, <2>5, <3>1, <3>2 DEF WholeAgrees
  <2>6. ASSUME ~OneRow(page)
        PROVE  FieldsAgree(e)'
    <3>1. ed'[e].todo = [i \in DOMAIN order |-> {order[i]}]
      BY <1>1, <2>6 DEF Entered, EntryTodo
    <3>2. \A f \in ToSet(order) : \E i \in DOMAIN ed'[e].todo : f \in ed'[e].todo[i]
      BY <3>1 DEF ToSet
    <3>3. QED
      BY <1>1, <1>2, <2>3, <3>2 DEF FieldsAgree
  <2>7. QED
    BY <1>1, <2>3, <2>4, <2>5, <2>6 DEF Agreed
<1>9. QED
  BY <1>2, <1>3, <1>4, <1>5, <1>6, <1>7, <1>8 DEF SettingsInv

\* What is entered in a form, if its class lets it.
LEMMA FormEntry ==
    ASSUME SettingsInv, NEW e \in Editors, ed[e].pc \in {"idle", "asked", "trying"},
           NEW form \in DOMAIN Forms(page), NEW obj \in DOMAIN objs,
           NEW value \in SettingValues \ {"old"},
           Ranged(Class(page, form)) =>
              value # "negative" /\ InRange(Class(page, form), value)
    PROVE  Entry(e, form, value, obj, Order(page, form, value), Changes(page, form, value))
<1>1. page \in Pages
  BY DEF SettingsInv, SettingTables
<1> DEFINE order == Order(page, form, value)
           changes == Changes(page, form, value)
<1>7. value \in SettingValues /\ value # "old"
  OBVIOUS
<1>2. Sheet(page, form, order, changes, value)
  BY <1>1, <1>7, ChangesSheet
<1>3. ASSUME OneRow(page)
      PROVE  ToSet(order) = ToSet(Assigned(page, form))
  <2>1. page # "access"
    BY <1>3 DEF OneRow, Gateways, TextPages
  <2>2. form # "access_only"
    BY <1>1, <2>1, PageKnown
  <2>3. QED
    BY <2>2 DEF Order
<1> HIDE DEF order, changes
<1>4. InRange(Class(page, form), value)
  BY DEF Ranged, InRange
<1>5. Entry(e, form, value, obj, order, changes)
  BY <1>2, <1>3, <1>4 DEF Entry
<1>6. QED
  BY <1>5 DEF order, changes

LEMMA LastObject ==
    SettingsInv => /\ page \in Pages /\ Len(objs) \in DOMAIN objs /\ Len(objs) # 0
                   /\ DOMAIN objs = 1 .. Len(objs) /\ Len(objs) \in Nat
                   /\ \A i \in DOMAIN objs : objs[i] \in PageStates(page)
                   /\ Current \in PageStates(page)
<1> SUFFICES ASSUME SettingsInv
             PROVE  /\ page \in Pages /\ Len(objs) \in DOMAIN objs /\ Len(objs) # 0
                    /\ DOMAIN objs = 1 .. Len(objs) /\ Len(objs) \in Nat
                    /\ \A i \in DOMAIN objs : objs[i] \in PageStates(page)
                    /\ Current \in PageStates(page)
  OBVIOUS
<1>1. page \in Pages /\ objs \in Seq(PageStates(page)) /\ Len(objs) > 0
  BY DEF SettingsInv, SettingTables
<1>2. /\ Len(objs) \in DOMAIN objs /\ Len(objs) # 0 /\ Len(objs) \in Nat
      /\ DOMAIN objs = 1 .. Len(objs)
  BY <1>1
<1>3. \A i \in DOMAIN objs : objs[i] \in PageStates(page)
  BY <1>1
<1>4. QED
  BY <1>1, <1>2, <1>3 DEF Current

\* The bot takes values from an editor: the choices that his form admits, and the dialog's flip.
BotTakes(e) ==
    \E form \in DOMAIN Forms(page), value \in SettingValues \ {"old"}, obj \in DOMAIN objs :
       /\ Entry(e, form, value, obj, Order(page, form, value), Changes(page, form, value))
       /\ TakeForm(e, form, value, obj)
       /\ Class(page, form) = "dialog" => value = Flipped(Current[form])

LEMMA PressTakes ==
    ASSUME SettingsInv, NEW e \in Editors, NEW form \in DOMAIN Forms(page), Press(e, form)
    PROVE  BotTakes(e)
<1> DEFINE value == IF Class(page, form) = "flag" THEN Flipped(Current[Assigned(page, form)[1]])
                    ELSE "new"
<1>1. ed[e].pc = "idle" /\ Presses(Class(page, form)) /\ TakeForm(e, form, value, Len(objs))
  BY DEF Press
<1>2. value \in SettingValues \ {"old"}
  BY DEF SettingValues, Flipped
<1> HIDE DEF value
<1>3. ~Ranged(Class(page, form)) /\ Class(page, form) # "dialog"
  BY <1>1 DEF Presses, Ranged
<1>4. Len(objs) \in DOMAIN objs
  BY LastObject
<1>5. Entry(e, form, value, Len(objs), Order(page, form, value), Changes(page, form, value))
  BY <1>1, <1>2, <1>3, <1>4, FormEntry
<1>6. QED
  BY <1>1, <1>2, <1>3, <1>4, <1>5 DEF BotTakes

\* An editor whose form is open.
LEMMA OpenEditor ==
    ASSUME SettingsInv, NEW e \in Editors, ed[e].pc \notin {"idle", "done"}
    PROVE  ed[e].form \in DOMAIN Forms(page) /\ Class(page, ed[e].form) \in Classes
<1>1. ed[e].form \in DOMAIN Forms(page) /\ page \in Pages
  BY DEF SettingsInv, SettingTables, EditorOK
<1>2. QED
  BY <1>1, PageKnown

LEMMA ConfirmTakes ==
    ASSUME SettingsInv, NEW e \in Editors, Confirm(e)
    PROVE  BotTakes(e)
<1> DEFINE form == ed[e].form
           value == Flipped(Current[form])
<1>1. /\ ed[e].pc = "asked" /\ Class(page, form) = "dialog"
      /\ TakeForm(e, form, value, Len(objs))
  BY DEF Confirm
<1>2. value \in SettingValues \ {"old"} /\ form \in DOMAIN Forms(page)
  BY <1>1, OpenEditor DEF SettingValues, Flipped
<1>3. ~Ranged(Class(page, form)) /\ Len(objs) \in DOMAIN objs
  BY <1>1, LastObject DEF Ranged
<1>4. Entry(e, form, value, Len(objs), Order(page, form, value), Changes(page, form, value))
  <2> HIDE DEF form, value
  <2>1. QED
    BY <1>1, <1>2, <1>3, FormEntry
<1>5. value = Flipped(Current[form])
  OBVIOUS
<1> HIDE DEF form, value
<1>6. QED
  BY <1>1, <1>2, <1>3, <1>4, <1>5 DEF BotTakes

\* An answer that the form's class keeps.
LEMMA KeptTakes ==
    ASSUME SettingsInv, NEW e \in Editors, ed[e].pc \in {"asked", "trying"},
           NEW value \in BotKeeps(Class(page, ed[e].form)), NEW obj \in DOMAIN objs,
           TakeForm(e, ed[e].form, value, obj)
    PROVE  BotTakes(e)
<1> DEFINE form == ed[e].form
<1>1. form \in DOMAIN Forms(page) /\ Class(page, form) \in Classes
  BY OpenEditor
<1>2. /\ value \in SettingValues \ {"old"} /\ Class(page, form) # "dialog"
      /\ Ranged(Class(page, form)) => value # "negative" /\ InRange(Class(page, form), value)
  BY <1>1, AnswersInRange
<1>3. TakeForm(e, form, value, obj)
  OBVIOUS
<1> HIDE DEF form
<1>4. Entry(e, form, value, obj, Order(page, form, value), Changes(page, form, value))
  BY <1>1, <1>2, FormEntry
<1>5. QED
  BY <1>1, <1>2, <1>3, <1>4 DEF BotTakes

LEMMA AnswerTakes ==
    ASSUME SettingsInv, NEW e \in Editors, Answer(e)
    PROVE  BotTakes(e)
<1>1. PICK value \in BotKeeps(Class(page, ed[e].form)) :
         ed[e].pc = "asked" /\ TakeForm(e, ed[e].form, value, Len(objs))
  BY DEF Answer
<1>2. Len(objs) \in DOMAIN objs
  BY LastObject
<1>3. QED
  BY <1>1, <1>2, KeptTakes

LEMMA KeepTriedTakes ==
    ASSUME SettingsInv, NEW e \in Editors, KeepTried(e)
    PROVE  BotTakes(e)
<1>1. ed[e].pc = "trying" /\ TakeForm(e, ed[e].form, ed[e].value, ed[e].obj)
  BY DEF KeepTried
<1>2. ed[e].value \in BotKeeps(Class(page, ed[e].form)) /\ ed[e].obj \in DOMAIN objs
  BY <1>1 DEF SettingsInv, EditorOK
<1>3. QED
  BY <1>1, <1>2, KeptTakes

LEMMA ResetEntry ==
    ASSUME SettingsInv, NEW e \in Editors, NEW form \in DOMAIN Forms(page), ResetText(e, form)
    PROVE  /\ Entry(e, form, "old", Len(objs), <<form>>, [f \in {form} |-> "old"])
           /\ Take(e, form, "old", Len(objs), <<form>>, [f \in {form} |-> "old"])
           /\ ToSet(<<form>>) \subseteq ToSet(Purpose(page, form))
           /\ Class(page, form) # "dialog"
<1>1. /\ ed[e].pc = "idle" /\ Class(page, form) = "text"
      /\ Take(e, form, "old", Len(objs), <<form>>, [f \in {form} |-> "old"])
  BY DEF ResetText
<1>2. page \in Pages /\ Len(objs) \in DOMAIN objs
  BY LastObject
<1>3. /\ Sheet(page, form, <<form>>, [f \in {form} |-> "old"], "old")
      /\ ToSet(<<form>>) = {form}
      /\ ToSet(<<form>>) \subseteq ToSet(Purpose(page, form))
  BY <1>1, <1>2, ResetSheet
<1>4. ~Ranged(Class(page, form)) /\ InRange(Class(page, form), "old")
  BY <1>1 DEF Ranged, InRange
<1>5. QED
  BY <1>1, <1>2, <1>3, <1>4 DEF Entry

LEMMA BotTakesKeeps ==
    ASSUME SettingsInv, NEW e \in Editors, BotTakes(e)
    PROVE  SettingsInv'
<1>1. PICK form, value, obj :
         /\ Entry(e, form, value, obj, Order(page, form, value), Changes(page, form, value))
         /\ TakeForm(e, form, value, obj)
  BY DEF BotTakes
<1>2. QED
  BY <1>1, TakeKeeps DEF TakeForm

-----------------------------------------------------------------------------
\* Steps that enter nothing.
LEMMA OverIs == IsEdit(Over) /\ Over.pc = "done" /\ Over.who = "bot" /\ Over.obj = 0
<1> DEFINE D == {"pc", "who", "form", "value", "obj", "shown", "buf", "todo"}
<1>1. NoEdit.who = "bot" /\ NoEdit.obj = 0 /\ DOMAIN NoEdit = D
  BY DEF NoEdit
<1>2. /\ Over.pc = "done" /\ Over.who = "bot" /\ Over.obj = 0 /\ DOMAIN Over = D
      /\ Over = [f \in D |-> Over[f]]
  BY <1>1 DEF Over
<1>3. QED
  BY <1>2 DEF IsEdit

LEMMA OverOK ==
    ASSUME NEW e \in Editors, ed'[e] = Over
    PROVE  EditorOK(e)' /\ ~Sends(e)'
  BY OverIs DEF EditorOK, Sends

\* An edit with a form opened, and with an answer tried.
Opened(x, form, shown) == [x EXCEPT !.pc = "asked", !.form = form, !.shown = shown]
Tried(x, value, obj) == [x EXCEPT !.pc = "trying", !.value = value, !.obj = obj]

LEMMA OpenedIs ==
    ASSUME NEW x, IsEdit(x), NEW form, NEW shown, NEW y, y = Opened(x, form, shown)
    PROVE  /\ IsEdit(y) /\ y.pc = "asked" /\ y.form = form
           /\ y.who = x.who /\ y.obj = x.obj
<1> DEFINE D == {"pc", "who", "form", "value", "obj", "shown", "buf", "todo"}
<1>1. DOMAIN x = D /\ x = [f \in D |-> x[f]]
  BY DEF IsEdit
<1>2. DOMAIN y = D /\ y = [f \in D |-> y[f]]
  BY <1>1 DEF Opened
<1>3. IsEdit(y)
  BY <1>2 DEF IsEdit
<1>4. QED
  BY <1>1, <1>3 DEF Opened

LEMMA TriedIs ==
    ASSUME NEW x, IsEdit(x), NEW value, NEW obj, NEW y, y = Tried(x, value, obj)
    PROVE  /\ IsEdit(y) /\ y.pc = "trying" /\ y.value = value /\ y.obj = obj
           /\ y.who = x.who /\ y.form = x.form
<1> DEFINE D == {"pc", "who", "form", "value", "obj", "shown", "buf", "todo"}
<1>1. DOMAIN x = D /\ x = [f \in D |-> x[f]]
  BY DEF IsEdit
<1>2. DOMAIN y = D /\ y = [f \in D |-> y[f]]
  BY <1>1 DEF Tried
<1>3. IsEdit(y)
  BY <1>2 DEF IsEdit
<1>4. QED
  BY <1>1, <1>3 DEF Tried

LEMMA OpenFormKeeps ==
    ASSUME SettingsInv, NEW e \in Editors, NEW form \in DOMAIN Forms(page), OpenForm(e, form)
    PROVE  SettingsInv'
<1> DEFINE shown == IF form \in Fields(page) THEN Current[form] ELSE ""
<1>1. /\ ed[e].pc = "idle"
      /\ ed' = [ed EXCEPT ![e] = Opened(ed[e], form, shown)]
      /\ UNCHANGED <<page, store, rd, settingsGhosts>>
  BY DEF OpenForm, Opened
<1> HIDE DEF shown
<1>2. EditorOK(e) /\ DOMAIN ed = Editors
  BY DEF SettingsInv, SettingTables
<1>3. IsEdit(ed[e]) /\ ed[e].who = "bot" /\ ed[e].obj = 0
  BY <1>1, <1>2 DEF EditorOK
<1>4. ed'[e] = Opened(ed[e], form, shown)
  BY <1>1, <1>2
<1>5. /\ IsEdit(ed'[e]) /\ ed'[e].pc = "asked" /\ ed'[e].form = form
      /\ ed'[e].who = "bot" /\ ed'[e].obj = 0
  BY <1>3, <1>4, OpenedIs
<1>6. EditorOK(e)' /\ ~Sends(e)'
  BY <1>1, <1>5 DEF EditorOK, Sends
<1>7. ~Sends(e)
  BY <1>1 DEF Sends
<1>8. \A d \in Editors \ {e} : ed'[d] = ed[d]
  BY <1>1, <1>2
<1>9. DOMAIN ed' = Editors
  BY <1>1, <1>2
<1>10. \A r \in Readers : ReaderOK(r)'
  BY <1>1 DEF SettingsInv, ReaderOK
<1>11. QED
  BY <1>1, <1>6, <1>7, <1>8, <1>9, <1>10, QuietStep
     DEF store, settingsGhosts, SettingsInv, SettingTables

LEMMA CancelKeeps ==
    ASSUME SettingsInv, NEW e \in Editors, Cancel(e)
    PROVE  SettingsInv'
<1>1. /\ ed[e].pc = "asked" /\ ed' = [ed EXCEPT ![e] = Over]
      /\ UNCHANGED <<page, store, rd, settingsGhosts>>
  BY DEF Cancel
<1>2. DOMAIN ed = Editors
  BY DEF SettingsInv, SettingTables
<1>3. /\ DOMAIN ed' = Editors /\ ed'[e] = Over /\ \A d \in Editors \ {e} : ed'[d] = ed[d]
  BY <1>1, <1>2
<1>4. EditorOK(e)' /\ ~Sends(e)' /\ ~Sends(e)
  BY <1>1, <1>3, OverOK DEF Sends
<1>5. \A r \in Readers : ReaderOK(r)'
  BY <1>1 DEF SettingsInv, ReaderOK
<1>6. QED
  BY <1>1, <1>3, <1>4, <1>5, QuietStep DEF store, settingsGhosts, SettingsInv, SettingTables

LEMMA TryKeeps ==
    ASSUME SettingsInv, NEW e \in Editors, Try(e)
    PROVE  SettingsInv'
<1>1. PICK value \in BotKeeps(Class(page, ed[e].form)) :
         ed' = [ed EXCEPT ![e] = Tried(ed[e], value, Len(objs))]
  BY DEF Try, Tried
<1>2. /\ ed[e].pc = "asked" /\ Tries(Class(page, ed[e].form))
      /\ UNCHANGED <<page, store, rd, settingsGhosts>>
  BY DEF Try
<1>3. EditorOK(e) /\ DOMAIN ed = Editors /\ Len(objs) \in DOMAIN objs /\ Len(objs) # 0
  BY LastObject DEF SettingsInv, SettingTables
<1>4. IsEdit(ed[e]) /\ ed[e].who = "bot" /\ ed[e].form \in DOMAIN Forms(page)
  BY <1>2, <1>3 DEF EditorOK
<1>5. ed'[e] = Tried(ed[e], value, Len(objs))
  BY <1>1, <1>3
<1>6. /\ IsEdit(ed'[e]) /\ ed'[e].pc = "trying" /\ ed'[e].value = value
      /\ ed'[e].obj = Len(objs) /\ ed'[e].who = "bot" /\ ed'[e].form = ed[e].form
  BY <1>4, <1>5, TriedIs
<1>7. EditorOK(e)' /\ ~Sends(e)' /\ ~Sends(e)
  BY <1>2, <1>3, <1>4, <1>6 DEF EditorOK, Sends, store
<1>8. DOMAIN ed' = Editors /\ \A d \in Editors \ {e} : ed'[d] = ed[d]
  BY <1>1, <1>3
<1>9. \A r \in Readers : ReaderOK(r)'
  BY <1>2 DEF SettingsInv, ReaderOK
<1>10. QED
  BY <1>2, <1>7, <1>8, <1>9, QuietStep DEF store, settingsGhosts, SettingsInv, SettingTables

LEMMA RaiseFlagKeeps ==
    ASSUME SettingsInv, NEW e \in Editors, RaiseFlag(e)
    PROVE  SettingsInv'
<1>1. /\ ed[e].pc = "flagging" /\ flag' = TRUE /\ ed' = [ed EXCEPT ![e] = Over]
      /\ UNCHANGED <<page, row, objs, rd, settingsGhosts>>
  BY DEF RaiseFlag
<1>2. DOMAIN ed = Editors
  BY DEF SettingsInv, SettingTables
<1>3. DOMAIN ed' = Editors /\ ed'[e] = Over /\ \A d \in Editors \ {e} : ed'[d] = ed[d]
  BY <1>1, <1>2
<1>4. EditorOK(e)' /\ ~Sends(e)' /\ ~Sends(e)
  BY <1>1, <1>3, OverOK DEF Sends
<1>5. \A r \in Readers : ReaderOK(r)'
  BY <1>1 DEF SettingsInv, ReaderOK
<1>6. QED
  BY <1>1, <1>3, <1>4, <1>5, QuietStep DEF settingsGhosts, SettingsInv, SettingTables

\* Half an edit is known to be one: what was not torn is either whole or not begun.
LEMMA FailKeeps ==
    ASSUME SettingsInv, NEW e \in Editors, Fail(e)
    PROVE  SettingsInv'
<1>1. /\ risky' = (risky \/ Torn(e))
      /\ missed' = (missed \/ ed[e].pc \in {"writing", "flagging"})
      /\ ed' = [ed EXCEPT ![e] = Over]
      /\ UNCHANGED <<page, store, rd, meant, by>>
  BY DEF Fail
<1>2. SettingTables /\ DOMAIN ed = Editors
  BY DEF SettingsInv, SettingTables
<1>3. DOMAIN ed' = Editors /\ ed'[e] = Over /\ \A d \in Editors \ {e} : ed'[d] = ed[d]
  BY <1>1, <1>2
<1>4. EditorOK(e)' /\ ~Sends(e)'
  BY <1>3, OverOK
<1>5. ASSUME Sends(e), ~risky'
      PROVE  row = meant
  <2>1. ~risky /\ ~Torn(e) /\ Agreed
    BY <1>1, <1>5 DEF SettingsInv
  <2>2. CASE OneRow(page)
    BY <2>1, <2>2 DEF Agreed
  <2>3. CASE ~OneRow(page)
    <3>1. FieldsAgree(e) /\ FieldsOK(e)
      BY <1>5, <2>1, <2>3 DEF Agreed, SettingsInv, SendingOK
    <3>2. ed[e].pc = "writing"
      BY <1>5, <2>3 DEF Sends, SettingsInv, EditorOK
    <3>3. QED
      BY <2>1, <2>3, <3>1, <3>2 DEF Torn, FieldsAgree
  <2>4. QED
    BY <2>2, <2>3
<1>6. \A r \in Readers : ReaderOK(r)'
  BY <1>1 DEF SettingsInv, ReaderOK
<1>7. risky' \in BOOLEAN /\ missed' \in BOOLEAN
  BY <1>1, <1>2 DEF Torn, SettingTables
<1>8. QED
  BY <1>1, <1>2, <1>3, <1>4, <1>5, <1>6, <1>7, QuietStep DEF store, SettingTables

-----------------------------------------------------------------------------
LEMMA NoReloadOK == NoReload = [pc |-> "no", buf |-> <<>>, base |-> 0]
  BY DEF NoReload

LEMMA ReadingIs ==
    [NoReload EXCEPT !.pc = "reading"] = [pc |-> "reading", buf |-> <<>>, base |-> 0]
  BY DEF NoReload

\* A reload begins; the others go on.
LEMMA ReloadOK ==
    ASSUME SettingsInv, NEW r \in Readers, Reload(r), page' = page
    PROVE  DOMAIN rd' = Readers /\ \A q \in Readers : ReaderOK(q)'
<1>1. DOMAIN rd = Readers /\ \A q \in Readers : ReaderOK(q)
  BY DEF SettingsInv, SettingTables
<1>2. rd' = [rd EXCEPT ![r] = [pc |-> "reading", buf |-> <<>>, base |-> 0]]
  BY ReadingIs DEF Reload
<1>3. rd'[r] = [pc |-> "reading", buf |-> <<>>, base |-> 0]
  BY <1>1, <1>2
<1>4. ReaderOK(r)'
  BY <1>3 DEF ReaderOK
<1>5. \A q \in Readers \ {r} : ReaderOK(q)'
  BY <1>1, <1>2 DEF ReaderOK
<1>6. QED
  BY <1>1, <1>2, <1>4, <1>5

LEMMA SyncKeeps ==
    ASSUME SettingsInv, SyncSettings
    PROVE  SettingsInv'
<1>1. /\ flag' = FALSE /\ Reload(Sync) /\ UNCHANGED <<page, row, objs, ed, settingsGhosts>>
  BY DEF SyncSettings
<1>2. DOMAIN rd' = Readers /\ \A q \in Readers : ReaderOK(q)'
  BY <1>1, ReloadOK DEF Readers
<1>3. QED
  BY <1>1, <1>2, QuietStep DEF settingsGhosts, SettingsInv, SettingTables

LEMMA ReadRowsKeeps ==
    ASSUME SettingsInv, NEW r \in Readers, ReadRows(r)
    PROVE  SettingsInv'
<1> DEFINE pc == IF rd[r].pc = "reading" /\ Blank(row) # {} THEN "filling" ELSE "assigning"
<1>1. /\ rd' = [rd EXCEPT ![r] = [pc |-> pc, buf |-> row, base |-> Len(objs)]]
      /\ UNCHANGED <<page, store, ed, settingsGhosts>>
  BY DEF ReadRows
<1>2. SettingTables /\ \A q \in Readers : ReaderOK(q)
  BY DEF SettingsInv
<1>3. pc \in {"filling", "assigning"} /\ row \in PageStates(page) /\ DOMAIN rd = Readers
  BY <1>2 DEF SettingTables
<1> HIDE DEF pc
<1>4. rd'[r] = [pc |-> pc, buf |-> row, base |-> Len(objs)]
  BY <1>1, <1>3
<1>5. ReaderOK(r)'
  BY <1>1, <1>3, <1>4 DEF ReaderOK
<1>6. \A q \in Readers \ {r} : ReaderOK(q)'
  BY <1>1, <1>2, <1>3 DEF ReaderOK
<1>7. DOMAIN rd' = Readers
  BY <1>1, <1>3
<1>8. QED
  BY <1>1, <1>2, <1>5, <1>6, <1>7, QuietStep DEF store, settingsGhosts, SettingTables

\* A reload is over.
LEMMA ReloadOver ==
    ASSUME SettingsInv, NEW r \in Readers, rd' = [rd EXCEPT ![r] = NoReload], page' = page
    PROVE  DOMAIN rd' = Readers /\ \A q \in Readers : ReaderOK(q)'
<1>1. DOMAIN rd = Readers /\ \A q \in Readers : ReaderOK(q)
  BY DEF SettingsInv, SettingTables
<1>2. rd'[r] = [pc |-> "no", buf |-> <<>>, base |-> 0]
  BY <1>1, NoReloadOK
<1>3. ReaderOK(r)'
  BY <1>2 DEF ReaderOK
<1>4. \A q \in Readers \ {r} : ReaderOK(q)'
  BY <1>1 DEF ReaderOK
<1>5. QED
  BY <1>1, <1>3, <1>4

LEMMA AssignKeeps ==
    ASSUME SettingsInv, NEW r \in Readers, Assign(r)
    PROVE  SettingsInv'
<1>1. /\ rd[r].pc = "assigning" /\ objs' = Append(objs, rd[r].buf)
      /\ missed' = IF rd[r].buf = row THEN FALSE ELSE missed \/ Len(objs) # rd[r].base
      /\ rd' = [rd EXCEPT ![r] = NoReload]
      /\ UNCHANGED <<page, row, flag, ed, meant, by, risky>>
  BY DEF Assign
<1>2. SettingTables /\ ReaderOK(r)
  BY DEF SettingsInv
<1>3. rd[r].buf \in PageStates(page) /\ objs \in Seq(PageStates(page))
  BY <1>1, <1>2 DEF ReaderOK, SettingTables
<1>4. objs' \in Seq(PageStates(page)) /\ DOMAIN objs \subseteq DOMAIN objs'
  <2>1. objs' \in Seq(PageStates(page)) /\ Len(objs') = Len(objs) + 1
    BY <1>1, <1>3
  <2>2. /\ DOMAIN objs = 1 .. Len(objs) /\ Len(objs) \in Nat
        /\ DOMAIN objs' = 1 .. Len(objs') /\ Len(objs') \in Nat
    BY <1>3, <2>1
  <2>3. QED
    BY <2>1, <2>2
<1>5. missed' \in BOOLEAN
  BY <1>1, <1>2 DEF SettingTables
<1>6. DOMAIN rd' = Readers /\ \A q \in Readers : ReaderOK(q)'
  BY <1>1, ReloadOver
<1>7. QED
  BY <1>1, <1>2, <1>4, <1>5, <1>6, QuietStep DEF SettingTables

LEMMA ReloadFailsKeeps ==
    ASSUME SettingsInv, NEW r \in Readers, ReloadFails(r)
    PROVE  SettingsInv'
<1>1. /\ missed' = TRUE /\ rd' = [rd EXCEPT ![r] = NoReload]
      /\ UNCHANGED <<page, store, ed, meant, by, risky>>
  BY DEF ReloadFails
<1>2. DOMAIN rd' = Readers /\ \A q \in Readers : ReaderOK(q)'
  BY <1>1, ReloadOver
<1>3. QED
  BY <1>1, <1>2, QuietStep DEF store, SettingsInv, SettingTables

-----------------------------------------------------------------------------
\* Only the bot's texts have blanks to fill, and those have no range.
LEMMA OtherPages ==
    ASSUME page \in Pages, NEW x \in [Fields(page) -> SettingValues], NEW z
    PROVE  /\ page \notin BotTexts => Blank(z) = {} /\ Refilled(x, Blank(z)) = x
           /\ Refilled(x, {}) = x
           /\ page \in BotTexts => ~OneRow(page) /\ RangedFields(page) = {}
<1>1. Refilled(x, {}) = x
  BY DEF Refilled
<1>2. page \notin BotTexts => Blank(z) = {}
  BY DEF Blank
<1>3. ASSUME page \in BotTexts
      PROVE  ~OneRow(page) /\ RangedFields(page) = {}
  <2>1. Table(Forms(page), {"text"})
    BY <1>3, FormsOf, TextTables DEF BotTexts
  <2>2. RangedFields(page) = {}
    BY <2>1 DEF Table, RangedFields, Ranged, Class
  <2>3. QED
    BY <1>3, <2>2 DEF BotTexts, OneRow, Gateways, TextPages
<1>4. QED
  BY <1>1, <1>2, <1>3

\* Blanks of the row are filled: the row stays what was meant.
LEMMA Refills ==
    ASSUME SettingTables, NEW blank,
           row' = Refilled(row, blank), meant' = Refilled(meant, blank \cap Blank(meant)),
           page \in BotTexts
    PROVE  /\ row' \in PageStates(page) /\ meant' \in [Fields(page) -> SettingValues]
           /\ row = meant /\ blank \subseteq Blank(row) => row' = meant'
<1>1. row \in [Fields(page) -> SettingValues] /\ meant \in [Fields(page) -> SettingValues]
  BY DEF SettingTables, PageStates
<1>2. row' \in [Fields(page) -> SettingValues] /\ meant' \in [Fields(page) -> SettingValues]
  BY <1>1 DEF Refilled, SettingValues
<1>3. row' \in PageStates(page)
  BY <1>1, <1>2, OtherPages DEF PageStates, SettingTables
<1>4. ASSUME row = meant, blank \subseteq Blank(row)
      PROVE  row' = meant'
  BY <1>4 DEF Refilled
<1>5. QED
  BY <1>2, <1>3, <1>4

LEMMA FillTextsKeeps ==
    ASSUME SettingsInv, NEW r \in Readers, FillTexts(r)
    PROVE  SettingsInv'
<1> DEFINE blank == Blank(rd[r].buf)
<1>1. /\ rd[r].pc = "filling" /\ row' = Refilled(row, blank)
      /\ meant' = Refilled(meant, blank \cap Blank(meant))
      /\ risky' = (risky \/ blank \ Blank(row) # {})
      /\ rd' = [rd EXCEPT ![r].pc = "again"]
      /\ UNCHANGED <<page, objs, flag, ed, by, missed>>
  BY DEF FillTexts
<1>2. SettingTables /\ page \in Pages /\ \A q \in Readers : ReaderOK(q)
  BY DEF SettingsInv, SettingTables
<1>3. DOMAIN rd' = Readers /\ \A q \in Readers : ReaderOK(q)'
  <2>1. DOMAIN rd = Readers
    BY <1>2 DEF SettingTables
  <2>2. rd'[r] = [pc |-> "again", buf |-> rd[r].buf, base |-> rd[r].base]
    BY <1>1, <1>2, <2>1 DEF ReaderOK
  <2>3. ReaderOK(r)'
    BY <2>2 DEF ReaderOK
  <2>4. \A q \in Readers \ {r} : ReaderOK(q)'
    BY <1>1, <1>2, <2>1 DEF ReaderOK
  <2>5. QED
    BY <1>1, <2>1, <2>3, <2>4
<1>4. CASE page \notin BotTexts
  <2>1. row \in [Fields(page) -> SettingValues] /\ meant \in [Fields(page) -> SettingValues]
    BY <1>2 DEF SettingTables, PageStates
  <2>2. blank = {} /\ row' = row
    BY <1>1, <1>2, <1>4, <2>1, OtherPages
  <2>3. Refilled(meant, {}) = meant
    BY <1>2, <2>1, OtherPages
  <2> HIDE DEF blank
  <2>4. meant' = meant /\ risky' = risky
    BY <1>1, <1>2, <2>2, <2>3 DEF SettingTables
  <2>5. QED
    BY <1>1, <1>2, <1>3, <2>2, <2>4, QuietStep DEF SettingTables
<1>5. CASE page \in BotTexts
  <2> HIDE DEF blank
  <2>1. /\ row' \in PageStates(page) /\ meant' \in [Fields(page) -> SettingValues]
        /\ row = meant /\ blank \subseteq Blank(row) => row' = meant'
    BY <1>1, <1>2, <1>5, Refills
  <2>2. ~OneRow(page) /\ RangedFields(page) = {}
    BY <1>2, <1>5, OtherPages DEF SettingTables
  <2>3. SettingTables'
    BY <1>1, <1>2, <1>3, <2>1 DEF SettingTables
  <2>4. RowInRange'
    BY <1>1, <2>2 DEF RowInRange
  <2>5. \A e \in Editors : /\ EditorOK(e)' /\ SendingOK(e)' /\ Sends(e)' = Sends(e)
                           /\ Edited(e)' = Edited(e)
    BY <1>1, Stays
  <2>6. ASSUME ~risky'
        PROVE  Agreed'
    <3>1. ~risky /\ blank \subseteq Blank(row) /\ Agreed
      BY <1>1, <2>6 DEF SettingsInv
    <3>2. row = meant /\ row' = meant'
      BY <1>5, <2>1, <3>1 DEF Agreed
    <3>3. ASSUME NEW e \in Editors, Sends(e)'
          PROVE  FieldsAgree(e)'
      <4>1. FieldsOK(e)
        BY <2>2, <2>5, <3>3 DEF SettingsInv, SendingOK
      <4>2. ed'[e].todo = <<Edited(e)>>
        BY <1>1, <1>5, <4>1 DEF FieldsOK
      <4>3. \A f \in Edited(e) : \E i \in DOMAIN ed'[e].todo : f \in ed'[e].todo[i]
        BY <4>2
      <4>4. QED
        BY <1>1, <2>5, <3>2, <4>3 DEF FieldsAgree
    <3>4. \A d, e \in Editors : Sends(d)' /\ Sends(e)' => d = e
      BY <2>5, <3>1 DEF Agreed
    <3>5. QED
      BY <1>1, <2>2, <3>2, <3>3, <3>4 DEF Agreed
  <2>7. QED
    BY <1>3, <2>3, <2>4, <2>5, <2>6 DEF SettingsInv
<1>6. QED
  BY <1>4, <1>5

LEMMA BotRestartsKeeps ==
    ASSUME SettingsInv, BotRestarts
    PROVE  SettingsInv'
<1> DEFINE blank == Blank(row)
           Ends(e) == ed[e].who = "bot" /\ ed[e].pc \in {"trying", "writing"}
<1>1. /\ row' = Refilled(row, blank) /\ meant' = Refilled(meant, blank \cap Blank(meant))
      /\ objs' = <<row'>> /\ missed' = FALSE
      /\ risky' = (risky \/ \E e \in Editors : ed[e].who = "bot" /\ Torn(e))
      /\ ed' = [e \in Editors |-> IF Ends(e) THEN Over ELSE ed[e]]
      /\ rd' = [r \in Readers |-> NoReload] /\ UNCHANGED <<page, flag, by>>
  BY DEF BotRestarts
<1>2. SettingTables /\ page \in Pages
  BY DEF SettingsInv, SettingTables
<1>3. row \in PageStates(page) /\ row \in [Fields(page) -> SettingValues]
      /\ meant \in [Fields(page) -> SettingValues]
  BY <1>2 DEF SettingTables, PageStates
<1>4. page \notin BotTexts => row' = row /\ meant' = meant
  <2>1. ASSUME page \notin BotTexts
        PROVE  blank = {} /\ row' = row
    BY <1>1, <1>2, <1>3, <2>1, OtherPages
  <2>2. Refilled(meant, {}) = meant
    BY <1>2, <1>3, OtherPages
  <2>3. QED
    <3> HIDE DEF blank
    <3>1. QED
      BY <1>1, <2>1, <2>2
<1>5. /\ row' \in PageStates(page) /\ meant' \in [Fields(page) -> SettingValues]
      /\ row = meant => row' = meant'
  <2>1. CASE page \in BotTexts
    <3> HIDE DEF blank
    <3>1. QED
      BY <1>1, <1>2, <2>1, Refills DEF blank
  <2>2. CASE page \notin BotTexts
    BY <1>3, <1>4, <2>2
  <2>3. QED
    BY <2>1, <2>2
<1>6. SettingTables'
  <2>1. objs' \in Seq(PageStates(page)) /\ Len(objs') > 0
    BY <1>1, <1>5
  <2>2. risky' \in BOOLEAN
    BY <1>1, <1>2 DEF SettingTables, Torn
  <2>3. QED
    BY <1>1, <1>2, <1>5, <2>1, <2>2 DEF SettingTables
<1>7. page \in BotTexts => ~OneRow(page) /\ RangedFields(page) = {}
  BY <1>2, <1>3, OtherPages
<1>8. RowInRange'
  BY <1>1, <1>4, <1>7 DEF SettingsInv, RowInRange
<1>9. ASSUME NEW e \in Editors
      PROVE  /\ EditorOK(e)' /\ SendingOK(e)'
             /\ IF Ends(e) THEN ~Sends(e)'
                ELSE ed'[e] = ed[e] /\ Edited(e)' = Edited(e) /\ Sends(e)' = Sends(e)
  <2>1. CASE Ends(e)
    <3>1. ed'[e] = Over
      BY <1>1, <2>1
    <3>2. QED
      BY <2>1, <3>1, OverOK DEF SendingOK
  <2>2. CASE ~Ends(e)
    <3>1. ed'[e] = ed[e]
      BY <1>1, <2>2
    <3>2. ed[e].obj = 0
      BY <2>2 DEF SettingsInv, EditorOK
    <3>3. QED
      BY <1>1, <2>2, <3>1, <3>2, Stays
  <2>3. QED
    BY <2>1, <2>2
<1>10. \A r \in Readers : ReaderOK(r)'
  BY <1>1, NoReloadOK DEF ReaderOK
<1>11. ASSUME ~risky'
       PROVE  Agreed'
  <2>1. ~risky /\ Agreed /\ \A e \in Editors : ~(ed[e].who = "bot" /\ Torn(e))
    BY <1>1, <1>11 DEF SettingsInv
  <2>2. \A e \in Editors : Sends(e)' => Sends(e) /\ ed'[e] = ed[e] /\ Edited(e)' = Edited(e)
    BY <1>9
  <2>3. ASSUME OneRow(page) \/ page \in BotTexts \/ \A e \in Editors : ~Sends(e)'
        PROVE  row = meant
    <3>1. CASE OneRow(page) \/ page \in BotTexts \/ \A e \in Editors : ~Sends(e)
      BY <2>1, <3>1 DEF Agreed
    <3>2. CASE ~OneRow(page) /\ \E e \in Editors : Sends(e) /\ ~Sends(e)'
      <4>1. PICK e \in Editors : Sends(e) /\ ~Sends(e)'
        BY <3>2
      <4>2. Ends(e) /\ ed[e].pc = "writing"
        BY <1>9, <4>1 DEF Sends
      <4>3. FieldsAgree(e)
        BY <2>1, <3>2, <4>1 DEF Agreed
      <4>4. QED
        BY <2>1, <3>2, <4>2, <4>3 DEF Torn, FieldsAgree
    <3>3. QED
      BY <2>3, <3>1, <3>2
  <2>4. ASSUME NEW e \in Editors, Sends(e)', OneRow(page)
        PROVE  WholeAgrees(e)'
    BY <1>1, <1>4, <1>7, <2>1, <2>2, <2>4 DEF Agreed, WholeAgrees
  <2>5. ASSUME NEW e \in Editors, Sends(e)', ~OneRow(page)
        PROVE  FieldsAgree(e)'
    <3>1. FieldsAgree(e) /\ Sends(e) /\ ed'[e] = ed[e] /\ Edited(e)' = Edited(e)
      BY <2>1, <2>2, <2>5 DEF Agreed
    <3>2. CASE page \notin BotTexts
      BY <1>1, <1>4, <3>1, <3>2 DEF FieldsAgree
    <3>3. CASE page \in BotTexts
      <4>1. row' = meant'
        BY <1>5, <2>1, <3>3 DEF Agreed
      <4>2. FieldsOK(e)
        BY <2>5, <3>1 DEF SettingsInv, SendingOK
      <4>3. ed'[e].todo = <<Edited(e)>>
        BY <3>1, <3>3, <4>2 DEF FieldsOK
      <4>4. \A f \in Edited(e) : \E i \in DOMAIN ed'[e].todo : f \in ed'[e].todo[i]
        BY <4>3
      <4>5. QED
        BY <1>1, <3>1, <4>1, <4>4 DEF FieldsAgree
    <3>4. QED
      BY <3>2, <3>3
  <2>6. \A d, e \in Editors : Sends(d)' /\ Sends(e)' => d = e
    BY <2>1, <2>2 DEF Agreed
  <2>7. QED
    BY <1>1, <1>5, <2>3, <2>4, <2>5, <2>6 DEF Agreed
<1>12. QED
  BY <1>6, <1>8, <1>9, <1>10, <1>11 DEF SettingsInv

-----------------------------------------------------------------------------
\* An edit of the web panel.
WebEdited(x, form, value, pc, buf, todo) ==
    [x EXCEPT !.who = "web", !.form = form, !.value = value, !.pc = pc, !.buf = buf,
              !.todo = todo]

LEMMA WebEditedIs ==
    ASSUME NEW x, IsEdit(x), NEW form, NEW value, NEW pc, NEW buf, NEW todo,
           NEW y, y = WebEdited(x, form, value, pc, buf, todo)
    PROVE  /\ IsEdit(y) /\ y.who = "web" /\ y.form = form /\ y.value = value /\ y.pc = pc
           /\ y.buf = buf /\ y.todo = todo /\ y.obj = x.obj
<1> DEFINE D == {"pc", "who", "form", "value", "obj", "shown", "buf", "todo"}
<1>1. DOMAIN x = D /\ x = [f \in D |-> x[f]]
  BY DEF IsEdit
<1>2. DOMAIN y = D /\ y = [f \in D |-> y[f]]
  BY <1>1 DEF WebEdited
<1>3. IsEdit(y)
  BY <1>2 DEF IsEdit
<1>4. QED
  BY <1>1, <1>3 DEF WebEdited

LEMMA WebEditKeeps ==
    ASSUME SettingsInv, NEW e \in Editors, NEW form \in DOMAIN Forms(page), NEW value,
           WebEdit(e, form, value)
    PROVE  SettingsInv'
<1> DEFINE order == Assigned(page, form)
           E == ToSet(order)
           changes == [f \in E |-> value]
           pc == IF OneRow(page) THEN "merging" ELSE "writing"
           buf == IF OneRow(page) THEN row ELSE changes
           todo == IF OneRow(page) THEN <<Fields(page)>> ELSE RowsOf(order)
<1>1. /\ ed[e].pc = "idle" /\ value \in WebKeeps(page, form)
      /\ ed' = [ed EXCEPT ![e] = WebEdited(ed[e], form, value, pc, buf, todo)]
      /\ risky' = (risky \/ Underway(e))
      /\ UNCHANGED <<page, store, rd, meant, by, missed>>
  BY DEF WebEdit, WebEdited, RowsOf
<1>2. SettingTables /\ page \in Pages /\ EditorOK(e)
  BY DEF SettingsInv, SettingTables
<1>3. value \in SettingValues \ {"old"}
  BY <1>1, <1>2, WebInRange
<1>4. Sheet(page, form, order, changes, value)
  BY <1>2, <1>3, AssignedSheet
<1>5. E \subseteq Fields(page)
  <2>1. order \in Seq(Fields(page))
    BY <1>4 DEF Sheet
  <2>2. QED
    BY <2>1 DEF ToSet
<1>6. IsEdit(ed[e]) /\ ed[e].obj = 0
  BY <1>1, <1>2 DEF EditorOK
<1>7. /\ ed'[e] = WebEdited(ed[e], form, value, pc, buf, todo)
      /\ DOMAIN ed' = Editors /\ \A d \in Editors \ {e} : ed'[d] = ed[d]
  BY <1>1, <1>2 DEF SettingTables
<1>8. /\ IsEdit(ed'[e]) /\ ed'[e].who = "web" /\ ed'[e].form = form /\ ed'[e].value = value
      /\ ed'[e].pc = pc /\ ed'[e].buf = buf /\ ed'[e].todo = todo /\ ed'[e].obj = 0
  <2> HIDE DEF pc, buf, todo
  <2>1. QED
    BY <1>6, <1>7, WebEditedIs
<1>9. Edited(e)' = E /\ Sends(e)' /\ (OneRow(page) <=> ed'[e].pc = "merging")
  BY <1>1, <1>3, <1>8 DEF Edited, Sends
<1>10. EditorOK(e)'
  BY <1>1, <1>8 DEF EditorOK
<1>11. ASSUME OneRow(page)
       PROVE  WholeOK(e)' /\ (row = meant => WholeAgrees(e)')
  <2>1. row \in PageStates(page) /\ row' = row /\ page' = page
    BY <1>1, <1>2 DEF SettingTables, store
  <2>2. QED
    BY <1>8, <1>9, <1>11, <2>1 DEF WholeOK, WholeAgrees
<1>12. ASSUME ~OneRow(page)
       PROVE  FieldsOK(e)' /\ (row = meant => FieldsAgree(e)')
  <2>1. ed'[e].todo = RowsOf(order) /\ ed'[e].buf = changes /\ ed'[e].who = "web"
    BY <1>8, <1>12
  <2>2. changes \in [E -> SettingValues]
    BY <1>3
  <2> DEFINE rows == RowsOf(order)
  <2>3. /\ rows \in Seq(SUBSET E) /\ rows # <<>> /\ IsFiniteSet(E)
        /\ Len(rows) =< Cardinality(E) /\ (page \in BotTexts => rows = <<E>>)
        /\ \A f \in E \cap RangedFields(page) : rows = <<{f}>>
        /\ \A f \in E : \E i \in DOMAIN rows : f \in rows[i]
    <3> HIDE DEF changes, rows
    <3>1. QED
      BY <1>2, <1>4, SheetTodo DEF rows
  <2> HIDE DEF rows
  <2>4. ed'[e].todo = rows
    BY <2>1 DEF rows
  <2> HIDE DEF changes, E
  <2>5. row' = row /\ meant' = meant /\ page' = page
    BY <1>1 DEF store
  <2>6. FieldsOK(e)'
    BY <1>9, <2>1, <2>2, <2>3, <2>4, <2>5 DEF FieldsOK
  <2>7. row = meant => FieldsAgree(e)'
    BY <1>9, <2>3, <2>4, <2>5 DEF FieldsAgree
  <2>8. QED
    BY <2>6, <2>7
<1>13. \A d \in Editors \ {e} : EditorOK(d)' /\ SendingOK(d)' /\ Sends(d)' = Sends(d)
  BY <1>1, <1>7, Stays DEF store
<1>14. SettingTables' /\ RowInRange' /\ \A r \in Readers : ReaderOK(r)'
  <2>1. risky' \in BOOLEAN
    BY <1>1, <1>2 DEF SettingTables, Underway
  <2>2. SettingTables'
    BY <1>1, <1>2, <1>7, <2>1 DEF SettingTables, store
  <2>3. RowInRange'
    BY <1>1 DEF SettingsInv, RowInRange, store
  <2>4. QED
    BY <1>1, <2>2, <2>3 DEF SettingsInv, ReaderOK
<1>15. SendingOK(e)'
  BY <1>1, <1>5, <1>9, <1>11, <1>12 DEF SendingOK
<1>16. ASSUME ~risky'
       PROVE  Agreed'
  <2>1. Agreed /\ \A d \in Editors : ~Sends(d)
    BY <1>1, <1>16 DEF SettingsInv, Underway, Sends
  <2>2. row = meant
    BY <2>1 DEF Agreed
  <2>3. \A d \in Editors : Sends(d)' => d = e
    BY <1>13, <2>1
  <2>4. row' = meant' /\ page' = page
    BY <1>1, <2>2 DEF store
  <2>5. QED
    BY <1>11, <1>12, <2>2, <2>3, <2>4 DEF Agreed
<1>17. QED
  BY <1>10, <1>13, <1>14, <1>15, <1>16 DEF SettingsInv

\* The panel's fields are put over the row it has read.
Merged(x, buf) == [x EXCEPT !.pc = "writing", !.buf = buf]

LEMMA MergedIs ==
    ASSUME NEW x, IsEdit(x), NEW buf, NEW y, y = Merged(x, buf)
    PROVE  /\ IsEdit(y) /\ y.pc = "writing" /\ y.buf = buf /\ y.who = x.who /\ y.form = x.form
           /\ y.value = x.value /\ y.obj = x.obj /\ y.todo = x.todo
<1> DEFINE D == {"pc", "who", "form", "value", "obj", "shown", "buf", "todo"}
<1>1. DOMAIN x = D /\ x = [f \in D |-> x[f]]
  BY DEF IsEdit
<1>2. DOMAIN y = D /\ y = [f \in D |-> y[f]]
  BY <1>1 DEF Merged
<1>3. IsEdit(y)
  BY <1>2 DEF IsEdit
<1>4. QED
  BY <1>1, <1>3 DEF Merged

LEMMA WebMergeKeeps ==
    ASSUME SettingsInv, NEW e \in Editors, WebMerge(e)
    PROVE  SettingsInv'
<1> DEFINE form == ed[e].form
           value == ed[e].value
           order == Assigned(page, form)
           changes == [f \in ToSet(order) |-> value]
           buf == Updated(ed[e].buf, changes)
<1>1. SettingTables /\ page \in Pages /\ EditorOK(e) /\ SendingOK(e)
  BY DEF SettingsInv, SettingTables
<1>2. ed[e].pc = "merging" /\ UNCHANGED <<page, store, rd, settingsGhosts>>
  BY DEF WebMerge
<1>3. /\ OneRow(page) /\ value \in WebKeeps(page, form) /\ form \in DOMAIN Forms(page)
      /\ ed[e].who = "web" /\ ed[e].obj = 0 /\ IsEdit(ed[e])
  BY <1>1, <1>2 DEF EditorOK
<1>4. /\ value \in SettingValues \ {"old"}
      /\ Ranged(Class(page, form)) => value # "negative"
  <2> HIDE DEF value, form
  <2>1. QED
    BY <1>1, <1>3, WebInRange
<1>5. Sheet(page, form, order, changes, value)
  BY <1>1, <1>3, <1>4, AssignedSheet
<1>6. Changes(page, form, value) = changes
  <2>1. page # "access"
    BY <1>3 DEF OneRow, Gateways, TextPages
  <2>2. form # "access_only"
    BY <1>1, <1>3, <2>1, PageKnown
  <2>3. QED
    BY <2>2 DEF Changes
<1>7. ed' = [ed EXCEPT ![e] = Merged(ed[e], buf)]
  <2>1. ed' = [ed EXCEPT ![e].pc = "writing",
                         ![e].buf = Updated(ed[e].buf, Changes(page, form, value))]
    BY <1>1 DEF WebMerge, SettingTables
  <2> HIDE DEF changes
  <2>2. QED
    BY <1>1, <1>6, <2>1 DEF Merged, SettingTables
<1>8. /\ ed'[e] = Merged(ed[e], buf) /\ DOMAIN ed' = Editors
      /\ \A d \in Editors \ {e} : ed'[d] = ed[d]
  BY <1>1, <1>7 DEF SettingTables
<1>9. /\ IsEdit(ed'[e]) /\ ed'[e].pc = "writing" /\ ed'[e].buf = buf /\ ed'[e].who = "web"
      /\ ed'[e].form = form /\ ed'[e].value = value /\ ed'[e].obj = 0
      /\ ed'[e].todo = ed[e].todo
  <2> HIDE DEF buf
  <2>1. QED
    BY <1>3, <1>8, MergedIs
<1>10. /\ Edited(e)' = ToSet(order) /\ Edited(e) = ToSet(order) /\ Sends(e) /\ Sends(e)'
       /\ page' = page
  BY <1>2, <1>3, <1>4, <1>9 DEF Edited, Sends
<1>11. WholeOK(e) /\ Edited(e) \subseteq Fields(page)
  BY <1>1, <1>3, <1>10 DEF SendingOK
<1>12. /\ buf \in PageStates(page)
       /\ \A f \in Fields(page) \ ToSet(order) : buf[f] = ed[e].buf[f]
  <2>1. ed[e].buf \in PageStates(page)
    BY <1>11 DEF WholeOK
  <2> HIDE DEF changes, order, form, value
  <2>2. QED
    BY <1>1, <1>4, <1>5, <2>1, UpdatedIs
<1> HIDE DEF buf, changes, order
<1>13. EditorOK(e)'
  BY <1>3, <1>9, <1>10 DEF EditorOK
<1>14. WholeOK(e)'
  BY <1>9, <1>10, <1>11, <1>12 DEF WholeOK
<1>15. SendingOK(e)'
  BY <1>3, <1>10, <1>11, <1>14 DEF SendingOK
<1>16. \A d \in Editors \ {e} : EditorOK(d)' /\ SendingOK(d)' /\ Sends(d)' = Sends(d)
  BY <1>2, <1>8, Stays DEF store
<1>17. SettingTables' /\ RowInRange' /\ \A r \in Readers : ReaderOK(r)'
  <2>1. SettingTables'
    BY <1>1, <1>2, <1>8 DEF SettingTables, store, settingsGhosts
  <2>2. QED
    BY <1>2, <2>1 DEF SettingsInv, RowInRange, ReaderOK, store, settingsGhosts
<1>18. ASSUME ~risky'
       PROVE  Agreed'
  <2>1. Agreed
    BY <1>2, <1>18 DEF SettingsInv, settingsGhosts
  <2>2. WholeAgrees(e) /\ row = meant /\ \A d \in Editors : Sends(d) => d = e
    BY <1>3, <1>10, <2>1 DEF Agreed
  <2>3. \A d \in Editors : Sends(d)' => d = e
    BY <1>16, <2>2
  <2>4. row' = row /\ meant' = meant
    BY <1>2 DEF store, settingsGhosts
  <2>5. WholeAgrees(e)'
    BY <1>9, <1>10, <1>12, <2>2, <2>4 DEF WholeAgrees
  <2>6. QED
    BY <1>3, <1>10, <2>2, <2>3, <2>4, <2>5 DEF Agreed
<1>19. QED
  BY <1>13, <1>15, <1>16, <1>17, <1>18 DEF SettingsInv

-----------------------------------------------------------------------------
\* A row is written, not the last one; or the last one by the panel.
Shortened(x, todo) == [x EXCEPT !.todo = todo]
Flagging(x) == [x EXCEPT !.pc = "flagging"]

LEMMA ShortenedIs ==
    ASSUME NEW x, IsEdit(x), NEW todo, NEW y, y = Shortened(x, todo)
    PROVE  /\ IsEdit(y) /\ y.pc = x.pc /\ y.buf = x.buf /\ y.who = x.who /\ y.form = x.form
           /\ y.value = x.value /\ y.obj = x.obj /\ y.todo = todo
<1> DEFINE D == {"pc", "who", "form", "value", "obj", "shown", "buf", "todo"}
<1>1. DOMAIN x = D /\ x = [f \in D |-> x[f]]
  BY DEF IsEdit
<1>2. DOMAIN y = D /\ y = [f \in D |-> y[f]]
  BY <1>1 DEF Shortened
<1>3. IsEdit(y)
  BY <1>2 DEF IsEdit
<1>4. QED
  BY <1>1, <1>3 DEF Shortened

LEMMA FlaggingIs ==
    ASSUME NEW x, IsEdit(x), NEW y, y = Flagging(x)
    PROVE  IsEdit(y) /\ y.pc = "flagging" /\ y.who = x.who /\ y.form = x.form /\ y.obj = x.obj
<1> DEFINE D == {"pc", "who", "form", "value", "obj", "shown", "buf", "todo"}
<1>1. DOMAIN x = D /\ x = [f \in D |-> x[f]]
  BY DEF IsEdit
<1>2. DOMAIN y = D /\ y = [f \in D |-> y[f]]
  BY <1>1 DEF Flagging
<1>3. IsEdit(y)
  BY <1>2 DEF IsEdit
<1>4. QED
  BY <1>1, <1>3 DEF Flagging

\* A row is written: the tables and the editor.
Wrote(e) ==
    LET first == Head(ed[e].todo)
        last == Tail(ed[e].todo) = <<>>
    IN  /\ ed[e].pc = "writing"
        /\ row' = [f \in Fields(page) |-> IF f \in first THEN ed[e].buf[f] ELSE row[f]]
        /\ meant' = [f \in Fields(page) |-> IF f \in Edited(e) THEN ed[e].buf[f] ELSE meant[f]]
        /\ by' = [f \in Fields(page) |-> IF f \in Edited(e) THEN ed[e].who ELSE by[f]]
        /\ ed'[e] = IF ~last THEN Shortened(ed[e], Tail(ed[e].todo))
                    ELSE IF ed[e].who = "web" THEN Flagging(ed[e]) ELSE Over
        /\ \A d \in Editors \ {e} : ed'[d] = ed[d]
        /\ UNCHANGED <<page, objs, flag, risky, missed>>

LEMMA WriteRowIs ==
    ASSUME SettingsInv, NEW e \in Editors, WriteRow(e)
    PROVE  /\ Wrote(e) /\ DOMAIN ed' = Editors /\ DOMAIN rd' = Readers
           /\ \A r \in Readers : ReaderOK(r)'
<1>1. DOMAIN ed = Editors /\ DOMAIN rd = Readers /\ page' = page
  BY DEF SettingsInv, SettingTables, WriteRow
<1>2. /\ DOMAIN ed' = Editors /\ \A d \in Editors \ {e} : ed'[d] = ed[d]
      /\ ed'[e] = IF Tail(ed[e].todo) # <<>> THEN Shortened(ed[e], Tail(ed[e].todo))
                  ELSE IF ed[e].who = "web" THEN Flagging(ed[e]) ELSE Over
  <2> DEFINE y == IF ~(Tail(ed[e].todo) = <<>>) THEN Shortened(ed[e], Tail(ed[e].todo))
                  ELSE IF ed[e].who = "web" THEN Flagging(ed[e]) ELSE Over
  <2>1. ed' = [ed EXCEPT ![e] = y]
    BY DEF WriteRow, Shortened, Flagging
  <2> HIDE DEF y
  <2>2. DOMAIN ed' = Editors /\ (\A d \in Editors \ {e} : ed'[d] = ed[d]) /\ ed'[e] = y
    BY <1>1, <2>1
  <2>3. QED
    BY <2>2 DEF y
<1>3. Wrote(e)
  BY <1>2 DEF WriteRow, Wrote
<1>4. Reload(e) \/ UNCHANGED rd
  BY DEF WriteRow
<1>5. DOMAIN rd' = Readers /\ \A r \in Readers : ReaderOK(r)'
  <2>1. CASE Reload(e)
    BY <1>1, <2>1, ReloadOK DEF Readers
  <2>2. CASE UNCHANGED rd
    BY <1>1, <2>2 DEF SettingsInv, ReaderOK
  <2>3. QED
    BY <1>4, <2>1, <2>2
<1>6. QED
  BY <1>2, <1>3, <1>5

\* The rows that are left to write.
LEMMA Rest ==
    ASSUME NEW S, NEW todo \in Seq(S), todo # <<>>
    PROVE  /\ Head(todo) = todo[1] /\ Head(todo) \in S /\ Tail(todo) \in Seq(S)
           /\ Len(Tail(todo)) = Len(todo) - 1 /\ Len(todo) \in Nat /\ Len(todo) > 0
           /\ DOMAIN todo = 1 .. Len(todo) /\ DOMAIN Tail(todo) = 1 .. Len(todo) - 1
           /\ \A i \in DOMAIN todo :
                 i # 1 => i - 1 \in DOMAIN Tail(todo) /\ Tail(todo)[i - 1] = todo[i]
           /\ Tail(todo) = <<>> <=> Len(todo) = 1
<1>1. Len(todo) \in Nat /\ Len(todo) > 0 /\ DOMAIN todo = 1 .. Len(todo)
  OBVIOUS
<1>2. /\ Head(todo) = todo[1] /\ Head(todo) \in S /\ Tail(todo) \in Seq(S)
      /\ Len(Tail(todo)) = Len(todo) - 1
  BY <1>1
<1>3. DOMAIN Tail(todo) = 1 .. Len(todo) - 1
  BY <1>2
<1>4. \A i \in 1 .. Len(todo) - 1 : Tail(todo)[i] = todo[i + 1]
  BY <1>1
<1>5. ASSUME NEW i \in DOMAIN todo, i # 1
      PROVE  i - 1 \in DOMAIN Tail(todo) /\ Tail(todo)[i - 1] = todo[i]
  <2>1. i \in Int /\ i - 1 \in 1 .. Len(todo) - 1 /\ i - 1 + 1 = i
    BY <1>1, <1>5
  <2>2. QED
    BY <1>3, <1>4, <2>1
<1>6. Tail(todo) = <<>> <=> Len(todo) = 1
  BY <1>1, <1>2
<1>7. QED
  BY <1>1, <1>2, <1>3, <1>5, <1>6

\* A page of one row is written at once: the object that the edit holds.
LEMMA WroteWhole ==
    ASSUME SettingsInv, NEW e \in Editors, Wrote(e), OneRow(page)
    PROVE  /\ Tail(ed[e].todo) = <<>> /\ row' = ed[e].buf /\ row' \in PageStates(page)
           /\ meant' \in [Fields(page) -> SettingValues]
           /\ RowInRange' /\ (~risky => row' = meant')
<1>1. /\ row' = [f \in Fields(page) |-> IF f \in Head(ed[e].todo) THEN ed[e].buf[f] ELSE row[f]]
      /\ meant' = [f \in Fields(page) |-> IF f \in Edited(e) THEN ed[e].buf[f] ELSE meant[f]]
      /\ by' = [f \in Fields(page) |-> IF f \in Edited(e) THEN ed[e].who ELSE by[f]]
      /\ ed[e].pc = "writing" /\ UNCHANGED <<page, objs, flag, risky, missed>>
  BY DEF Wrote
<1>2. SettingTables /\ RowInRange /\ EditorOK(e) /\ WholeOK(e) /\ Edited(e) \subseteq Fields(page)
  BY <1>1 DEF SettingsInv, SendingOK, Sends
<1>3. /\ ed[e].buf \in PageStates(page) /\ ed[e].todo = <<Fields(page)>>
      /\ ed[e].buf \in [Fields(page) -> SettingValues]
      /\ meant \in [Fields(page) -> SettingValues]
  BY <1>2 DEF WholeOK, PageStates, SettingTables
<1>4. Head(ed[e].todo) = Fields(page) /\ Tail(ed[e].todo) = <<>>
  BY <1>3
<1>5. row' = ed[e].buf
  BY <1>1, <1>3, <1>4
<1>6. meant' \in [Fields(page) -> SettingValues]
  BY <1>1, <1>3
<1>7. ASSUME NEW f \in RangedFields(page)
      PROVE  InRange(Class(page, f), row'[f]) \/ by'[f] = "web" \/ risky
  <2>1. f \in Fields(page)
    BY DEF RangedFields
  <2>2. CASE f \in Edited(e)
    BY <1>1, <1>2, <1>5, <2>1, <2>2 DEF WholeOK, EditorOK
  <2>3. CASE f \notin Edited(e) /\ ~risky
    <3>1. WholeAgrees(e)
      BY <1>1, <2>3 DEF SettingsInv, Agreed, Sends
    <3>2. ed[e].buf[f] = row[f] /\ by'[f] = by[f]
      BY <1>1, <2>1, <2>3, <3>1 DEF WholeAgrees
    <3>3. QED
      BY <1>2, <1>5, <2>3, <3>2 DEF RowInRange
  <2>4. QED
    BY <2>2, <2>3
<1>8. RowInRange'
  BY <1>1, <1>7 DEF RowInRange
<1>9. ASSUME ~risky
      PROVE  row' = meant'
  <2>1. WholeAgrees(e) /\ row = meant
    BY <1>1, <1>9 DEF SettingsInv, Agreed, Sends
  <2>2. \A f \in Fields(page) : meant'[f] = ed[e].buf[f]
    BY <1>1, <2>1 DEF WholeAgrees
  <2>3. QED
    BY <1>3, <1>5, <1>6, <2>2
<1>10. QED
  BY <1>3, <1>4, <1>5, <1>6, <1>8, <1>9

\* Otherwise field by field.
LEMMA WroteField ==
    ASSUME SettingsInv, NEW e \in Editors, Wrote(e), ~OneRow(page)
    PROVE  /\ row' \in PageStates(page) /\ meant' \in [Fields(page) -> SettingValues]
           /\ RowInRange'
           /\ (~risky /\ Tail(ed[e].todo) = <<>>) => row' = meant'
<1>1. /\ row' = [f \in Fields(page) |-> IF f \in Head(ed[e].todo) THEN ed[e].buf[f] ELSE row[f]]
      /\ meant' = [f \in Fields(page) |-> IF f \in Edited(e) THEN ed[e].buf[f] ELSE meant[f]]
      /\ by' = [f \in Fields(page) |-> IF f \in Edited(e) THEN ed[e].who ELSE by[f]]
      /\ ed[e].pc = "writing" /\ UNCHANGED <<page, objs, flag, risky, missed>>
  BY DEF Wrote
<1>2. /\ SettingTables /\ RowInRange /\ EditorOK(e) /\ FieldsOK(e)
      /\ Edited(e) \subseteq Fields(page)
  BY <1>1 DEF SettingsInv, SendingOK, Sends
<1> DEFINE E == Edited(e)
           todo == ed[e].todo
<1>3. /\ ed[e].buf \in [E -> SettingValues] /\ todo \in Seq(SUBSET E) /\ todo # <<>>
      /\ row \in [Fields(page) -> SettingValues] /\ meant \in [Fields(page) -> SettingValues]
  BY <1>2 DEF FieldsOK, SettingTables, PageStates
<1>4. /\ Head(todo) \subseteq E /\ Head(todo) = todo[1] /\ DOMAIN todo = 1 .. Len(todo)
      /\ Tail(todo) = <<>> <=> Len(todo) = 1
  BY <1>3, Rest
<1>5. row' \in [Fields(page) -> SettingValues] /\ meant' \in [Fields(page) -> SettingValues]
  BY <1>1, <1>3, <1>4
<1>6. row' \in PageStates(page)
  BY <1>5 DEF PageStates
<1>7. ASSUME NEW f \in RangedFields(page)
      PROVE  InRange(Class(page, f), row'[f]) \/ by'[f] = "web"
  <2>1. f \in Fields(page)
    BY DEF RangedFields
  <2>2. CASE f \in E
    <3>1. todo = <<{f}>> /\ (ed[e].who = "bot" => InRange(Class(page, f), ed[e].buf[f]))
      BY <1>2, <2>2 DEF FieldsOK
    <3>2. Head(todo) = {f}
      BY <3>1
    <3>3. QED
      BY <1>1, <1>2, <2>1, <2>2, <3>1, <3>2 DEF EditorOK
  <2>3. CASE f \notin E
    <3>1. row'[f] = row[f] /\ by'[f] = by[f]
      BY <1>1, <1>4, <2>1, <2>3
    <3>2. QED
      BY <1>2, <3>1 DEF RowInRange
  <2>4. QED
    BY <2>2, <2>3
<1>8. RowInRange'
  BY <1>1, <1>7 DEF RowInRange
<1>9. ASSUME ~risky, Tail(todo) = <<>>
      PROVE  row' = meant'
  <2>1. FieldsAgree(e)
    BY <1>1, <1>9 DEF SettingsInv, Agreed, Sends
  <2>2. DOMAIN todo = {1}
    BY <1>4, <1>9
  <2>3. \A f \in E : f \in Head(todo) \/ (row[f] = ed[e].buf[f])
    BY <1>4, <2>1, <2>2 DEF FieldsAgree
  <2>4. \A f \in Fields(page) \ E : row[f] = meant[f]
    BY <2>1 DEF FieldsAgree
  <2>5. \A f \in Fields(page) : row'[f] = meant'[f]
    BY <1>1, <1>4, <2>3, <2>4
  <2>6. QED
    BY <1>5, <2>5
<1>10. QED
  BY <1>5, <1>6, <1>8, <1>9

\* The editor after a row: done, to raise the flag, or with the other rows to write.
LEMMA WroteEditor ==
    ASSUME SettingsInv, NEW e \in Editors, Wrote(e)
    PROVE  /\ EditorOK(e)' /\ SendingOK(e)'
           /\ IF Tail(ed[e].todo) = <<>> THEN ~Sends(e)'
              ELSE ~OneRow(page) /\ page \notin BotTexts /\ (~risky => FieldsAgree(e)')
<1> DEFINE todo == ed[e].todo
<1>1. /\ ed[e].pc = "writing" /\ UNCHANGED <<page, objs, flag, risky, missed>>
      /\ ed'[e] = IF ~(Tail(todo) = <<>>) THEN Shortened(ed[e], Tail(todo))
                  ELSE IF ed[e].who = "web" THEN Flagging(ed[e]) ELSE Over
  BY DEF Wrote
<1>2. EditorOK(e) /\ SendingOK(e) /\ Sends(e) /\ IsEdit(ed[e]) /\ ed[e].who \in {"bot", "web"}
  BY <1>1 DEF SettingsInv, Sends, EditorOK
<1>3. CASE Tail(todo) = <<>> /\ ed[e].who = "web"
  <2>1. ed'[e] = Flagging(ed[e])
    BY <1>1, <1>3
  <2>2. /\ IsEdit(ed'[e]) /\ ed'[e].pc = "flagging" /\ ed'[e].who = "web"
        /\ ed'[e].form = ed[e].form /\ ed'[e].obj = ed[e].obj
    BY <1>2, <1>3, <2>1, FlaggingIs
  <2>3. EditorOK(e)'
    BY <1>1, <1>2, <1>3, <2>2 DEF EditorOK
  <2>4. QED
    BY <1>3, <2>2, <2>3 DEF SendingOK, Sends
<1>4. CASE Tail(todo) = <<>> /\ ed[e].who # "web"
  <2>1. ed'[e] = Over
    BY <1>1, <1>4
  <2>2. QED
    BY <1>4, <2>1, OverOK DEF SendingOK
<1>5. CASE Tail(todo) # <<>>
  <2>1. /\ ed'[e] = Shortened(ed[e], Tail(todo))
    BY <1>1, <1>5
  <2>2. /\ IsEdit(ed'[e]) /\ ed'[e].pc = "writing" /\ ed'[e].buf = ed[e].buf
        /\ ed'[e].who = ed[e].who /\ ed'[e].form = ed[e].form
        /\ ed'[e].value = ed[e].value /\ ed'[e].obj = ed[e].obj /\ ed'[e].todo = Tail(todo)
    <3>1. IsEdit(ed[e])
      BY <1>2
    <3> DEFINE rest == Tail(todo)
    <3>2. ed'[e] = Shortened(ed[e], rest)
      BY <2>1
    <3> HIDE DEF rest
    <3>3. /\ IsEdit(ed'[e]) /\ ed'[e].pc = ed[e].pc /\ ed'[e].buf = ed[e].buf
          /\ ed'[e].who = ed[e].who /\ ed'[e].form = ed[e].form
          /\ ed'[e].value = ed[e].value /\ ed'[e].obj = ed[e].obj /\ ed'[e].todo = rest
      BY <3>1, <3>2, ShortenedIs
    <3>4. QED
      BY <1>1, <3>3 DEF rest
  <2>3. EditorOK(e)'
    BY <1>1, <1>2, <2>2 DEF EditorOK
  <2>4. ~OneRow(page) /\ FieldsOK(e)
    <3>1. \A S : Tail(<<S>>) = <<>>
      OBVIOUS
    <3>2. QED
      BY <1>2, <1>5, <3>1 DEF SendingOK, WholeOK
  <2>5. page \notin BotTexts /\ Edited(e) \cap RangedFields(page) = {}
    <3>1. \A S : Tail(<<S>>) = <<>>
      OBVIOUS
    <3>2. QED
      BY <1>5, <2>4, <3>1 DEF FieldsOK
  <2>6. Edited(e)' = Edited(e) /\ Sends(e)'
    BY <1>1, <2>2 DEF Edited, Sends
  <2> DEFINE E == Edited(e)
  <2>7. todo \in Seq(SUBSET E) /\ todo # <<>> /\ IsFiniteSet(E) /\ Len(todo) =< Cardinality(E)
        /\ Cardinality(E) \in Nat
    BY <2>4, FS_CardinalityType DEF FieldsOK
  <2>8. /\ Head(todo) = todo[1] /\ Tail(todo) \in Seq(SUBSET E)
        /\ Len(Tail(todo)) = Len(todo) - 1 /\ Len(todo) \in Nat /\ Len(todo) > 0
        /\ \A i \in DOMAIN todo :
              i # 1 => i - 1 \in DOMAIN Tail(todo) /\ Tail(todo)[i - 1] = todo[i]
    BY <2>7, Rest
  <2>9. Len(Tail(todo)) < Cardinality(E)
    BY <2>7, <2>8
  <2> DEFINE rest == Tail(todo)
  <2>10. ed'[e].todo = rest
    BY <2>2
  <2> HIDE DEF rest
  <2>11. FieldsOK(e)'
    <3>1. rest \in Seq(SUBSET E) /\ rest # <<>> /\ Len(rest) =< Cardinality(E)
      BY <1>5, <2>7, <2>8, <2>9 DEF rest
    <3>2. QED
      BY <1>1, <2>2, <2>4, <2>5, <2>6, <2>10, <3>1 DEF FieldsOK
  <2>12. SendingOK(e)'
    BY <1>1, <1>2, <2>4, <2>6, <2>11 DEF SendingOK
  <2>13. ASSUME ~risky
         PROVE  FieldsAgree(e)'
    <3>1. FieldsAgree(e) /\ E \subseteq Fields(page)
      BY <1>2, <2>4, <2>13 DEF SettingsInv, Agreed, SendingOK
    <3>2. /\ \A f \in Fields(page) :
                 /\ row'[f] = IF f \in Head(todo) THEN ed[e].buf[f] ELSE row[f]
                 /\ meant'[f] = IF f \in E THEN ed[e].buf[f] ELSE meant[f]
      BY DEF Wrote
    <3>3. Head(todo) \subseteq E
      BY <2>7, Rest
    <3>4. \A f \in Fields(page) \ E : row'[f] = meant'[f]
      BY <3>1, <3>2, <3>3 DEF FieldsAgree
    <3>5. ASSUME NEW f \in E
          PROVE  \/ \E i \in DOMAIN rest : f \in rest[i]
                 \/ row'[f] = ed[e].buf[f] /\ meant'[f] = ed[e].buf[f]
      <4>1. meant'[f] = ed[e].buf[f]
        BY <3>1, <3>2, <3>5
      <4>2. CASE f \in Head(todo) \/ row[f] = ed[e].buf[f]
        BY <3>1, <3>2, <3>5, <4>1, <4>2
      <4>3. CASE \E i \in DOMAIN todo : i # 1 /\ f \in todo[i]
        BY <2>8, <4>3 DEF rest
      <4>4. (\E i \in DOMAIN todo : f \in todo[i]) \/ row[f] = ed[e].buf[f]
        BY <3>1, <3>5 DEF FieldsAgree
      <4>5. QED
        BY <2>8, <4>2, <4>3, <4>4
    <3>6. Len(rest) < Cardinality(E)
      BY <2>9 DEF rest
    <3> HIDE DEF E
    <3>7. QED
      BY <1>1, <2>2, <2>6, <2>10, <3>4, <3>5, <3>6 DEF FieldsAgree, E
  <2>14. QED
    BY <1>5, <2>3, <2>4, <2>5, <2>12, <2>13
<1>6. QED
  BY <1>3, <1>4, <1>5

LEMMA WriteRowKeeps ==
    ASSUME SettingsInv, NEW e \in Editors, WriteRow(e)
    PROVE  SettingsInv'
<1>1. /\ Wrote(e) /\ DOMAIN ed' = Editors /\ DOMAIN rd' = Readers
      /\ \A r \in Readers : ReaderOK(r)'
  BY WriteRowIs
<1>2. /\ UNCHANGED <<page, objs, flag, risky, missed>> /\ \A d \in Editors \ {e} : ed'[d] = ed[d]
      /\ by' = [f \in Fields(page) |-> IF f \in Edited(e) THEN ed[e].who ELSE by[f]]
      /\ ed[e].pc = "writing"
  BY <1>1 DEF Wrote
<1>3. /\ row' \in PageStates(page) /\ meant' \in [Fields(page) -> SettingValues] /\ RowInRange'
      /\ ~risky /\ (OneRow(page) \/ Tail(ed[e].todo) = <<>>) => row' = meant'
  BY <1>1, WroteWhole, WroteField
<1>4. /\ EditorOK(e)' /\ SendingOK(e)'
      /\ IF Tail(ed[e].todo) = <<>> THEN ~Sends(e)'
         ELSE ~OneRow(page) /\ page \notin BotTexts /\ (~risky => FieldsAgree(e)')
  BY <1>1, WroteEditor
<1>5. \A d \in Editors \ {e} : EditorOK(d)' /\ SendingOK(d)' /\ Sends(d)' = Sends(d)
  BY <1>2, Stays
<1>6. SettingTables'
  <2>1. ed[e].who \in {"bot", "web"} /\ SettingTables
    BY DEF SettingsInv, EditorOK
  <2>2. by' \in [Fields(page) -> {"none", "bot", "web"}]
    BY <1>2, <2>1 DEF SettingTables
  <2>3. QED
    BY <1>1, <1>2, <1>3, <2>1, <2>2 DEF SettingTables
<1>7. ASSUME ~risky'
      PROVE  Agreed'
  <2>1. ~risky /\ Agreed /\ Sends(e)
    BY <1>2, <1>7 DEF SettingsInv, Sends
  <2>2. \A d \in Editors : Sends(d)' => d = e
    BY <1>5, <2>1 DEF Agreed
  <2>3. CASE Tail(ed[e].todo) = <<>>
    BY <1>2, <1>3, <1>4, <2>1, <2>2, <2>3 DEF Agreed
  <2>4. CASE Tail(ed[e].todo) # <<>>
    <3>1. Sends(e)'
      BY <1>1, <2>4, ShortenedIs DEF Wrote, Sends, SettingsInv, EditorOK
    <3>2. QED
      BY <1>2, <1>4, <2>1, <2>2, <2>4, <3>1 DEF Agreed
  <2>5. QED
    BY <2>3, <2>4
<1>8. QED
  BY <1>1, <1>3, <1>4, <1>5, <1>6, <1>7 DEF SettingsInv

LEMMA SettingsKeep == SettingsInv /\ [SettingsNext]_settingsVars => SettingsInv'
<1> SUFFICES ASSUME SettingsInv, [SettingsNext]_settingsVars
             PROVE  SettingsInv'
  OBVIOUS
<1>1. CASE UNCHANGED settingsVars
  <2>1. UNCHANGED <<page, row, objs, flag, ed, rd, meant, by, risky, missed>>
    BY <1>1 DEF settingsVars, store, settingsGhosts
  <2>2. \A r \in Readers : ReaderOK(r)'
    BY <2>1 DEF SettingsInv, ReaderOK
  <2>3. QED
    BY <2>1, <2>2, QuietStep DEF SettingsInv, SettingTables
<1>2. ASSUME NEW e \in Editors, Step(e)
      PROVE  SettingsInv'
  <2>1. CASE Confirm(e) \/ Answer(e) \/ KeepTried(e)
    BY <2>1, ConfirmTakes, AnswerTakes, KeepTriedTakes, BotTakesKeeps
  <2>2. CASE Try(e) \/ Cancel(e)
    BY <2>2, TryKeeps, CancelKeeps
  <2>3. CASE WebMerge(e) \/ WriteRow(e)
    BY <2>3, WebMergeKeeps, WriteRowKeeps
  <2>4. CASE RaiseFlag(e) \/ Fail(e)
    BY <2>4, RaiseFlagKeeps, FailKeeps
  <2>5. QED
    BY <1>2, <2>1, <2>2, <2>3, <2>4 DEF Step
<1>3. ASSUME NEW e \in Editors, NEW form \in DOMAIN Forms(page),
             \/ Press(e, form) \/ OpenForm(e, form) \/ ResetText(e, form)
             \/ \E value \in {"off", "on", "new", "empty", "negative", "zero", "large"} :
                   WebEdit(e, form, value)
      PROVE  SettingsInv'
  <2>1. CASE Press(e, form)
    BY <2>1, PressTakes, BotTakesKeeps
  <2>2. CASE OpenForm(e, form)
    BY <2>2, OpenFormKeeps
  <2>3. CASE ResetText(e, form)
    BY <2>3, ResetEntry, TakeKeeps
  <2>4. ASSUME NEW value, WebEdit(e, form, value)
        PROVE  SettingsInv'
    BY <2>4, WebEditKeeps
  <2>5. QED
    BY <1>3, <2>1, <2>2, <2>3, <2>4
<1>4. CASE SyncSettings \/ BotRestarts
  BY <1>4, SyncKeeps, BotRestartsKeeps
<1>5. ASSUME NEW r \in Readers, ReloadStep(r) \/ ReloadFails(r)
      PROVE  SettingsInv'
  BY <1>5, ReadRowsKeeps, FillTextsKeeps, AssignKeeps, ReloadFailsKeeps DEF ReloadStep
<1>6. QED
  BY <1>1, <1>2, <1>3, <1>4, <1>5 DEF SettingsNext

LEMMA SettingsShow == SettingsInv => SettingsSound /\ StoredInRange
<1> SUFFICES ASSUME SettingsInv PROVE SettingsSound /\ StoredInRange
  OBVIOUS
<1>1. SettingTables /\ RowInRange
  BY DEF SettingsInv
<1>2. SettingsTypeOK
  <2>1. /\ page \in Pages /\ DOMAIN row = Fields(page) /\ DOMAIN meant = Fields(page)
        /\ \A i \in DOMAIN objs : DOMAIN objs[i] = Fields(page)
    BY <1>1, LastObject DEF SettingTables, PageStates
  <2>2. ASSUME NEW e \in Editors
        PROVE  /\ ed[e].pc \in {"idle", "asked", "trying", "merging", "writing", "flagging",
                                "done"}
               /\ ed[e].pc \notin {"idle", "done"} => ed[e].form \in DOMAIN Forms(page)
               /\ ed[e].obj \in 0 .. Len(objs)
    <3>1. EditorOK(e) /\ DOMAIN objs = 1 .. Len(objs) /\ Len(objs) \in Nat
      BY LastObject DEF SettingsInv
    <3>2. ed[e].obj = 0 \/ ed[e].obj \in 1 .. Len(objs)
      BY <3>1 DEF EditorOK
    <3>3. ed[e].obj \in 0 .. Len(objs)
      BY <3>1, <3>2
    <3>4. QED
      BY <3>1, <3>3 DEF EditorOK
  <2>3. \A r \in Readers : rd[r].pc \in {"no", "reading", "filling", "again", "assigning"}
    BY DEF SettingsInv, ReaderOK
  <2>4. QED
    BY <1>1, <2>1, <2>2, <2>3 DEF SettingsTypeOK, SettingTables
<1>3. NoLostEdit
  <2> SUFFICES ASSUME ~risky, \A e \in Editors : ed[e].pc # "writing"
               PROVE  row = meant
    BY DEF NoLostEdit
  <2>1. Agreed
    BY DEF SettingsInv
  <2>2. CASE OneRow(page)
    BY <2>1, <2>2 DEF Agreed
  <2>3. CASE ~OneRow(page)
    <3>1. \A e \in Editors : ~Sends(e)
      BY <2>3 DEF SettingsInv, EditorOK, Sends
    <3>2. QED
      BY <2>1, <3>1 DEF Agreed
  <2>4. QED
    BY <2>2, <2>3
<1>4. StoredInRange
  <2> SUFFICES ASSUME NEW f \in Fields(page) \cap DOMAIN Forms(page)
               PROVE  \/ InRange(Class(page, f), row[f])
                      \/ /\ by[f] = "web" \/ (risky /\ OneRow(page))
                         /\ OneRow(page) => row[f] # "negative"
    BY DEF StoredInRange
  <2>1. CASE Ranged(Class(page, f))
    <3>1. f \in RangedFields(page)
      BY <2>1 DEF RangedFields
    <3>2. OneRow(page) => row[f] # "negative"
      BY <1>1, <3>1 DEF SettingTables, PageStates
    <3>3. QED
      BY <1>1, <3>1, <3>2 DEF RowInRange
  <2>2. CASE ~Ranged(Class(page, f))
    BY <2>2 DEF Ranged, InRange
  <2>3. QED
    BY <2>1, <2>2
<1>5. QED
  BY <1>2, <1>3, <1>4 DEF SettingsSound

-----------------------------------------------------------------------------
\* An entry lands where its form says.
LEMMA EntryLands ==
    ASSUME SettingsInv, NEW e, NEW form, NEW value, NEW obj, NEW order, NEW changes,
           Entry(e, form, value, obj, order, changes), Take(e, form, value, obj, order, changes),
           ToSet(order) \subseteq ToSet(Purpose(page, form)) \/ Misplaced(form),
           Class(page, form) = "dialog" =>
              /\ form \in ToSet(order) /\ changes[form] = Flipped(Current[form])
    PROVE  \A d \in Editors : Lands(d)
<1>1. /\ ed'[e] = Entered(e, form, value, obj, order, changes)
      /\ \A d \in Editors \ {e} : ed'[d] = ed[d]
  BY TakeIs
<1> DEFINE y == ed'[e]
<1>2. y.form = form /\ y.obj = obj /\ y.buf = EntryBuf(obj, changes)
  BY <1>1 DEF Entered
<1>3. /\ ToSet(order) \subseteq Fields(page) /\ DOMAIN changes = ToSet(order)
      /\ DOMAIN Updated(objs[obj], changes) = Fields(page)
      /\ \A f \in Fields(page) \ ToSet(order) : Updated(objs[obj], changes)[f] = objs[obj][f]
      /\ \A f \in ToSet(order) : Updated(objs[obj], changes)[f] = changes[f]
  BY EntryIs DEF PageStates
<1> HIDE DEF y
<1>4. ASSUME ~Misplaced(form)
      PROVE  \A f \in DOMAIN y.buf \ ToSet(Purpose(page, form)) : y.buf[f] = objs[obj][f]
  <2>1. CASE OneRow(page)
    <3>1. y.buf = Updated(objs[obj], changes)
      BY <1>2, <2>1 DEF EntryBuf
    <3>2. QED
      BY <1>3, <1>4, <3>1
  <2>2. CASE ~OneRow(page)
    <3>1. y.buf = changes
      BY <1>2, <2>2 DEF EntryBuf
    <3>2. QED
      BY <1>3, <1>4, <3>1
  <2>3. QED
    BY <2>1, <2>2
<1>5. ASSUME Class(page, form) = "dialog"
      PROVE  y.buf[form] # Current[form]
  <2>1. y.buf[form] = changes[form]
    BY <1>2, <1>3, <1>5 DEF EntryBuf
  <2>2. Flipped(Current[form]) # Current[form]
    BY DEF Flipped
  <2>3. QED
    BY <1>5, <2>1, <2>2
<1>6. Lands(e)
  BY <1>2, <1>4, <1>5 DEF Lands, y
<1>7. \A d \in Editors \ {e} : Lands(d)
  BY <1>1 DEF Lands
<1>8. QED
  BY <1>6, <1>7

LEMMA BotTakesLands ==
    ASSUME SettingsInv, NEW e \in Editors, BotTakes(e)
    PROVE  \A d \in Editors : Lands(d)
<1>1. PICK form \in DOMAIN Forms(page), value \in SettingValues \ {"old"}, obj \in DOMAIN objs :
         /\ Entry(e, form, value, obj, Order(page, form, value), Changes(page, form, value))
         /\ TakeForm(e, form, value, obj)
         /\ Class(page, form) = "dialog" => value = Flipped(Current[form])
  BY DEF BotTakes
<1> DEFINE order == Order(page, form, value)
           changes == Changes(page, form, value)
<1>2. page \in Pages /\ value \in SettingValues
  BY DEF SettingsInv, SettingTables
<1>3. /\ \/ ToSet(order) \subseteq ToSet(Purpose(page, form))
         \/ /\ form = "show_invoice"
            /\ page \in {"zarinpal texts", "aqaye texts", "swapino texts", "tronado texts"}
      /\ Class(page, form) = "dialog" => form \in ToSet(order) /\ changes[form] = value
  <2>1. order = Order(page, form, value) /\ changes = Changes(page, form, value)
    OBVIOUS
  <2> HIDE DEF order, changes
  <2>2. SheetLands(page, form, order, changes, value)
    BY <1>2, <2>1, ChangesSheet
  <2>3. QED
    BY <2>2 DEF SheetLands
<1>4. ToSet(order) \subseteq ToSet(Purpose(page, form)) \/ Misplaced(form)
  BY <1>3 DEF Misplaced
<1>5. Entry(e, form, value, obj, order, changes) /\ Take(e, form, value, obj, order, changes)
  BY <1>1 DEF TakeForm
<1> HIDE DEF order, changes
<1>6. QED
  BY <1>1, <1>3, <1>4, <1>5, EntryLands

LEMMA StepLands ==
    SettingsInv /\ [SettingsNext]_settingsVars => [\A e \in Editors : Lands(e)]_settingsVars
<1> SUFFICES ASSUME SettingsInv, SettingsNext
             PROVE  \A e \in Editors : Lands(e)
  OBVIOUS
<1>1. DOMAIN ed = Editors /\ \A e \in Editors : EditorOK(e)
  BY DEF SettingsInv, SettingTables
<1>2. ASSUME UNCHANGED ed
      PROVE  \A e \in Editors : Lands(e)
  BY <1>2 DEF Lands
<1>3. ASSUME NEW e \in Editors, NEW y, ed' = [ed EXCEPT ![e] = y],
             y.pc # "writing" \/ y.who = "web"
      PROVE  \A d \in Editors : Lands(d)
  <2>1. ed'[e] = y /\ \A d \in Editors \ {e} : ed'[d] = ed[d]
    BY <1>1, <1>3
  <2>2. QED
    BY <1>3, <2>1 DEF Lands
<1>4. ASSUME NEW e \in Editors, Step(e)
      PROVE  \A d \in Editors : Lands(d)
  <2>1. CASE Confirm(e) \/ Answer(e) \/ KeepTried(e)
    BY <2>1, ConfirmTakes, AnswerTakes, KeepTriedTakes, BotTakesLands
  <2>2. CASE Try(e)
    <3>1. PICK value : ed' = [ed EXCEPT ![e] = Tried(ed[e], value, Len(objs))]
      BY <2>2 DEF Try, Tried
    <3>2. Tried(ed[e], value, Len(objs)).pc = "trying"
      BY <1>1, TriedIs DEF EditorOK
    <3>3. QED
      BY <1>3, <3>1, <3>2
  <2>3. CASE Cancel(e) \/ RaiseFlag(e) \/ Fail(e)
    <3>1. ed' = [ed EXCEPT ![e] = Over]
      BY <2>3 DEF Cancel, RaiseFlag, Fail
    <3>2. QED
      BY <1>3, <3>1, OverIs
  <2>4. CASE WebMerge(e)
    <3>1. ed[e].pc = "merging" /\ ed[e].who = "web" /\ IsEdit(ed[e])
      BY <1>1, <2>4 DEF WebMerge, EditorOK
    <3> DEFINE buf == Updated(ed[e].buf, Changes(page, ed[e].form, ed[e].value))
    <3>2. ed' = [ed EXCEPT ![e] = Merged(ed[e], buf)]
      <4>1. ed' = [ed EXCEPT ![e].pc = "writing", ![e].buf = buf]
        BY <1>1, <2>4 DEF WebMerge
      <4> HIDE DEF buf
      <4>2. QED
        BY <1>1, <4>1 DEF Merged
    <3> HIDE DEF buf
    <3>3. Merged(ed[e], buf).who = "web"
      BY <3>1, MergedIs
    <3>4. QED
      BY <1>3, <3>2, <3>3
  <2>5. CASE WriteRow(e)
    <3>1. ed[e].pc = "writing" /\ \A d \in Editors \ {e} : ed'[d] = ed[d]
      BY <2>5, WriteRowIs DEF Wrote
    <3>2. QED
      BY <3>1 DEF Lands
  <2>6. QED
    BY <1>4, <2>1, <2>2, <2>3, <2>4, <2>5 DEF Step
<1>5. ASSUME NEW e \in Editors, NEW form \in DOMAIN Forms(page),
             \/ Press(e, form) \/ OpenForm(e, form) \/ ResetText(e, form)
             \/ \E value \in {"off", "on", "new", "empty", "negative", "zero", "large"} :
                   WebEdit(e, form, value)
      PROVE  \A d \in Editors : Lands(d)
  <2>1. CASE Press(e, form)
    BY <2>1, PressTakes, BotTakesLands
  <2>2. CASE OpenForm(e, form)
    <3> DEFINE shown == IF form \in Fields(page) THEN Current[form] ELSE ""
    <3>1. ed' = [ed EXCEPT ![e] = Opened(ed[e], form, shown)]
      BY <2>2 DEF OpenForm, Opened
    <3> HIDE DEF shown
    <3>2. Opened(ed[e], form, shown).pc = "asked"
      BY <1>1, OpenedIs DEF EditorOK
    <3>3. QED
      BY <1>3, <3>1, <3>2
  <2>3. CASE ResetText(e, form)
    BY <2>3, ResetEntry, EntryLands
  <2>4. ASSUME NEW value, WebEdit(e, form, value)
        PROVE  \A d \in Editors : Lands(d)
    <3>1. PICK pc, buf, todo :
             ed' = [ed EXCEPT ![e] = WebEdited(ed[e], form, value, pc, buf, todo)]
      BY <2>4 DEF WebEdit, WebEdited
    <3>2. WebEdited(ed[e], form, value, pc, buf, todo).who = "web"
      BY <1>1, WebEditedIs DEF EditorOK
    <3>3. QED
      BY <1>3, <3>1, <3>2
  <2>5. QED
    BY <1>5, <2>1, <2>2, <2>3, <2>4
<1>6. CASE SyncSettings
  BY <1>2, <1>6 DEF SyncSettings
<1>7. CASE BotRestarts
  <2>1. \A e \in Editors : ed'[e] = Over \/ ed'[e] = ed[e]
    BY <1>7 DEF BotRestarts
  <2>2. QED
    BY <2>1, OverIs DEF Lands
<1>8. ASSUME NEW r \in Readers, ReloadStep(r) \/ ReloadFails(r)
      PROVE  \A e \in Editors : Lands(e)
  BY <1>2, <1>8 DEF ReloadStep, ReadRows, FillTexts, Assign, ReloadFails, store
<1>9. QED
  BY <1>4, <1>5, <1>6, <1>7, <1>8 DEF SettingsNext

\* Whatever the editors of a page do, in the bot and in the panel, and whenever the process
\* stops: the objects are complete, and unless an edit began from values that were not the
\* database's no edit that was saved is undone.
THEOREM AlwaysSettingsSound == SettingsSpec => []SettingsSound
<1>1. SettingsSpec => []SettingsInv
  BY SettingsStart, SettingsKeep, PTL DEF SettingsSpec
<1>2. QED
  BY <1>1, SettingsShow, PTL

\* The bot never stores a value out of its setting's range.
THEOREM AlwaysStoredInRange == SettingsSpec => []StoredInRange
<1>1. SettingsSpec => []SettingsInv
  BY SettingsStart, SettingsKeep, PTL DEF SettingsSpec
<1>2. QED
  BY <1>1, SettingsShow, PTL

\* An edit in the bot lands where its form says.
THEOREM EditsAlwaysLand == SettingsSpec => EditLands
<1>1. SettingsSpec => []SettingsInv
  BY SettingsStart, SettingsKeep, PTL DEF SettingsSpec
<1>2. SettingsSpec => [][SettingsNext]_settingsVars
  BY PTL DEF SettingsSpec
<1>3. QED
  BY <1>1, <1>2, StepLands, PTL DEF EditLands
=============================================================================
