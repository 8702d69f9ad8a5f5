---------------------------- MODULE OfflineReview ----------------------------
(***************************************************************************)
(* Offline crypto payments.  The customer sends a transaction hash and a    *)
(* screenshot in any number of messages, which concurrent handlers collect  *)
(* in the conversation's data; the proof becomes a waiting payment.  Admins *)
(* in the bot and items the web panel queued approve it, reject it, or      *)
(* reverse an approval, each from a row loaded earlier.                     *)
(***************************************************************************)
EXTENDS Naturals, Sequences, FiniteSets

CONSTANTS
    Messages,   \* of the customer, one use each (a bound)
    Reviews     \* of the admins, one use each (a bound)

Parts == SUBSET {"txid", "screenshot"}
Statuses == {"waiting", "finished", "rejected"}

VARIABLES
    required,    \* the parts a proof needs (require_screenshot)
    coin,        \* the coin of the session: as "shown", "changed" or "gone"
    conv,        \* the conversation awaits a "proof", or is "closed"
    kept,        \* parts collected in the conversation's data
    pays,        \* the payments made: [status, cp, launches, reversals]
    msg,         \* per message: [pc, parts]
    queue,       \* the review queue in Redis
    rev,         \* per review: [pc, pay, action, web, confirmed]
    crossed,     \* two messages were handled together
    dropped,     \* the proof was given up: cancelled, coin gone, or an error
    overlapped,  \* payments two reviews of which were open together
    torn         \* payments whose rejection a restart cut in two

session == <<required, coin, conv, kept, msg, crossed, dropped>>
review == <<queue, rev, overlapped, torn>>
vars == <<session, pays, review>>

NoReview == [pc |-> "idle", pay |-> 1, action |-> "approve",
             web |-> FALSE, confirmed |-> FALSE]
Ended == [NoReview EXCEPT !.pc = "done"]

\* Types of the session, the payments and the reviews, which work on real payments.
OfflineTypeOK ==
    /\ required \in Parts /\ "txid" \in required
    /\ coin \in {"shown", "changed", "gone"}
    /\ conv \in {"proof", "closed"} /\ kept \in Parts
    /\ \A i \in DOMAIN pays :
          /\ pays[i].status \in Statuses /\ pays[i].cp \in {"waiting", "finished", "failed"}
          /\ pays[i].launches \in Nat /\ pays[i].reversals \in Nat
    /\ \A m \in Messages :
          msg[m].pc \in {"idle", "read", "ready", "creating", "done"} /\ msg[m].parts \in Parts
    /\ queue \in Seq(Reviews)
    /\ \A v \in Reviews :
          /\ rev[v].pc \in {"idle", "queued", "approving", "launching", "revoking",
                            "marking", "done"}
          /\ rev[v].pc # "idle" => rev[v].pay \in DOMAIN pays
    /\ overlapped \subseteq DOMAIN pays /\ torn \subseteq DOMAIN pays

Init ==
    /\ required \in {{"txid"}, {"txid", "screenshot"}}
    /\ coin = "shown" /\ conv = "proof" /\ kept = {}
    /\ pays = <<>>
    /\ msg = [m \in Messages |-> [pc |-> "idle", parts |-> {}]]
    /\ queue = <<>>
    /\ rev = [v \in Reviews |-> NoReview]
    /\ crossed = FALSE /\ dropped = FALSE /\ overlapped = {} /\ torn = {}

-----------------------------------------------------------------------------
\* offline_coin has shown the wallet of a coin and awaits the proof (Init); the web
\* panel may replace the list of coins, and the customer may cancel.
EditCoins(c) ==
    /\ coin = "shown" /\ c \in {"changed", "gone"}
    /\ coin' = c
    /\ UNCHANGED <<required, conv, kept, msg, crossed, dropped, pays, review>>

CancelSession ==
    /\ conv = "proof"
    /\ conv' = "closed" /\ kept' = {} /\ dropped' = TRUE
    /\ UNCHANGED <<required, coin, msg, crossed, pays, review>>

\* A message brings parts (none: it is invalid); its handler reads the data.
ReadProof(m, parts) ==
    /\ conv = "proof" /\ msg[m].pc = "idle"
    /\ msg' = [msg EXCEPT ![m] = [pc |-> "read", parts |-> kept \cup parts]]
    /\ crossed' = (crossed \/ \E q \in Messages : msg[q].pc \in {"read", "ready"})
    /\ UNCHANGED <<required, coin, conv, kept, dropped, pays, review>>

\* It writes back what it read and brought, and goes on once nothing is missing.
KeepProof(m) ==
    /\ msg[m].pc = "read"
    /\ kept' = msg[m].parts
    /\ msg' = [msg EXCEPT ![m].pc = IF required \subseteq msg[m].parts THEN "ready" ELSE "done"]
    /\ UNCHANGED <<required, coin, conv, crossed, dropped, pays, review>>

\* Broken variant for ProofBecomesPayment: the conversation is not closed.
CloseSession_LeavesOpen(m) ==
    /\ msg[m].pc = "ready"
    /\ dropped' = (dropped \/ coin = "gone")
    /\ msg' = [msg EXCEPT ![m].pc = IF coin = "gone" THEN "done" ELSE "creating"]
    /\ UNCHANGED <<required, coin, conv, kept, crossed, pays, review>>

\* The conversation is closed; a coin that is gone by now ends it without a payment.
CloseSession(m) ==
    /\ msg[m].pc = "ready"
    /\ conv' = "closed" /\ kept' = {}
    /\ dropped' = (dropped \/ coin = "gone")
    /\ msg' = [msg EXCEPT ![m].pc = IF coin = "gone" THEN "done" ELSE "creating"]
    /\ UNCHANGED <<required, coin, crossed, pays, review>>

\* The payment, its draft and its proof are written together, or not at all.
CreatePayment(m) ==
    /\ msg[m].pc = "creating"
    /\ pays' = Append(pays, [status |-> "waiting", cp |-> "waiting",
                             launches |-> 0, reversals |-> 0])
    /\ msg' = [msg EXCEPT ![m].pc = "done"]
    /\ UNCHANGED <<required, coin, conv, kept, crossed, dropped, review>>

CreateFails(m) ==
    /\ msg[m].pc = "creating"
    /\ dropped' = TRUE
    /\ msg' = [msg EXCEPT ![m].pc = "done"]
    /\ UNCHANGED <<required, coin, conv, kept, crossed, pays, review>>

-----------------------------------------------------------------------------
Applying == {"approving", "launching", "revoking", "marking"}
Pay(v) == rev[v].pay
Begun(r) == IF r.pc = "done" THEN Ended ELSE r
Enter(v, where) == rev' = [rev EXCEPT ![v] = Begun([@ EXCEPT !.pc = where])]
Open(p) == \E v \in Reviews : Pay(v) = p /\ rev[v].pc \in Applying

\* Where a review of a row with this status goes: the idempotence guards.
Judged(action, status) ==
    IF action = "approve"
    THEN IF status = "finished" THEN "done" ELSE "approving"
    ELSE IF status = "rejected" THEN "done" ELSE "revoking"

\* Broken variant for ReversalAskedFor: one tap rejects an approved payment, too.
Tap_Unconfirmed(v, p, action, confirmed) ==
    /\ rev[v].pc = "idle"
    /\ confirmed => action = "reject"
    /\ rev' = [rev EXCEPT ![v] = Begun([pc |-> Judged(action, pays[p].status), pay |-> p,
                                        action |-> action, web |-> FALSE,
                                        confirmed |-> confirmed])]
    /\ overlapped' = overlapped \cup (IF Open(p) THEN {p} ELSE {})
    /\ UNCHANGED <<session, pays, queue, torn>>

\* A tap on the card; rejecting an approved payment asks for a second, confirmed one.
Tap(v, p, action, confirmed) ==
    /\ rev[v].pc = "idle"
    /\ confirmed => action = "reject"
    /\ (action = "reject" /\ pays[p].status = "finished") => confirmed
    /\ rev' = [rev EXCEPT ![v] = Begun([pc |-> Judged(action, pays[p].status), pay |-> p,
                                        action |-> action, web |-> FALSE,
                                        confirmed |-> confirmed])]
    /\ overlapped' = overlapped \cup (IF Open(p) THEN {p} ELSE {})
    /\ UNCHANGED <<session, pays, queue, torn>>

\* offline_review_web queues a review of a payment that is not approved yet.
QueueReview(v, p, action) ==
    /\ rev[v].pc = "idle" /\ pays[p].status # "finished"
    /\ rev' = [rev EXCEPT ![v] = [pc |-> "queued", pay |-> p, action |-> action,
                                  web |-> TRUE, confirmed |-> FALSE]]
    /\ queue' = Append(queue, v)
    /\ UNCHANGED <<session, pays, overlapped, torn>>

\* process_offline_review_queue: one item at a time, whatever the row says by now.
PopReview ==
    /\ queue # <<>>
    /\ \A q \in Reviews : rev[q].web => rev[q].pc \notin Applying
    /\ LET v == Head(queue)
           where == Judged(rev[v].action, pays[Pay(v)].status)
       IN  /\ rev' = [rev EXCEPT ![v] = Begun([@ EXCEPT !.pc = where])]
           /\ overlapped' = overlapped \cup (IF Open(Pay(v)) THEN {Pay(v)} ELSE {})
    /\ queue' = Tail(queue)
    /\ UNCHANGED <<session, pays, torn>>

\* Broken variant for StatusesAgree: the payment's own row is left out.
Approve_OnlyTransaction(v) ==
    /\ rev[v].pc = "approving"
    /\ pays' = [pays EXCEPT ![Pay(v)].status = "finished"]
    /\ Enter(v, "launching")
    /\ UNCHANGED <<session, queue, overlapped, torn>>

\* _approve_offline saves both rows it loaded, in one transaction.
Approve(v) ==
    /\ rev[v].pc = "approving"
    /\ pays' = [pays EXCEPT ![Pay(v)].status = "finished", ![Pay(v)].cp = "finished"]
    /\ Enter(v, "launching")
    /\ UNCHANGED <<session, queue, overlapped, torn>>

\* The message may fail; the activation is launched all the same.
Launch(v) ==
    /\ rev[v].pc = "launching"
    /\ pays' = [pays EXCEPT ![Pay(v)].launches = @ + 1]
    /\ Enter(v, "done")
    /\ UNCHANGED <<session, queue, overlapped, torn>>

\* revoke_activated_transaction (in one step here; its own are in ReceiptReview) ...
Revoke(v) ==
    /\ rev[v].pc = "revoking"
    /\ pays' = [pays EXCEPT ![Pay(v)].status = "rejected",
                            ![Pay(v)].reversals =
                                IF pays[Pay(v)].status = "finished" THEN @ + 1 ELSE @]
    /\ Enter(v, "marking")
    /\ UNCHANGED <<session, queue, overlapped, torn>>

\* ... and then the payment's own row is saved.
Mark(v) ==
    /\ rev[v].pc = "marking"
    /\ pays' = [pays EXCEPT ![Pay(v)].cp = "failed"]
    /\ Enter(v, "done")
    /\ UNCHANGED <<session, queue, overlapped, torn>>

\* The bot restarts; Redis keeps the conversation and the queue.
Restart ==
    /\ msg' = [m \in Messages |->
                  IF msg[m].pc = "idle" THEN msg[m] ELSE [msg[m] EXCEPT !.pc = "done"]]
    /\ dropped' = (dropped \/ \E m \in Messages : msg[m].pc = "creating")
    /\ rev' = [v \in Reviews |->
                  IF rev[v].pc \in Applying THEN Ended ELSE rev[v]]
    /\ torn' = torn \cup {Pay(v) : v \in {w \in Reviews : rev[w].pc = "marking"}}
    /\ UNCHANGED <<required, coin, conv, kept, crossed, pays, queue, overlapped>>

Next ==
    \/ \E c \in {"changed", "gone"} : EditCoins(c)
    \/ CancelSession
    \/ \E m \in Messages :
          \/ \E parts \in Parts : ReadProof(m, parts)
          \/ KeepProof(m) \/ CloseSession(m) \/ CreatePayment(m) \/ CreateFails(m)
    \/ \E v \in Reviews, p \in DOMAIN pays, action \in {"approve", "reject"} :
          \/ \E confirmed \in BOOLEAN : Tap(v, p, action, confirmed)
          \/ QueueReview(v, p, action)
    \/ PopReview
    \/ \E v \in Reviews : Approve(v) \/ Launch(v) \/ Revoke(v) \/ Mark(v)
    \/ Restart

Spec == Init /\ [][Next]_vars

-----------------------------------------------------------------------------
Handled == \A m \in Messages : msg[m].pc \in {"idle", "done"}

\* However a proof is split into messages, it becomes one payment, and only one
\* unless two messages were handled together (an album); a conversation ends
\* without a payment only if it was cancelled, failed or its coin is gone
\* (offline_proof: order and splitting never trap the user).
ProofBecomesPayment ==
    /\ Len(pays) > 1 => crossed
    /\ (conv = "closed" /\ Handled /\ pays = <<>>) => dropped

\* Both rows of a payment have known statuses, and a proof becomes one payment.
OfflineSound == OfflineTypeOK /\ ProofBecomesPayment

\* The transaction and the payment's own row, which the customer and the panel
\* show, say the same when no review is under way, unless two overlapped or a
\* restart cut a rejection in two (_approve_offline, _reject_offline).
StatusesAgree ==
    \A p \in DOMAIN pays :
        (~Open(p) /\ p \notin overlapped /\ p \notin torn) =>
            /\ pays[p].status = "finished" <=> pays[p].cp = "finished"
            /\ pays[p].status = "rejected" <=> pays[p].cp = "failed"
            /\ pays[p].launches <= 1 + pays[p].reversals

\* An approved payment is reversed, which takes the customer's subscription away,
\* only by a confirmed tap; one that was decided on when the payment was not
\* approved yet slips through, a web item queued before the approval above all.
ReversalAskedFor ==
    [][\A v \in Reviews :
        (Revoke(v) /\ pays[Pay(v)].status = "finished") =>
            \/ rev[v].confirmed \/ rev[v].web
            \/ Pay(v) \in overlapped]_vars
=============================================================================
