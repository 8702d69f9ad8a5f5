--------------------------- MODULE Subscriptions ---------------------------
(***************************************************************************)
(* One subscription after its purchase: its row, its account on a panel and   *)
(* its invoices.  The customer and staff rename, disable, renew, remove and   *)
(* refund it; jobs of the bot copy its status, change many accounts at once   *)
(* and delete what expired long ago.  Every look at the account is an HTTP    *)
(* call during which the others run.                                          *)
(***************************************************************************)
EXTENDS RowEdits, Integers, Sequences

CONSTANTS
    Sub,         \* the row
    Holders,
    FirstSub,    \* per scheme: the row after the purchase
    Price, Fee,  \* of each plan; cancel_payback_fee
    Duration, Limit,  \* of the plan for a time, of the plan for an amount of data
    KeepDays,    \* delete_expired_users_after_days
    Step,        \* what a bulk change adds or takes off
    MaxTime, MaxUse  \* bounds

\* How a renewal is done: the account is reset and changed; the same, and what is left of
\* the old plan's data is added; or a hub bills it and does it in one call.
Schemes == {"plain", "appends", "hub"}

Plans == {"time", "data"}
NoPlan == "none"
Statuses == {"active", "disabled", "limited", "expired"}
SubRows == [status : Statuses, name : {"old", "new"}, owner : Holders, plan : Plans \cup {NoPlan}]

ASSUME SubscriptionsAssumption ==
    /\ Sub \in Keys /\ FirstSub \in [Schemes -> SubRows]
    /\ {Price, Fee, KeepDays, Step, MaxTime, MaxUse} \subseteq Nat
    /\ {Duration, Limit} \subseteq Nat \ {0}
    /\ Price % Duration = 0 /\ Price % Limit = 0

VARIABLES
    scheme,    \* of the services of the subscription's server
    acct,      \* the account on the panel: [off, ends, limit, used], 0 for none
    now,
    up,        \* the panel answers
    bills,     \* the invoices of the subscription: [amount, linked, renewal]
    night,     \* the nightly job
    \* Only for the properties.
    term,      \* the end and the limit that were paid for, with later bulk changes
    undone,    \* a bulk change wrote over a renewal or another one
    moved,     \* a bulk change moved the end or the limit
    resized,   \* a renewal gave the account another limit than it had
    orphan     \* the row was deleted by one who goes on when the account cannot be removed

acctVars == <<scheme, acct, now, up>>
subGhosts == <<term, undone, moved, resized, orphan>>
subVars == <<acctVars, bills, night, subGhosts>>

NoAccount == [none |-> TRUE]
Alive == acct # NoAccount
Status(a) ==
    IF a.off THEN "disabled"
    ELSE IF a.limit > 0 /\ a.used >= a.limit THEN "limited"
    ELSE IF a.ends > 0 /\ now >= a.ends THEN "expired" ELSE "active"

\* What a plan gives; on a hub every one has days and an amount of data.
Ends(plan) == IF plan = "time" \/ scheme = "hub" THEN now + Duration ELSE 0
DataLimit(plan) == IF plan = "data" \/ scheme = "hub" THEN Limit ELSE 0
Renewed(a, plan, limit) == [a EXCEPT !.ends = Ends(plan), !.limit = limit]

SubscriptionTypeOK ==
    /\ scheme \in Schemes /\ row[Sub] \in SubRows \cup {Absent, Gone}
    /\ acct = NoAccount \/ acct \in [off : BOOLEAN, ends : Int, limit : Int, used : Nat]
    /\ bills \in Seq([amount : Int, linked : BOOLEAN, renewal : BOOLEAN])
    /\ night = Idle \/ DOMAIN night \in {{"snap", "status"}, {"forget"}}

NewAccount ==
    LET plan == FirstSub[scheme].plan
    IN  [off |-> FALSE, ends |-> Ends(plan), limit |-> DataLimit(plan), used |-> 0]

\* A subscription bought from the bot, or an account that somebody made on the panel.
SubscriptionsInit ==
    /\ scheme \in Schemes
    /\ \E first \in {FirstSub[scheme], Absent} :
          EditsInit([k \in Keys |-> IF k = Sub THEN first ELSE Absent])
    /\ now = 0 /\ up = TRUE /\ night = Idle
    /\ acct = NewAccount /\ term = [ends |-> acct.ends, limit |-> acct.limit]
    /\ bills = IF row[Sub] = Absent THEN <<>>
               ELSE <<[amount |-> Price, linked |-> TRUE, renewal |-> FALSE]>>
    /\ undone = FALSE /\ moved = FALSE /\ resized = FALSE /\ orphan = FALSE

\* While the invoice of a renewal is not committed, its reference keeps others from writing
\* the row.
Billing(h) == "bill" \in DOMAIN hand[h]
Locked == \E h \in Hands : Billing(h)

Then(h, e) == hand' = [hand EXCEPT ![h] = e] /\ UNCHANGED starts
Does(h, field) == field \in DOMAIN hand[h]
Asks(h, what) == Does(h, "ask") /\ hand[h].ask = what
SaveThen(h, status, next) ==
    LET seen == hand[h].seen
    IN  Then(h, [to |-> Sub, by |-> "bot", seen |-> seen, next |-> next,
                 new |-> [seen EXCEPT !.status = status], cols |-> DOMAIN seen])

-----------------------------------------------------------------------------
(* The buttons of a subscription: the row is loaded, then the panel asked. *)

Ask(h, what) ==
    /\ Exists(Sub) /\ Hold(h, [ask |-> what, seen |-> row[Sub]])
    /\ RowsKept /\ UNCHANGED subVars

\* The page: a status that differs is saved, "disabled" when the panel has no account or
\* forbids to see it.
ShowProxy(h) ==
    /\ Asks(h, "show")
    /\ \/ up /\ ~Alive /\ SaveThen(h, "disabled", Idle)
       \/ up /\ Alive /\ IF Status(acct) = hand[h].seen.status THEN LetGo(h)
                         ELSE SaveThen(h, Status(acct), Idle)
       \/ ~up /\ (LetGo(h) \/ SaveThen(h, "disabled", Idle))
    /\ RowsKept /\ UNCHANGED subVars

SetName(h) == Exists(Sub) /\ Save(h, "customer", Sub, [row[Sub] EXCEPT !.name = "new"])
              /\ UNCHANGED subVars

\* Disable an active account, enable a disabled one; the status is saved before.
Switch(h, off) ==
    LET wanted == IF off THEN "active" ELSE "disabled"
        next == IF Alive /\ Status(acct) = wanted THEN [set |-> off] ELSE Idle
    IN  /\ Asks(h, IF off THEN "disable" ELSE "enable")
        /\ IF up /\ Alive /\ Status(acct) # hand[h].seen.status
           THEN SaveThen(h, Status(acct), next)
           ELSE Then(h, IF up THEN next ELSE Idle)
        /\ RowsKept /\ UNCHANGED subVars
DisableProxy(h) == Switch(h, TRUE)
EnableProxy(h) == Switch(h, FALSE)

\* The panel does it, and the page is shown again.
SetStatus(h) ==
    /\ Does(h, "set")
    /\ acct' = IF up /\ Alive THEN [acct EXCEPT !.off = hand[h].set] ELSE acct
    /\ Then(h, IF up /\ Alive /\ Exists(Sub) THEN [ask |-> "show", seen |-> row[Sub]] ELSE Idle)
    /\ RowsKept /\ UNCHANGED <<scheme, now, up, bills, night, subGhosts>>

-----------------------------------------------------------------------------
(* Removal and refund.  hand.forget is the invoice to change when the row is deleted. *)

NoBill == [i |-> 0, amount |-> 0]
RemoveProxy(h) ==
    /\ Asks(h, "remove")
    /\ Then(h, IF ~up THEN Idle ELSE IF Alive THEN [kill |-> NoBill] ELSE [forget |-> NoBill])
    /\ RowsKept /\ UNCHANGED subVars

\* Broken variant for RefundBounded: the time used is counted from the end.
Used_FromEnd(plan, a) ==
    IF plan = "data" THEN a.used * (Price \div Limit) ELSE (now - a.ends) * (Price \div Duration)

\* What of a price has been used: by data, or by time since the account's end minus the plan.
UsedOf(plan, a) ==
    IF plan = "data" THEN a.used * (Price \div Limit)
    ELSE (now - (a.ends - Duration)) * (Price \div Duration)

FirstLinked == {i \in DOMAIN bills : bills[i].linked /\ \A j \in 1..(i - 1) : ~bills[j].linked}

\* The first invoice becomes the fee and what was used; without an account or an end to
\* reckon with, without an invoice or a service, the handler raises.
DeleteWithPayback(h) ==
    LET plan == hand[h].seen.plan
        known == up /\ Alive /\ plan # NoPlan /\ (plan = "time" => acct.ends # 0)
    IN  /\ Asks(h, "payback")
        /\ \/ /\ known
              /\ \E i \in FirstLinked :
                    Then(h, [kill |-> [i |-> i, amount |-> Fee + UsedOf(plan, acct)]])
           \/ (~known \/ FirstLinked = {}) /\ LetGo(h)
        /\ RowsKept /\ UNCHANGED subVars

\* Broken variant for SubscriptionSound: a panel that does not answer is passed over.
RemoveUser_Swallows(h) ==
    /\ Does(h, "kill")
    /\ acct' = IF up THEN NoAccount ELSE acct
    /\ Then(h, [forget |-> hand[h].kill])
    /\ RowsKept /\ UNCHANGED <<scheme, now, up, bills, night, subGhosts>>

\* The account goes first ...
RemoveUser(h) ==
    /\ Does(h, "kill")
    /\ acct' = IF up THEN NoAccount ELSE acct
    /\ Then(h, IF up THEN [forget |-> hand[h].kill] ELSE Idle)
    /\ RowsKept /\ UNCHANGED <<scheme, now, up, bills, night, subGhosts>>

\* ... and then the row, from which its invoices are unlinked.
Unlinked(b) == [i \in DOMAIN b |-> [b[i] EXCEPT !.linked = FALSE]]
ForgetRow(b) == ~Locked /\ Delete({Sub} \ {k \in Keys : row[k] = Absent}) /\ bills' = Unlinked(b)
DeleteRow(h) ==
    LET b == hand[h].forget
    IN  /\ Does(h, "forget") /\ LetGo(h)
        /\ ForgetRow(IF b.i = 0 \/ ~Exists(Sub) THEN bills
                     ELSE [bills EXCEPT ![b.i].amount = b.amount])
        /\ UNCHANGED <<raced, acctVars, night, subGhosts>>

\* The process stops between two steps, or the database refuses: what was done on the panel
\* stays, the transaction is undone.
GiveUp(h) ==
    /\ Billing(h) \/ (Does(h, "forget") /\ hand[h].forget.i # 0)
    /\ Begin
    /\ hand' = [hand EXCEPT ![h] = Idle] /\ RowsKept /\ UNCHANGED subVars

-----------------------------------------------------------------------------
(* A renewal: in a transaction the invoice, the account's reset and change, the whole row. *)

RenewProxyNow(h, plan) ==
    /\ Exists(Sub) /\ Hold(h, [renew |-> plan, seen |-> row[Sub]])
    /\ RowsKept /\ UNCHANGED subVars

\* In the transaction: the invoice is made, and the account is asked for what is left of it,
\* reset, or renewed by the hub.
Resetting(plan, limit, seen) ==
    [reset |-> plan, limit |-> limit, seen |-> seen, bill |-> TRUE]
Appends(seen, plan) == scheme = "appends" /\ {seen.plan, plan} = {"data"}
CreateInvoice(h) ==
    LET plan == hand[h].renew
        seen == hand[h].seen
    IN  /\ Does(h, "renew")
        /\ IF ~Exists(Sub) THEN LetGo(h)
           ELSE Then(h, IF scheme = "hub" THEN [recharge |-> plan, seen |-> seen, bill |-> TRUE]
                        ELSE IF Appends(seen, plan) THEN [look |-> plan, seen |-> seen, bill |-> TRUE]
                        ELSE Resetting(plan, DataLimit(plan), seen))
        /\ RowsKept /\ UNCHANGED subVars

\* What the old plan has left is added; by the time of the change more may have been used.
ReadLeft(h) ==
    LET left == IF Alive THEN acct.limit - acct.used ELSE 0
    IN  /\ Does(h, "look")
        /\ IF up THEN Then(h, Resetting(hand[h].look, Limit + left, hand[h].seen)) ELSE LetGo(h)
        /\ RowsKept /\ UNCHANGED subVars
ResetUsage(h) ==
    /\ Does(h, "reset")
    /\ IF up /\ Alive
       THEN /\ acct' = [acct EXCEPT !.used = 0]
            /\ Then(h, [modify |-> hand[h].reset, limit |-> hand[h].limit,
                        seen |-> hand[h].seen, bill |-> TRUE])
       ELSE LetGo(h) /\ UNCHANGED acct
    /\ RowsKept /\ UNCHANGED <<scheme, now, up, bills, night, subGhosts>>

\* The account is of another plan now, and the row is to follow.
Changes(a) ==
    /\ acct' = a /\ term' = [ends |-> a.ends, limit |-> a.limit]
    /\ resized' = (resized \/ a.limit # acct.limit)
Follows(h, plan) ==
    LET seen == hand[h].seen
    IN  Then(h, [to |-> Sub, by |-> "bot", seen |-> seen, bill |-> TRUE,
                 new |-> [seen EXCEPT !.status = Status(acct'), !.plan = plan],
                 cols |-> DOMAIN seen])

\* The panel takes no limit below zero.
ModifyUser(h) ==
    /\ Does(h, "modify")
    /\ IF up /\ Alive /\ hand[h].limit >= 0
       THEN /\ Changes(Renewed(acct, hand[h].modify, hand[h].limit))
            /\ Follows(h, hand[h].modify)
       ELSE LetGo(h) /\ UNCHANGED <<acct, term, resized>>
    /\ RowsKept /\ UNCHANGED <<scheme, now, up, bills, night, undone, moved, orphan>>

\* The hub resets and changes the account in one call, unless it refuses; then it is asked for
\* the account, and without an answer the transaction is undone.
RenewUser(h) ==
    LET plan == hand[h].recharge
    IN  /\ Does(h, "recharge")
        /\ \/ /\ up /\ Alive
              /\ Changes(Renewed([acct EXCEPT !.used = 0], plan, DataLimit(plan)))
              /\ Then(h, [recharged |-> plan, seen |-> hand[h].seen, bill |-> TRUE])
           \/ LetGo(h) /\ UNCHANGED <<acct, term, resized>>
        /\ RowsKept /\ UNCHANGED <<scheme, now, up, bills, night, undone, moved, orphan>>
GetRecharged(h) ==
    /\ Does(h, "recharged") /\ UNCHANGED acct
    /\ IF up /\ Alive THEN Follows(h, hand[h].recharged) ELSE LetGo(h)
    /\ RowsKept /\ UNCHANGED <<scheme, now, up, bills, night, subGhosts>>

-----------------------------------------------------------------------------
(* Jobs. *)

\* The status of the row alone is written, later.
MarkThen(h, status) == Then(h, [mark |-> status])
Mark(status) ==
    /\ ~Locked
    /\ IF Exists(Sub) THEN Update(Sub, [row[Sub] EXCEPT !.status = status], {"status"})
       ELSE UNCHANGED <<row, said>>
MarkStatus(h) == Does(h, "mark") /\ Mark(hand[h].mark) /\ LetGo(h) /\ UNCHANGED <<raced, subVars>>

\* A customer's refresh of his list: no account, no row; no answer, "disabled".
RefreshProxies(h) ==
    /\ Asks(h, "refresh")
    /\ IF ~up THEN MarkThen(h, "disabled")
       ELSE IF ~Alive THEN Then(h, [forget |-> NoBill])
       ELSE IF Status(acct) = hand[h].seen.status THEN LetGo(h) ELSE MarkThen(h, Status(acct))
    /\ RowsKept /\ UNCHANGED subVars

\* A bulk change: all accounts are read, then each gets what it had plus or minus a step;
\* a hub refuses it.
Touched(field) ==
    /\ Alive /\ acct[field] # 0
    /\ Status(acct) \notin {"disabled", IF field = "ends" THEN "limited" ELSE "expired"}
StartBulk(h) ==
    /\ Exists(Sub) /\ up
    /\ \E field \in {"ends", "limit"}, by \in {Step, -Step} :
          /\ Touched(field)
          /\ Hold(h, [field |-> field, value |-> acct[field] + by, from |-> acct[field]])
    /\ RowsKept /\ UNCHANGED subVars
BulkUpdate(h) ==
    LET f == hand[h].field
    IN  /\ Does(h, "field")
        /\ IF up /\ Alive /\ scheme # "hub"
           THEN /\ acct' = [acct EXCEPT ![f] = hand[h].value]
                /\ MarkThen(h, Status(acct'))
                /\ term' = [term EXCEPT ![f] = @ + hand[h].value - hand[h].from]
                /\ undone' = (undone \/ acct[f] # hand[h].from) /\ moved' = TRUE
           ELSE LetGo(h) /\ UNCHANGED <<acct, term, undone, moved>>
        /\ RowsKept /\ UNCHANGED <<scheme, now, up, bills, night, resized, orphan>>

\* Every night the accounts of a page are read ...
NightReads ==
    /\ night = Idle /\ up /\ Exists(Sub) /\ Alive
    /\ night' = [snap |-> acct, status |-> Status(acct)]
    /\ UNCHANGED <<rowVars, acctVars, bills, subGhosts>>
LongExpired(a) == a.ends # 0 /\ now - a.ends > KeepDays

\* Broken variant for StatusSettles: a status is written only when it became worse.
NightMarks_Worse ==
    /\ night # Idle /\ "snap" \in DOMAIN night /\ ~LongExpired(night.snap)
    /\ IF night.status = "active" THEN UNCHANGED <<row, said>> ELSE Mark(night.status)
    /\ night' = Idle /\ UNCHANGED <<hand, starts, raced, acctVars, bills, subGhosts>>

\* ... and one by one their status is written, or an account expired long ago deleted.
NightMarks ==
    /\ "snap" \in DOMAIN night /\ ~LongExpired(night.snap) /\ Mark(night.status)
    /\ night' = Idle /\ UNCHANGED <<hand, starts, raced, acctVars, bills, subGhosts>>
NightRemoves ==
    /\ "snap" \in DOMAIN night /\ LongExpired(night.snap)
    /\ acct' = IF up THEN NoAccount ELSE acct
    /\ night' = IF up THEN [forget |-> NoBill] ELSE Idle
    /\ UNCHANGED <<rowVars, scheme, now, up, bills, subGhosts>>
NightDeletes ==
    /\ "forget" \in DOMAIN night /\ ForgetRow(bills) /\ night' = Idle
    /\ UNCHANGED <<hand, starts, raced, acctVars, subGhosts>>

-----------------------------------------------------------------------------
(* Links and the panel. *)

\* A subscription link pasted into the chat: the subscription is his now, a new one without
\* a service.
AddFromLink(u) ==
    /\ up /\ Alive /\ scheme # "hub" /\ Begin /\ ~Locked
    /\ \/ Exists(Sub) /\ Update(Sub, [row[Sub] EXCEPT !.owner = u], {"owner"})
       \/ /\ row[Sub] = Absent
          /\ LET new == [status |-> Status(acct), name |-> "old", owner |-> u,
                         plan |-> NoPlan]
             IN  row' = [row EXCEPT ![Sub] = new] /\ said' = [said EXCEPT ![Sub] = new]
    /\ UNCHANGED <<hand, raced, subVars>>

PanelSets(h, off) ==
    /\ Exists(Sub) /\ up /\ Alive /\ acct' = [acct EXCEPT !.off = off]
    /\ LET status == IF off THEN "disabled" ELSE "active"
       IN  SaveFields(h, "panel", Sub, [row[Sub] EXCEPT !.status = status], {"status"})
    /\ UNCHANGED <<scheme, now, up, bills, night, subGhosts>>

\* The account is removed if that is possible, the row in any case: by the panel, and with the
\* invoice of its purchase when the payment of that is rejected after all.
RemovesAnyway(h) ==
    /\ Hold(h, [forget |-> NoBill])
    /\ acct' = IF up THEN NoAccount ELSE acct
    /\ orphan' = (orphan \/ ~up)
    /\ RowsKept /\ UNCHANGED <<scheme, now, up, bills, night, term, undone, moved, resized>>
PanelRemoves(h) == Exists(Sub) /\ RemovesAnyway(h)
RevokePurchase(h) ==
    /\ Exists(Sub) /\ \E i \in DOMAIN bills : bills[i].linked /\ ~bills[i].renewal
    /\ RemovesAnyway(h)

\* The payment of a renewal is rejected after all: the invoice alone is deleted - unlinked here,
\* as nobody looks at it again - unless a refund holds it.
Holds(h, field, i) == Does(h, field) /\ hand[h][field].i = i
RevokeRenewal ==
    /\ Begin /\ RowsKept
    /\ \E i \in DOMAIN bills :
          /\ bills[i].linked /\ bills[i].renewal
          /\ ~\E h \in Hands : Holds(h, "kill", i) \/ Holds(h, "forget", i)
          /\ bills' = [bills EXCEPT ![i].linked = FALSE]
    /\ UNCHANGED <<hand, acctVars, night, subGhosts>>

\* Its server is deleted, and the row with it; nobody asks for the account.
ServerRemoved ==
    /\ Exists(Sub) /\ Begin /\ ForgetRow(bills) /\ orphan' = TRUE
    /\ UNCHANGED <<hand, raced, acctVars, night, term, undone, moved, resized>>

\* What happens around: time, use, the panel's operator, an outage.
Tick == now < MaxTime /\ now' = now + 1 /\ UNCHANGED <<rowVars, scheme, acct, up, bills, night, subGhosts>>
UseData ==
    /\ Alive /\ Status(acct) = "active" /\ acct.used < MaxUse
    /\ acct' = [acct EXCEPT !.used = @ + 1]
    /\ UNCHANGED <<rowVars, scheme, now, up, bills, night, subGhosts>>
OperatorRemoves ==
    /\ Alive /\ Begin /\ acct' = NoAccount
    /\ RowsKept /\ UNCHANGED <<hand, scheme, now, up, bills, night, subGhosts>>
Outage ==
    /\ up /\ Begin /\ up' = FALSE
    /\ RowsKept /\ UNCHANGED <<hand, scheme, acct, now, bills, night, subGhosts>>
PanelBack == ~up /\ up' = TRUE /\ UNCHANGED <<rowVars, scheme, acct, now, bills, night, subGhosts>>

Renewal == [amount |-> Price, linked |-> TRUE, renewal |-> TRUE]

\* The write of a handler: with it a renewal is committed.
WriteSubscription(h) ==
    /\ Write(h) /\ \A g \in Hands \ {h} : ~Billing(g)
    /\ IF Billing(h) THEN bills' = Append(bills, Renewal)
       ELSE UNCHANGED bills
    /\ UNCHANGED <<acctVars, night, subGhosts>>

\* Two renewals wait for each other's invoice: the database undoes one of them.
Deadlocked(h) ==
    /\ Billing(h) /\ Writing(h) /\ \E g \in Hands \ {h} : Billing(g) /\ Writing(g)
    /\ LetGo(h) /\ RowsKept /\ UNCHANGED subVars

Continue(h) ==
    \/ ShowProxy(h) \/ DisableProxy(h) \/ EnableProxy(h) \/ SetStatus(h)
    \/ RemoveProxy(h) \/ DeleteWithPayback(h) \/ RemoveUser(h) \/ DeleteRow(h)
    \/ CreateInvoice(h) \/ ReadLeft(h) \/ ResetUsage(h) \/ ModifyUser(h)
    \/ RenewUser(h) \/ GetRecharged(h)
    \/ MarkStatus(h) \/ RefreshProxies(h) \/ BulkUpdate(h) \/ WriteSubscription(h)
    \/ Deadlocked(h)
NightContinues == NightMarks \/ NightRemoves \/ NightDeletes
Buttons == {"show", "disable", "enable", "remove", "payback", "refresh"}

SubscriptionsNext ==
    \/ \E h \in Hands :
          \/ \E what \in Buttons : Ask(h, what)
          \/ \E plan \in Plans : RenewProxyNow(h, plan)
          \/ SetName(h) \/ StartBulk(h) \/ PanelSets(h, TRUE) \/ PanelSets(h, FALSE)
          \/ PanelRemoves(h) \/ RevokePurchase(h) \/ GiveUp(h) \/ Continue(h)
    \/ NightReads \/ NightContinues
    \/ \E u \in Holders : AddFromLink(u)
    \/ RevokeRenewal \/ ServerRemoved
    \/ Tick \/ UseData \/ OperatorRemoves \/ Outage \/ PanelBack

\* Handlers and the nightly job go on, night after night, and a panel comes back.
SubscriptionsFairness ==
    /\ \A h \in Hands : WF_<<rowVars, subVars>>(Continue(h))
    /\ WF_<<rowVars, subVars>>(NightReads) /\ WF_<<rowVars, subVars>>(NightContinues)
    /\ WF_<<rowVars, subVars>>(PanelBack)

SubscriptionsSpec ==
    SubscriptionsInit /\ [][SubscriptionsNext]_<<rowVars, subVars>> /\ SubscriptionsFairness

-----------------------------------------------------------------------------
(* Properties. *)

\* A deleted row leaves no account behind that would serve for nothing, whatever failed or
\* ran at the same time, except when the row goes anyway: the panel's delete and the revocation
\* of a purchase go on when the account cannot be removed (revoke_activated_transaction tells
\* the admin), and a server's deletion takes its rows along.
NoOrphan == row[Sub] = Gone /\ ~orphan => ~Alive

\* The account has the end and the limit that were paid for last, what the renewal carried over
\* included, with the bulk changes since then, unless a bulk change wrote what it had read
\* before (renew_proxy_now, bulk_update_users).
TermKept == Alive /\ ~undone => acct.ends = term.ends /\ acct.limit = term.limit

\* One subscription with everything that happens to it at the same time.
SubscriptionSound == SubscriptionTypeOK /\ DecisionsKept /\ NoOrphan /\ TermKept

\* A refund, pressed as often as one likes, changes one invoice, once, with the deletion of the
\* row.  It gives back no more than was paid, unless a bulk change moved the account, and costs
\* no more than the price and the fee, except for an end that has passed, and when a renewal
\* gave the account another limit - with what was left of the old plan, or by another plan -
\* after which more can be used than the plan of the row: delete_with_payback has no bound.
RefundBounded ==
    LET changed == {i \in DOMAIN bills : bills[i].amount # Price}
    IN  /\ changed # {} => row[Sub] = Gone
        /\ \A i, j \in changed : i = j
        /\ ~moved => \A i \in changed :
              /\ bills[i].amount >= 0
              /\ now =< Duration /\ ~resized => bills[i].amount =< Price + Fee

\* What the row says of the account becomes true and stays so, once nobody changes it any
\* more and whatever wrong status an outage or an overtaken handler had left (refresh_servers).
StatusSettles == <>[](Exists(Sub) /\ Alive => row[Sub].status = Status(acct))
=============================================================================
