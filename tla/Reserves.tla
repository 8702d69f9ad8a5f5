------------------------------ MODULE Reserves ------------------------------
(***************************************************************************)
(* The reserved plan of one proxy, from its purchase to its activation: the *)
(* 30-second job check_reserves, the customer's activate and cancel buttons *)
(* and the panel's webhook queue and cancel activations of whatever row the *)
(* proxy has, while an activation works on the plan it loaded.  Scheduled   *)
(* jobs are kept in Redis and survive a restart.                            *)
(***************************************************************************)
EXTENDS Naturals, FiniteSets

CONSTANTS
    MaxPlans,     \* bound: reserved plans bought one after the other, 1, 2, ...
    Tasks,        \* slots for running activate_reserve jobs
    Cancels,      \* presses of the confirmed cancel button, one use each (a bound)
    MaxRestarts   \* bound

ASSUME ReserveAssumption == MaxPlans \in Nat /\ MaxRestarts \in Nat

Plans == 1..MaxPlans
NoPlan == 0    \* the proxy has no Reserve row

VARIABLES
    reserve,     \* the plan of the proxy's Reserve row
    activateAt,  \* Reserve.activate_at: none, in the future, or within 30 seconds
    bought,      \* the last plan bought
    billed,      \* plans whose invoice exists
    orphans,     \* plans whose service is gone
    queued,      \* the scheduler has the job "reserves:queue:<proxy>"
    checking,    \* check_reserves found the row due and asks for the cooldown
    cooldown,    \* the plan whose failure set "reserves:cooldown:<proxy>", if it is set
    task,        \* per slot: where the activation is, and the plan it loaded
    canceling,   \* per press: where it is, and the plan it loaded
    renewed,     \* times the panel renewed the account for a plan, up to 2
    restarts,
    absent,      \* plans given up because the panel does not know the account
    doubtful,    \* plans with two activations at once, or one cut off after the panel
    crossed      \* a row was deleted by an operation that had loaded another plan

row == <<reserve, activateAt, bought, billed, orphans>>
queue == <<queued, checking, cooldown>>
ghosts == <<absent, doubtful, crossed>>
vars == <<row, queue, task, canceling, renewed, restarts, ghosts>>

Row == 0..MaxPlans
Off == [at |-> "off", plan |-> NoPlan]

ReservesTypeOK ==
    /\ reserve \in Row /\ activateAt \in {"none", "later", "due"}
    /\ bought \in Row /\ billed \subseteq 1..bought /\ orphans \subseteq 1..bought
    /\ queued \in BOOLEAN /\ checking \in BOOLEAN /\ cooldown \in Row
    /\ task \in [Tasks -> [at: {"off", "started"}, plan: {NoPlan}]
                           \cup [at: {"parking", "provisioning", "renewed"}, plan: Plans]]
    /\ canceling \in [Cancels -> [at: {"idle", "loaded", "done"}, plan: Row]]
    /\ renewed \in [Plans -> 0..2]
    /\ restarts \in 0..MaxRestarts
    /\ absent \subseteq Plans /\ doubtful \subseteq Plans
    /\ crossed \in BOOLEAN

Init ==
    /\ reserve = NoPlan /\ activateAt = "none"
    /\ bought = 0 /\ billed = {} /\ orphans = {}
    /\ queued = FALSE /\ checking = FALSE /\ cooldown = NoPlan
    /\ task = [t \in Tasks |-> Off]
    /\ canceling = [c \in Cancels |-> [at |-> "idle", plan |-> NoPlan]]
    /\ renewed = [p \in Plans |-> 0]
    /\ restarts = 0
    /\ absent = {} /\ doubtful = {} /\ crossed = FALSE

-----------------------------------------------------------------------------
\* Reserve.filter(proxy_id=...).delete() by an operation that loaded plan p.
DeleteRow(p) ==
    /\ reserve' = NoPlan /\ activateAt' = "none"
    /\ crossed' = (crossed \/ reserve \notin {p, NoPlan})

\* The customer reserves a plan (renew_proxy_reserve, CommitReserve in Wallet);
\* the account has no end date, or one that is near or far.
Buy(p) ==
    /\ p = bought + 1 /\ reserve = NoPlan
    /\ reserve' = p
    /\ activateAt' \in {"none", "later", "due"}
    /\ bought' = p /\ billed' = billed \cup {p}
    /\ UNCHANGED <<orphans, queue, task, canceling, renewed, restarts, ghosts>>

TimePasses ==
    /\ activateAt = "later"
    /\ activateAt' = "due"
    /\ UNCHANGED <<reserve, bought, billed, orphans, queue, task, canceling>>
    /\ UNCHANGED <<renewed, restarts, ghosts>>

CooldownEnds ==
    /\ cooldown # NoPlan
    /\ cooldown' = NoPlan
    /\ UNCHANGED <<row, queued, checking, task, canceling, renewed, restarts, ghosts>>

-----------------------------------------------------------------------------
(* Queueing the job: its id is taken while it waits, ConflictingIdError then *)

AddJob ==
    /\ ~queued
    /\ queued' = TRUE
    /\ UNCHANGED <<row, checking, cooldown, task, canceling, renewed, restarts, ghosts>>

\* check_reserves: the row is due and no job waits; its cooldown is read ...
CheckFinds ==
    /\ reserve # NoPlan /\ activateAt = "due" /\ ~queued /\ ~checking
    /\ checking' = TRUE
    /\ UNCHANGED <<row, queued, cooldown, task, canceling, renewed, restarts, ghosts>>

\* ... and the job is added, unless it is in its backoff or was added meanwhile.
CheckAdds ==
    /\ checking
    /\ checking' = FALSE
    /\ queued' = (queued \/ cooldown = NoPlan)
    /\ UNCHANGED <<row, cooldown, task, canceling, renewed, restarts, ghosts>>

\* activate_reserve_handler: the confirmed activate button.
ActivateButton == reserve # NoPlan /\ AddJob

\* The webhook's user_limited, if the proxy has a row and the customer can be
\* told: the message is sent first and an error there ends the request.
WebhookLimited == reserve # NoPlan /\ AddJob

-----------------------------------------------------------------------------
(* cancel_reserve_handler *)

CancelLoads(c) ==
    /\ canceling[c].at = "idle" /\ reserve # NoPlan
    /\ canceling' = [canceling EXCEPT ![c] = [at |-> "loaded", plan |-> reserve]]
    /\ UNCHANGED <<row, queue, task, renewed, restarts, ghosts>>

\* The invoice is the loaded plan's, the row whichever the proxy has.
CancelCommits(c) ==
    /\ canceling[c].at = "loaded"
    /\ queued' = FALSE
    /\ billed' = billed \ {canceling[c].plan}
    /\ DeleteRow(canceling[c].plan)
    /\ canceling' = [canceling EXCEPT ![c].at = "done"]
    /\ UNCHANGED <<bought, orphans, checking, cooldown, task, renewed, restarts>>
    /\ UNCHANGED <<absent, doubtful>>

-----------------------------------------------------------------------------
(* activate_reserve *)

At(t) == task[t].at
PlanOf(t) == task[t].plan
Free == {t \in Tasks : At(t) = "off"}
End(t) == task' = [task EXCEPT ![t] = Off]
OnlyTask == UNCHANGED <<row, queue, canceling, renewed, restarts>>

\* The panel renewed the account; the count stops at 2.
Renew(p) == renewed' = [renewed EXCEPT ![p] = IF @ < 2 THEN @ + 1 ELSE @]

\* The scheduler starts the job, here in the first free slot, and forgets it, so
\* its id is free again.
RunJob(t) ==
    /\ queued /\ Free # {} /\ t = CHOOSE s \in Free : TRUE
    /\ queued' = FALSE
    /\ task' = [task EXCEPT ![t].at = "started"]
    /\ UNCHANGED <<row, checking, cooldown, canceling, renewed, restarts, ghosts>>

\* More than a second late, or too many instances: it is dropped.
JobMissed ==
    /\ queued
    /\ queued' = FALSE
    /\ UNCHANGED <<row, checking, cooldown, task, canceling, renewed, restarts, ghosts>>

\* The proxy is loaded with its row, if it has one, and the row's service.
Load(t) ==
    /\ At(t) = "started"
    /\ task' = [task EXCEPT ![t] =
                  IF reserve = NoPlan THEN Off
                  ELSE [at |-> IF reserve \in orphans THEN "parking" ELSE "provisioning",
                        plan |-> reserve]]
    /\ doubtful' = IF \E s \in Tasks : PlanOf(s) = reserve
                   THEN doubtful \cup ({reserve} \ {NoPlan}) ELSE doubtful
    /\ OnlyTask /\ UNCHANGED <<absent, crossed>>

\* Broken variant for DueSettles: the admins are told, the row stays due.
Park_OnlyReports(t) ==
    /\ At(t) = "parking"
    /\ End(t)
    /\ OnlyTask /\ UNCHANGED ghosts

\* The service is gone: the row is kept and no longer due.
Park(t) ==
    /\ At(t) = "parking"
    /\ activateAt' = "none"
    /\ End(t)
    /\ UNCHANGED <<reserve, bought, billed, orphans, queue, canceling>>
    /\ UNCHANGED <<renewed, restarts, ghosts>>

\* reset_usage and modify_user, or the hub's renew_user.
Provision(t) ==
    /\ At(t) = "provisioning"
    /\ Renew(PlanOf(t))
    /\ task' = [task EXCEPT ![t].at = "renewed"]
    /\ UNCHANGED <<row, queue, canceling, restarts, ghosts>>

\* The panel answers 404: the row is given up, the invoice stays.
NotFound(t) ==
    /\ At(t) = "provisioning"
    /\ DeleteRow(PlanOf(t))
    /\ absent' = absent \cup {PlanOf(t)}
    /\ cooldown' = NoPlan
    /\ End(t)
    /\ UNCHANGED <<bought, billed, orphans, queued, checking, canceling, renewed, restarts>>
    /\ UNCHANGED doubtful

\* Broken variant for PlanKept: a failure gives the row up like a 404.
ProvisionFails_GivesUp(t) ==
    /\ At(t) = "provisioning"
    /\ DeleteRow(PlanOf(t))
    /\ End(t)
    /\ UNCHANGED <<bought, billed, orphans, queue, canceling, renewed, restarts>>
    /\ UNCHANGED <<absent, doubtful>>

\* Any other answer, or none, perhaps after the panel renewed: _register_failure.
ProvisionFails(t) ==
    /\ At(t) = "provisioning"
    /\ \/ UNCHANGED <<renewed, doubtful>>
       \/ Renew(PlanOf(t)) /\ doubtful' = doubtful \cup {PlanOf(t)}
    /\ cooldown' = PlanOf(t)
    /\ End(t)
    /\ UNCHANGED <<row, queued, checking, canceling, restarts, absent, crossed>>

\* Broken variant for RenewedOnce: the row is kept and renewed every month.
Commit_KeepsRow(t) ==
    /\ At(t) = "renewed"
    /\ cooldown' = NoPlan
    /\ End(t)
    /\ UNCHANGED <<row, queued, checking, canceling, renewed, restarts, ghosts>>

\* The row is deleted with the proxy saved, and the failure counters after it.
Commit(t) ==
    /\ At(t) = "renewed"
    /\ DeleteRow(PlanOf(t))
    /\ cooldown' = NoPlan
    /\ End(t)
    /\ UNCHANGED <<bought, billed, orphans, queued, checking, canceling, renewed, restarts>>
    /\ UNCHANGED <<absent, doubtful>>

\* A database error: rollback and a log line, the panel's renewal stays.
Rollback(t) ==
    /\ At(t) = "renewed"
    /\ doubtful' = doubtful \cup {PlanOf(t)}
    /\ End(t)
    /\ OnlyTask /\ UNCHANGED <<absent, crossed>>

\* The bot restarts, perhaps on a restored database that misses a service.
Restart ==
    /\ restarts < MaxRestarts
    /\ restarts' = restarts + 1
    /\ task' = [t \in Tasks |-> Off]
    /\ checking' = FALSE
    /\ canceling' = [c \in Cancels |-> IF canceling[c].at # "loaded" THEN canceling[c]
                                      ELSE [canceling[c] EXCEPT !.at = "done"]]
    /\ doubtful' = doubtful \cup {PlanOf(t) : t \in {s \in Tasks : At(s) = "renewed"}}
    /\ orphans' \in {orphans, orphans \cup ({reserve} \ {NoPlan})}
    /\ UNCHANGED <<reserve, activateAt, bought, billed, queued, cooldown, renewed>>
    /\ UNCHANGED <<absent, crossed>>

TaskStep(t) ==
    \/ RunJob(t) \/ Load(t) \/ Park(t) \/ Provision(t) \/ NotFound(t)
    \/ ProvisionFails(t) \/ Commit(t) \/ Rollback(t)

Next ==
    \/ \E p \in Plans : Buy(p)
    \/ TimePasses \/ CooldownEnds \/ CheckFinds \/ CheckAdds
    \/ ActivateButton \/ WebhookLimited \/ JobMissed \/ Restart
    \/ \E c \in Cancels : CancelLoads(c) \/ CancelCommits(c)
    \/ \E t \in Tasks : TaskStep(t)

\* Time passes and the jobs run; the scheduler does not drop every job, the panel
\* does not fail for ever and neither does the database.
Fairness ==
    /\ WF_vars(TimePasses) /\ WF_vars(CooldownEnds)
    /\ WF_vars(CheckFinds) /\ WF_vars(CheckAdds)
    /\ SF_vars(\E t \in Tasks : RunJob(t))
    /\ \A t \in Tasks : WF_vars(Load(t) \/ Park(t))
    /\ SF_vars(\E t \in Tasks : Provision(t) \/ NotFound(t))
    /\ SF_vars(\E t \in Tasks : Commit(t))
    /\ \A t \in Tasks : WF_vars(TaskStep(t))

Spec == Init /\ [][Next]_vars /\ Fairness

-----------------------------------------------------------------------------
\* A reserved plan that was paid for is not lost: as long as no operation deletes
\* a row it had not loaded, its row waits until the panel renewed the account or
\* says that there is none (_activate_reserve, cancel_reserve_handler).
PlanKept ==
    ~crossed => \A p \in billed : reserve = p \/ renewed[p] > 0 \/ p \in absent

\* Activations work on rows that exist, and no paid plan is lost.
ReservesSound == ReservesTypeOK /\ PlanKept

\* One plan renews the account once, unless two activations of it overlapped or
\* one was cut off between the panel and the database.
RenewedOnce == \A p \in Plans : renewed[p] > 1 => p \in doubtful

\* A due plan does not stay due for ever: a lost job, a failing panel, a cooldown
\* or a missing service never stop check_reserves from settling it.
DueSettles ==
    \A p \in Plans :
        (reserve = p /\ activateAt = "due") ~> ~(reserve = p /\ activateAt = "due")

\* _register_failure tells the admins that attempts go on, at most an hour apart.
\* It fails: a row without activate_at is activated by the webhook or the button
\* alone, and check_reserves never looks at it again.
RetryGoesOn ==
    \A p \in Plans : (cooldown = p /\ reserve = p) ~> (reserve # p \/ p \in orphans)
=============================================================================
