---------------------------- MODULE ReserveProofs ----------------------------
(***************************************************************************)
(* Reserves for any number of plans, activations and cancellations: a plan  *)
(* that was paid for waits until it is used, and it is used once.           *)
(***************************************************************************)
EXTENDS Reserves, TLAPS

\* Only plans that were bought are worked on.
OnlyBought ==
    /\ reserve =< bought
    /\ \A p \in Plans : renewed[p] > 0 => p =< bought
    /\ \A t \in Tasks : PlanOf(t) =< bought

\* An activation that is past the panel renewed its plan.
PanelDone == \A t \in Tasks : At(t) = "renewed" => renewed[PlanOf(t)] > 0

\* Two activations of one plan are noticed.
PlansApart ==
    \A s, t \in Tasks : s # t /\ PlanOf(s) = PlanOf(t) /\ PlanOf(s) # NoPlan =>
       PlanOf(s) \in doubtful

\* A plan that was renewed is not activated again: no other activation is before the panel,
\* and its row is gone or about to be deleted by the activation that renewed it.
NotAgain ==
    \A p \in Plans \ doubtful :
       /\ renewed[p] =< 1
       /\ renewed[p] = 1 =>
             /\ \A t \in Tasks : PlanOf(t) = p => At(t) # "provisioning"
             /\ reserve = p => \E t \in Tasks : At(t) = "renewed" /\ PlanOf(t) = p

ReservesInv ==
    /\ ReservesTypeOK /\ OnlyBought /\ PanelDone /\ PlanKept /\ PlansApart /\ NotAgain

-----------------------------------------------------------------------------
\* What a slot can hold.
Slot ==
    [at: {"off", "started"}, plan: {NoPlan}]
      \cup [at: {"parking", "provisioning", "renewed"}, plan: Plans]

\* Slot t goes to state w with plan p.
Moves(t, w, p) == task' = [task EXCEPT ![t] = [at |-> w, plan |-> p]]

\* The types of everything but the slots.
RowsOK ==
    /\ reserve \in Row /\ activateAt \in {"none", "later", "due"}
    /\ bought \in Row /\ billed \subseteq 1..bought /\ orphans \subseteq 1..bought
    /\ queued \in BOOLEAN /\ checking \in BOOLEAN /\ cooldown \in Row
CountsOK ==
    /\ renewed \in [Plans -> 0..2] /\ restarts \in 0..MaxRestarts
    /\ absent \subseteq Plans /\ doubtful \subseteq Plans /\ crossed \in BOOLEAN
Cancel == [at: {"idle", "loaded", "done"}, plan: Row]

\* The type invariant in parts.
LEMMA TypeParts ==
    ReservesTypeOK <=> /\ RowsOK /\ CountsOK
                       /\ task \in [Tasks -> Slot] /\ canceling \in [Cancels -> Cancel]
  BY DEF ReservesTypeOK, RowsOK, CountsOK, Slot, Cancel

\* The same of the next state.
LEMMA TypePartsNext ==
    ReservesTypeOK' <=> /\ RowsOK' /\ CountsOK'
                        /\ task' \in [Tasks -> Slot] /\ canceling' \in [Cancels -> Cancel]
  BY DEF ReservesTypeOK, RowsOK, CountsOK, Slot, Cancel, Row, Plans, NoPlan

\* The initial state satisfies the invariant.
LEMMA ReservesInit == Init => ReservesInv
<1> SUFFICES ASSUME Init PROVE ReservesInv
  OBVIOUS
<1> USE DEF Init
<1>1. RowsOK /\ CountsOK
  <2>1. queued \in BOOLEAN /\ checking \in BOOLEAN /\ crossed \in BOOLEAN
    BY Zenon
  <2>2. NoPlan \in Row /\ bought \in Row
    BY ReserveAssumption DEF Row, NoPlan
  <2>3. RowsOK
    BY <2>1, <2>2 DEF RowsOK
  <2>4. renewed \in [Plans -> 0..2] /\ restarts \in 0..MaxRestarts
    BY ReserveAssumption
  <2>5. CountsOK
    BY <2>1, <2>4 DEF CountsOK
  <2>6. QED
    BY <2>3, <2>5
<1>2. task \in [Tasks -> Slot]
  BY DEF Slot, Off
<1>3. canceling \in [Cancels -> Cancel]
  BY ReserveAssumption DEF Cancel, Row, NoPlan
<1>4. \A t \in Tasks : At(t) = "off" /\ PlanOf(t) = NoPlan
  BY DEF At, PlanOf, Off
<1>5. OnlyBought /\ PanelDone /\ PlanKept /\ PlansApart
  BY <1>4, ReserveAssumption
     DEF OnlyBought, PanelDone, PlanKept, PlansApart, Plans, NoPlan
<1>6. NotAgain
  BY DEF NotAgain
<1>7. QED
  BY <1>1, <1>2, <1>3, <1>5, <1>6, TypeParts DEF ReservesInv

\* A slot is off or holds a plan that fits what it does.
LEMMA SlotType ==
    ASSUME ReservesTypeOK, NEW t \in Tasks
    PROVE  /\ At(t) \in {"off", "started", "parking", "provisioning", "renewed"}
           /\ At(t) \in {"off", "started"} => PlanOf(t) = NoPlan
           /\ At(t) \in {"parking", "provisioning", "renewed"} => PlanOf(t) \in Plans
           /\ task[t] = [at |-> At(t), plan |-> PlanOf(t)]
  BY DEF ReservesTypeOK, At, PlanOf

\* A move of one slot keeps the slots' type.
LEMMA MoveType ==
    ASSUME task \in [Tasks -> Slot], NEW t \in Tasks, NEW w, NEW p, Moves(t, w, p),
           \/ w \in {"off", "started"} /\ p = NoPlan
           \/ w \in {"parking", "provisioning", "renewed"} /\ p \in Plans
    PROVE  task' \in [Tasks -> Slot]
<1>1. [at |-> w, plan |-> p] \in Slot
  BY DEF Slot
<1>2. QED
  BY <1>1 DEF Moves

\* What a move of one slot does to the slots.
LEMMA OneSlot ==
    ASSUME ReservesTypeOK, NEW t \in Tasks, NEW w, NEW p, Moves(t, w, p)
    PROVE  \A s \in Tasks : /\ At(s)' = IF s = t THEN w ELSE At(s)
                            /\ PlanOf(s)' = IF s = t THEN p ELSE PlanOf(s)
<1> SUFFICES ASSUME NEW s \in Tasks
             PROVE  task'[s] = IF s = t THEN [at |-> w, plan |-> p] ELSE task[s]
  BY DEF At, PlanOf
<1>1. task \in [Tasks -> Slot]
  BY TypeParts
<1>2. QED
  BY <1>1 DEF Moves

\* Each step of an activation moves its slot.
LEMMA StepsMove ==
    ASSUME ReservesTypeOK, NEW t \in Tasks
    PROVE  /\ RunJob(t) => At(t) = "off" /\ Moves(t, "started", NoPlan)
           /\ Load(t) /\ reserve = NoPlan => Moves(t, "off", NoPlan)
           /\ Load(t) /\ reserve # NoPlan =>
                 Moves(t, IF reserve \in orphans THEN "parking" ELSE "provisioning", reserve)
           /\ Provision(t) => Moves(t, "renewed", PlanOf(t))
           /\ Park(t) \/ NotFound(t) \/ ProvisionFails(t) \/ Commit(t) \/ Rollback(t)
                => Moves(t, "off", NoPlan)
<1>1. task \in [Tasks -> Slot]
  BY TypeParts
<1>2. RunJob(t) => At(t) = "off"
  BY DEF RunJob, Free
<1>3. At(t) = "off" => task[t] = [at |-> "off", plan |-> NoPlan]
  BY SlotType
<1>4. RunJob(t) => Moves(t, "started", NoPlan)
  <2> SUFFICES ASSUME RunJob(t) PROVE Moves(t, "started", NoPlan)
    OBVIOUS
  <2>1. [task[t] EXCEPT !.at = "started"] = [at |-> "started", plan |-> NoPlan]
    BY <1>2, <1>3
  <2>2. QED
    BY <1>1, <2>1 DEF RunJob, Moves
<1>5. Load(t) /\ reserve = NoPlan => Moves(t, "off", NoPlan)
  BY DEF Load, Moves, Off
<1>6. Load(t) /\ reserve # NoPlan =>
        Moves(t, IF reserve \in orphans THEN "parking" ELSE "provisioning", reserve)
  BY DEF Load, Moves
<1>7. Provision(t) => Moves(t, "renewed", PlanOf(t))
  <2> SUFFICES ASSUME Provision(t) PROVE Moves(t, "renewed", PlanOf(t))
    OBVIOUS
  <2>1. task[t] = [at |-> At(t), plan |-> PlanOf(t)]
    BY SlotType
  <2>2. [task[t] EXCEPT !.at = "renewed"] = [at |-> "renewed", plan |-> PlanOf(t)]
    BY <2>1
  <2>3. QED
    BY <1>1, <2>2 DEF Provision, Moves
<1>8. Park(t) \/ NotFound(t) \/ ProvisionFails(t) \/ Commit(t) \/ Rollback(t)
        => Moves(t, "off", NoPlan)
  BY DEF Park, NotFound, ProvisionFails, Commit, Rollback, End, Moves, Off
<1>9. QED
  BY <1>2, <1>4, <1>5, <1>6, <1>7, <1>8

\* The slots keep their type in every step.
LEMMA SlotsNext ==
    ASSUME ReservesTypeOK, [Next]_vars
    PROVE  task' \in [Tasks -> Slot]
<1>1. task \in [Tasks -> Slot]
  BY TypeParts
<1>2. CASE UNCHANGED task
  BY <1>1, <1>2
<1>3. ASSUME NEW t \in Tasks, TaskStep(t) PROVE task' \in [Tasks -> Slot]
  <2>1. CASE RunJob(t) \/ Park(t) \/ NotFound(t) \/ ProvisionFails(t) \/ Commit(t)
               \/ Rollback(t)
    BY <1>1, <2>1, StepsMove, MoveType
  <2>2. CASE Load(t)
    <3>1. reserve # NoPlan => reserve \in Plans
      BY ReserveAssumption DEF ReservesTypeOK, Row, Plans, NoPlan
    <3>2. reserve = NoPlan => task' \in [Tasks -> Slot]
      BY <1>1, <2>2, StepsMove, MoveType
    <3>3. ASSUME reserve # NoPlan PROVE task' \in [Tasks -> Slot]
      BY <1>1, <2>2, <3>1, <3>3, StepsMove, MoveType
    <3>4. QED
      BY <3>2, <3>3
  <2>3. CASE Provision(t)
    <3>1. PlanOf(t) \in Plans
      BY <2>3, SlotType DEF Provision
    <3>2. QED
      BY <1>1, <2>3, <3>1, StepsMove, MoveType
  <2>4. QED
    BY <1>3, <2>1, <2>2, <2>3 DEF TaskStep
<1>4. CASE Restart
  <2>1. Off \in Slot
    BY DEF Off, Slot
  <2>2. QED
    BY <1>4, <2>1 DEF Restart
<1>5. QED
  BY <1>2, <1>3, <1>4
     DEF Next, vars, Buy, TimePasses, CooldownEnds, CheckFinds, CheckAdds, ActivateButton,
         WebhookLimited, AddJob, JobMissed, CancelLoads, CancelCommits

\* So do the presses of the cancel button.
LEMMA CancelsNext ==
    ASSUME ReservesTypeOK, [Next]_vars
    PROVE  canceling' \in [Cancels -> Cancel]
<1>1. canceling \in [Cancels -> Cancel] /\ reserve \in Row
  BY TypeParts DEF RowsOK
<1>2. CASE UNCHANGED canceling
  BY <1>1, <1>2
<1>3. ASSUME NEW c \in Cancels PROVE [canceling[c] EXCEPT !.at = "done"] \in Cancel
  BY <1>1 DEF Cancel
<1>4. ASSUME NEW c \in Cancels, CancelLoads(c) PROVE canceling' \in [Cancels -> Cancel]
  <2>1. [at |-> "loaded", plan |-> reserve] \in Cancel
    BY <1>1 DEF Cancel
  <2>2. QED
    BY <1>1, <1>4, <2>1 DEF CancelLoads
<1>5. ASSUME NEW c \in Cancels, CancelCommits(c) PROVE canceling' \in [Cancels -> Cancel]
  BY <1>1, <1>3, <1>5 DEF CancelCommits
<1>6. CASE Restart
  BY <1>1, <1>3, <1>6 DEF Restart
<1>7. QED
  BY <1>2, <1>4, <1>5, <1>6
     DEF Next, vars, Buy, TimePasses, CooldownEnds, CheckFinds, CheckAdds, ActivateButton,
         WebhookLimited, AddJob, JobMissed, TaskStep, RunJob, Load, Park, Provision, NotFound,
         ProvisionFails, Commit, Rollback, OnlyTask

\* Deleting the row keeps the types of what it changes.
LEMMA DeleteType ==
    ASSUME NEW p, DeleteRow(p)
    PROVE  reserve' \in Row /\ activateAt' \in {"none", "later", "due"} /\ crossed' \in BOOLEAN
<1>1. reserve' \in Row
  BY ReserveAssumption DEF DeleteRow, Row, NoPlan
<1>2. activateAt' \in {"none", "later", "due"}
  BY DEF DeleteRow
<1>3. crossed' \in BOOLEAN
  BY Zenon DEF DeleteRow
<1>4. QED
  BY <1>1, <1>2, <1>3

\* The row, its bookkeeping and the queue keep their types.
LEMMA RowsNext ==
    ASSUME ReservesTypeOK, OnlyBought, [Next]_vars
    PROVE  RowsOK'
<1>1. RowsOK
  BY TypeParts
<1> USE <1>1 DEF RowsOK, row, queue
<1>2. ASSUME NEW p \in Plans, Buy(p) PROVE RowsOK'
  <2>1. p \in Row /\ bought \in Nat /\ p = bought + 1
    BY <1>2, ReserveAssumption DEF Buy, Plans, Row
  <2>2. billed' \subseteq 1..p /\ orphans \subseteq 1..p
    BY <1>2, <2>1 DEF Buy
  <2>3. QED
    BY <1>2, <2>1, <2>2 DEF Buy
<1>3. CASE TimePasses \/ CooldownEnds \/ CheckFinds \/ JobMissed
  <2>1. NoPlan \in Row
    BY ReserveAssumption DEF NoPlan, Row
  <2>2. QED
    BY <1>3, <2>1 DEF TimePasses, CooldownEnds, CheckFinds, JobMissed
<1>4. CASE CheckAdds
  <2>1. queued' \in BOOLEAN /\ checking' \in BOOLEAN
    BY <1>4, Zenon DEF CheckAdds
  <2>2. QED
    BY <1>4, <2>1 DEF CheckAdds
<1>5. CASE ActivateButton \/ WebhookLimited
  BY <1>5 DEF ActivateButton, WebhookLimited, AddJob
<1>6. CASE Restart
  <2>1. orphans' \subseteq 1..bought
    <3>1. reserve # NoPlan => reserve \in 1..bought
      BY ReserveAssumption DEF OnlyBought, Row, NoPlan
    <3>2. QED
      BY <1>6, <3>1 DEF Restart
  <2>2. QED
    BY <1>6, <2>1 DEF Restart
<1>7. ASSUME NEW c \in Cancels, CancelLoads(c) PROVE RowsOK'
  BY <1>7 DEF CancelLoads
<1>8. ASSUME NEW c \in Cancels, CancelCommits(c) PROVE RowsOK'
  <2>1. DeleteRow(canceling[c].plan) /\ UNCHANGED <<bought, orphans, checking, cooldown>>
    BY <1>8 DEF CancelCommits
  <2>2. queued' \in BOOLEAN /\ billed' \subseteq 1..bought
    BY <1>8 DEF CancelCommits
  <2>3. QED
    BY <2>1, <2>2, DeleteType
<1>9. ASSUME NEW t \in Tasks, TaskStep(t) PROVE RowsOK'
  <2>1. CASE RunJob(t)
    BY <2>1 DEF RunJob
  <2>2. CASE Load(t) \/ Rollback(t) \/ Provision(t)
    BY <2>2 DEF Load, Rollback, Provision, OnlyTask
  <2>3. CASE Park(t)
    BY <2>3 DEF Park
  <2>4. CASE NotFound(t) \/ Commit(t)
    <3>1. DeleteRow(PlanOf(t)) /\ cooldown' = NoPlan
      BY <2>4 DEF NotFound, Commit
    <3>2. UNCHANGED <<bought, billed, orphans, queued, checking>>
      BY <2>4 DEF NotFound, Commit
    <3>3. NoPlan \in Row
      BY ReserveAssumption DEF NoPlan, Row
    <3>4. QED
      BY <3>1, <3>2, <3>3, DeleteType
  <2>5. CASE ProvisionFails(t)
    <3>1. PlanOf(t) \in Plans
      BY <2>5, SlotType DEF ProvisionFails
    <3>2. PlanOf(t) \in Row
      BY <3>1, ReserveAssumption DEF Plans, Row
    <3>3. QED
      BY <2>5, <3>2 DEF ProvisionFails
  <2>6. QED
    BY <1>9, <2>1, <2>2, <2>3, <2>4, <2>5 DEF TaskStep
<1>10. CASE UNCHANGED vars
  BY <1>10 DEF vars
<1>11. QED
  BY <1>2, <1>3, <1>4, <1>5, <1>6, <1>7, <1>8, <1>9, <1>10 DEF Next

\* So do the counts and the plans they are about.
LEMMA CountsNext ==
    ASSUME ReservesTypeOK, [Next]_vars
    PROVE  CountsOK'
<1>1. CountsOK /\ RowsOK
  BY TypeParts
<1>2. reserve # NoPlan => reserve \in Plans
  BY <1>1, ReserveAssumption DEF RowsOK, Row, Plans, NoPlan
<1>3. CASE UNCHANGED <<renewed, restarts, ghosts>>
  BY <1>1, <1>3 DEF CountsOK, ghosts
<1>4. CASE Restart
  <2>1. \A t \in Tasks : At(t) = "renewed" => PlanOf(t) \in Plans
    BY SlotType
  <2>2. restarts' \in 0..MaxRestarts
    BY <1>1, <1>4, ReserveAssumption DEF Restart, CountsOK
  <2>3. doubtful' \subseteq Plans
    BY <1>1, <1>4, <2>1 DEF Restart, CountsOK
  <2>4. QED
    BY <1>1, <1>4, <2>2, <2>3 DEF Restart, CountsOK
<1>5. ASSUME NEW c \in Cancels, CancelCommits(c) PROVE CountsOK'
  BY <1>1, <1>5, DeleteType DEF CancelCommits, CountsOK
<1>6. ASSUME NEW t \in Tasks, Load(t) PROVE CountsOK'
  <2>1. doubtful' \subseteq Plans
    BY <1>1, <1>2, <1>6 DEF Load, CountsOK
  <2>2. QED
    BY <1>1, <1>6, <2>1 DEF Load, OnlyTask, CountsOK
<1>7. ASSUME NEW t \in Tasks, At(t) = "provisioning" \/ At(t) = "renewed"
      PROVE  PlanOf(t) \in Plans
  BY <1>7, SlotType
<1>8. ASSUME NEW p \in Plans, Renew(p) PROVE renewed' \in [Plans -> 0..2]
  BY <1>1, <1>8 DEF Renew, CountsOK
<1>9. ASSUME NEW t \in Tasks, Provision(t) PROVE CountsOK'
  <2>1. Renew(PlanOf(t)) /\ UNCHANGED <<restarts, ghosts>> /\ PlanOf(t) \in Plans
    BY <1>7, <1>9 DEF Provision
  <2>2. QED
    BY <1>1, <1>8, <2>1 DEF CountsOK, ghosts
<1>10. ASSUME NEW t \in Tasks, NotFound(t) \/ Commit(t) PROVE CountsOK'
  <2>1. absent' \subseteq Plans
    BY <1>1, <1>7, <1>10 DEF NotFound, Commit, CountsOK
  <2>2. DeleteRow(PlanOf(t)) /\ UNCHANGED <<renewed, restarts, doubtful>>
    BY <1>10 DEF NotFound, Commit
  <2>3. QED
    BY <1>1, <2>1, <2>2, DeleteType DEF CountsOK
<1>11. ASSUME NEW t \in Tasks, ProvisionFails(t) PROVE CountsOK'
  <2>1. PlanOf(t) \in Plans /\ UNCHANGED <<restarts, absent, crossed>>
    BY <1>7, <1>11 DEF ProvisionFails
  <2>2. \/ UNCHANGED <<renewed, doubtful>>
        \/ Renew(PlanOf(t)) /\ doubtful' = doubtful \cup {PlanOf(t)}
    BY <1>11 DEF ProvisionFails
  <2>3. renewed' \in [Plans -> 0..2] /\ doubtful' \subseteq Plans
    BY <1>1, <1>8, <2>1, <2>2 DEF CountsOK
  <2>4. QED
    BY <1>1, <2>1, <2>3 DEF CountsOK
<1>12. ASSUME NEW t \in Tasks, Rollback(t) PROVE CountsOK'
  BY <1>1, <1>7, <1>12 DEF Rollback, OnlyTask, CountsOK
<1>13. QED
  BY <1>3, <1>4, <1>5, <1>6, <1>9, <1>10, <1>11, <1>12
     DEF Next, vars, Buy, TimePasses, CooldownEnds, CheckFinds, CheckAdds, ActivateButton,
         WebhookLimited, AddJob, JobMissed, CancelLoads, TaskStep, RunJob, Park

\* The types are kept by every step.
LEMMA ReservesTypeNext == ReservesTypeOK /\ OnlyBought /\ [Next]_vars => ReservesTypeOK'
  BY SlotsNext, CancelsNext, RowsNext, CountsNext, TypePartsNext

\* What the types say of plans, in numbers.
LEMMA PlanNumbers ==
    ASSUME ReservesTypeOK
    PROVE  /\ bought \in Nat /\ reserve \in Nat
           /\ reserve # NoPlan => reserve \in Plans
           /\ NoPlan \notin Plans /\ billed \subseteq Plans
           /\ renewed \in [Plans -> 0..2]
           /\ \A p \in Plans : p \in Nat /\ p # NoPlan /\ renewed[p] \in 0..2
           /\ \A t \in Tasks : PlanOf(t) # NoPlan => PlanOf(t) \in Plans
           /\ \A t \in Tasks : PlanOf(t) \in Nat
<1>1. RowsOK /\ CountsOK
  BY TypeParts
<1>2. \A t \in Tasks : PlanOf(t) = NoPlan \/ PlanOf(t) \in Plans
  BY SlotType
<1>3. QED
  BY <1>1, <1>2, ReserveAssumption DEF RowsOK, CountsOK, Row, Plans, NoPlan

\* The invariant without the types.
Kept == OnlyBought /\ PanelDone /\ PlanKept /\ PlansApart /\ NotAgain

\* It survives what leaves slots, plans and ghosts alone.
LEMMA StillKept ==
    ASSUME Kept, UNCHANGED <<task, reserve, bought, billed, renewed, ghosts>>
    PROVE  Kept'
<1>1. \A s \in Tasks : At(s)' = At(s) /\ PlanOf(s)' = PlanOf(s)
  BY DEF At, PlanOf
<1>2. QED
  BY <1>1 DEF Kept, OnlyBought, PanelDone, PlanKept, PlansApart, NotAgain, ghosts

\* Buying, canceling and restarting keep it.
LEMMA RowsKeep ==
    ASSUME ReservesTypeOK, Kept,
           \/ \E p \in Plans : Buy(p)
           \/ \E c \in Cancels : CancelCommits(c)
           \/ Restart
    PROVE  Kept'
<1> USE PlanNumbers DEF Kept
<1>1. ASSUME UNCHANGED task PROVE \A s \in Tasks : At(s)' = At(s) /\ PlanOf(s)' = PlanOf(s)
  BY <1>1 DEF At, PlanOf
<1>2. ASSUME NEW p \in Plans, Buy(p) PROVE Kept'
  <2>1. /\ p = bought + 1 /\ reserve = NoPlan /\ reserve' = p /\ bought' = p
        /\ billed' = billed \cup {p} /\ UNCHANGED <<renewed, absent, doubtful, crossed>>
    BY <1>2 DEF Buy, ghosts
  <2>2. \A s \in Tasks : At(s)' = At(s) /\ PlanOf(s)' = PlanOf(s)
    BY <1>1, <1>2 DEF Buy
  <2>3. OnlyBought' /\ PanelDone' /\ PlansApart'
    BY <2>1, <2>2 DEF OnlyBought, PanelDone, PlansApart
  <2>4. PlanKept'
    BY <2>1 DEF PlanKept
  <2>5. renewed[p] = 0
    BY <2>1 DEF OnlyBought
  <2>6. NotAgain'
    BY <2>1, <2>2, <2>5 DEF NotAgain
  <2>7. QED
    BY <2>3, <2>4, <2>6
<1>3. ASSUME NEW c \in Cancels, CancelCommits(c) PROVE Kept'
  <2>1. /\ reserve' = NoPlan /\ billed' = billed \ {canceling[c].plan}
        /\ ~crossed' => ~crossed /\ reserve \in {canceling[c].plan, NoPlan}
        /\ UNCHANGED <<bought, renewed, absent, doubtful>>
    BY <1>3 DEF CancelCommits, DeleteRow
  <2>2. \A s \in Tasks : At(s)' = At(s) /\ PlanOf(s)' = PlanOf(s)
    BY <1>1, <1>3 DEF CancelCommits
  <2>3. OnlyBought' /\ PanelDone' /\ PlansApart'
    BY <2>1, <2>2 DEF OnlyBought, PanelDone, PlansApart, NoPlan
  <2>4. PlanKept'
    BY <2>1 DEF PlanKept
  <2>5. NotAgain'
    BY <2>1, <2>2 DEF NotAgain
  <2>6. QED
    BY <2>3, <2>4, <2>5
<1>4. CASE Restart
  <2>1. UNCHANGED <<reserve, bought, billed, renewed, absent, crossed>>
    BY <1>4 DEF Restart
  <2>2. \A t \in Tasks : At(t)' = "off" /\ PlanOf(t)' = NoPlan
    BY <1>4 DEF Restart, At, PlanOf, Off
  <2>3. \A t \in Tasks : At(t) = "renewed" => PlanOf(t) \in doubtful'
    BY <1>4 DEF Restart
  <2>4. doubtful \subseteq doubtful'
    BY <1>4 DEF Restart
  <2>5. OnlyBought' /\ PanelDone' /\ PlansApart' /\ PlanKept'
    BY <2>1, <2>2 DEF OnlyBought, PanelDone, PlansApart, PlanKept, NoPlan
  <2>6. NotAgain'
    BY <2>1, <2>2, <2>3, <2>4 DEF NotAgain
  <2>7. QED
    BY <2>5, <2>6
<1>5. QED
  BY <1>2, <1>3, <1>4

\* The steps of an activation keep it.
LEMMA TasksKeep ==
    ASSUME ReservesTypeOK, Kept, NEW t \in Tasks, TaskStep(t)
    PROVE  Kept'
<1> USE PlanNumbers DEF Kept
<1>1. ASSUME NEW w, NEW p, Moves(t, w, p)
      PROVE  \A s \in Tasks : /\ At(s)' = IF s = t THEN w ELSE At(s)
                              /\ PlanOf(s)' = IF s = t THEN p ELSE PlanOf(s)
  BY <1>1, OneSlot
<1>2. CASE RunJob(t)
  <2>1. UNCHANGED <<reserve, bought, billed, renewed, absent, doubtful, crossed>>
    BY <1>2 DEF RunJob, row, ghosts
  <2>2. \A s \in Tasks : /\ At(s)' = IF s = t THEN "started" ELSE At(s)
                         /\ PlanOf(s)' = IF s = t THEN NoPlan ELSE PlanOf(s)
    BY <1>1, <1>2, StepsMove
  <2>3. At(t) = "off"
    BY <1>2, StepsMove
  <2>4. OnlyBought' /\ PanelDone' /\ PlansApart' /\ PlanKept'
    BY <2>1, <2>2 DEF OnlyBought, PanelDone, PlansApart, PlanKept, NoPlan
  <2>5. NotAgain'
    BY <2>1, <2>2, <2>3 DEF NotAgain
  <2>6. QED
    BY <2>4, <2>5
<1>3. CASE Load(t)
  <2>1. UNCHANGED <<reserve, bought, billed, renewed, absent, crossed>>
    BY <1>3 DEF Load, OnlyTask, row
  <2>2. CASE reserve = NoPlan
    <3>1. \A s \in Tasks : /\ At(s)' = IF s = t THEN "off" ELSE At(s)
                           /\ PlanOf(s)' = IF s = t THEN NoPlan ELSE PlanOf(s)
      BY <1>1, <1>3, <2>2, StepsMove
    <3>2. doubtful' = doubtful /\ At(t) = "started"
      BY <1>3, <2>2 DEF Load
    <3>3. OnlyBought' /\ PanelDone' /\ PlansApart' /\ PlanKept'
      BY <2>1, <3>1, <3>2 DEF OnlyBought, PanelDone, PlansApart, PlanKept, NoPlan
    <3>4. NotAgain'
      BY <2>1, <3>1, <3>2 DEF NotAgain
    <3>5. QED
      BY <3>3, <3>4
  <2>3. CASE reserve # NoPlan
    <3> DEFINE w == IF reserve \in orphans THEN "parking" ELSE "provisioning"
    <3>1. \A s \in Tasks : /\ At(s)' = IF s = t THEN w ELSE At(s)
                           /\ PlanOf(s)' = IF s = t THEN reserve ELSE PlanOf(s)
      BY <1>1, <1>3, <2>3, StepsMove
    <3>2. w # "renewed"
      OBVIOUS
    <3>3. doubtful \subseteq doubtful' /\ At(t) = "started"
      BY <1>3 DEF Load
    <3>4. \A s \in Tasks : PlanOf(s) = reserve => reserve \in doubtful'
      BY <1>3, <2>3 DEF Load
    <3> HIDE DEF w
    <3>5. OnlyBought' /\ PanelDone' /\ PlanKept'
      BY <2>1, <3>1, <3>2 DEF OnlyBought, PanelDone, PlanKept
    <3>6. PlansApart'
      BY <3>1, <3>3, <3>4 DEF PlansApart
    <3>7. NotAgain'
      BY <2>1, <3>1, <3>2, <3>3, <3>4 DEF NotAgain
    <3>8. QED
      BY <3>5, <3>6, <3>7
  <2>4. QED
    BY <2>2, <2>3
<1>4. CASE Provision(t)
  <2>1. UNCHANGED <<reserve, bought, billed, absent, doubtful, crossed>>
    BY <1>4 DEF Provision, row, ghosts
  <2>2. \A s \in Tasks : /\ At(s)' = IF s = t THEN "renewed" ELSE At(s)
                         /\ PlanOf(s)' = PlanOf(s)
    BY <1>1, <1>4, StepsMove
  <2>3. At(t) = "provisioning" /\ PlanOf(t) \in Plans
    BY <1>4, SlotType DEF Provision
  <2>4. /\ \A p \in Plans : p # PlanOf(t) => renewed'[p] = renewed[p]
        /\ renewed'[PlanOf(t)] > 0
        /\ renewed[PlanOf(t)] = 0 => renewed'[PlanOf(t)] = 1
    BY <1>4, <2>3 DEF Provision, Renew
  <2>5. OnlyBought' /\ PanelDone'
    BY <2>1, <2>2, <2>3, <2>4, SlotType DEF OnlyBought, PanelDone
  <2>6. PlansApart' /\ PlanKept'
    BY <2>1, <2>2, <2>4 DEF PlansApart, PlanKept
  <2>7. NotAgain'
    BY <2>1, <2>2, <2>3, <2>4 DEF NotAgain, PlansApart
  <2>8. QED
    BY <2>5, <2>6, <2>7
<1>5. CASE Park(t) \/ NotFound(t) \/ ProvisionFails(t) \/ Commit(t) \/ Rollback(t)
  <2>1. \A s \in Tasks : /\ At(s)' = IF s = t THEN "off" ELSE At(s)
                         /\ PlanOf(s)' = IF s = t THEN NoPlan ELSE PlanOf(s)
    BY <1>1, <1>5, StepsMove
  <2>2. CASE Park(t)
    <3>1. /\ UNCHANGED <<reserve, bought, billed, renewed, absent, doubtful, crossed>>
          /\ At(t) = "parking"
      BY <2>2 DEF Park, ghosts
    <3>2. OnlyBought' /\ PanelDone' /\ PlansApart' /\ PlanKept'
      BY <2>1, <3>1 DEF OnlyBought, PanelDone, PlansApart, PlanKept, NoPlan
    <3>3. NotAgain'
      BY <2>1, <3>1 DEF NotAgain
    <3>4. QED
      BY <3>2, <3>3
  <2>3. CASE NotFound(t) \/ Commit(t)
    <3>1. /\ UNCHANGED <<bought, billed, renewed, doubtful>>
          /\ reserve' = NoPlan
          /\ ~crossed' => ~crossed /\ reserve \in {PlanOf(t), NoPlan}
      BY <2>3 DEF NotFound, Commit, DeleteRow
    <3>2. absent \subseteq absent'
      BY <2>3 DEF NotFound, Commit
    <3>3. PlanOf(t) \in absent' \/ renewed[PlanOf(t)] > 0
      BY <2>3 DEF NotFound, Commit, PanelDone
    <3>4. OnlyBought' /\ PanelDone' /\ PlansApart'
      BY <2>1, <3>1 DEF OnlyBought, PanelDone, PlansApart, NoPlan
    <3>5. PlanKept'
      BY <3>1, <3>2, <3>3 DEF PlanKept
    <3>6. NotAgain'
      BY <2>1, <3>1 DEF NotAgain
    <3>7. QED
      BY <3>4, <3>5, <3>6
  <2>4. CASE ProvisionFails(t)
    <3>1. /\ UNCHANGED <<reserve, bought, billed, absent, crossed>>
          /\ At(t) = "provisioning" /\ PlanOf(t) \in Plans
      BY <2>4, SlotType DEF ProvisionFails, row
    <3>2. /\ doubtful \subseteq doubtful'
          /\ \A p \in Plans : renewed'[p] # renewed[p] => p = PlanOf(t) /\ p \in doubtful'
          /\ \A p \in Plans : renewed[p] > 0 => renewed'[p] > 0
      BY <2>4, <3>1 DEF ProvisionFails, Renew
    <3>3. OnlyBought' /\ PanelDone'
      <4>1. \A p \in Plans : renewed'[p] > 0 => renewed[p] > 0 \/ p = PlanOf(t)
        BY <3>2
      <4>2. OnlyBought'
        BY <2>1, <3>1, <4>1 DEF OnlyBought, NoPlan
      <4>3. \A s \in Tasks : At(s) = "renewed" => PlanOf(s) \in Plans
        BY SlotType
      <4>4. PanelDone'
        BY <2>1, <3>2, <4>3 DEF PanelDone
      <4>5. QED
        BY <4>2, <4>4
    <3>4. PlansApart' /\ PlanKept'
      BY <2>1, <3>1, <3>2 DEF PlansApart, PlanKept
    <3>5. NotAgain'
      BY <2>1, <3>1, <3>2 DEF NotAgain
    <3>6. QED
      BY <3>3, <3>4, <3>5
  <2>5. CASE Rollback(t)
    <3>1. /\ UNCHANGED <<reserve, bought, billed, renewed, absent, crossed>>
          /\ doubtful' = doubtful \cup {PlanOf(t)}
      BY <2>5 DEF Rollback, OnlyTask, row
    <3>2. OnlyBought' /\ PanelDone' /\ PlansApart' /\ PlanKept'
      BY <2>1, <3>1 DEF OnlyBought, PanelDone, PlansApart, PlanKept, NoPlan
    <3>3. NotAgain'
      BY <2>1, <3>1 DEF NotAgain
    <3>4. QED
      BY <3>2, <3>3
  <2>6. QED
    BY <1>5, <2>2, <2>3, <2>4, <2>5
<1>6. QED
  BY <1>2, <1>3, <1>4, <1>5 DEF TaskStep

\* The invariant is inductive.
LEMMA ReservesNext == ReservesInv /\ [Next]_vars => ReservesInv'
<1> SUFFICES ASSUME ReservesInv, [Next]_vars PROVE ReservesInv'
  OBVIOUS
<1>1. ReservesTypeOK /\ Kept /\ ReservesTypeOK'
  BY ReservesTypeNext DEF ReservesInv, Kept
<1>2. CASE UNCHANGED <<task, reserve, bought, billed, renewed, ghosts>>
  BY <1>1, <1>2, StillKept DEF Kept, ReservesInv
<1>3. CASE \/ \E p \in Plans : Buy(p)
           \/ \E c \in Cancels : CancelCommits(c)
           \/ Restart
  BY <1>1, <1>3, RowsKeep DEF Kept, ReservesInv
<1>4. CASE \E t \in Tasks : TaskStep(t)
  BY <1>1, <1>4, TasksKeep DEF Kept, ReservesInv
<1>5. QED
  BY <1>2, <1>3, <1>4
     DEF Next, vars, TimePasses, CooldownEnds, CheckFinds, CheckAdds, ActivateButton,
         WebhookLimited, AddJob, JobMissed, CancelLoads, row, queue, ghosts

\* As long as no operation deletes a row it had not loaded, a reserved plan that was paid
\* for waits until the panel renewed the account or knows of none, for any number of
\* activations and cancellations (_activate_reserve, cancel_reserve_handler).
THEOREM PlanAlwaysKept == Spec => []ReservesSound
<1>1. ReservesInv => ReservesSound
  BY DEF ReservesInv, ReservesSound
<1>2. QED
  BY <1>1, ReservesInit, ReservesNext, PTL DEF Spec

\* A plan renews the account once, unless two activations of it overlapped or one was cut
\* off between the panel and the database.
THEOREM AlwaysRenewedOnce == Spec => []RenewedOnce
<1>1. ReservesInv => RenewedOnce
  BY DEF ReservesInv, RenewedOnce, NotAgain, ReservesTypeOK
<1>2. QED
  BY <1>1, ReservesInit, ReservesNext, PTL DEF Spec
=============================================================================
