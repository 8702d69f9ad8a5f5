--------------------------- MODULE BroadcastProofs ---------------------------
(***************************************************************************)
(* Broadcast for any users, batch, commands, tasks and restarts: as long as *)
(* two tasks never overlapped, nobody is skipped and a restart repeats one  *)
(* message.                                                                 *)
(***************************************************************************)
EXTENDS Broadcast, FiniteSetTheorems, WellFoundedInduction, TLAPS

\* A task at work knows the start command it works for, and so does a running job.
Working(w) == At(w) \notin {"off", "launched"}

JobHasStarter ==
    /\ Running => hash.by # Nobody
    /\ \A w \in Workers : Working(w) => worker[w].by # Nobody

\* The rest of a page lies ahead of the cursor and leaves out nobody in between.
PageAhead ==
    \A w \in Workers :
       /\ At(w) = "sending" => worker[w].page # {}
       /\ At(w) = "launched" => worker[w].page = {}
       /\ \A p \in worker[w].page :
             /\ p > worker[w].cursor
             /\ \A v \in eligible : v > worker[w].cursor /\ v < p => v \in worker[w].page

\* Everybody up to c was sent to, f[u] times, or is not in E.
Covered(f, E, c) == \A u \in Recipients : u <= c => u \notin E \/ f[u] > 0

\* Users who got the message twice, or would get it twice from cursor c on.
Extra(f, c) == {u \in Recipients : f[u] > 1 \/ (u > c /\ f[u] > 0)}

\* A command that has not created its job has sent nothing, and nobody works for it.
Fresh ==
    \A s \in Starters : starting[s].at # "done" =>
       /\ hash.by # s
       /\ \A w \in Workers : worker[w].by # s
       /\ \A u \in Recipients : sends[s][u] = 0

\* Without overlap one task is alive; its job is the hash's or the hash was deleted, and the
\* two cursors differ only between a message and its save.
OneTask ==
    /\ \A v, w \in Alive : v = w
    /\ \A w \in Workers : Working(w) =>
          /\ hash.by \in {worker[w].by, Nobody}
          /\ Covered(sends[worker[w].by], eligible, worker[w].cursor)
          /\ Cardinality(Extra(sends[worker[w].by], worker[w].cursor)) <= restarts
          /\ Running /\ At(w) # "saving" => hash.cursor = worker[w].cursor

\* A running job would repeat no more than the restarts explain, and one message more while
\* its cursor is not saved.
Resumable ==
    Running =>
       \/ Cardinality(Extra(sends[hash.by], hash.cursor)) <= restarts
       \/ /\ \E w \in Workers : At(w) = "saving"
          /\ Cardinality(Extra(sends[hash.by], hash.cursor)) <= restarts + 1

Kept ==
    /\ JobHasStarter /\ PageAhead /\ Fresh
    /\ NobodySkipped /\ RestartRepeatsOne
    /\ ~overlapped => OneTask /\ Resumable

BroadcastInv == BroadcastTypeOK /\ Kept

-----------------------------------------------------------------------------
(* Types *)

TaskType == [at: Places, id: Ids, by: Starters \cup {Nobody}, cursor: Cursors,
             page: SUBSET Recipients]
Now(w, e) == worker' = [worker EXCEPT ![w] = e]

\* Users are numbers, and a cursor is one.
LEMMA CursorNat == Cursors \subseteq Nat /\ Recipients \subseteq Nat /\ 0 \notin Recipients
  BY BroadcastAssumption DEF Cursors

\* A slot holds a task.
LEMMA WorkerType ==
    ASSUME BroadcastTypeOK, NEW w \in Workers
    PROVE  /\ worker \in [Workers -> TaskType]
           /\ At(w) \in Places /\ worker[w].id \in Ids
           /\ worker[w].by \in Starters \cup {Nobody}
           /\ worker[w].cursor \in Cursors /\ worker[w].page \subseteq Recipients
           /\ worker[w] = Task(At(w), worker[w].id, worker[w].by, worker[w].cursor,
                              worker[w].page)
  BY DEF BroadcastTypeOK, Task, TaskType, At

\* What a new record in one slot does to the slots.
LEMMA NowFields ==
    ASSUME worker \in [Workers -> TaskType], NEW w \in Workers,
           NEW at \in Places, NEW id \in Ids, NEW by \in Starters \cup {Nobody},
           NEW cursor \in Cursors, NEW page \in SUBSET Recipients,
           Now(w, Task(at, id, by, cursor, page))
    PROVE  /\ worker' \in [Workers -> TaskType]
           /\ worker'[w] = Task(at, id, by, cursor, page)
           /\ At(w)' = at
           /\ \A v \in Workers : v # w => worker'[v] = worker[v] /\ At(v)' = At(v)
<1>1. Task(at, id, by, cursor, page) \in TaskType
  BY DEF Task, TaskType
<1>2. worker' \in [Workers -> TaskType] /\ worker'[w] = Task(at, id, by, cursor, page)
      /\ \A v \in Workers : v # w => worker'[v] = worker[v]
  BY <1>1 DEF Now
<1>3. QED
  BY <1>2 DEF At, Task

\* The fields of a record.
LEMMA TaskFields ==
    ASSUME NEW at, NEW id, NEW by, NEW cursor, NEW page
    PROVE  LET r == Task(at, id, by, cursor, page)
           IN  r.at = at /\ r.id = id /\ r.by = by /\ r.cursor = cursor /\ r.page = page
  BY DEF Task

\* What another place makes of a record.
LEMMA SetAt ==
    ASSUME NEW at, NEW id, NEW by, NEW cursor, NEW page, NEW r,
           r = Task(at, id, by, cursor, page), NEW x
    PROVE  [r EXCEPT !.at = x] = Task(x, id, by, cursor, page)
  BY DEF Task

\* A place is set, or a task ends.
LEMMA GoNow ==
    ASSUME BroadcastTypeOK, NEW w \in Workers, NEW x, Go(w, x)
    PROVE  Now(w, Task(x, worker[w].id, worker[w].by, worker[w].cursor, worker[w].page))
<1>1. [worker[w] EXCEPT !.at = x]
        = Task(x, worker[w].id, worker[w].by, worker[w].cursor, worker[w].page)
  BY WorkerType, SetAt
<1>2. worker \in [Workers -> TaskType]
  BY WorkerType
<1>3. QED
  BY <1>1, <1>2 DEF Go, Now
LEMMA EndNow ==
    ASSUME NEW w \in Workers, EndTask(w)
    PROVE  Now(w, Task("off", 0, Nobody, 0, {}))
  BY DEF EndTask, Now, NoTask

\* A launched task takes a free slot.
LEMMA LaunchNow ==
    ASSUME NEW id, Launch(id)
    PROVE  \E w \in Workers : /\ At(w) = "off"
                              /\ Now(w, Task("launched", id, Nobody, 0, {}))
<1> DEFINE w == CHOOSE w \in Workers \ Alive : TRUE
<1>1. w \in Workers \ Alive
  BY DEF Launch, Alive
<1>2. At(w) = "off"
  BY <1>1 DEF Alive, At
<1>3. Now(w, Task("launched", id, Nobody, 0, {}))
  BY DEF Launch, Now
<1>4. QED
  BY <1>1, <1>2, <1>3

\* The page of a task, and the user it sends to.
Rest(w) == {u \in eligible : u > worker[w].cursor}
NextPage(w) == {u \in Rest(w) : Cardinality({v \in Rest(w) : v <= u}) <= Batch}

\* What each step of a task makes of its slot.
LEMMA StepsNow ==
    ASSUME BroadcastTypeOK, NEW w \in Workers
    PROVE  /\ Load(w) /\ Running /\ hash.id = worker[w].id =>
                Now(w, Task("checking", worker[w].id, hash.by, hash.cursor, worker[w].page))
           /\ Load(w) /\ ~(Running /\ hash.id = worker[w].id) =>
                Now(w, Task("off", 0, Nobody, 0, {}))
           /\ Check(w) => \E x \in {"finishing", "paging", "sending"} :
                /\ x = "sending" => worker[w].page # {}
                /\ Now(w, Task(x, worker[w].id, worker[w].by, worker[w].cursor, worker[w].page))
           /\ Page(w) =>
                Now(w, Task(IF NextPage(w) = {} THEN "closing" ELSE "sending",
                           worker[w].id, worker[w].by, worker[w].cursor, NextPage(w)))
           /\ Close(w) => Now(w, Task("finishing", worker[w].id, worker[w].by,
                                     worker[w].cursor, worker[w].page))
           /\ SendOne(w) => Now(w, Task("saving", worker[w].id, worker[w].by,
                                       Min(worker[w].page),
                                       worker[w].page \ {Min(worker[w].page)}))
           /\ Save(w) => Now(w, Task("resting", worker[w].id, worker[w].by,
                                    worker[w].cursor, worker[w].page))
           /\ Finalize(w) \/ Crash(w) => Now(w, Task("off", 0, Nobody, 0, {}))
<1>1. worker \in [Workers -> TaskType]
  BY WorkerType
<1>2. worker[w] = Task(At(w), worker[w].id, worker[w].by, worker[w].cursor, worker[w].page)
  BY WorkerType
<1>3. ASSUME Load(w), Running, hash.id = worker[w].id
      PROVE  Now(w, Task("checking", worker[w].id, hash.by, hash.cursor, worker[w].page))
  BY <1>1, <1>3 DEF Load, Now
<1>4. ASSUME Load(w), ~(Running /\ hash.id = worker[w].id)
      PROVE  Now(w, Task("off", 0, Nobody, 0, {}))
  BY <1>4, EndNow DEF Load
<1>5. ASSUME Check(w)
      PROVE  \E x \in {"finishing", "paging", "sending"} :
                /\ x = "sending" => worker[w].page # {}
                /\ Now(w, Task(x, worker[w].id, worker[w].by, worker[w].cursor, worker[w].page))
  <2>1. CASE ~Running
    <3>1. Go(w, "finishing")
      BY <1>5, <2>1 DEF Check
    <3>2. QED
      BY <3>1, GoNow
  <2>2. CASE Running /\ (At(w) = "checking" \/ worker[w].page = {})
    <3>1. Go(w, "paging")
      BY <1>5, <2>2 DEF Check
    <3>2. QED
      BY <3>1, GoNow
  <2>3. CASE Running /\ ~(At(w) = "checking" \/ worker[w].page = {})
    <3>1. Go(w, "sending")
      BY <1>5, <2>3 DEF Check
    <3>2. QED
      BY <2>3, <3>1, GoNow
  <2>4. QED
    BY <2>1, <2>2, <2>3
<1>6. ASSUME Page(w)
      PROVE  Now(w, Task(IF NextPage(w) = {} THEN "closing" ELSE "sending",
                        worker[w].id, worker[w].by, worker[w].cursor, NextPage(w)))
  BY <1>1, <1>6 DEF Page, Now, NextPage, Rest
<1>7. ASSUME Close(w)
      PROVE  Now(w, Task("finishing", worker[w].id, worker[w].by, worker[w].cursor,
                        worker[w].page))
  BY <1>7, GoNow DEF Close
<1>8. ASSUME SendOne(w)
      PROVE  Now(w, Task("saving", worker[w].id, worker[w].by, Min(worker[w].page),
                        worker[w].page \ {Min(worker[w].page)}))
  BY <1>1, <1>8 DEF SendOne, Now
<1>9. ASSUME Save(w)
      PROVE  Now(w, Task("resting", worker[w].id, worker[w].by, worker[w].cursor,
                        worker[w].page))
  BY <1>9, GoNow DEF Save
<1>10. ASSUME Finalize(w) \/ Crash(w) PROVE Now(w, Task("off", 0, Nobody, 0, {}))
  BY <1>10, EndNow DEF Finalize, Crash
<1>11. QED
  BY <1>3, <1>4, <1>5, <1>6, <1>7, <1>8, <1>9, <1>10

\* A page that is not empty has a first user.
LEMMA FirstOfPage ==
    ASSUME NEW P, P \subseteq Recipients, P # {}
    PROVE  Min(P) \in P /\ \A u \in P : Min(P) <= u
<1>1. P \subseteq Nat
  BY CursorNat
<1>2. PICK x \in P : \A y \in P : ~(<<y, x>> \in OpToRel(<, Nat))
  BY <1>1, NatLessThanWellFounded, WFMin
<1>3. \A y \in P : x <= y
  <2> SUFFICES ASSUME NEW y \in P PROVE x <= y
    OBVIOUS
  <2>1. <<y, x>> \in Nat \X Nat
    BY <1>1
  <2>2. ~(<<y, x>>[1] < <<y, x>>[2])
    BY <1>2, <2>1, Zenon DEF OpToRel
  <2>3. QED
    BY <1>1, <2>2
<1>4. QED
  BY <1>3 DEF Min

-----------------------------------------------------------------------------
(* Types of the next state *)

Hash == [status: JobStatus, id: Ids, by: Starters \cup {Nobody}, cursor: Cursors]
Start == [at: {"idle", "asked", "cleared", "done"}, id: Ids]
Cancel == [at: {"idle", "running", "matched", "done"}, id: Ids]

\* The type invariant in parts.
LEMMA TypeParts ==
    BroadcastTypeOK <=>
       /\ hash \in Hash /\ worker \in [Workers -> TaskType]
       /\ clock \in Ids /\ eligible \subseteq Recipients
       /\ starting \in [Starters -> Start] /\ canceling \in [Cancels -> Cancel]
       /\ booting \in BOOLEAN /\ restarts \in 0..MaxRestarts
       /\ sends \in [Starters -> [Recipients -> Nat]] /\ canceled \subseteq Starters
       /\ late \in [Starters -> Nat] /\ overlapped \in BOOLEAN
  BY DEF BroadcastTypeOK, Hash, TaskType, Start, Cancel

\* The same of the next state.
LEMMA TypePartsNext ==
    BroadcastTypeOK' <=>
       /\ hash' \in Hash /\ worker' \in [Workers -> TaskType]
       /\ clock' \in Ids /\ eligible' \subseteq Recipients
       /\ starting' \in [Starters -> Start] /\ canceling' \in [Cancels -> Cancel]
       /\ booting' \in BOOLEAN /\ restarts' \in 0..MaxRestarts
       /\ sends' \in [Starters -> [Recipients -> Nat]] /\ canceled' \subseteq Starters
       /\ late' \in [Starters -> Nat] /\ overlapped' \in BOOLEAN
  BY DEF BroadcastTypeOK, Hash, TaskType, Start, Cancel, Ids, Cursors, JobStatus, Places

\* The empty hash and the idle slot.
LEMMA Nothing ==
    /\ NoJob \in Hash /\ NoJob.by = Nobody /\ NoJob.status = "none" /\ NoJob.cursor = 0
    /\ NoTask \in TaskType /\ NoTask.at = "off" /\ NoTask.by = Nobody /\ NoTask.page = {}
<1>1. 0 \in Ids /\ 0 \in Cursors
  BY BroadcastAssumption DEF Ids, Cursors
<1>2. QED
  BY <1>1 DEF NoJob, NoTask, Task, Hash, TaskType, JobStatus, Places

\* A field of the hash is set.
LEMMA HashSet ==
    ASSUME hash \in Hash
    PROVE  /\ \A x \in JobStatus :
                 LET h == [hash EXCEPT !.status = x]
                 IN  h \in Hash /\ h.status = x /\ h.by = hash.by /\ h.cursor = hash.cursor
           /\ \A c \in Cursors :
                 LET h == [hash EXCEPT !.cursor = c]
                 IN  h \in Hash /\ h.status = hash.status /\ h.by = hash.by /\ h.cursor = c
  BY DEF Hash

\* The hash keeps its type.
LEMMA HashNext ==
    ASSUME BroadcastTypeOK, Next
    PROVE  hash' \in Hash
<1>1. hash \in Hash /\ starting \in [Starters -> Start]
  BY TypeParts
<1>2. CASE UNCHANGED hash
  BY <1>1, <1>2
<1>3. ASSUME NEW s \in Starters, StartClears(s) PROVE hash' \in Hash
  BY <1>3, Nothing DEF StartClears
<1>4. ASSUME NEW s \in Starters, StartCreates(s) PROVE hash' \in Hash
  <2>1. starting[s].id \in Ids /\ 0 \in Cursors
    BY <1>1 DEF Start, Cursors
  <2>2. QED
    BY <1>4, <2>1 DEF StartCreates, Hash, JobStatus
<1>5. ASSUME NEW c \in Cancels, CancelSets(c) PROVE hash' \in Hash
  BY <1>1, <1>5, HashSet DEF CancelSets, SetCanceled, JobStatus
<1>6. ASSUME NEW w \in Workers, Close(w) \/ Crash(w) PROVE hash' \in Hash
  BY <1>1, <1>6, HashSet DEF Close, Crash, JobStatus
<1>7. ASSUME NEW w \in Workers, Save(w) PROVE hash' \in Hash
  BY <1>1, <1>7, HashSet, WorkerType DEF Save
<1>8. QED
  BY <1>2, <1>3, <1>4, <1>5, <1>6, <1>7
     DEF Next, Tick, Restart, Resume, StartAsks, CancelAsks, CancelMatches, WebCancel,
         TaskStep, Load, Check, Page, SendOne, Finalize

\* What the task steps and launches need for the type of the slots.
LEMMA SlotsNext ==
    ASSUME BroadcastTypeOK, PageAhead, Next
    PROVE  worker' \in [Workers -> TaskType]
<1>1. worker \in [Workers -> TaskType] /\ hash \in Hash /\ eligible \subseteq Recipients
      /\ starting \in [Starters -> Start]
  BY TypeParts
<1>2. 0 \in Ids /\ 0 \in Cursors /\ Recipients \subseteq Cursors
  BY BroadcastAssumption DEF Ids, Cursors
<1>3. CASE UNCHANGED worker
  BY <1>1, <1>3
<1>4. ASSUME NEW w \in Workers, TaskStep(w) PROVE worker' \in [Workers -> TaskType]
  <2>1. /\ worker[w].id \in Ids /\ worker[w].by \in Starters \cup {Nobody}
        /\ worker[w].cursor \in Cursors /\ worker[w].page \in SUBSET Recipients
    BY WorkerType
  <2>2. CASE Load(w)
    <3>1. hash.by \in Starters \cup {Nobody} /\ hash.cursor \in Cursors
      BY <1>1 DEF Hash
    <3>2. CASE Running /\ hash.id = worker[w].id
      <4>1. Now(w, Task("checking", worker[w].id, hash.by, hash.cursor, worker[w].page))
        BY <2>2, <3>2, StepsNow
      <4>2. QED
        BY <1>1, <2>1, <3>1, <4>1, NowFields DEF Places
    <3>3. CASE ~(Running /\ hash.id = worker[w].id)
      <4>1. Now(w, Task("off", 0, Nobody, 0, {}))
        BY <2>2, <3>3, StepsNow
      <4>2. QED
        BY <1>1, <4>1, Nothing DEF Now, NoTask
    <3>4. QED
      BY <3>2, <3>3
  <2>3. CASE Check(w)
    <3>1. PICK x \in {"finishing", "paging", "sending"} :
             Now(w, Task(x, worker[w].id, worker[w].by, worker[w].cursor, worker[w].page))
      BY <2>3, StepsNow
    <3>2. QED
      BY <1>1, <2>1, <3>1, NowFields DEF Places
  <2>4. CASE Page(w)
    <3>1. NextPage(w) \in SUBSET Recipients
      BY <1>1 DEF NextPage, Rest
    <3>2. QED
      BY <1>1, <2>1, <2>4, <3>1, StepsNow, NowFields DEF Places
  <2>5. CASE Close(w) \/ Save(w)
    BY <1>1, <2>1, <2>5, StepsNow, NowFields DEF Places
  <2>6. CASE SendOne(w)
    <3>1. Min(worker[w].page) \in Cursors
      BY <1>2, <2>1, <2>6, FirstOfPage DEF PageAhead, SendOne
    <3>2. worker[w].page \ {Min(worker[w].page)} \in SUBSET Recipients
      BY <2>1
    <3>3. Now(w, Task("saving", worker[w].id, worker[w].by, Min(worker[w].page),
                      worker[w].page \ {Min(worker[w].page)}))
      BY <2>6, StepsNow
    <3>4. QED
      BY <1>1, <2>1, <3>1, <3>2, <3>3, NowFields DEF Places
  <2>7. CASE Finalize(w) \/ Crash(w)
    <3>1. Now(w, Task("off", 0, Nobody, 0, {}))
      BY <2>7, StepsNow
    <3>2. QED
      BY <1>1, <3>1, Nothing DEF Now, NoTask
  <2>8. QED
    BY <1>4, <2>2, <2>3, <2>4, <2>5, <2>6, <2>7 DEF TaskStep
<1>5. ASSUME NEW id \in Ids, Launch(id) PROVE worker' \in [Workers -> TaskType]
  <2>1. PICK w \in Workers : Now(w, Task("launched", id, Nobody, 0, {}))
    BY <1>5, LaunchNow
  <2>2. QED
    BY <1>1, <1>2, <2>1, NowFields DEF Places
<1>6. ASSUME NEW s \in Starters, StartCreates(s) PROVE worker' \in [Workers -> TaskType]
  BY <1>1, <1>5, <1>6 DEF StartCreates, Start
<1>7. CASE Resume
  BY <1>1, <1>5, <1>7 DEF Resume, Hash
<1>8. CASE Restart
  BY <1>8, Nothing DEF Restart
<1>9. QED
  BY <1>3, <1>4, <1>6, <1>7, <1>8
     DEF Next, Tick, StartAsks, StartClears, CancelAsks, CancelMatches, CancelSets, WebCancel

\* The commands keep their types.
LEMMA CommandsNext ==
    ASSUME BroadcastTypeOK, Next
    PROVE  starting' \in [Starters -> Start] /\ canceling' \in [Cancels -> Cancel]
<1>1. starting \in [Starters -> Start] /\ canceling \in [Cancels -> Cancel]
      /\ clock \in Ids
  BY TypeParts
<1>2. \A s \in Starters : \A x \in {"cleared", "done"} : [starting[s] EXCEPT !.at = x] \in Start
  BY <1>1 DEF Start
<1>3. \A c \in Cancels : \A x \in {"matched", "done"} : [canceling[c] EXCEPT !.at = x] \in Cancel
  BY <1>1 DEF Cancel
<1>4. CASE UNCHANGED <<starting, canceling>>
  BY <1>1, <1>4
<1>5. ASSUME NEW s \in Starters, StartAsks(s)
      PROVE  starting' \in [Starters -> Start] /\ UNCHANGED canceling
  <2>1. [at |-> IF Running THEN "done" ELSE "asked", id |-> clock] \in Start
    BY <1>1 DEF Start
  <2>2. QED
    BY <1>1, <1>5, <2>1 DEF StartAsks
<1>6. ASSUME NEW s \in Starters, StartClears(s) \/ StartCreates(s)
      PROVE  starting' \in [Starters -> Start] /\ UNCHANGED canceling
  BY <1>1, <1>2, <1>6 DEF StartClears, StartCreates
<1>7. ASSUME NEW c \in Cancels, CancelAsks(c)
      PROVE  canceling' \in [Cancels -> Cancel] /\ UNCHANGED starting
  <2>1. hash.id \in Ids
    BY <1>7 DEF CancelAsks
  <2>2. [at |-> IF Running THEN "running" ELSE "done", id |-> hash.id] \in Cancel
    BY <2>1 DEF Cancel
  <2>3. QED
    BY <1>1, <1>7, <2>2 DEF CancelAsks
<1>8. ASSUME NEW c \in Cancels, CancelMatches(c) \/ CancelSets(c) \/ WebCancel(c)
      PROVE  canceling' \in [Cancels -> Cancel] /\ UNCHANGED starting
  <2>1. CASE CancelMatches(c)
    BY <1>1, <1>3, <2>1 DEF CancelMatches
  <2>2. CASE CancelSets(c)
    BY <1>1, <1>3, <2>2 DEF CancelSets
  <2>3. CASE WebCancel(c)
    BY <1>1, <1>3, <2>3 DEF WebCancel
  <2>4. QED
    BY <1>8, <2>1, <2>2, <2>3
<1>9. CASE Restart
  BY <1>1, <1>2, <1>3, <1>9 DEF Restart
<1>10. QED
  BY <1>1, <1>4, <1>5, <1>6, <1>7, <1>8, <1>9
     DEF Next, Tick, Resume, TaskStep, Load, Check, Page, Close, SendOne, Save, Finalize,
         Crash, OnlyTask

\* One more attempt for user u.
LEMMA OneMore ==
    ASSUME NEW f \in [Recipients -> Nat], NEW u
    PROVE  /\ [f EXCEPT ![u] = @ + 1] \in [Recipients -> Nat]
           /\ \A v \in Recipients :
                 [f EXCEPT ![u] = @ + 1][v] = IF v = u THEN f[v] + 1 ELSE f[v]
<1>1. CASE u \in Recipients
  <2>1. f[u] + 1 \in Nat
    BY <1>1
  <2>2. QED
    BY <1>1, <2>1
<1>2. CASE u \notin Recipients
  <2>1. [f EXCEPT ![u] = @ + 1] = f
    BY <1>2
  <2>2. QED
    BY <1>2, <2>1
<1>3. QED
  BY <1>1, <1>2

\* So does the rest.
LEMMA RestNext ==
    ASSUME BroadcastTypeOK, Next
    PROVE  /\ clock' \in Ids /\ eligible' \subseteq Recipients
           /\ booting' \in BOOLEAN /\ restarts' \in 0..MaxRestarts
           /\ sends' \in [Starters -> [Recipients -> Nat]] /\ canceled' \subseteq Starters
           /\ late' \in [Starters -> Nat] /\ overlapped' \in BOOLEAN
<1>1. /\ clock \in Ids /\ eligible \subseteq Recipients
      /\ booting \in BOOLEAN /\ restarts \in 0..MaxRestarts
      /\ sends \in [Starters -> [Recipients -> Nat]] /\ canceled \subseteq Starters
      /\ late \in [Starters -> Nat] /\ overlapped \in BOOLEAN /\ hash \in Hash
  BY TypeParts
<1>2. clock' \in Ids
  <2>1. Tick => clock' \in Ids
    BY <1>1, BroadcastAssumption DEF Tick, Ids
  <2>2. QED
    BY <1>1, <2>1
       DEF Next, Restart, Resume, StartAsks, StartClears, StartCreates, CancelAsks,
           CancelMatches, CancelSets, WebCancel, TaskStep, Load, Check, Page, Close, SendOne,
           Save, Finalize, Crash, OnlyTask
<1>3. restarts' \in 0..MaxRestarts
  <2>1. Restart => restarts' \in 0..MaxRestarts
    BY <1>1, BroadcastAssumption DEF Restart
  <2>2. QED
    BY <1>1, <2>1
       DEF Next, Tick, Resume, StartAsks, StartClears, StartCreates, CancelAsks,
           CancelMatches, CancelSets, WebCancel, TaskStep, Load, Check, Page, Close, SendOne,
           Save, Finalize, Crash, OnlyTask, counts
<1>4. booting' \in BOOLEAN
  BY <1>1, Zenon
     DEF Next, Tick, Restart, Resume, StartAsks, StartClears, StartCreates, CancelAsks,
         CancelMatches, CancelSets, WebCancel, TaskStep, Load, Check, Page, Close, SendOne,
         Save, Finalize, Crash, OnlyTask
<1>5. overlapped' \in BOOLEAN
  <2>1. ASSUME NEW id, Launch(id) PROVE overlapped' \in BOOLEAN
    BY <2>1, Zenon DEF Launch
  <2>2. QED
    BY <1>1, <2>1
       DEF Next, Tick, Restart, Resume, StartAsks, StartClears, StartCreates, CancelAsks,
           CancelMatches, CancelSets, WebCancel, TaskStep, Load, Check, Page, Close, SendOne,
           Save, Finalize, Crash, OnlyTask, counts
<1>6. canceled' \subseteq Starters
  <2>1. ASSUME NEW c \in Cancels, CancelSets(c) PROVE canceled' \subseteq Starters
    BY <1>1, <2>1 DEF CancelSets, SetCanceled, Hash
  <2>2. QED
    BY <1>1, <2>1
       DEF Next, Tick, Restart, Resume, StartAsks, StartClears, StartCreates, CancelAsks,
           CancelMatches, WebCancel, TaskStep, Load, Check, Page, Close, SendOne,
           Save, Finalize, Crash, OnlyTask, counts
<1>7. /\ eligible' \subseteq Recipients /\ sends' \in [Starters -> [Recipients -> Nat]]
      /\ late' \in [Starters -> Nat]
  <2>1. ASSUME NEW w \in Workers, SendOne(w)
        PROVE  /\ eligible' \subseteq Recipients
               /\ sends' \in [Starters -> [Recipients -> Nat]] /\ late' \in [Starters -> Nat]
    <3>1. eligible' \subseteq Recipients
      BY <1>1, <2>1 DEF SendOne
    <3>2. sends' \in [Starters -> [Recipients -> Nat]]
      <4> DEFINE s == worker[w].by
                 f == [sends[s] EXCEPT ![Min(worker[w].page)] = @ + 1]
      <4>1. sends' = [sends EXCEPT ![s] = f]
        BY <2>1 DEF SendOne
      <4>2. s \in Starters => f \in [Recipients -> Nat]
        BY <1>1, OneMore
      <4> HIDE DEF f, s
      <4>3. QED
        BY <1>1, <4>1, <4>2
    <3>3. late' \in [Starters -> Nat]
      BY <1>1, <2>1 DEF SendOne
    <3>4. QED
      BY <3>1, <3>2, <3>3
  <2>2. ASSUME ~\E w \in Workers : SendOne(w) PROVE UNCHANGED <<eligible, sends, late>>
    BY <2>2
       DEF Next, Tick, Restart, Resume, StartAsks, StartClears, StartCreates, CancelAsks,
           CancelMatches, CancelSets, WebCancel, TaskStep, Load, Check, Page, Close,
           Save, Finalize, Crash, OnlyTask
  <2>3. QED
    BY <1>1, <2>1, <2>2
<1>8. QED
  BY <1>2, <1>3, <1>4, <1>5, <1>6, <1>7

\* The types are kept by every step.
LEMMA BroadcastTypeNext == BroadcastTypeOK /\ PageAhead /\ [Next]_vars => BroadcastTypeOK'
<1>1. CASE UNCHANGED vars
  BY <1>1 DEF vars, counts, BroadcastTypeOK
<1>2. BroadcastTypeOK /\ PageAhead /\ Next => BroadcastTypeOK'
  BY HashNext, SlotsNext, CommandsNext, RestNext, TypePartsNext
<1>3. QED
  BY <1>1, <1>2

-----------------------------------------------------------------------------
(* Counting *)

\* Counts of users are numbers, and smaller for fewer users.
LEMMA ExtraFinite ==
    ASSUME NEW f, NEW c
    PROVE  IsFiniteSet(Extra(f, c)) /\ Cardinality(Extra(f, c)) \in Nat
<1>1. Extra(f, c) \subseteq Recipients
  BY DEF Extra
<1>2. QED
  BY <1>1, BroadcastAssumption, FS_Subset, FS_CardinalityType

\* One more message to u, ahead of cursor c, repeats nothing that was not counted at c when
\* the cursor moves to u, and u alone when it does not.
LEMMA SentOneMore ==
    ASSUME NEW f \in [Recipients -> Nat], NEW c \in Nat, NEW u \in Recipients, u > c,
           NEW g \in [Recipients -> Nat], g = [f EXCEPT ![u] = @ + 1]
    PROVE  /\ Cardinality(Extra(g, u)) <= Cardinality(Extra(f, c))
           /\ Cardinality(Extra(g, c)) <= Cardinality(Extra(f, c)) + 1
<1>1. \A v \in Recipients : v \in Nat /\ g[v] = IF v = u THEN f[v] + 1 ELSE f[v]
  BY OneMore, CursorNat
<1>2. Extra(g, u) \subseteq Extra(f, c)
  BY <1>1 DEF Extra
<1>3. Extra(g, c) \subseteq Extra(f, c) \cup {u}
  BY <1>1 DEF Extra
<1>4. Cardinality(Extra(g, u)) <= Cardinality(Extra(f, c))
  BY <1>2, ExtraFinite, FS_Subset
<1>5. /\ IsFiniteSet(Extra(f, c) \cup {u})
      /\ Cardinality(Extra(f, c) \cup {u}) <= Cardinality(Extra(f, c)) + 1
  BY ExtraFinite, FS_AddElement
<1>6. Cardinality(Extra(g, c)) <= Cardinality(Extra(f, c) \cup {u})
  BY <1>3, <1>5, FS_Subset
<1>7. /\ Cardinality(Extra(g, c)) \in Nat /\ Cardinality(Extra(f, c)) \in Nat
      /\ Cardinality(Extra(f, c) \cup {u}) \in Nat
  BY <1>5, ExtraFinite, FS_CardinalityType
<1>8. QED
  BY <1>4, <1>5, <1>6, <1>7

\* Nothing sent is nothing to repeat.
LEMMA NothingSent ==
    ASSUME NEW f, NEW c, \A u \in Recipients : f[u] = 0
    PROVE  Cardinality(Extra(f, c)) = 0
<1>1. Extra(f, c) = {}
  BY DEF Extra
<1>2. QED
  BY <1>1, FS_EmptySet

\* Whoever got a message twice is counted at every cursor.
LEMMA TwiceCounted ==
    ASSUME NEW f, NEW c
    PROVE  Cardinality({u \in Recipients : f[u] > 1}) <= Cardinality(Extra(f, c))
<1>1. {u \in Recipients : f[u] > 1} \subseteq Extra(f, c)
  BY DEF Extra
<1>2. QED
  BY <1>1, ExtraFinite, FS_Subset

\* The properties in these terms.
LEMMA SkippedCovered ==
    NobodySkipped <=> (~overlapped /\ hash.by # Nobody
                         => Covered(sends[hash.by], eligible, hash.cursor))
  BY DEF NobodySkipped, Covered
LEMMA SkippedCoveredNext ==
    NobodySkipped' <=> (~overlapped' /\ hash'.by # Nobody
                          => Covered(sends'[hash'.by], eligible', hash'.cursor))
  BY DEF NobodySkipped, Covered

\* Fewer users to reach, or more messages, skip nobody else.
LEMMA StillCovered ==
    ASSUME NEW f, NEW E, NEW D, NEW c, Covered(f, E, c), D \subseteq E
    PROVE  Covered(f, D, c)
  BY DEF Covered
LEMMA MoreCovered ==
    ASSUME NEW f \in [Recipients -> Nat], NEW g \in [Recipients -> Nat], NEW E, NEW D, NEW c,
           Covered(f, E, c), D \subseteq E, \A u \in Recipients : g[u] >= f[u]
    PROVE  Covered(g, D, c)
  BY DEF Covered

\* The numbers that the types speak of.
LEMMA Numbers ==
    ASSUME BroadcastTypeOK
    PROVE  /\ restarts \in Nat /\ hash.cursor \in Nat /\ hash.by \in Starters \cup {Nobody}
           /\ \A w \in Workers : worker[w].cursor \in Nat /\ worker[w].page \subseteq Recipients
           /\ \A s \in Starters : sends[s] \in [Recipients -> Nat]
           /\ Nobody \notin Starters
<1>1. hash \in Hash /\ restarts \in 0..MaxRestarts
      /\ sends \in [Starters -> [Recipients -> Nat]]
  BY TypeParts
<1>2. \A w \in Workers : worker[w].cursor \in Nat /\ worker[w].page \subseteq Recipients
  BY WorkerType, CursorNat
<1>3. hash.cursor \in Cursors /\ hash.by \in Starters \cup {Nobody}
  BY <1>1 DEF Hash
<1>4. restarts \in Nat
  BY <1>1, BroadcastAssumption
<1>5. QED
  BY <1>1, <1>2, <1>3, <1>4, CursorNat, BroadcastAssumption

-----------------------------------------------------------------------------
(* The steps keep the invariant *)

\* The initial state.
LEMMA BroadcastInit == Init => BroadcastInv
<1> SUFFICES ASSUME Init PROVE BroadcastInv
  OBVIOUS
<1>1. BroadcastTypeOK
  <2>1. 0 \in Ids /\ 0 \in Cursors /\ 0 \in 0..MaxRestarts /\ 0 \in Nat
    BY BroadcastAssumption DEF Ids, Cursors
  <2>2. hash \in Hash /\ worker \in [Workers -> TaskType]
    BY Nothing DEF Init
  <2>3. starting \in [Starters -> Start] /\ canceling \in [Cancels -> Cancel]
    BY <2>1 DEF Init, Start, Cancel
  <2>4. booting \in BOOLEAN /\ overlapped \in BOOLEAN
    BY Zenon DEF Init
  <2>5. /\ clock \in Ids /\ eligible \subseteq Recipients /\ restarts \in 0..MaxRestarts
        /\ sends \in [Starters -> [Recipients -> Nat]] /\ canceled \subseteq Starters
        /\ late \in [Starters -> Nat]
    BY <2>1 DEF Init
  <2>6. QED
    BY <2>2, <2>3, <2>4, <2>5, TypeParts
<1>2. hash = NoJob /\ \A w \in Workers : worker[w] = NoTask
  BY DEF Init
<1>3. JobHasStarter /\ PageAhead
  BY <1>2, Nothing DEF JobHasStarter, PageAhead, Running, Working, At
<1>4. Fresh
  BY <1>2, Nothing, BroadcastAssumption DEF Init, Fresh
<1>5. NobodySkipped
  BY <1>2, Nothing DEF NobodySkipped
<1>6. RestartRepeatsOne
  <2> SUFFICES ASSUME NEW s \in Starters
               PROVE  Cardinality({u \in Recipients : sends[s][u] > 1}) <= 0
    BY DEF RestartRepeatsOne, Init
  <2>1. {u \in Recipients : sends[s][u] > 1} = {}
    BY DEF Init
  <2>2. QED
    BY <2>1, FS_EmptySet
<1>7. OneTask /\ Resumable
  BY <1>2, Nothing DEF OneTask, Resumable, Alive, Running, Working, At
<1>8. QED
  BY <1>1, <1>3, <1>4, <1>5, <1>6, <1>7 DEF BroadcastInv, Kept

\* What commands and the clock do: no task moves, and the hash is left alone, deleted or
\* marked as canceled.
LEMMA CommandKeeps ==
    ASSUME BroadcastTypeOK, Kept,
           UNCHANGED <<worker, eligible, sends, restarts, overlapped>>,
           hash' \in {hash, NoJob, [hash EXCEPT !.status = "canceled"]},
           \A s \in Starters : starting'[s].at # "done" => starting[s].at # "done"
    PROVE  Kept'
<1>1. hash \in Hash
  BY TypeParts
<1>2. /\ hash'.status = "running" => hash' = hash
      /\ hash'.by = Nobody \/ (hash'.by = hash.by /\ hash'.cursor = hash.cursor)
  BY <1>1, HashSet, Nothing DEF JobStatus
<1>3. JobHasStarter' /\ PageAhead'
  BY <1>2 DEF Kept, JobHasStarter, PageAhead, Running, Working, At
<1>4. Fresh'
  BY <1>2, Numbers DEF Kept, Fresh
<1>5. NobodySkipped'
  BY <1>2, SkippedCovered, SkippedCoveredNext DEF Kept
<1>6. RestartRepeatsOne'
  BY DEF Kept, RestartRepeatsOne
<1>7. ~overlapped => OneTask' /\ Resumable'
  <2> SUFFICES ASSUME ~overlapped, OneTask, Resumable PROVE OneTask' /\ Resumable'
    BY DEF Kept
  <2>1. OneTask'
    BY <1>2 DEF OneTask, Alive, Running, Working, At
  <2>2. Resumable'
    BY <1>2 DEF Resumable, Running, At
  <2>3. QED
    BY <2>1, <2>2
<1>8. QED
  BY <1>3, <1>4, <1>5, <1>6, <1>7 DEF Kept

\* A task is launched, by a start command that creates its job or by the restarted bot.
LEMMA LaunchKeeps ==
    ASSUME BroadcastTypeOK, Kept, NEW id \in Ids, Launch(id),
           UNCHANGED <<eligible, sends, restarts>>,
           \/ hash' = hash /\ Running
           \/ \E s \in Starters : /\ starting[s].at # "done" /\ starting'[s].at = "done"
                                  /\ hash' = [status |-> "running", id |-> id,
                                              by |-> s, cursor |-> 0],
           \A s \in Starters : starting'[s].at # "done" => starting[s].at # "done"
    PROVE  Kept'
<1>1. PICK w \in Workers : At(w) = "off" /\ Now(w, Task("launched", id, Nobody, 0, {}))
  BY LaunchNow
<1>2. /\ worker'[w].at = "launched" /\ worker'[w].by = Nobody /\ worker'[w].page = {}
      /\ \A v \in Workers : v # w => worker'[v] = worker[v]
  BY <1>1, WorkerType, TaskFields DEF Now
<1>3. \/ hash' = hash /\ Running
      \/ \E s \in Starters : /\ starting[s].at # "done" /\ starting'[s].at = "done"
                             /\ hash'.status = "running" /\ hash'.by = s /\ hash'.cursor = 0
  OBVIOUS
<1>4. JobHasStarter'
  BY <1>2, <1>3, Numbers DEF Kept, JobHasStarter, Running, Working, At
<1>5. PageAhead'
  BY <1>2 DEF Kept, PageAhead, At
<1>6. Fresh'
  BY <1>2, <1>3, Numbers DEF Kept, Fresh
<1>7. RestartRepeatsOne'
  BY DEF Kept, RestartRepeatsOne, Launch
<1>8. CASE overlapped'
  BY <1>4, <1>5, <1>6, <1>7, <1>8 DEF Kept, NobodySkipped
<1>9. CASE ~overlapped'
  <2>1. ~overlapped /\ \A v \in Workers : At(v) = "off"
    BY <1>9 DEF Launch, Alive, At
  <2>2. NobodySkipped' /\ Resumable'
    <3>1. CASE hash' = hash /\ Running
      <4>1. NobodySkipped'
        BY <2>1, <3>1, SkippedCovered, SkippedCoveredNext DEF Kept
      <4>2. Resumable'
        BY <1>2, <2>1, <3>1 DEF Kept, Resumable, Running, At
      <4>3. QED
        BY <4>1, <4>2
    <3>2. ASSUME NEW s \in Starters, starting[s].at # "done", hash'.by = s, hash'.cursor = 0
          PROVE  NobodySkipped' /\ Resumable'
      <4>1. Covered(sends'[s], eligible', 0)
        BY CursorNat DEF Covered
      <4>2. NobodySkipped'
        BY <3>2, <4>1, SkippedCoveredNext
      <4>3. \A u \in Recipients : sends'[s][u] = 0
        BY <3>2 DEF Kept, Fresh
      <4>4. Cardinality(Extra(sends'[hash'.by], hash'.cursor)) <= restarts'
        BY <3>2, <4>3, NothingSent, Numbers
      <4>5. Resumable'
        BY <4>4 DEF Resumable
      <4>6. QED
        BY <4>2, <4>5
    <3>3. QED
      BY <1>3, <3>1, <3>2
  <2>3. OneTask'
    BY <1>2, <2>1 DEF OneTask, Alive, Working, At
  <2>4. QED
    BY <1>4, <1>5, <1>6, <1>7, <2>2, <2>3 DEF Kept
<1>10. QED
  BY <1>8, <1>9

\* All tasks end at once, and the restart is counted.
LEMMA RestartKeeps ==
    ASSUME BroadcastTypeOK, Kept, Restart
    PROVE  Kept'
<1>1. /\ \A w \in Workers : worker'[w] = NoTask
      /\ restarts' = restarts + 1 /\ UNCHANGED <<hash, eligible, sends, overlapped>>
      /\ \A s \in Starters : starting'[s].at # "done" => starting[s].at # "done"
  <2>1. starting \in [Starters -> Start]
    BY TypeParts
  <2>2. \A s \in Starters : [starting[s] EXCEPT !.at = "done"].at = "done"
    BY <2>1 DEF Start
  <2>3. QED
    BY <2>2 DEF Restart
<1>2. JobHasStarter' /\ PageAhead'
  BY <1>1, Nothing DEF Kept, JobHasStarter, PageAhead, Running, Working, At
<1>3. Fresh'
  BY <1>1, Nothing, Numbers DEF Kept, Fresh
<1>4. NobodySkipped'
  BY <1>1, SkippedCovered, SkippedCoveredNext DEF Kept
<1>5. RestartRepeatsOne'
  <2> SUFFICES ASSUME ~overlapped, NEW s \in Starters
               PROVE  Cardinality({u \in Recipients : sends[s][u] > 1}) <= restarts + 1
    BY <1>1 DEF RestartRepeatsOne
  <2>1. Cardinality({u \in Recipients : sends[s][u] > 1}) <= restarts
    BY DEF Kept, RestartRepeatsOne
  <2>2. Cardinality({u \in Recipients : sends[s][u] > 1}) \in Nat
    BY BroadcastAssumption, FS_Subset, FS_CardinalityType
  <2>3. QED
    BY <2>1, <2>2, Numbers
<1>6. ~overlapped => OneTask' /\ Resumable'
  <2> SUFFICES ASSUME ~overlapped, Resumable PROVE OneTask' /\ Resumable'
    BY DEF Kept
  <2>1. OneTask'
    BY <1>1, Nothing DEF OneTask, Alive, Working, At
  <2>2. Running => Cardinality(Extra(sends[hash.by], hash.cursor)) <= restarts + 1
    BY ExtraFinite, Numbers DEF Resumable
  <2>3. Resumable'
    BY <1>1, <2>2 DEF Resumable, Running
  <2>4. QED
    BY <2>1, <2>3
<1>7. QED
  BY <1>1, <1>2, <1>3, <1>4, <1>5, <1>6 DEF Kept

\* A new record in one slot, field by field.
LEMMA OneSlot ==
    ASSUME BroadcastTypeOK, NEW w \in Workers,
           NEW at, NEW id, NEW by, NEW cursor, NEW page, Now(w, Task(at, id, by, cursor, page))
    PROVE  /\ worker'[w].at = at /\ worker'[w].id = id /\ worker'[w].by = by
           /\ worker'[w].cursor = cursor /\ worker'[w].page = page
           /\ \A v \in Workers : v # w => worker'[v] = worker[v]
  BY WorkerType, TaskFields DEF Now

\* A task ends; if its cursor was not saved the job does not run on.
LEMMA EndKeeps ==
    ASSUME BroadcastTypeOK, Kept, NEW w \in Workers, At(w) # "off",
           Now(w, Task("off", 0, Nobody, 0, {})),
           UNCHANGED <<eligible, sends, restarts, overlapped, starting>>,
           hash' \in {hash, [hash EXCEPT !.status = "crashed"]},
           At(w) = "saving" => hash'.status # "running"
    PROVE  Kept'
<1>1. hash \in Hash
  BY TypeParts
<1>2. /\ hash'.status = "running" => hash' = hash
      /\ hash'.by = hash.by /\ hash'.cursor = hash.cursor
  BY <1>1, HashSet DEF JobStatus
<1>3. /\ worker'[w].at = "off" /\ worker'[w].by = Nobody /\ worker'[w].page = {}
      /\ \A v \in Workers : v # w => worker'[v] = worker[v]
  BY OneSlot
<1>4. JobHasStarter' /\ PageAhead'
  BY <1>2, <1>3 DEF Kept, JobHasStarter, PageAhead, Running, Working, At
<1>5. Fresh'
  BY <1>2, <1>3, Numbers DEF Kept, Fresh
<1>6. NobodySkipped'
  BY <1>2, SkippedCovered, SkippedCoveredNext DEF Kept
<1>7. RestartRepeatsOne'
  BY DEF Kept, RestartRepeatsOne
<1>8. ~overlapped => OneTask' /\ Resumable'
  <2> SUFFICES ASSUME ~overlapped, OneTask, Resumable PROVE OneTask' /\ Resumable'
    BY DEF Kept
  <2>1. OneTask'
    BY <1>2, <1>3 DEF OneTask, Alive, Running, Working, At
  <2>2. \A v \in Workers : At(v) = "saving" => v = w
    BY DEF OneTask, Alive, At
  <2>3. Resumable'
    BY <1>2, <1>3, <2>2 DEF Resumable, Running, At
  <2>4. QED
    BY <2>1, <2>3
<1>9. QED
  BY <1>4, <1>5, <1>6, <1>7, <1>8 DEF Kept

\* A task takes the job from the hash.
LEMMA LoadKeeps ==
    ASSUME BroadcastTypeOK, Kept, NEW w \in Workers, Load(w), Running, hash.id = worker[w].id
    PROVE  Kept'
<1>1. /\ At(w) = "launched"
      /\ UNCHANGED <<hash, eligible, sends, restarts, overlapped, starting>>
  BY DEF Load, OnlyTask, counts
<1>2. /\ worker'[w].at = "checking" /\ worker'[w].by = hash.by
      /\ worker'[w].cursor = hash.cursor /\ worker'[w].page = worker[w].page
      /\ \A v \in Workers : v # w => worker'[v] = worker[v]
  <2>1. Now(w, Task("checking", worker[w].id, hash.by, hash.cursor, worker[w].page))
    BY StepsNow
  <2>2. QED
    BY <2>1, OneSlot
<1>3. worker[w].page = {} /\ hash.by # Nobody
  BY <1>1 DEF Kept, PageAhead, JobHasStarter
<1>4. JobHasStarter' /\ PageAhead'
  BY <1>1, <1>2, <1>3 DEF Kept, JobHasStarter, PageAhead, Running, Working, At
<1>5. Fresh'
  BY <1>1, <1>2 DEF Kept, Fresh
<1>6. NobodySkipped'
  BY <1>1, SkippedCovered, SkippedCoveredNext DEF Kept
<1>7. RestartRepeatsOne'
  BY <1>1 DEF Kept, RestartRepeatsOne
<1>8. ~overlapped => OneTask' /\ Resumable'
  <2> SUFFICES ASSUME ~overlapped, OneTask, Resumable PROVE OneTask' /\ Resumable'
    BY DEF Kept
  <2>1. \A v \in Workers : v # w => At(v) = "off"
    BY <1>1 DEF OneTask, Alive, At
  <2>2. Cardinality(Extra(sends[hash.by], hash.cursor)) <= restarts
    BY <1>1, <2>1 DEF Resumable
  <2>3. Covered(sends[hash.by], eligible, hash.cursor)
    BY <1>3, SkippedCovered DEF Kept
  <2>4. OneTask'
    BY <1>1, <1>2, <2>1, <2>2, <2>3 DEF OneTask, Alive, Running, Working, At
  <2>5. Resumable'
    BY <1>1, <2>2 DEF Resumable, Running
  <2>6. QED
    BY <2>4, <2>5
<1>9. QED
  BY <1>1, <1>4, <1>5, <1>6, <1>7, <1>8 DEF Kept

\* A task goes on without sending or saving, perhaps with a new page.
LEMMA MoveKeeps ==
    ASSUME BroadcastTypeOK, Kept, NEW w \in Workers, Working(w), At(w) # "saving",
           NEW at \in {"finishing", "paging", "sending", "closing"}, NEW page,
           Now(w, Task(at, worker[w].id, worker[w].by, worker[w].cursor, page)),
           at = "sending" => page # {},
           \A p \in page : /\ p > worker[w].cursor
                           /\ \A v \in eligible : v > worker[w].cursor /\ v < p => v \in page,
           UNCHANGED <<eligible, sends, restarts, overlapped, starting>>,
           hash' \in {hash, [hash EXCEPT !.status = "done"]}
    PROVE  Kept'
<1>1. hash \in Hash
  BY TypeParts
<1>2. /\ hash'.status = "running" => hash' = hash
      /\ hash'.by = hash.by /\ hash'.cursor = hash.cursor
  BY <1>1, HashSet DEF JobStatus
<1>3. /\ worker'[w].at = at /\ worker'[w].by = worker[w].by
      /\ worker'[w].cursor = worker[w].cursor /\ worker'[w].page = page
      /\ \A v \in Workers : v # w => worker'[v] = worker[v]
  BY OneSlot
<1>4. JobHasStarter'
  BY <1>2, <1>3 DEF Kept, JobHasStarter, Running, Working, At
<1>5. PageAhead'
  BY <1>3 DEF Kept, PageAhead, At
<1>6. Fresh'
  BY <1>2, <1>3 DEF Kept, Fresh
<1>7. NobodySkipped'
  BY <1>2, SkippedCovered, SkippedCoveredNext DEF Kept
<1>8. RestartRepeatsOne'
  BY DEF Kept, RestartRepeatsOne
<1>9. ~overlapped => OneTask' /\ Resumable'
  <2> SUFFICES ASSUME ~overlapped, OneTask, Resumable PROVE OneTask' /\ Resumable'
    BY DEF Kept
  <2>1. OneTask'
    BY <1>2, <1>3 DEF OneTask, Alive, Running, Working, At
  <2>2. Resumable'
    BY <1>2, <1>3 DEF Resumable, Running, At
  <2>3. QED
    BY <2>1, <2>2
<1>10. QED
  BY <1>4, <1>5, <1>6, <1>7, <1>8, <1>9 DEF Kept

\* A page is the users that follow the cursor.
LEMMA PageFollows ==
    ASSUME BroadcastTypeOK, NEW w \in Workers, NEW p \in NextPage(w),
           NEW v \in eligible, v > worker[w].cursor, v < p
    PROVE  p > worker[w].cursor /\ v \in NextPage(w)
<1>1. eligible \subseteq Nat /\ p \in Rest(w) /\ v \in Rest(w)
  BY TypeParts, CursorNat DEF NextPage, Rest
<1> DEFINE Upto(x) == {u \in Rest(w) : u <= x}
<1>2. Upto(v) \subseteq Upto(p)
  <2>1. Rest(w) \subseteq Nat
    BY <1>1 DEF Rest
  <2>2. \A x \in Rest(w) : x <= v => x <= p
    BY <1>1, <2>1
  <2>3. QED
    BY <2>2
<1>3. IsFiniteSet(Upto(p))
  <2>1. Upto(p) \subseteq Recipients
    BY TypeParts DEF Rest
  <2>2. QED
    BY <2>1, BroadcastAssumption, FS_Subset
<1>4. Cardinality(Upto(v)) <= Cardinality(Upto(p))
      /\ Cardinality(Upto(v)) \in Nat /\ Cardinality(Upto(p)) \in Nat
  BY <1>2, <1>3, FS_Subset, FS_CardinalityType
<1>5. Cardinality(Upto(p)) <= Batch
  BY DEF NextPage
<1>6. Cardinality(Upto(v)) <= Batch
  BY <1>4, <1>5, BroadcastAssumption
<1>7. QED
  BY <1>1, <1>6 DEF NextPage, Rest

\* The message goes out.
LEMMA SendKeeps ==
    ASSUME BroadcastTypeOK, BroadcastTypeOK', Kept, NEW w \in Workers, SendOne(w)
    PROVE  Kept'
<1> DEFINE u == Min(worker[w].page)
           s == worker[w].by
           c == worker[w].cursor
<1>1. At(w) = "sending" /\ UNCHANGED <<hash, restarts, overlapped, starting>>
  BY DEF SendOne, counts
<1>2. /\ u \in worker[w].page /\ u \in Recipients /\ u > c
      /\ \A p \in worker[w].page : u <= p
  BY <1>1, Numbers, FirstOfPage DEF Kept, PageAhead
<1>3. s \in Starters
  BY <1>1, WorkerType DEF Kept, JobHasStarter, Working
<1>4. sends' = [sends EXCEPT ![s] = [sends[s] EXCEPT ![u] = @ + 1]]
  BY DEF SendOne
<1>5. eligible' \subseteq eligible /\ eligible \subseteq Nat
  BY TypeParts, CursorNat DEF SendOne
<1>6. /\ worker'[w].at = "saving" /\ worker'[w].by = s
      /\ worker'[w].cursor = u /\ worker'[w].page = worker[w].page \ {u}
      /\ \A v \in Workers : v # w => worker'[v] = worker[v]
  <2>1. Now(w, Task("saving", worker[w].id, s, u, worker[w].page \ {u}))
    BY StepsNow
  <2>2. QED
    BY <2>1, OneSlot
<1> HIDE DEF u, s, c
<1>7. /\ sends[s] \in [Recipients -> Nat] /\ sends'[s] \in [Recipients -> Nat]
      /\ sends'[s] = [sends[s] EXCEPT ![u] = @ + 1]
      /\ \A r \in Starters : r # s => sends'[r] = sends[r]
  <2>1. sends \in [Starters -> [Recipients -> Nat]]
    BY TypeParts
  <2>2. [sends[s] EXCEPT ![u] = @ + 1] \in [Recipients -> Nat]
    BY <1>3, <2>1, OneMore
  <2>3. QED
    BY <1>3, <1>4, <2>1, <2>2
<1>8. \A v \in Recipients : sends'[s][v] = IF v = u THEN sends[s][v] + 1 ELSE sends[s][v]
  BY <1>7, OneMore
<1>9. JobHasStarter'
  BY <1>1, <1>3, <1>6, Numbers DEF Kept, JobHasStarter, Running, Working, At
<1>10. PageAhead'
  <2>1. \A p \in worker[w].page \ {u} :
           /\ p > u
           /\ \A v \in eligible : v > u /\ v < p => v \in worker[w].page \ {u}
    <3>1. worker[w].page \subseteq Nat /\ u \in Nat /\ c \in Nat
      BY <1>2, WorkerType, CursorNat DEF c
    <3>2. \A p \in worker[w].page \ {u} : p > u
      BY <1>2, <3>1
    <3>3. \A p \in worker[w].page : \A v \in eligible : v > c /\ v < p => v \in worker[w].page
      BY DEF Kept, PageAhead, c
    <3>4. \A v \in eligible : v > u => v > c /\ v # u
      BY <1>2, <1>5, <3>1
    <3>5. QED
      BY <3>2, <3>3, <3>4
  <2>2. QED
    BY <1>5, <1>6, <2>1 DEF Kept, PageAhead, At
<1>11. Fresh'
  <2>1. starting[s].at = "done"
    BY <1>3 DEF Kept, Fresh, s
  <2>2. QED
    BY <1>1, <1>3, <1>6, <1>7, <2>1 DEF Kept, Fresh
<1>12. NobodySkipped'
  <2> SUFFICES ASSUME ~overlapped, hash.by # Nobody
               PROVE  Covered(sends'[hash.by], eligible', hash.cursor)
    BY <1>1, SkippedCoveredNext
  <2>1. Covered(sends[hash.by], eligible, hash.cursor) /\ hash.by \in Starters
    BY SkippedCovered, Numbers DEF Kept
  <2>2. CASE hash.by = s
    <3>1. \A v \in Recipients : sends'[s][v] >= sends[s][v]
      BY <1>7, <1>8
    <3>2. QED
      BY <1>5, <1>7, <2>1, <2>2, <3>1, MoreCovered
  <2>3. CASE hash.by # s
    BY <1>5, <1>7, <2>1, <2>3, StillCovered
  <2>4. QED
    BY <2>2, <2>3
<1>13. ASSUME ~overlapped
       PROVE  RestartRepeatsOne' /\ OneTask' /\ Resumable'
  <2>1. OneTask /\ Resumable /\ \A v \in Workers : v # w => At(v) = "off"
    BY <1>1, <1>13 DEF Kept, OneTask, Alive, At
  <2>2. /\ hash.by \in {s, Nobody} /\ Covered(sends[s], eligible, c)
        /\ Cardinality(Extra(sends[s], c)) <= restarts
        /\ Running => hash.cursor = c
    BY <1>1, <2>1 DEF OneTask, Working, s, c
  <2>3. /\ Cardinality(Extra(sends'[s], u)) <= Cardinality(Extra(sends[s], c))
        /\ Cardinality(Extra(sends'[s], c)) <= Cardinality(Extra(sends[s], c)) + 1
    BY <1>2, <1>7, Numbers, SentOneMore DEF c
  <2>4. /\ Cardinality(Extra(sends'[s], u)) <= restarts
        /\ Cardinality(Extra(sends'[s], c)) <= restarts + 1
    BY <2>2, <2>3, ExtraFinite, Numbers
  <2>5. Covered(sends'[s], eligible', u)
    <3> SUFFICES ASSUME NEW v \in Recipients, v <= u, v \in eligible'
                 PROVE  sends'[s][v] > 0
      BY DEF Covered
    <3>1. CASE v = u
      BY <1>7, <1>8, <3>1
    <3>2. CASE v <= c
      BY <1>5, <1>7, <1>8, <2>2, <3>2 DEF Covered
    <3>3. CASE v > c /\ v < u
      <4>1. v \in worker[w].page
        BY <1>2, <1>5, <3>3 DEF Kept, PageAhead, c
      <4>2. QED
        BY <1>2, <1>5, <3>3, <4>1
    <3>4. QED
      BY <1>2, <3>1, <3>2, <3>3, CursorNat, Numbers DEF c
  <2>6. RestartRepeatsOne'
    <3> SUFFICES ASSUME NEW r \in Starters
                 PROVE  Cardinality({v \in Recipients : sends'[r][v] > 1}) <= restarts
      BY <1>1 DEF RestartRepeatsOne
    <3>1. CASE r = s
      <4>1. Cardinality({v \in Recipients : sends'[s][v] > 1})
              <= Cardinality(Extra(sends'[s], u))
        BY TwiceCounted
      <4>2. Cardinality({v \in Recipients : sends'[s][v] > 1}) \in Nat
        BY BroadcastAssumption, FS_Subset, FS_CardinalityType
      <4>3. QED
        BY <2>4, <3>1, <4>1, <4>2, ExtraFinite, Numbers
    <3>2. CASE r # s
      <4>1. Cardinality({v \in Recipients : sends[r][v] > 1}) <= restarts
        BY <1>13 DEF Kept, RestartRepeatsOne
      <4>2. QED
        BY <1>7, <3>2, <4>1
    <3>3. QED
      BY <3>1, <3>2
  <2>7. OneTask'
    BY <1>1, <1>6, <2>1, <2>2, <2>4, <2>5 DEF OneTask, Alive, Running, Working, At
  <2>8. Resumable'
    <3>1. Running => hash.by = s
      BY <2>2 DEF Kept, JobHasStarter
    <3>2. QED
      BY <1>1, <1>6, <2>2, <2>4, <3>1 DEF Resumable, Running, At
  <2>9. QED
    BY <2>6, <2>7, <2>8
<1>14. QED
  BY <1>1, <1>9, <1>10, <1>11, <1>12, <1>13 DEF Kept, RestartRepeatsOne

\* The cursor is saved.
LEMMA SaveKeeps ==
    ASSUME BroadcastTypeOK, Kept, NEW w \in Workers, Save(w)
    PROVE  Kept'
<1>1. /\ At(w) = "saving" /\ Working(w)
      /\ UNCHANGED <<eligible, sends, restarts, overlapped, starting>>
  BY DEF Save, OnlyTask, counts, Working
<1>2. hash'.status = hash.status /\ hash'.by = hash.by /\ hash'.cursor = worker[w].cursor
  <2>1. hash \in Hash /\ worker[w].cursor \in Cursors
    BY TypeParts, WorkerType
  <2>2. QED
    BY <2>1, HashSet DEF Save
<1>3. /\ worker'[w].at = "resting" /\ worker'[w].by = worker[w].by
      /\ worker'[w].cursor = worker[w].cursor /\ worker'[w].page = worker[w].page
      /\ \A v \in Workers : v # w => worker'[v] = worker[v]
  <2>1. Now(w, Task("resting", worker[w].id, worker[w].by, worker[w].cursor,
                    worker[w].page))
    BY StepsNow
  <2>2. QED
    BY <2>1, OneSlot
<1>4. JobHasStarter' /\ PageAhead'
  BY <1>1, <1>2, <1>3 DEF Kept, JobHasStarter, PageAhead, Running, Working, At
<1>5. Fresh'
  BY <1>1, <1>2, <1>3 DEF Kept, Fresh
<1>6. RestartRepeatsOne'
  BY <1>1 DEF Kept, RestartRepeatsOne
<1>7. ASSUME ~overlapped PROVE NobodySkipped' /\ OneTask' /\ Resumable'
  <2>1. OneTask /\ \A v \in Workers : v # w => At(v) = "off"
    BY <1>1, <1>7 DEF Kept, OneTask, Alive, At
  <2>2. /\ hash.by \in {worker[w].by, Nobody}
        /\ Covered(sends[worker[w].by], eligible, worker[w].cursor)
        /\ Cardinality(Extra(sends[worker[w].by], worker[w].cursor)) <= restarts
    BY <1>1, <2>1 DEF OneTask
  <2>3. NobodySkipped'
    BY <1>1, <1>2, <2>2, SkippedCoveredNext
  <2>4. OneTask'
    BY <1>1, <1>2, <1>3, <2>1, <2>2 DEF OneTask, Alive, Running, Working, At
  <2>5. Running => hash.by = worker[w].by
    BY <2>2 DEF Kept, JobHasStarter
  <2>6. Resumable'
    BY <1>1, <1>2, <2>2, <2>5 DEF Resumable, Running
  <2>7. QED
    BY <2>3, <2>4, <2>6
<1>8. QED
  BY <1>1, <1>4, <1>5, <1>6, <1>7 DEF Kept, NobodySkipped

\* Every step of a task.
LEMMA TaskKeeps ==
    ASSUME BroadcastTypeOK, BroadcastTypeOK', Kept, NEW w \in Workers, TaskStep(w)
    PROVE  Kept'
<1>1. CASE Load(w)
  <2>1. CASE Running /\ hash.id = worker[w].id
    BY <1>1, <2>1, LoadKeeps
  <2>2. CASE ~(Running /\ hash.id = worker[w].id)
    <3>1. Now(w, Task("off", 0, Nobody, 0, {}))
      BY <1>1, <2>2, StepsNow
    <3>2. At(w) = "launched"
          /\ UNCHANGED <<hash, eligible, sends, restarts, overlapped, starting>>
      BY <1>1 DEF Load, OnlyTask, counts
    <3>3. QED
      BY <3>1, <3>2, EndKeeps
  <2>3. QED
    BY <2>1, <2>2
<1>2. CASE Check(w)
  <2>1. PICK x \in {"finishing", "paging", "sending"} :
           /\ x = "sending" => worker[w].page # {}
           /\ Now(w, Task(x, worker[w].id, worker[w].by, worker[w].cursor, worker[w].page))
    BY <1>2, StepsNow
  <2>2. /\ At(w) # "saving" /\ Working(w)
        /\ UNCHANGED <<hash, eligible, sends, restarts, overlapped, starting>>
    BY <1>2 DEF Check, OnlyTask, counts, Working
  <2>3. \A p \in worker[w].page :
           /\ p > worker[w].cursor
           /\ \A v \in eligible : v > worker[w].cursor /\ v < p => v \in worker[w].page
    BY DEF Kept, PageAhead
  <2>4. QED
    BY <2>1, <2>2, <2>3, MoveKeeps
<1>3. CASE Page(w)
  <2> DEFINE x == IF NextPage(w) = {} THEN "closing" ELSE "sending"
  <2>1. Now(w, Task(x, worker[w].id, worker[w].by, worker[w].cursor, NextPage(w)))
    BY <1>3, StepsNow
  <2>2. /\ At(w) # "saving" /\ Working(w)
        /\ UNCHANGED <<hash, eligible, sends, restarts, overlapped, starting>>
    BY <1>3 DEF Page, OnlyTask, counts, Working
  <2>3. x \in {"closing", "sending"} /\ (x = "sending" => NextPage(w) # {})
    OBVIOUS
  <2>4. \A p \in NextPage(w) :
           /\ p > worker[w].cursor
           /\ \A v \in eligible : v > worker[w].cursor /\ v < p => v \in NextPage(w)
    BY PageFollows DEF NextPage, Rest
  <2> HIDE DEF x
  <2>5. QED
    BY <2>1, <2>2, <2>3, <2>4, MoveKeeps
<1>4. CASE Close(w)
  <2>1. Now(w, Task("finishing", worker[w].id, worker[w].by, worker[w].cursor, worker[w].page))
    BY <1>4, StepsNow
  <2>2. /\ At(w) # "saving" /\ Working(w)
        /\ UNCHANGED <<eligible, sends, restarts, overlapped, starting>>
        /\ hash' = [hash EXCEPT !.status = "done"]
    BY <1>4 DEF Close, OnlyTask, counts, Working
  <2>3. \A p \in worker[w].page :
           /\ p > worker[w].cursor
           /\ \A v \in eligible : v > worker[w].cursor /\ v < p => v \in worker[w].page
    BY DEF Kept, PageAhead
  <2>4. QED
    BY <2>1, <2>2, <2>3, MoveKeeps
<1>5. CASE SendOne(w)
  BY <1>5, SendKeeps
<1>6. CASE Save(w)
  BY <1>6, SaveKeeps
<1>7. CASE Finalize(w)
  <2>1. Now(w, Task("off", 0, Nobody, 0, {}))
    BY <1>7, StepsNow
  <2>2. At(w) = "finishing"
        /\ UNCHANGED <<hash, eligible, sends, restarts, overlapped, starting>>
    BY <1>7 DEF Finalize, OnlyTask, counts
  <2>3. QED
    BY <2>1, <2>2, EndKeeps
<1>8. CASE Crash(w)
  <2>1. Now(w, Task("off", 0, Nobody, 0, {}))
    BY <1>8, StepsNow
  <2>2. /\ At(w) # "off" /\ hash' = [hash EXCEPT !.status = "crashed"]
        /\ UNCHANGED <<eligible, sends, restarts, overlapped, starting>>
    BY <1>8 DEF Crash, OnlyTask, counts
  <2>3. hash'.status = "crashed"
    BY <2>2, TypeParts, HashSet DEF JobStatus
  <2>4. QED
    BY <2>1, <2>2, <2>3, EndKeeps
<1>9. QED
  BY <1>1, <1>2, <1>3, <1>4, <1>5, <1>6, <1>7, <1>8 DEF TaskStep

\* The invariant is inductive.
LEMMA BroadcastNext == BroadcastInv /\ [Next]_vars => BroadcastInv'
<1> SUFFICES ASSUME BroadcastInv, [Next]_vars PROVE BroadcastInv'
  OBVIOUS
<1>1. BroadcastTypeOK /\ Kept
  BY DEF BroadcastInv
<1>2. BroadcastTypeOK'
  BY <1>1, BroadcastTypeNext DEF Kept
<1>3. starting \in [Starters -> Start] /\ hash \in Hash
  BY <1>1, TypeParts
<1>4. Kept'
  <2>1. CASE UNCHANGED vars \/ Tick
    BY <1>1, <2>1, CommandKeeps DEF vars, counts, Tick
  <2>2. CASE \E c \in Cancels :
               CancelAsks(c) \/ CancelMatches(c) \/ CancelSets(c) \/ WebCancel(c)
    BY <1>1, <2>2, CommandKeeps
       DEF CancelAsks, CancelMatches, CancelSets, SetCanceled, WebCancel, counts
  <2>3. ASSUME NEW s \in Starters, StartAsks(s) PROVE Kept'
    <3>1. \A r \in Starters : starting'[r].at # "done" => starting[r].at # "done"
      BY <1>3, <2>3 DEF StartAsks
    <3>2. QED
      BY <1>1, <2>3, <3>1, CommandKeeps DEF StartAsks, counts
  <2>4. ASSUME NEW s \in Starters, StartClears(s) PROVE Kept'
    <3>1. \A r \in Starters : starting'[r].at # "done" => starting[r].at # "done"
      BY <1>3, <2>4 DEF StartClears
    <3>2. QED
      BY <1>1, <2>4, <3>1, CommandKeeps DEF StartClears, counts
  <2>5. ASSUME NEW s \in Starters, StartCreates(s) PROVE Kept'
    <3>1. /\ starting[s].at # "done" /\ starting'[s].at = "done" /\ starting[s].id \in Ids
          /\ \A r \in Starters : starting'[r].at # "done" => starting[r].at # "done"
      BY <1>3, <2>5 DEF StartCreates, Start
    <3>2. /\ Launch(starting[s].id) /\ UNCHANGED <<eligible, sends, restarts>>
          /\ hash' = [status |-> "running", id |-> starting[s].id, by |-> s, cursor |-> 0]
      BY <2>5 DEF StartCreates
    <3>3. QED
      BY <1>1, <3>1, <3>2, LaunchKeeps
  <2>6. CASE Resume
    <3>1. UNCHANGED <<hash, eligible, sends, restarts, starting>>
      BY <2>6 DEF Resume
    <3>2. CASE Running
      <4>1. Launch(hash.id) /\ hash.id \in Ids
        BY <1>3, <2>6, <3>2 DEF Resume, Hash
      <4>2. QED
        BY <1>1, <3>1, <3>2, <4>1, LaunchKeeps
    <3>3. CASE ~Running
      BY <1>1, <2>6, <3>1, <3>3, CommandKeeps DEF Resume
    <3>4. QED
      BY <3>2, <3>3
  <2>7. CASE Restart
    BY <1>1, <2>7, RestartKeeps
  <2>8. CASE \E w \in Workers : TaskStep(w)
    BY <1>1, <1>2, <2>8, TaskKeeps
  <2>9. QED
    BY <2>1, <2>2, <2>3, <2>4, <2>5, <2>6, <2>7, <2>8 DEF Next
<1>5. QED
  BY <1>2, <1>4 DEF BroadcastInv

\* The stored job can always be resumed and, while no two tasks overlapped, nobody is skipped,
\* for any number of users, pages, commands and restarts (broadcast.py, _run).
THEOREM NobodyEverSkipped == Spec => []BroadcastSound
<1>1. BroadcastInv => BroadcastSound
  BY DEF BroadcastInv, Kept, BroadcastSound
<1>2. QED
  BY <1>1, BroadcastInit, BroadcastNext, PTL DEF Spec

\* A restart repeats at most one message, and nothing else repeats any.
THEOREM RestartsRepeatOne == Spec => []RestartRepeatsOne
<1>1. BroadcastInv => RestartRepeatsOne
  BY DEF BroadcastInv, Kept
<1>2. QED
  BY <1>1, BroadcastInit, BroadcastNext, PTL DEF Spec
=============================================================================
