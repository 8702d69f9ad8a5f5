------------------------------ MODULE Broadcast ------------------------------
(***************************************************************************)
(* The broadcast worker: its whole state is one Redis hash, which the       *)
(* workers, the admins' start and cancel commands and the web panel (another *)
(* process) read and write one call at a time; a restarted bot resumes the   *)
(* hash's job from its cursor.                                               *)
(***************************************************************************)
EXTENDS Naturals, FiniteSetsExt

CONSTANTS
    Recipients,    \* user ids, a set of positive numbers
    Unreachable,   \* those who blocked the bot since the last broadcast
    Batch,         \* users fetched per page
    Starters,      \* start commands, one use each (a bound)
    Cancels,       \* cancel commands, one use each (a bound)
    Workers,       \* slots for running worker tasks
    Nobody,        \* the hash is deleted
    MaxRestarts,   \* bound
    MaxTime        \* bound: seconds that start times may differ by

ASSUME BroadcastAssumption ==
    /\ IsFiniteSet(Recipients) /\ Recipients \subseteq Nat \ {0}
    /\ Unreachable \subseteq Recipients
    /\ Batch \in Nat \ {0}
    /\ Nobody \notin Starters
    /\ MaxRestarts \in Nat /\ MaxTime \in Nat \ {0}

VARIABLES
    hash,       \* broadcast:job
    clock,      \* int(time.time())
    eligible,   \* users not known to have blocked the bot
    starting,   \* per start command, where it is and the id it made
    canceling,  \* per cancel command, where it is and the id on its button
    worker,     \* per slot: where the task is, and its local variables
    booting,    \* the bot restarted and resume_pending has not run
    restarts,
    sends,      \* attempts to send the message of a start command to a user
    canceled,   \* start commands whose job was canceled
    late,       \* attempts made for a canceled job
    overlapped  \* two worker tasks were once alive together

vars == <<hash, clock, eligible, starting, canceling, worker, booting, restarts,
          sends, canceled, late, overlapped>>
counts == <<restarts, canceled, overlapped>>

Ids == 0..MaxTime
Cursors == {0} \cup Recipients
JobStatus == {"none", "running", "canceled", "done", "crashed"}
Places == {"off", "launched", "checking", "paging", "closing", "sending", "saving",
           "resting", "finishing"}

BroadcastTypeOK ==
    /\ hash \in [status: JobStatus, id: Ids, by: Starters \cup {Nobody}, cursor: Cursors]
    /\ clock \in Ids /\ eligible \subseteq Recipients
    /\ starting \in [Starters -> [at: {"idle", "asked", "cleared", "done"}, id: Ids]]
    /\ canceling \in [Cancels -> [at: {"idle", "running", "matched", "done"}, id: Ids]]
    /\ worker \in [Workers -> [at: Places, id: Ids, by: Starters \cup {Nobody},
                               cursor: Cursors, page: SUBSET Recipients]]
    /\ booting \in BOOLEAN /\ restarts \in 0..MaxRestarts
    /\ sends \in [Starters -> [Recipients -> Nat]]
    /\ canceled \subseteq Starters
    /\ late \in [Starters -> Nat]
    /\ overlapped \in BOOLEAN

NoJob == [status |-> "none", id |-> 0, by |-> Nobody, cursor |-> 0]
Task(at, id, by, cursor, page) ==
    [at |-> at, id |-> id, by |-> by, cursor |-> cursor, page |-> page]
NoTask == Task("off", 0, Nobody, 0, {})

Init ==
    /\ hash = NoJob
    /\ clock = 0 /\ eligible = Recipients
    /\ starting = [s \in Starters |-> [at |-> "idle", id |-> 0]]
    /\ canceling = [c \in Cancels |-> [at |-> "idle", id |-> 0]]
    /\ worker = [w \in Workers |-> NoTask]
    /\ booting = FALSE /\ restarts = 0
    /\ sends = [s \in Starters |-> [u \in Recipients |-> 0]]
    /\ canceled = {}
    /\ late = [s \in Starters |-> 0]
    /\ overlapped = FALSE

-----------------------------------------------------------------------------
Alive == {w \in Workers : worker[w].at # "off"}
Running == hash.status = "running"

\* asyncio.create_task(_run(id)) on a free slot.
Launch(id) ==
    /\ Alive # Workers
    /\ worker' = [worker EXCEPT ![CHOOSE w \in Workers \ Alive : TRUE] =
                    Task("launched", id, Nobody, 0, {})]
    /\ overlapped' = (overlapped \/ Alive # {})

Tick ==
    /\ clock < MaxTime
    /\ clock' = clock + 1
    /\ UNCHANGED <<hash, eligible, starting, canceling, worker, booting, sends, late, counts>>

\* start(): is_running and the id, then delete, then hset and create_task.
StartAsks(s) ==
    /\ ~booting /\ starting[s].at = "idle"
    /\ starting' = [starting EXCEPT ![s] =
                       [at |-> IF Running THEN "done" ELSE "asked", id |-> clock]]
    /\ UNCHANGED <<hash, clock, eligible, canceling, worker, booting, sends, late, counts>>

StartClears(s) ==
    /\ starting[s].at = "asked"
    /\ hash' = NoJob
    /\ starting' = [starting EXCEPT ![s].at = "cleared"]
    /\ UNCHANGED <<clock, eligible, canceling, worker, booting, sends, late, counts>>

StartCreates(s) ==
    /\ starting[s].at = "cleared"
    /\ hash' = [status |-> "running", id |-> starting[s].id, by |-> s, cursor |-> 0]
    /\ Launch(starting[s].id)
    /\ starting' = [starting EXCEPT ![s].at = "done"]
    /\ UNCHANGED <<clock, eligible, canceling, booting, restarts, sends, canceled, late>>

\* cancel(job_id) of the button below a progress message: is_running, the id,
\* then the status.
CancelAsks(c) ==
    /\ ~booting /\ canceling[c].at = "idle" /\ hash.id \in Ids
    /\ canceling' = [canceling EXCEPT ![c] =
                       [at |-> IF Running THEN "running" ELSE "done", id |-> hash.id]]
    /\ UNCHANGED <<hash, clock, eligible, starting, worker, booting, sends, late, counts>>

CancelMatches(c) ==
    /\ canceling[c].at = "running"
    /\ canceling' = [canceling EXCEPT ![c].at =
                       IF hash.id = canceling[c].id /\ hash.status # "none"
                       THEN "matched" ELSE "done"]
    /\ UNCHANGED <<hash, clock, eligible, starting, worker, booting, sends, late, counts>>

SetCanceled ==
    /\ hash' = [hash EXCEPT !.status = "canceled"]
    /\ canceled' = canceled \cup ({hash.by} \ {Nobody})

CancelSets(c) ==
    /\ canceling[c].at = "matched"
    /\ SetCanceled
    /\ canceling' = [canceling EXCEPT ![c].at = "done"]
    /\ UNCHANGED <<clock, eligible, starting, worker, booting>>
    /\ UNCHANGED <<restarts, sends, late, overlapped>>

-----------------------------------------------------------------------------
At(w) == worker[w].at
Go(w, where) == worker' = [worker EXCEPT ![w].at = where]
EndTask(w) == worker' = [worker EXCEPT ![w] = NoTask]
OnlyTask == UNCHANGED <<clock, eligible, starting, canceling, booting, counts>>

\* _run reads the whole hash; a task whose job was replaced returns.
Load(w) ==
    /\ At(w) = "launched"
    /\ IF Running /\ hash.id = worker[w].id
       THEN worker' = [worker EXCEPT ![w] =
                         Task("checking", @.id, hash.by, hash.cursor, @.page)]
       ELSE EndTask(w)
    /\ OnlyTask /\ UNCHANGED <<hash, sends, late>>

\* The head of the loop, and the check after every message.
Check(w) ==
    /\ At(w) \in {"checking", "resting"}
    /\ Go(w, CASE ~Running -> "finishing"
               [] Running /\ (At(w) = "checking" \/ worker[w].page = {}) -> "paging"
               [] Running /\ At(w) = "resting" /\ worker[w].page # {} -> "sending")
    /\ OnlyTask /\ UNCHANGED <<hash, sends, late>>

\* The next users after the task's own cursor.
Page(w) ==
    LET rest == {u \in eligible : u > worker[w].cursor}
        page == {u \in rest : Cardinality({v \in rest : v <= u}) <= Batch}
    IN  /\ At(w) = "paging"
        /\ worker' = [worker EXCEPT ![w] =
                        Task(IF page = {} THEN "closing" ELSE "sending",
                             @.id, @.by, @.cursor, page)]
        /\ OnlyTask /\ UNCHANGED <<hash, sends, late>>

\* No users left: the status of the hash is set to done.
Close(w) ==
    /\ At(w) = "closing"
    /\ hash' = [hash EXCEPT !.status = "done"]
    /\ Go(w, "finishing")
    /\ OnlyTask /\ UNCHANGED <<sends, late>>

\* Broken variant for RestartRepeatsOne: users after the first of a page are
\* sent to before the cursor is saved.
SendOne_WholePage(w) ==
    /\ At(w) = "sending"
    /\ sends' = [sends EXCEPT ![worker[w].by] =
                   [u \in Recipients |-> @[u] + IF u \in worker[w].page THEN 1 ELSE 0]]
    /\ late' = late
    /\ worker' = [worker EXCEPT ![w].at = "saving", ![w].page = {},
                                ![w].cursor = Max(worker[w].page)]
    /\ UNCHANGED <<hash, clock, eligible, starting, canceling, booting, counts>>

\* _send_one to the next user of the page: delivered, failed, or marked as one
\* who blocked the bot.
SendOne(w) ==
    LET u == Min(worker[w].page)
        s == worker[w].by
    IN  /\ At(w) = "sending"
        /\ sends' = [sends EXCEPT ![s][u] = @ + 1]
        /\ late' = IF s \in canceled THEN [late EXCEPT ![s] = @ + 1] ELSE late
        /\ eligible' = eligible \ ({u} \cap Unreachable)
        /\ worker' = [worker EXCEPT ![w] =
                        Task("saving", @.id, s, u, @.page \ {u})]
        /\ UNCHANGED <<hash, clock, starting, canceling, booting, counts>>

\* Broken variant for NobodySkipped: the end of the page is saved as the cursor.
Save_PageEnd(w) ==
    /\ At(w) = "saving"
    /\ hash' = [hash EXCEPT !.cursor = Max(worker[w].page \cup {worker[w].cursor})]
    /\ Go(w, "resting")
    /\ OnlyTask /\ UNCHANGED <<sends, late>>

\* The cursor and the counters go to the hash.
Save(w) ==
    /\ At(w) = "saving"
    /\ hash' = [hash EXCEPT !.cursor = worker[w].cursor]
    /\ Go(w, "resting")
    /\ OnlyTask /\ UNCHANGED <<sends, late>>

Finalize(w) ==
    /\ At(w) = "finishing"
    /\ EndTask(w)
    /\ OnlyTask /\ UNCHANGED <<hash, sends, late>>

\* Broken variant for JobEnds: the exception is only logged.
Crash_OnlyLogs(w) ==
    /\ At(w) \notin {"off", "sending"}
    /\ EndTask(w)
    /\ OnlyTask /\ UNCHANGED <<hash, sends, late>>

\* A database or Redis call of the task raises: the status becomes crashed,
\* whatever it was and whichever job the hash holds by now.
Crash(w) ==
    /\ At(w) \notin {"off", "sending"}
    /\ hash' = [hash EXCEPT !.status = "crashed"]
    /\ EndTask(w)
    /\ OnlyTask /\ UNCHANGED <<sends, late>>

-----------------------------------------------------------------------------
\* The web panel reads the hash and sets the status (two calls, one guard).
WebCancel(c) ==
    /\ canceling[c].at = "idle" /\ Running
    /\ canceling' = [canceling EXCEPT ![c].at = "matched"]
    /\ UNCHANGED <<hash, clock, eligible, starting, worker, booting, sends, late, counts>>

Restart ==
    /\ restarts < MaxRestarts
    /\ restarts' = restarts + 1
    /\ booting' = TRUE
    /\ worker' = [w \in Workers |-> NoTask]
    /\ starting' = [s \in Starters |-> IF starting[s].at = "idle" THEN starting[s]
                                        ELSE [starting[s] EXCEPT !.at = "done"]]
    /\ canceling' = [c \in Cancels |-> IF canceling[c].at # "running" THEN canceling[c]
                                      ELSE [canceling[c] EXCEPT !.at = "done"]]
    /\ UNCHANGED <<hash, clock, eligible, sends, canceled, late, overlapped>>

\* resume_pending, before the bot takes any update.
Resume ==
    /\ booting
    /\ booting' = FALSE
    /\ IF Running THEN Launch(hash.id) ELSE UNCHANGED <<worker, overlapped>>
    /\ UNCHANGED <<hash, clock, eligible, starting, canceling, restarts, sends, canceled, late>>

TaskStep(w) ==
    \/ Load(w) \/ Check(w) \/ Page(w) \/ Close(w) \/ SendOne(w) \/ Save(w)
    \/ Finalize(w) \/ Crash(w)

Next ==
    \/ Tick \/ Restart \/ Resume
    \/ \E s \in Starters : StartAsks(s) \/ StartClears(s) \/ StartCreates(s)
    \/ \E c \in Cancels : CancelAsks(c) \/ CancelMatches(c) \/ CancelSets(c) \/ WebCancel(c)
    \/ \E w \in Workers : TaskStep(w)

\* Tasks run on, and the startup hook runs.
Fairness == WF_vars(Resume) /\ \A w \in Workers : WF_vars(TaskStep(w))

Spec == Init /\ [][Next]_vars /\ Fairness

-----------------------------------------------------------------------------
\* While no two tasks overlapped, a saved cursor never passes a user who was not
\* sent to, so a crash and a resume skip nobody.
NobodySkipped ==
    ~overlapped /\ hash.by # Nobody =>
        \A u \in Recipients : u <= hash.cursor => u \notin eligible \/ sends[hash.by][u] > 0

\* The stored job is one that a worker can resume, and resuming it skips nobody.
BroadcastSound == BroadcastTypeOK /\ NobodySkipped

\* While no two tasks overlapped, a restart repeats at most the one message whose
\* cursor was not saved yet.
RestartRepeatsOne ==
    ~overlapped => \A s \in Starters :
        Cardinality({u \in Recipients : sends[s][u] > 1}) <= restarts

\* A running job ends: no dead task, lost task or crash leaves the singleton
\* wedged in "running" (the comment at the end of _run).
JobEnds == Running ~> ~Running

\* The docstring of cancel: the worker stops within one message.  It fails: the
\* worker looks at the status and not at the id, so a broadcast started at once
\* keeps the canceled one going.
CancelStops == \A s \in Starters : late[s] <= 1
=============================================================================
