------------------------------ MODULE RowEdits ------------------------------
(***************************************************************************)
(* How the bot and the panel edit a row of the database.  A handler loads   *)
(* the row, changes the object and, after an await, writes it back: every   *)
(* column (save), the columns it names (save(update_fields=...)), or a new  *)
(* row (create).  Handlers run concurrently and none of them locks a row.   *)
(***************************************************************************)
EXTENDS Naturals, FiniteSets

CONSTANTS
    Keys,       \* the rows edited
    Hands,      \* handlers that may run at the same time
    MaxStarts   \* handlers started, a bound

ASSUME RowEditsAssumption == MaxStarts \in Nat

VARIABLES
    row,       \* the rows, Absent before they are made, Gone when deleted
    hand,      \* the handlers between their read and their write
    starts,
    \* Only for the properties.
    said,      \* the rows with the last value somebody decided for each field
    raced      \* rows that were written whole from an old copy

rowVars == <<row, hand, starts, said, raced>>

Absent == [absent |-> TRUE]
Gone == [gone |-> TRUE]
Idle == [idle |-> TRUE]
Exists(k) == row[k] \notin {Absent, Gone}

Begin == starts < MaxStarts /\ starts' = starts + 1
Start(h) == hand[h] = Idle /\ Begin

\* Handler h is in the middle of something else than a write, and done with it.
Hold(h, e) == Start(h) /\ hand' = [hand EXCEPT ![h] = e]
LetGo(h) == hand' = [hand EXCEPT ![h] = Idle] /\ UNCHANGED starts
RowsKept == UNCHANGED <<row, said, raced>>

\* Handler h has loaded row k, for actor a, and will write columns cols of new.
Load(h, a, k, new, cols) ==
    /\ Start(h)
    /\ hand' = [hand EXCEPT ![h] = [to |-> k, by |-> a, seen |-> row[k],
                                    new |-> new, cols |-> cols]]

\* Model.save: all columns of the object.
Save(h, a, k, new) == Load(h, a, k, new, DOMAIN new) /\ UNCHANGED <<row, said, raced>>
SaveFields(h, a, k, new, cols) == Load(h, a, k, new, cols) /\ UNCHANGED <<row, said, raced>>

Writing(h) == "to" \in DOMAIN hand[h]
Whole(e) == e.cols = DOMAIN e.new
Decided(e) ==
    IF e.seen = Absent THEN DOMAIN e.new
    ELSE IF Whole(e) THEN {f \in e.cols : e.new[f] # e.seen[f]} ELSE e.cols

\* A create fails when the row was created meanwhile, an update of a deleted row does nothing.
Fails(r, e) == IF e.seen = Absent THEN r # Absent ELSE r = Gone

\* The columns written, over what the row is by then.
Merge(r, new, cols) == [f \in DOMAIN new |-> IF f \in cols \/ r = Absent THEN new[f] ELSE r[f]]

\* Broken variant for AccountsKept: an update of one column writes the object.
Written_Whole(r, e) == IF Fails(r, e) THEN r ELSE e.new
Written(r, e) == IF Fails(r, e) THEN r ELSE Merge(r, e.new, e.cols)

\* The write of handler h; afterwards it is done, or goes on with what is next.
Write(h) ==
    LET e == hand[h]
        r == row[e.to]
    IN  /\ Writing(h)
        /\ row' = [row EXCEPT ![e.to] = Written(r, e)]
        /\ said' = [said EXCEPT ![e.to] = IF Fails(r, e) THEN @ ELSE Merge(@, e.new, Decided(e))]
        /\ raced' = IF Whole(e) /\ ~Fails(r, e) /\ r # e.seen THEN raced \cup {e.to} ELSE raced
        /\ hand' = [hand EXCEPT ![h] = IF "next" \in DOMAIN e THEN e.next ELSE Idle]
        /\ UNCHANGED starts

\* A queryset's update of columns, in one statement.
Update(k, new, cols) ==
    /\ Exists(k)
    /\ row' = [row EXCEPT ![k] = Merge(@, new, cols)]
    /\ said' = [said EXCEPT ![k] = Merge(@, new, cols)]

\* Rows deleted; a copy in some hand is no longer written.
Delete(ks) ==
    /\ row' = [k \in Keys |-> IF k \in ks THEN Gone ELSE row[k]]
    /\ said' = [k \in Keys |-> IF k \in ks THEN Gone ELSE said[k]]

EditsInit(rows) ==
    /\ row = rows /\ said = rows
    /\ hand = [h \in Hands |-> Idle] /\ starts = 0 /\ raced = {}

-----------------------------------------------------------------------------
(* Property. *)

\* What somebody decided about a row and was told to be done is what the row says, unless the
\* row was written whole from an old copy: an update of single columns undoes nothing, and a
\* failed or overtaken write leaves no half of a decision (Model.save of every handler).
DecisionsKept == \A k \in Keys \ raced : row[k] = said[k]
=============================================================================
