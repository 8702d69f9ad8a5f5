---------------------------- MODULE SettingsStore ----------------------------
(***************************************************************************)
(* The bot's settings, texts and gateways.  They are rows of the database,  *)
(* which the bot reads into an object kept in its process and the web       *)
(* panel, another process, reads and writes by itself; a flag in Redis asks *)
(* the bot to read again.  Super users edit one page of them in the bot,    *)
(* where a form changes the cached object itself, or in the panel.          *)
(***************************************************************************)
EXTENDS SettingsForms, FiniteSets

CONSTANT Editors   \* super users with the page open, one edit each (a bound)

Sync == "sync"     \* the job sync_settings
ASSUME SettingsAssumption == Editors # {} /\ Sync \notin Editors

Readers == Editors \cup {Sync}

VARIABLES
    page,     \* the page they edit
    row,      \* the database, per field of the page
    objs,     \* the objects the bot has made of it; the last one is the cache
    flag,     \* settings:dirty, or texts:dirty, in Redis
    ed,       \* per editor: [pc, who, form, value, obj, shown, buf, todo]
    rd,       \* per reader: [pc, buf, base], a reload under way
    meant,    \* per field: the last value that an editor saved
    by,       \* per field: whether it came from the "bot" or the "web"
    risky,    \* an edit began from values that were not the database's, or a
              \* second one while its values were on their way there
    missed    \* a reload failed, or was overtaken by a later one, since the last good

store == <<row, objs, flag>>
settingsGhosts == <<meant, by, risky, missed>>
settingsVars == <<page, store, ed, rd, settingsGhosts>>

Current == objs[Len(objs)]
NoEdit == [pc |-> "idle", who |-> "bot", form |-> "", value |-> "", obj |-> 0,
           shown |-> "", buf |-> <<>>, todo |-> <<>>]
Over == [NoEdit EXCEPT !.pc = "done"]
NoReload == [pc |-> "no", buf |-> <<>>, base |-> 0]

\* Types; a row and an object have the fields of the page.
SettingsTypeOK ==
    /\ page \in Pages
    /\ DOMAIN row = Fields(page) /\ DOMAIN meant = Fields(page)
    /\ \A i \in DOMAIN objs : DOMAIN objs[i] = Fields(page)
    /\ flag \in BOOLEAN /\ risky \in BOOLEAN /\ missed \in BOOLEAN
    /\ by \in [Fields(page) -> {"none", "bot", "web"}]
    /\ \A e \in Editors :
          /\ ed[e].pc \in {"idle", "asked", "trying", "merging", "writing", "flagging", "done"}
          /\ ed[e].pc \notin {"idle", "done"} => ed[e].form \in DOMAIN Forms(page)
          /\ ed[e].obj \in 0 .. Len(objs)
    /\ \A r \in Readers : rd[r].pc \in {"no", "reading", "filling", "again", "assigning"}

SettingsInit ==
    /\ page \in Pages
    /\ row = InitialRow(page) /\ objs = <<row>> /\ flag = FALSE
    /\ ed = [e \in Editors |-> NoEdit] /\ rd = [r \in Readers |-> NoReload]
    /\ meant = row /\ by = [f \in Fields(page) |-> "none"]
    /\ risky = FALSE /\ missed = FALSE

-----------------------------------------------------------------------------
Reload(r) == rd' = [rd EXCEPT ![r] = [NoReload EXCEPT !.pc = "reading"]]

\* Other editors whose values are on their way to the database.
Underway(e) == \E d \in Editors \ {e} : ed[d].pc \in {"merging", "writing"}

\* An object with some of its fields set.
Updated(fields, changes) ==
    [f \in DOMAIN fields |-> IF f \in DOMAIN changes THEN changes[f] ELSE fields[f]]

\* The values of an edit are final: a page of one row is serialised as a whole, from the
\* object, which has just been changed; otherwise the fields are written one by one.
Take(e, form, value, obj, order, changes) ==
    LET whole == Updated(objs[obj], changes)
    IN  /\ objs' = IF OneRow(page) THEN [objs EXCEPT ![obj] = whole] ELSE objs
        /\ ed' = [ed EXCEPT ![e] =
                     [@ EXCEPT !.pc = "writing", !.form = form, !.value = value, !.obj = obj,
                               !.buf = IF OneRow(page) THEN whole ELSE changes,
                               !.todo = IF OneRow(page) THEN <<Fields(page)>>
                                        ELSE [i \in DOMAIN order |-> {order[i]}]]]
        /\ risky' = (risky \/ Underway(e) \/ (OneRow(page) /\ objs[obj] # row))
        /\ UNCHANGED <<page, row, flag, rd, meant, by, missed>>

TakeForm(e, form, value, obj) ==
    Take(e, form, value, obj, Order(page, form, value), Changes(page, form, value))

Presses(class) == class \in {"flag", "choice", "role"}

\* A button that flips or cycles a setting.
Press(e, form) ==
    /\ ed[e].pc = "idle" /\ Presses(Class(page, form))
    /\ LET f == Assigned(page, form)[1]
       IN  TakeForm(e, form, IF Class(page, form) = "flag" THEN Flipped(Current[f]) ELSE "new",
                    Len(objs))

\* A button that opens a form or a dialog.  A gift's percentage is asked for once it has
\* a threshold.
OpenForm(e, form) ==
    /\ ed[e].pc = "idle" /\ ~Presses(Class(page, form))
    /\ Class(page, form) = "percent" => Current["free_after"] # "zero"
    /\ ed' = [ed EXCEPT ![e] = [@ EXCEPT !.pc = "asked", !.form = form,
                 !.shown = IF form \in Fields(page) THEN Current[form] ELSE ""]]
    /\ UNCHANGED <<page, store, rd, settingsGhosts>>

Cancel(e) ==
    /\ ed[e].pc = "asked"
    /\ ed' = [ed EXCEPT ![e] = Over]
    /\ UNCHANGED <<page, store, rd, settingsGhosts>>

\* Broken variant for EditLands: the dialog's answer turns the setting on.
Confirm_TurnsOn(e) ==
    /\ ed[e].pc = "asked" /\ Class(page, ed[e].form) = "dialog"
    /\ TakeForm(e, ed[e].form, "on", Len(objs))

\* "Are you sure?": the setting as it is now is flipped.
Confirm(e) ==
    /\ ed[e].pc = "asked" /\ Class(page, ed[e].form) = "dialog"
    /\ TakeForm(e, ed[e].form, Flipped(Current[ed[e].form]), Len(objs))

Tries(class) == class \in {"text", "probed"}

\* Broken variant for StoredInRange: the number is not looked at.
Answer_Unchecked(e) ==
    /\ ed[e].pc = "asked" /\ ~Tries(Class(page, ed[e].form))
    /\ \E value \in BotKeeps(Class(page, ed[e].form)) \cup {"negative"} :
          TakeForm(e, ed[e].form, value, Len(objs))

\* The answer is kept at once ...
Answer(e) ==
    /\ ed[e].pc = "asked" /\ ~Tries(Class(page, ed[e].form))
    /\ \E value \in BotKeeps(Class(page, ed[e].form)) :
          TakeForm(e, ed[e].form, value, Len(objs))

\* ... or, with the object in hand, a text is sent back and a key tried out first.
Try(e) ==
    /\ ed[e].pc = "asked" /\ Tries(Class(page, ed[e].form))
    /\ \E value \in BotKeeps(Class(page, ed[e].form)) :
          ed' = [ed EXCEPT ![e] = [@ EXCEPT !.pc = "trying", !.value = value,
                                            !.obj = Len(objs)]]
    /\ UNCHANGED <<page, store, rd, settingsGhosts>>

KeepTried(e) ==
    /\ ed[e].pc = "trying"
    /\ TakeForm(e, ed[e].form, ed[e].value, ed[e].obj)

\* texts_reset: the default again, over the right field.
ResetText(e, form) ==
    /\ ed[e].pc = "idle" /\ Class(page, form) = "text"
    /\ Take(e, form, "old", Len(objs), <<form>>, [f \in {form} |-> "old"])

-----------------------------------------------------------------------------
\* Broken variant for NoLostEdit: the panel's values replace the row.
WebEdit_FromDefaults(e, form, value) ==
    /\ ed[e].pc = "idle" /\ value \in WebKeeps(page, form)
    /\ ed' = [ed EXCEPT ![e] =
                 [@ EXCEPT !.who = "web", !.form = form, !.value = value,
                           !.pc = IF OneRow(page) THEN "merging" ELSE "writing",
                           !.buf = IF OneRow(page) THEN InitialRow(page)
                                   ELSE Changes(page, form, value),
                           !.todo = IF OneRow(page) THEN <<Fields(page)>>
                                    ELSE [i \in DOMAIN Assigned(page, form) |->
                                             {Assigned(page, form)[i]}]]]
    /\ risky' = (risky \/ Underway(e))
    /\ UNCHANGED <<page, store, rd, meant, by, missed>>

\* The web panel reads a gateway's row, to change fields of it; or it writes at once.
WebEdit(e, form, value) ==
    /\ ed[e].pc = "idle" /\ value \in WebKeeps(page, form)
    /\ ed' = [ed EXCEPT ![e] =
                 [@ EXCEPT !.who = "web", !.form = form, !.value = value,
                           !.pc = IF OneRow(page) THEN "merging" ELSE "writing",
                           !.buf = IF OneRow(page) THEN row
                                   ELSE [f \in ToSet(Assigned(page, form)) |-> value],
                           !.todo = IF OneRow(page) THEN <<Fields(page)>>
                                    ELSE [i \in DOMAIN Assigned(page, form) |->
                                             {Assigned(page, form)[i]}]]]
    /\ risky' = (risky \/ Underway(e))
    /\ UNCHANGED <<page, store, rd, meant, by, missed>>

WebMerge(e) ==
    /\ ed[e].pc = "merging"
    /\ ed' = [ed EXCEPT ![e].pc = "writing",
                        ![e].buf = Updated(@, Changes(page, ed[e].form, ed[e].value))]
    /\ UNCHANGED <<page, store, rd, settingsGhosts>>

Edited(e) ==
    IF ed[e].value = "old" THEN {ed[e].form}
    ELSE IF OneRow(page) THEN ToSet(Assigned(page, ed[e].form))
    ELSE DOMAIN ed[e].buf

\* One row after the other.  The bot then reloads, the panel raises the flag.
WriteRow(e) ==
    LET first == Head(ed[e].todo)
        last == Tail(ed[e].todo) = <<>>
    IN  /\ ed[e].pc = "writing"
        /\ row' = [f \in Fields(page) |-> IF f \in first THEN ed[e].buf[f] ELSE row[f]]
        /\ meant' = [f \in Fields(page) |-> IF f \in Edited(e) THEN ed[e].buf[f] ELSE meant[f]]
        /\ by' = [f \in Fields(page) |-> IF f \in Edited(e) THEN ed[e].who ELSE by[f]]
        /\ ed' = [ed EXCEPT ![e] =
                     IF ~last THEN [@ EXCEPT !.todo = Tail(ed[e].todo)]
                     ELSE IF ed[e].who = "web" THEN [@ EXCEPT !.pc = "flagging"] ELSE Over]
        /\ IF last /\ ed[e].who = "bot" THEN Reload(e) ELSE UNCHANGED rd
        /\ UNCHANGED <<page, objs, flag, risky, missed>>

RaiseFlag(e) ==
    /\ ed[e].pc = "flagging"
    /\ flag' = TRUE
    /\ ed' = [ed EXCEPT ![e] = Over]
    /\ UNCHANGED <<page, row, objs, rd, settingsGhosts>>

\* The database or Redis refuses: some rows are written, the object may be ahead of the
\* database, and the bot is not told.
Torn(e) == ed[e].pc = "writing" /\ Len(ed[e].todo) < Cardinality(Edited(e)) /\ ~OneRow(page)

Fail(e) ==
    /\ ed[e].pc \in {"trying", "merging", "writing", "flagging"}
    /\ risky' = (risky \/ Torn(e))
    /\ missed' = (missed \/ ed[e].pc \in {"writing", "flagging"})
    /\ ed' = [ed EXCEPT ![e] = Over]
    /\ UNCHANGED <<page, store, rd, meant, by>>

-----------------------------------------------------------------------------
\* sync_settings deletes the flag, then reloads.
SyncSettings ==
    /\ flag /\ rd[Sync].pc = "no"
    /\ flag' = FALSE
    /\ Reload(Sync)
    /\ UNCHANGED <<page, row, objs, ed, settingsGhosts>>

Blank(fields) == {f \in DOMAIN fields : page \in BotTexts /\ fields[f] = "empty"}
Refilled(fields, blank) == [f \in Fields(page) |-> IF f \in blank THEN "old" ELSE fields[f]]

\* from_db: the rows, ...
ReadRows(r) ==
    /\ rd[r].pc \in {"reading", "again"}
    /\ rd' = [rd EXCEPT ![r] =
                 [pc |-> IF rd[r].pc = "reading" /\ Blank(row) # {} THEN "filling" ELSE "assigning",
                  buf |-> row, base |-> Len(objs)]]
    /\ UNCHANGED <<page, store, ed, settingsGhosts>>

\* ... empty texts get their default back, whatever they are by now, ...
FillTexts(r) ==
    /\ rd[r].pc = "filling"
    /\ row' = Refilled(row, Blank(rd[r].buf))
    /\ meant' = Refilled(meant, Blank(rd[r].buf) \cap Blank(meant))
    /\ risky' = (risky \/ Blank(rd[r].buf) \ Blank(row) # {})
    /\ rd' = [rd EXCEPT ![r].pc = "again"]
    /\ UNCHANGED <<page, objs, flag, ed, by, missed>>

\* Broken variant for Converges: the flag is deleted when the bot has reloaded.
Assign_ThenFlag(r) ==
    /\ rd[r].pc = "assigning"
    /\ objs' = Append(objs, rd[r].buf)
    /\ flag' = FALSE
    /\ missed' = IF rd[r].buf = row THEN FALSE
                 ELSE missed \/ Len(objs) # rd[r].base
    /\ rd' = [rd EXCEPT ![r] = NoReload]
    /\ UNCHANGED <<page, row, ed, meant, by, risky>>

\* ... and the object is exchanged; handlers that hold the former keep it.
Assign(r) ==
    /\ rd[r].pc = "assigning"
    /\ objs' = Append(objs, rd[r].buf)
    /\ missed' = IF rd[r].buf = row THEN FALSE
                 ELSE missed \/ Len(objs) # rd[r].base
    /\ rd' = [rd EXCEPT ![r] = NoReload]
    /\ UNCHANGED <<page, row, flag, ed, meant, by, risky>>

ReloadFails(r) ==
    /\ rd[r].pc # "no"
    /\ missed' = TRUE
    /\ rd' = [rd EXCEPT ![r] = NoReload]
    /\ UNCHANGED <<page, store, ed, meant, by, risky>>

\* The bot starts again and reads its settings; open forms are kept in Redis.
BotRestarts ==
    /\ row' = Refilled(row, Blank(row))
    /\ meant' = Refilled(meant, Blank(row) \cap Blank(meant))
    /\ objs' = <<row'>>
    /\ risky' = (risky \/ \E e \in Editors : ed[e].who = "bot" /\ Torn(e))
    /\ missed' = FALSE
    /\ ed' = [e \in Editors |->
                 IF ed[e].who = "bot" /\ ed[e].pc \in {"trying", "writing"} THEN Over ELSE ed[e]]
    /\ rd' = [r \in Readers |-> NoReload]
    /\ UNCHANGED <<page, flag, by>>

Step(e) ==
    \/ Confirm(e) \/ Answer(e) \/ Try(e) \/ KeepTried(e) \/ Cancel(e)
    \/ WebMerge(e) \/ WriteRow(e) \/ RaiseFlag(e) \/ Fail(e)

ReloadStep(r) == ReadRows(r) \/ FillTexts(r) \/ Assign(r)

SettingsNext ==
    \/ \E e \in Editors :
          \/ Step(e)
          \/ \E form \in DOMAIN Forms(page) :
                \/ Press(e, form) \/ OpenForm(e, form) \/ ResetText(e, form)
                \/ \E value \in {"off", "on", "new", "empty", "negative", "zero", "large"} :
                      WebEdit(e, form, value)
    \/ SyncSettings \/ BotRestarts
    \/ \E r \in Readers : ReloadStep(r) \/ ReloadFails(r)

\* The job runs every fifteen seconds; a handler or a request that has begun goes on.
SettingsFairness ==
    /\ WF_settingsVars(SyncSettings)
    /\ \A r \in Readers : WF_settingsVars(ReloadStep(r))
    /\ \A e \in Editors : WF_settingsVars(WebMerge(e) \/ WriteRow(e) \/ RaiseFlag(e))

SettingsSpec == SettingsInit /\ [][SettingsNext]_settingsVars /\ SettingsFairness

-----------------------------------------------------------------------------
\* No edit that was saved is undone by an edit of another field, by a default or by
\* half an edit, unless one began from values that were not the database's, or ran
\* into another (the web panel and the bot write a gateway as a whole).
NoLostEdit ==
    (~risky /\ \A e \in Editors : ed[e].pc # "writing") => row = meant

\* The objects are always complete, and no saved edit is lost.
SettingsSound == SettingsTypeOK /\ NoLostEdit

\* The forms of these texts store the second one over the first.
Misplaced(form) ==
    /\ form = "show_invoice"
    /\ page \in {"zarinpal texts", "aqaye texts", "swapino texts", "tronado texts"}

Lands(e) ==
    LET form == ed'[e].form
        purpose == ToSet(Purpose(page, form))
        new == ed'[e].buf
    IN  (ed[e].pc # "writing" /\ ed'[e].pc = "writing" /\ ed'[e].who = "bot") =>
            \/ Misplaced(form)
            \/ /\ \A f \in DOMAIN new \ purpose : new[f] = objs[ed'[e].obj][f]
               /\ (Class(page, form) = "dialog" /\ ed[e].shown = Current[form]) =>
                      new[form] # ed[e].shown

\* An edit in the bot changes what it was opened for and nothing else, and a confirmed
\* dialog does what it announced unless the setting changed while it was open
\* (edit_texts_get of four gateways is the exception).
EditLands == [][\A e \in Editors : Lands(e)]_settingsVars

\* A percentage above 100, a negative fee or threshold are never stored by the bot; by
\* the web panel they are, except for the negative numbers of a gateway.  The bot may
\* put such a number of the panel back with an older copy of a gateway.
StoredInRange ==
    \A f \in Fields(page) \cap DOMAIN Forms(page) :
        \/ InRange(Class(page, f), row[f])
        \/ /\ by[f] = "web" \/ (risky /\ OneRow(page))
           /\ OneRow(page) => row[f] # "negative"

\* When the editing is over the bot works with what is in the database, unless a reload
\* failed or was overtaken by one that read earlier (sync_settings deletes the flag
\* before it reads).
Converges == <>[](missed \/ Current = row)
=============================================================================
