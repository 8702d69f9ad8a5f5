------------------------------ MODULE Accounts ------------------------------
(***************************************************************************)
(* The accounts: the row of a user, the row of his settings, and the money   *)
(* that staff and resellers move.  Edited by the user's own messages, by     *)
(* super users in the bot, by staff in the panel, and by his reseller.       *)
(***************************************************************************)
EXTENDS RowEdits, Integers, Sequences

CONSTANTS
    Users,
    Owners,      \* SUPER_USERS of .env
    FirstUsers,  \* their rows at the start
    FirstBook,   \* and the entries of their ledger
    FirstOffers, \* confirmation buttons of transfers that are in their chats
    Amounts,     \* amounts somebody may type, also negative ones
    Caps,        \* values of max_post_paid_credit
    MaxBook      \* entries of the ledger, a bound

Setting(u) == <<"setting", u>>
Settings == {Setting(u) : u \in Users}

\* User.Role
PlainUser == 0
Reseller == 1
Admin == 3
SuperUser == 4
Roles == PlainUser..SuperUser
None == "none"

\* auto is card_to_card_auto_accept, cap is max_post_paid_credit, name the Telegram name,
\* alias custom_name.
UserRows == [role : Roles, blocked : BOOLEAN, postpaid : BOOLEAN, verified : BOOLEAN,
             auto : BOOLEAN, cap : Nat, name : {"old", "new"}, alias : {None, "some"},
             parent : Users \cup {None}, referrer : Users \cup {None}]
SettingFields == {"discount", "tests", "prefix"}
SettingRows == [SettingFields -> {"default", "set"}]
Questions == {"amount", "alias", "cap"} \cup SettingFields

\* At the start the super users are those of .env, none of them blocked.
ASSUME AccountsAssumption ==
    /\ Owners \subseteq Users /\ Users \cup Settings \subseteq Keys
    /\ Users \cap Settings = {}
    /\ FirstUsers \in [Users -> UserRows \cup {Absent}]
    /\ \A u \in Users : FirstUsers[u] # Absent /\ FirstUsers[u].role = SuperUser =>
          u \in Owners /\ ~FirstUsers[u].blocked
    /\ Amounts \subseteq Int /\ Caps \subseteq Nat \ {0} /\ Caps # {}
    /\ FirstOffers \subseteq Users \X Users \X Amounts
    /\ FirstBook \in Seq([user : Users, amount : Int])

VARIABLES
    form,      \* per user: the question of ManageUserForm he was asked, and about whom
    offers,    \* the confirmation buttons of transfers: <<from, to, amount>>
    book,      \* finished transactions and invoices: [user, amount], 0 when deleted
    \* Only for the properties.
    granted,   \* users whom a super user made one
    excused,   \* users promoted while blocked, or blocked by the panel while promoted
    squeezed   \* users in debt at the start, or by staff, a negative transfer, or two at once

accountVars == <<form, offers, book, granted, excused, squeezed>>

NoForm == [q |-> None, of |-> None]
Share(entry, u) == IF entry.user = u THEN entry.amount ELSE 0
Credit(u) ==
    LET sum[n \in 0..Len(book)] == IF n = 0 THEN 0 ELSE sum[n - 1] + Share(book[n], u)
    IN  sum[Len(book)]
Allowance(r) == IF r.postpaid THEN r.cap ELSE 0
Available(u, r) == Credit(u) + Allowance(r)

AccountsTypeOK ==
    /\ \A u \in Users : row[u] \in UserRows \cup {Absent}
    /\ \A s \in Settings : row[s] \in SettingRows \cup {Absent}
    /\ form \in [Users -> [q : Questions \cup {None}, of : Users \cup {None}]]
    /\ offers \subseteq Users \X Users \X Amounts
    /\ book \in Seq([user : Users, amount : Int])

AccountsInit ==
    /\ form = [u \in Users |-> NoForm] /\ offers = FirstOffers /\ book = FirstBook
    /\ granted = {} /\ excused = {}
    /\ squeezed = {u \in Users : Credit(u) + (IF Exists(u) THEN Allowance(row[u]) ELSE 0) < 0}

-----------------------------------------------------------------------------
(* A user's own messages. *)

NewUser(u) == [role |-> IF u \in Owners THEN SuperUser ELSE PlainUser, blocked |-> FALSE,
               postpaid |-> FALSE, verified |-> FALSE, auto |-> FALSE,
               cap |-> CHOOSE n \in Caps : TRUE, name |-> "old", alias |-> None,
               parent |-> None, referrer |-> None]

\* setup_chat: a first message creates the row; later ones refresh the name and the role
\* that .env gives, and a blocked user gets no further.
Refreshed(u, r, name) == [r EXCEPT !.name = name, !.role = IF u \in Owners THEN SuperUser ELSE @]
Greet(h, u) ==
    /\ \/ ~Exists(u) /\ Save(h, u, u, NewUser(u))
       \/ /\ Exists(u) /\ ~row[u].blocked
          /\ \E name \in {"old", "new"} :
                /\ Refreshed(u, row[u], name) # row[u]
                /\ Save(h, u, u, Refreshed(u, row[u], name))
    /\ UNCHANGED accountVars

Served(u) == Exists(u) /\ ~row[u].blocked

\* The phone number, and the check of the channels he must join: the row the middleware
\* loaded for this message is saved.
ShareContact(h, u) ==
    /\ Served(u) /\ Save(h, u, u, [row[u] EXCEPT !.verified = TRUE])
    /\ UNCHANGED accountVars
CheckForceJoin(h, u) == Served(u) /\ Save(h, u, u, row[u]) /\ UNCHANGED accountVars

\* A start link of a reseller or of a referrer.
ParentReferredStart(h, u) ==
    /\ Served(u) /\ row[u].parent = None
    /\ \E p \in Users \ {u} : Exists(p) /\ Save(h, u, u, [row[u] EXCEPT !.parent = p])
    /\ UNCHANGED accountVars
UserReferredStart(h, u) ==
    /\ Served(u) /\ row[u].referrer = None
    /\ \E p \in Users \ {u} : Exists(p) /\ Save(h, u, u, [row[u] EXCEPT !.referrer = p])
    /\ UNCHANGED accountVars

-----------------------------------------------------------------------------
(* Super users in the bot. *)

Super(a) == Served(a) /\ row[a].role = SuperUser
Protected(a, u) == row[u].role = SuperUser \/ u = a

\* The next level, round and round, but never super user.
CycleRole(h, a, u) ==
    row[u].role # SuperUser /\ Save(h, a, u, [row[u] EXCEPT !.role = (@ + 1) % SuperUser])
SetRole(h, a, u) == \E r \in Roles : Save(h, a, u, [row[u] EXCEPT !.role = r])

Block(h, a, u) ==
    ~Protected(a, u) /\ ~row[u].blocked /\ Save(h, a, u, [row[u] EXCEPT !.blocked = TRUE])
Unblock(h, a, u) == row[u].blocked /\ Save(h, a, u, [row[u] EXCEPT !.blocked = FALSE])
FlipAutoAccept(h, a, u) == Save(h, a, u, [row[u] EXCEPT !.auto = ~@])
Postpaid(h, a, u) ==
    ~Protected(a, u) /\ ~row[u].postpaid /\ Save(h, a, u, [row[u] EXCEPT !.postpaid = TRUE])
NoPostpaid(h, a, u) == row[u].postpaid /\ Save(h, a, u, [row[u] EXCEPT !.postpaid = FALSE])
Verify(h, a, u) ==
    ~Protected(a, u) /\ ~row[u].verified /\ Save(h, a, u, [row[u] EXCEPT !.verified = TRUE])
Unverify(h, a, u) == row[u].verified /\ Save(h, a, u, [row[u] EXCEPT !.verified = FALSE])

Press(h, a, u) ==
    /\ Super(a) /\ Exists(u)
    /\ \/ CycleRole(h, a, u) \/ SetRole(h, a, u) \/ Block(h, a, u) \/ Unblock(h, a, u)
       \/ FlipAutoAccept(h, a, u) \/ Postpaid(h, a, u) \/ NoPostpaid(h, a, u)
       \/ Verify(h, a, u) \/ Unverify(h, a, u)
    /\ UNCHANGED accountVars

\* An entry of the ledger, and an entry deleted by its id, which may be any.
Enter(u, amount) ==
    /\ Len(book) < MaxBook
    /\ book' = Append(book, [user |-> u, amount |-> amount])
    /\ squeezed' = IF amount < 0 THEN squeezed \cup {u} ELSE squeezed
Adjust == UNCHANGED <<row, hand, said, raced, form, offers, granted, excused>>

Charge(a, u) == Super(a) /\ Exists(u) /\ Begin /\ Adjust /\ \E n \in Amounts : Enter(u, n)
Decharge(a, u) == Super(a) /\ Exists(u) /\ Begin /\ Adjust /\ \E n \in Amounts : Enter(u, -n)
Undo(a) ==
    /\ Super(a) /\ Begin /\ Adjust
    /\ \E i \in DOMAIN book :
          /\ book[i].amount # 0
          /\ book' = [book EXCEPT ![i].amount = 0]
          /\ squeezed' = IF book[i].amount > 0 THEN squeezed \cup {book[i].user} ELSE squeezed
UndoTransaction(a) == Undo(a)
UndoInvoice(a) == Undo(a)

-----------------------------------------------------------------------------
(* The questions of ManageUserForm: the bot's admins and resellers share its states. *)

Manages(a, u) == Super(a) \/ (Served(a) /\ row[a].role >= Reseller /\ row[u].parent = a)
Has(a, f) == row[Setting(a)] # Absent /\ row[Setting(a)][f] = "set"

AskAs(a, u, q) ==
    /\ Begin /\ form' = [form EXCEPT ![a] = [q |-> q, of |-> u]]
    /\ UNCHANGED <<row, hand, said, raced, offers, book, granted, excused, squeezed>>
AdminAsks(a, u) == Super(a) /\ Exists(u) /\ \E q \in Questions \ {"amount"} : AskAs(a, u, q)
ResellerAsks(a, u) ==
    /\ Exists(u) /\ Manages(a, u) /\ row[u].parent = a
    /\ \E q \in SettingFields \cup {"amount"} :
          /\ (q \in {"discount", "tests"} /\ ~Super(a)) => Has(a, q)
          /\ AskAs(a, u, q)

\* Cancel, or another page.
LeaveForm(a) ==
    /\ form[a] # NoForm /\ form' = [form EXCEPT ![a] = NoForm]
    /\ UNCHANGED <<rowVars, offers, book, granted, excused, squeezed>>

\* The answer to a question about a setting: its row is looked up, then created or updated.
\* A reseller's own limit is read from a relation that was not fetched for this message
\* (user.setting), so only the prefix gets through for him.
DefaultSetting == [f \in SettingFields |-> "default"]
With(s, f) == [(IF row[s] = Absent THEN DefaultSetting ELSE row[s]) EXCEPT ![f] = "set"]
Understood(a, f) == Super(a) \/ f = "prefix"
AnswerSetting(h, a) ==
    LET f == form[a].q
        s == Setting(form[a].of)
    IN  /\ Served(a) /\ f \in SettingFields /\ Understood(a, f)
        /\ SaveFields(h, a, s, With(s, f), {f})
        /\ UNCHANGED accountVars

\* A reseller's own prefix.
OwnPrefix(h, u) ==
    /\ Served(u) /\ row[u].role >= Reseller
    /\ SaveFields(h, None, Setting(u), With(Setting(u), "prefix"), {"prefix"})
    /\ UNCHANGED accountVars

Squeeze(u, old, new) ==
    IF old # Absent /\ new # Absent /\ Allowance(new) < Allowance(old) THEN {u} ELSE {}

AnswerColumn(a) ==
    LET u == form[a].of
    IN  /\ Super(a) /\ form[a].q \in {"cap", "alias"} /\ Exists(u)
        /\ \/ form[a].q = "cap" /\ \E n \in Caps : Update(u, [row[u] EXCEPT !.cap = n], {"cap"})
           \/ form[a].q = "alias" /\ Update(u, [row[u] EXCEPT !.alias = "some"], {"alias"})
        /\ squeezed' = squeezed \cup Squeeze(u, row[u], row'[u])
        /\ form' = [form EXCEPT ![a] = NoForm]
        /\ UNCHANGED <<hand, starts, raced, offers, book, granted, excused>>

-----------------------------------------------------------------------------
(* Transfers of a reseller to his users. *)

\* The amount, checked against his credit; the confirmation is a button that stays.
ChargeAmount(a) ==
    /\ Served(a) /\ row[a].role >= Reseller /\ form[a].q = "amount"
    /\ \E n \in Amounts :
          /\ n =< Available(a, row[a])
          /\ offers' = offers \cup {<<a, form[a].of, n>>}
    /\ UNCHANGED <<rowVars, form, book, granted, excused, squeezed>>

Moves(h, a) == "move" \in DOMAIN hand[h] /\ hand[h].move[1] = a

\* Broken variant for TransfersCovered: the check of the amount is taken for granted.
ChargeByParent_Unchecked(h, m) ==
    /\ Start(h) /\ Manages(m[1], m[2]) /\ row[m[2]].parent = m[1]
    /\ hand' = [hand EXCEPT ![h] = [move |-> m]]
    /\ squeezed' = IF \E g \in Hands : Moves(g, m[1]) THEN squeezed \cup {m[1]} ELSE squeezed
    /\ UNCHANGED <<row, said, raced, form, offers, book, granted, excused>>

\* The button pressed: the credit is read again, and other handlers run.
ChargeByParent(h, m) ==
    /\ Start(h) /\ Manages(m[1], m[2]) /\ row[m[2]].parent = m[1]
    /\ m[3] =< Available(m[1], row[m[1]])
    /\ hand' = [hand EXCEPT ![h] = [move |-> m]]
    /\ squeezed' = IF \E g \in Hands : Moves(g, m[1]) THEN squeezed \cup {m[1]} ELSE squeezed
    /\ UNCHANGED <<row, said, raced, form, offers, book, granted, excused>>

\* The invoice and the transaction, in one database transaction.
CommitTransfer(h) ==
    /\ "move" \in DOMAIN hand[h] /\ Len(book) + 1 < MaxBook
    /\ LET m == hand[h].move
       IN  /\ book' = book \o <<[user |-> m[1], amount |-> -m[3]],
                                 [user |-> m[2], amount |-> m[3]]>>
           /\ squeezed' = IF m[3] < 0 THEN squeezed \cup {m[2]} ELSE squeezed
    /\ hand' = [hand EXCEPT ![h] = Idle]
    /\ UNCHANGED <<row, starts, said, raced, form, offers, granted, excused>>

-----------------------------------------------------------------------------
(* The panel. *)

EnsureManageable(a, u) ==
    Served(a) /\ row[a].role >= Admin /\ Exists(u) /\ row[u].role < row[a].role

SetUserBlocked(h, a, u) ==
    /\ EnsureManageable(a, u)
    /\ \E b \in BOOLEAN : SaveFields(h, None, u, [row[u] EXCEPT !.blocked = b], {"blocked"})
    /\ UNCHANGED accountVars

UpdateUser(h, a, u) ==
    /\ EnsureManageable(a, u)
    /\ \/ \E r \in Roles : row[a].role = SuperUser /\ Save(h, a, u, [row[u] EXCEPT !.role = r])
       \/ \E b \in BOOLEAN : Save(h, None, u, [row[u] EXCEPT !.postpaid = b])
       \/ \E n \in Caps \cup {0} : Save(h, None, u, [row[u] EXCEPT !.cap = n])
    /\ UNCHANGED accountVars

\* The page of the resellers: a plain user becomes one.
PromoteReseller(h, a, u) ==
    /\ Super(a) /\ Exists(u) /\ row[u].role < Reseller
    /\ SaveFields(h, None, u, [row[u] EXCEPT !.role = Reseller], {"role"})
    /\ UNCHANGED accountVars

\* Settings of a user: get_or_create, then an update of the columns.
UpdateSetting(a, u) ==
    LET s == Setting(u)
    IN  /\ EnsureManageable(a, u) /\ Begin
        /\ \E f \in SettingFields, v \in {"default", "set"} :
              LET new == [With(s, f) EXCEPT ![f] = v]
              IN  row' = [row EXCEPT ![s] = new] /\ said' = [said EXCEPT ![s] = new]
        /\ UNCHANGED <<hand, raced, accountVars>>

AdjustBalance(a, u) ==
    /\ Super(a) /\ Exists(u) /\ Begin /\ Adjust
    /\ \E n \in Amounts : n > 0 /\ (Enter(u, n) \/ Enter(u, -n))

-----------------------------------------------------------------------------
\* The write of a handler, with what the properties want to know of it.
WriteAccount(h) ==
    LET e == hand[h]
        r == row[e.to]
    IN  /\ Write(h)
        /\ form' = IF e.to \in Settings /\ e.by \in Users /\ ~Fails(r, e)
                   THEN [form EXCEPT ![e.by] = NoForm] ELSE form
        /\ IF e.to \in Users /\ e.seen # Absent /\ r # Absent
           THEN /\ granted' = IF e.new.role = SuperUser /\ e.seen.role # SuperUser
                                  /\ e.by \in Users /\ e.by # e.to
                              THEN granted \cup {e.to} ELSE granted
                /\ excused' = IF \/ /\ e.new.role = SuperUser /\ e.seen.role # SuperUser
                                    /\ e.seen.blocked
                                 \/ e.cols = {"blocked"} /\ r.role = SuperUser
                              THEN excused \cup {e.to} ELSE excused
                /\ squeezed' = squeezed \cup Squeeze(e.to, r, row'[e.to])
           ELSE UNCHANGED <<granted, excused, squeezed>>
        /\ UNCHANGED <<offers, book>>

AccountsNext ==
    \/ \E h \in Hands, u \in Users :
          \/ Greet(h, u) \/ ShareContact(h, u) \/ CheckForceJoin(h, u)
          \/ ParentReferredStart(h, u) \/ UserReferredStart(h, u)
          \/ AnswerSetting(h, u) \/ OwnPrefix(h, u)
    \/ \E h \in Hands, a \in Users, u \in Users :
          \/ Press(h, a, u) \/ SetUserBlocked(h, a, u)
          \/ UpdateUser(h, a, u) \/ PromoteReseller(h, a, u)
    \/ \E a \in Users, u \in Users :
          \/ Charge(a, u) \/ Decharge(a, u) \/ AdjustBalance(a, u) \/ UpdateSetting(a, u)
          \/ AdminAsks(a, u) \/ ResellerAsks(a, u)
    \/ \E a \in Users :
          \/ UndoTransaction(a) \/ UndoInvoice(a) \/ LeaveForm(a)
          \/ AnswerColumn(a) \/ ChargeAmount(a)
    \/ \E h \in Hands :
          (\E m \in offers : ChargeByParent(h, m)) \/ CommitTransfer(h) \/ WriteAccount(h)

\* The accounts by themselves.
AccountsSpec ==
    /\ EditsInit([k \in Keys |-> IF k \in Users THEN FirstUsers[k] ELSE Absent])
    /\ AccountsInit
    /\ [][AccountsNext]_<<rowVars, accountVars>>

-----------------------------------------------------------------------------
(* Properties. *)

\* No super user is blocked - the middleware would not let him in to undo it - except one
\* who was promoted while blocked or whom the panel blocked while he was being promoted
\* (block_user_command and _ensure_manageable look at the row they loaded).
SuperNotBlocked ==
    \A u \in Users \ excused : Exists(u) => ~(row[u].role = SuperUser /\ row[u].blocked)

\* Nobody is a super user whom neither .env nor a super user made one, whatever old copies
\* of rows are written back (user_cycle_role, update_user).
SuperGranted == \A u \in Users : Exists(u) /\ row[u].role = SuperUser => u \in Owners \cup granted

\* The accounts after any edits of users, staff and resellers at the same time.
AccountsKept == AccountsTypeOK /\ DecisionsKept /\ SuperNotBlocked /\ SuperGranted

\* Nobody's credit is below his allowance, unless he was in debt at the start, staff lowered
\* it, his reseller transferred a negative amount, or two transfers of his overlapped:
\* charge_by_parent reads the credit and creates the entries later, with no lock.
TransfersCovered ==
    \A u \in Users \ squeezed : Exists(u) => Available(u, row[u]) >= 0
=============================================================================
