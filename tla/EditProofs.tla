----------------------------- MODULE EditProofs -----------------------------
(***************************************************************************)
(* The modules over RowEdits for any rows and any number of handlers.  What  *)
(* a write does to its row and to the last decisions about it is proved      *)
(* once; then, component by component, what the handlers may have in hand,   *)
(* and with it that no decision is undone and what each component promises.  *)
(* What Credit and Above compute is taken step by step from StepsUp.         *)
(***************************************************************************)
EXTENDS Accounts, Catalog, Servers, Subscriptions, FiniteSetTheorems, WellFoundedInduction,
        TLAPS

-----------------------------------------------------------------------------
(* Recursion over numbers *)

\* What holds of 0 and steps up holds up to N, for a set of numbers: any set of them has a
\* least member.
LEMMA StepsUp ==
    ASSUME NEW N \in Nat, NEW S, 0 \in S, \A n \in 1..N : n - 1 \in S => n \in S
    PROVE  0..N \subseteq S
<1> DEFINE R == {ss \in Nat \X Nat : ss[1] < ss[2]}
           Bad == {n \in 0..N : n \notin S}
<1>1. IsWellFoundedOn(R, Nat)
  BY NatLessThanWellFounded, Zenon DEF OpToRel
<1>2. SUFFICES ASSUME Bad # {} PROVE FALSE
  OBVIOUS
<1>3. Bad \subseteq Nat
  OBVIOUS
<1>4. PICK n \in Bad : \A k \in Bad : ~(<<k, n>> \in R)
  <2> HIDE DEF R, Bad
  <2>1. QED
    BY <1>1, <1>2, <1>3, WFMin
<1>5. n \in 1..N /\ n - 1 \in 0..N /\ n - 1 < n
  BY <1>4
<1>6. n - 1 \notin Bad
  <2>1. <<n - 1, n>> \in R
    BY <1>5
  <2> HIDE DEF R, Bad
  <2>2. QED
    BY <1>4, <2>1
<1>7. QED
  BY <1>4, <1>5, <1>6

-----------------------------------------------------------------------------
(* Rows and handlers *)

\* The rows, the last decisions and the handlers are functions.
EditShape ==
    /\ row = [k \in Keys |-> row[k]]
    /\ said = [k \in Keys |-> said[k]]
    /\ hand = [h \in Hands |-> hand[h]]

Entry == {"to", "by", "seen", "new", "cols"}

\* A handler that has loaded a row and does nothing after its write.
PlainEdit(e) == DOMAIN e = Entry

\* What a handler that loads a row has in hand.
Loaded(a, k, new, cols) ==
    [to |-> k, by |-> a, seen |-> row[k], new |-> new, cols |-> cols]

\* Loading changes the handler alone.
LEMMA LoadEffect ==
    ASSUME EditShape, NEW h \in Hands, NEW a, NEW k, NEW new, NEW cols,
           Load(h, a, k, new, cols)
    PROVE  /\ hand[h] = Idle
           /\ hand' = [hand EXCEPT ![h] = Loaded(a, k, new, cols)]
           /\ hand' = [g \in Hands |-> hand'[g]]
           /\ hand'[h] = Loaded(a, k, new, cols)
           /\ \A g \in Hands \ {h} : hand'[g] = hand[g]
  BY DEF EditShape, Load, Start, Begin, Loaded

\* An entry that was loaded, field by field.
LEMMA LoadedIs ==
    ASSUME NEW a, NEW k, NEW new, NEW cols, NEW e, e = Loaded(a, k, new, cols)
    PROVE  /\ PlainEdit(e) /\ e.to = k /\ e.by = a /\ e.seen = row[k] /\ e.new = new
           /\ e.cols = cols
  BY DEF Loaded, PlainEdit, Entry

\* What a write leaves in its row.
LEMMA WrittenIs ==
    ASSUME NEW r, NEW e, e.new = [f \in DOMAIN e.new |-> e.new[f]]
    PROVE  /\ Fails(r, e) => Written(r, e) = r
           /\ ~Fails(r, e) /\ (e.seen = Absent \/ Whole(e)) => Written(r, e) = e.new
           /\ ~Fails(r, e) => Written(r, e) = Merge(r, e.new, e.cols)
  BY DEF Written, Fails, Whole, Merge

\* A write changes its own row and its handler, and races if it is whole and not of this row.
LEMMA WriteEffect ==
    ASSUME EditShape, NEW h \in Hands, Write(h)
    PROVE  /\ Writing(h)
           /\ row' = [k \in Keys |-> row'[k]] /\ hand' = [g \in Hands |-> hand'[g]]
           /\ \A k \in Keys \ {hand[h].to} : row'[k] = row[k]
           /\ hand[h].to \in Keys => row'[hand[h].to] = Written(row[hand[h].to], hand[h])
           /\ \A g \in Hands \ {h} : hand'[g] = hand[g]
           /\ PlainEdit(hand[h]) => hand'[h] = Idle
           /\ raced \subseteq raced'
           /\ Whole(hand[h]) /\ ~Fails(row[hand[h].to], hand[h]) /\ hand[h].to \notin raced'
                 => row[hand[h].to] = hand[h].seen
  BY DEF EditShape, Write, PlainEdit, Entry

\* What somebody decided is what the row says after a write, unless it raced.
LEMMA WriteKeeps ==
    ASSUME EditShape, DecisionsKept, NEW h \in Hands, Write(h)
    PROVE  EditShape' /\ DecisionsKept'
<1> DEFINE e == hand[h]
           t == e.to
           r == row[t]
<1>1. EditShape'
  BY DEF EditShape, Write
<1>2. ASSUME NEW k \in Keys \ raced' PROVE row'[k] = said'[k]
  <2>1. row[k] = said[k]
    BY <1>2 DEF DecisionsKept, Write
  <2>2. CASE k # t
    BY <2>1, <2>2 DEF Write, EditShape
  <2>3. CASE k = t /\ Fails(r, e)
    BY <2>1, <2>3 DEF Write, EditShape, Written
  <2>4. CASE k = t /\ ~Fails(r, e)
    <3>1. row'[k] = Merge(r, e.new, e.cols) /\ said'[k] = Merge(r, e.new, Decided(e))
      BY <2>1, <2>4 DEF Write, EditShape, Written
    <3>2. CASE e.seen = Absent
      BY <2>4, <3>1, <3>2 DEF Fails, Merge
    <3>3. CASE e.seen # Absent /\ ~Whole(e)
      BY <3>1, <3>3 DEF Decided
    <3>4. CASE e.seen # Absent /\ Whole(e)
      <4>1. r = e.seen
        BY <1>2, <2>4, <3>4 DEF Write
      <4>2. \A f \in DOMAIN e.new :
               (IF f \in e.cols \/ r = Absent THEN e.new[f] ELSE r[f])
                = (IF f \in Decided(e) \/ r = Absent THEN e.new[f] ELSE r[f])
        BY <3>4, <4>1 DEF Decided, Whole
      <4>3. QED
        BY <3>1, <4>2 DEF Merge
    <3>5. QED
      BY <3>2, <3>3, <3>4
  <2>5. QED
    BY <2>2, <2>3, <2>4
<1>3. QED
  BY <1>1, <1>2 DEF DecisionsKept

\* Other steps of a handler keep the rows, or change them with the decisions.
LEMMA RowsStay ==
    ASSUME EditShape, DecisionsKept, RowsKept
    PROVE  /\ DecisionsKept'
           /\ (hand' = [h \in Hands |-> hand'[h]]) => EditShape'
  BY DEF EditShape, DecisionsKept, RowsKept

\* An update of columns in one statement.
LEMMA UpdateKeeps ==
    ASSUME EditShape, DecisionsKept, NEW k \in Keys, NEW new, NEW cols,
           Update(k, new, cols), UNCHANGED raced
    PROVE  /\ DecisionsKept'
           /\ (hand' = [h \in Hands |-> hand'[h]]) => EditShape'
           /\ row'[k] = Merge(row[k], new, cols)
           /\ \A m \in Keys \ {k} : row'[m] = row[m]
<1>1. row'[k] = Merge(row[k], new, cols) /\ said'[k] = Merge(said[k], new, cols)
  BY DEF Update, EditShape
<1>2. \A m \in Keys \ {k} : row'[m] = row[m] /\ said'[m] = said[m]
  BY DEF Update, EditShape
<1>3. DecisionsKept'
  BY <1>1, <1>2 DEF DecisionsKept
<1>4. row' = [m \in Keys |-> row'[m]] /\ said' = [m \in Keys |-> said'[m]]
  BY DEF Update, EditShape
<1>5. QED
  BY <1>1, <1>2, <1>3, <1>4 DEF EditShape

-----------------------------------------------------------------------------
(* Accounts *)

UserFields == {"role", "blocked", "postpaid", "verified", "auto", "cap", "name", "alias",
               "parent", "referrer"}

\* What a handler may have in hand about a user: what it makes of the row it loaded, and who
\* let it make him a super user.
UserEdit(e) ==
    /\ PlainEdit(e) /\ e.to \in Users
    /\ e.new \in UserRows /\ e.cols \in {UserFields, {"blocked"}, {"role"}}
    /\ e.cols = {"role"} => e.new.role = Reseller
    /\ \/ /\ e.seen = Absent /\ e.cols = UserFields /\ ~e.new.blocked
          /\ e.new.role = SuperUser => e.to \in Owners
       \/ /\ e.seen \in UserRows /\ row[e.to] # Absent
          /\ e.seen.role = SuperUser => e.to \in Owners \cup granted
          /\ e.seen.role = SuperUser /\ e.seen.blocked => e.to \in excused
          /\ e.cols = UserFields /\ e.new.role = SuperUser =>
                /\ \/ e.seen.role = SuperUser \/ e.to \in Owners
                   \/ e.by \in Users /\ e.by # e.to
                /\ e.new.blocked => e.seen.blocked

SettingEdit(e) == PlainEdit(e) /\ e.to \in Settings /\ e.new \in SettingRows
Transfer(e) == DOMAIN e = {"move"} /\ e.move \in Users \X Users \X Amounts

AccountHands ==
    \A h \in Hands :
       hand[h] = Idle \/ Transfer(hand[h]) \/ UserEdit(hand[h]) \/ SettingEdit(hand[h])

AccountsInv ==
    /\ EditShape /\ AccountsKept /\ AccountHands
    /\ \A a \in Users : form[a].q # None => form[a].of \in Users

\* A row of a user, field by field.
LEMMA UserRowIs ==
    ASSUME NEW r \in UserRows
    PROVE  /\ DOMAIN r = UserFields /\ r # Absent /\ r # Gone
           /\ r.role \in Roles /\ r.blocked \in BOOLEAN
  BY DEF UserRows, UserFields, Absent, Gone

LEMMA SettingRowIs ==
    ASSUME NEW r \in SettingRows
    PROVE  DOMAIN r = SettingFields /\ r # Absent /\ r # Gone
  BY DEF SettingRows, SettingFields, Absent, Gone

\* Columns written over a row of a user make a row of a user.
LEMMA MergeUsers ==
    ASSUME NEW r \in UserRows, NEW new \in UserRows, NEW cols
    PROVE  /\ Merge(r, new, cols) \in UserRows
           /\ Merge(r, new, cols).role = IF "role" \in cols THEN new.role ELSE r.role
           /\ Merge(r, new, cols).blocked = IF "blocked" \in cols THEN new.blocked ELSE r.blocked
<1>1. r # Absent /\ DOMAIN new = UserFields
  BY UserRowIs
<1>2. Merge(r, new, cols) = [f \in UserFields |-> IF f \in cols THEN new[f] ELSE r[f]]
  BY <1>1 DEF Merge
<1>3. QED
  BY <1>2 DEF UserRows, UserFields

LEMMA MergeSettings ==
    ASSUME NEW r \in SettingRows, NEW new \in SettingRows, NEW cols
    PROVE  Merge(r, new, cols) \in SettingRows
<1>1. r # Absent /\ DOMAIN new = SettingFields
  BY SettingRowIs
<1>2. Merge(r, new, cols) = [f \in SettingFields |-> IF f \in cols THEN new[f] ELSE r[f]]
  BY <1>1 DEF Merge
<1>3. QED
  BY <1>2 DEF SettingRows

LEMMA MergeAbsent ==
    ASSUME NEW new, new = [f \in DOMAIN new |-> new[f]], NEW cols
    PROVE  Merge(Absent, new, cols) = new
  BY DEF Merge

LEMMA IdleIs ==
    /\ DOMAIN Idle = {"idle"}
    /\ \A e : PlainEdit(e) => e # Idle /\ "to" \in DOMAIN e /\ "move" \notin DOMAIN e
    /\ \A e : Transfer(e) => e # Idle /\ "to" \notin DOMAIN e
  BY DEF Idle, PlainEdit, Entry, Transfer

\* A handler that has loaded a user or a setting.
LEMMA AccountLoaded ==
    ASSUME AccountsInv, NEW h \in Hands, NEW a, NEW k, NEW new, NEW cols,
           Load(h, a, k, new, cols), RowsKept, UNCHANGED accountVars,
           UserEdit(Loaded(a, k, new, cols)) \/ SettingEdit(Loaded(a, k, new, cols))
    PROVE  AccountsInv'
<1> USE DEF AccountsInv
<1>1. /\ hand'[h] = Loaded(a, k, new, cols) /\ hand' = [g \in Hands |-> hand'[g]]
      /\ \A g \in Hands \ {h} : hand'[g] = hand[g]
  BY LoadEffect
<1>2. EditShape' /\ DecisionsKept'
  BY <1>1, RowsStay DEF AccountsKept
<1>3. AccountHands'
  BY <1>1 DEF AccountHands, UserEdit, SettingEdit, Transfer, RowsKept, accountVars, PlainEdit
<1>4. QED
  BY <1>2, <1>3 DEF AccountsKept, AccountsTypeOK, SuperNotBlocked, SuperGranted, Exists,
                    RowsKept, accountVars

\* The write of a handler about a user, or about the settings of one.
LEMMA UserWritten ==
    ASSUME AccountsInv, NEW h \in Hands, WriteAccount(h), UserEdit(hand[h])
    PROVE  /\ row'[hand[h].to] \in UserRows \cup {Absent}
           /\ row[hand[h].to] # Absent => row'[hand[h].to] # Absent
           /\ row'[hand[h].to] \in UserRows /\ row'[hand[h].to].role = SuperUser =>
                /\ hand[h].to \in Owners \cup granted'
                /\ row'[hand[h].to].blocked => hand[h].to \in excused'
           /\ granted \subseteq granted' /\ excused \subseteq excused'
<1> DEFINE e == hand[h]
           t == e.to
           r == row[t]
           s == row'[t]
<1> USE DEF AccountsInv
<1>1. /\ PlainEdit(e) /\ t \in Users /\ t \in Keys /\ e.new \in UserRows
      /\ e.cols \in {UserFields, {"blocked"}, {"role"}}
      /\ e.cols = {"role"} => e.new.role = Reseller
  BY AccountsAssumption DEF UserEdit
<1>2. r \in UserRows \cup {Absent} /\ s = Written(r, e)
  BY <1>1, WriteEffect DEF WriteAccount, AccountsKept, AccountsTypeOK
<1>3. DOMAIN e.new = UserFields /\ e.new = [f \in DOMAIN e.new |-> e.new[f]]
  BY <1>1, UserRowIs DEF UserRows
<1>4. granted \subseteq granted' /\ excused \subseteq excused'
  BY DEF WriteAccount
<1>5. r \in UserRows /\ r.role = SuperUser =>
        t \in Owners \cup granted /\ (r.blocked => t \in excused)
  BY <1>1, UserRowIs DEF AccountsKept, SuperGranted, SuperNotBlocked, Exists
<1>6. CASE e.seen = Absent
  <2>1. CASE r = Absent
    <3>1. s = e.new
      BY <1>2, <1>3, <1>6, <2>1, WrittenIs DEF Fails
    <3>2. ~e.new.blocked /\ (e.new.role = SuperUser => t \in Owners)
      BY <1>6, UserRowIs DEF UserEdit
    <3>3. QED
      BY <1>1, <1>4, <2>1, <3>1, <3>2
  <2>2. CASE r # Absent
    <3>1. s = r
      BY <1>2, <1>6, <2>2 DEF Fails, Written
    <3>2. QED
      BY <1>2, <1>4, <1>5, <2>2, <3>1
  <2>3. QED
    BY <2>1, <2>2
<1>7. CASE e.seen # Absent
  <2>1. /\ r # Absent /\ r \in UserRows /\ e.seen \in UserRows
        /\ e.seen.role = SuperUser => t \in Owners \cup granted
        /\ e.seen.role = SuperUser /\ e.seen.blocked => t \in excused
        /\ e.cols = UserFields /\ e.new.role = SuperUser =>
              /\ e.seen.role = SuperUser \/ t \in Owners \/ (e.by \in Users /\ e.by # t)
              /\ e.new.blocked => e.seen.blocked
    BY <1>2, <1>7 DEF UserEdit
  <2>2. s = Merge(r, e.new, e.cols)
    BY <1>2, <1>3, <1>7, <2>1, WrittenIs, UserRowIs DEF Fails
  <2>3. /\ s \in UserRows /\ s # Absent
        /\ s.role = IF "role" \in e.cols THEN e.new.role ELSE r.role
        /\ s.blocked = IF "blocked" \in e.cols THEN e.new.blocked ELSE r.blocked
    BY <1>1, <2>1, <2>2, MergeUsers, UserRowIs
  <2>4. /\ granted' = IF e.new.role = SuperUser /\ e.seen.role # SuperUser
                           /\ e.by \in Users /\ e.by # t
                      THEN granted \cup {t} ELSE granted
        /\ excused' = IF \/ e.new.role = SuperUser /\ e.seen.role # SuperUser /\ e.seen.blocked
                         \/ e.cols = {"blocked"} /\ r.role = SuperUser
                      THEN excused \cup {t} ELSE excused
    BY <1>1, <1>7, <2>1 DEF WriteAccount
  <2>5. s.role = SuperUser => t \in Owners \cup granted' /\ (s.blocked => t \in excused')
    <3>1. CASE e.cols = UserFields
      BY <2>1, <2>3, <2>4, <3>1 DEF UserFields
    <3>2. CASE e.cols = {"blocked"}
      BY <1>5, <2>1, <2>3, <2>4, <3>2
    <3>3. CASE e.cols = {"role"}
      BY <1>1, <2>3, <3>3 DEF Reseller, SuperUser
    <3>4. QED
      BY <1>1, <3>1, <3>2, <3>3
  <2>6. QED
    BY <1>4, <2>1, <2>3, <2>5
<1>8. QED
  BY <1>6, <1>7

LEMMA SettingWritten ==
    ASSUME AccountsInv, NEW h \in Hands, WriteAccount(h), SettingEdit(hand[h])
    PROVE  row'[hand[h].to] \in SettingRows \cup {Absent}
<1> DEFINE e == hand[h]
           r == row[e.to]
<1>1. e.to \in Settings /\ e.to \in Keys /\ e.new \in SettingRows
  BY AccountsAssumption DEF SettingEdit
<1>2. r \in SettingRows \cup {Absent} /\ row'[e.to] = Written(r, e)
  BY <1>1, WriteEffect DEF WriteAccount, AccountsInv, AccountsKept, AccountsTypeOK
<1>3. e.new = [f \in DOMAIN e.new |-> e.new[f]]
  BY <1>1 DEF SettingRows
<1>4. CASE Fails(r, e)
  BY <1>2, <1>4 DEF Written
<1>5. CASE ~Fails(r, e)
  BY <1>1, <1>2, <1>3, <1>5, WrittenIs, MergeAbsent, MergeSettings
<1>6. QED
  BY <1>4, <1>5

LEMMA AccountWritten ==
    ASSUME AccountsInv, NEW h \in Hands, WriteAccount(h)
    PROVE  AccountsInv'
<1> DEFINE e == hand[h]
           t == e.to
<1> USE DEF AccountsInv
<1>1. UserEdit(e) \/ SettingEdit(e)
  BY IdleIs DEF WriteAccount, Write, Writing, AccountHands, Transfer, Idle
<1>2. t \in Keys /\ (t \in Users => UserEdit(e)) /\ (t \in Settings => SettingEdit(e))
  BY <1>1, AccountsAssumption DEF UserEdit, SettingEdit
<1>3. /\ \A k \in Keys \ {t} : row'[k] = row[k]
      /\ \A g \in Hands \ {h} : hand'[g] = hand[g]
      /\ hand'[h] = Idle
  BY <1>1, WriteEffect DEF WriteAccount, UserEdit, SettingEdit
<1>4. EditShape' /\ DecisionsKept'
  BY WriteKeeps DEF WriteAccount, AccountsKept
<1>5. granted \subseteq granted' /\ excused \subseteq excused' /\ offers' = offers /\ book' = book
  BY DEF WriteAccount
<1>6. /\ \A u \in Users :
            row'[u] \in UserRows \cup {Absent} /\ (row[u] # Absent => row'[u] # Absent)
      /\ \A s \in Settings : row'[s] \in SettingRows \cup {Absent}
  BY <1>2, <1>3, UserWritten, SettingWritten, AccountsAssumption DEF AccountsKept, AccountsTypeOK
<1>7. /\ form' \in [Users -> [q : Questions \cup {None}, of : Users \cup {None}]]
      /\ \A a \in Users : form'[a].q # None => form'[a].of \in Users
  BY DEF WriteAccount, AccountsKept, AccountsTypeOK, NoForm
<1>8. \A u \in Users : row'[u] \in UserRows /\ row'[u].role = SuperUser =>
         u \in Owners \cup granted' /\ (row'[u].blocked => u \in excused')
  <2>1. SUFFICES ASSUME NEW u \in Users, row'[u] \in UserRows, row'[u].role = SuperUser
                 PROVE  u \in Owners \cup granted' /\ (row'[u].blocked => u \in excused')
    OBVIOUS
  <2>2. CASE u = t
    BY <1>2, <2>1, <2>2, UserWritten
  <2>3. CASE u # t
    <3>1. row'[u] = row[u] /\ row[u] # Absent /\ row[u] # Gone
      BY <1>3, <2>1, <2>3, UserRowIs, AccountsAssumption
    <3>2. QED
      BY <1>5, <2>1, <3>1 DEF AccountsKept, SuperGranted, SuperNotBlocked, Exists
  <2>4. QED
    BY <2>2, <2>3
<1>9. AccountHands'
  <2>1. SUFFICES ASSUME NEW g \in Hands, g # h
                 PROVE  \/ hand'[g] = Idle \/ Transfer(hand'[g])
                        \/ UserEdit(hand[g])' \/ SettingEdit(hand[g])'
    BY <1>3 DEF AccountHands
  <2>2. hand'[g] = hand[g]
    BY <1>3, <2>1
  <2>3. UserEdit(hand[g]) => UserEdit(hand[g])'
    BY <1>5, <1>6, <2>2 DEF UserEdit, PlainEdit
  <2>4. SettingEdit(hand[g]) => SettingEdit(hand[g])'
    BY <2>2 DEF SettingEdit, PlainEdit
  <2>5. QED
    BY <2>2, <2>3, <2>4 DEF AccountHands
<1>10. QED
  BY <1>4, <1>5, <1>6, <1>7, <1>8, <1>9
     DEF AccountsKept, AccountsTypeOK, SuperGranted, SuperNotBlocked, Exists

\* What is known of a user's row that is there.
LEMMA UserThere ==
    ASSUME AccountsInv, NEW u \in Users, Exists(u)
    PROVE  /\ u \in Keys /\ row[u] \in UserRows /\ row[u] # Absent
           /\ row[u].role = SuperUser => u \in Owners \cup granted
           /\ row[u].role = SuperUser /\ row[u].blocked => u \in excused
  BY AccountsAssumption DEF AccountsInv, AccountsKept, AccountsTypeOK, SuperGranted,
                            SuperNotBlocked, Exists

\* A handler that saves a changed copy of a user's row.
LEMMA UserSaved ==
    ASSUME AccountsInv, NEW h \in Hands, NEW a, NEW u \in Users, NEW new \in UserRows, NEW cols,
           Exists(u), Load(h, a, u, new, cols), RowsKept, UNCHANGED accountVars,
           \/ /\ cols = UserFields
              /\ new.role = SuperUser =>
                   /\ row[u].role = SuperUser \/ u \in Owners \/ (a \in Users /\ a # u)
                   /\ new.blocked => row[u].blocked
           \/ cols = {"blocked"}
           \/ cols = {"role"} /\ new.role = Reseller
    PROVE  AccountsInv'
<1> DEFINE e == Loaded(a, u, new, cols)
<1>1. /\ PlainEdit(e) /\ e.to = u /\ e.by = a /\ e.seen = row[u] /\ e.new = new
      /\ e.cols = cols
  BY LoadedIs
<1>2. UserEdit(e)
  BY <1>1, UserThere DEF UserEdit, UserFields
<1>3. QED
  BY <1>2, AccountLoaded

LEMMA UserSavedWhole ==
    ASSUME AccountsInv, NEW h \in Hands, NEW a, NEW u \in Users, NEW new \in UserRows,
           Exists(u), Save(h, a, u, new), UNCHANGED accountVars,
           new.role = SuperUser =>
                   /\ row[u].role = SuperUser \/ u \in Owners \/ (a \in Users /\ a # u)
                   /\ new.blocked => row[u].blocked
    PROVE  AccountsInv'
<1>1. DOMAIN new = UserFields
  BY UserRowIs
<1>2. Load(h, a, u, new, UserFields) /\ RowsKept
  BY <1>1 DEF Save, RowsKept
<1>3. QED
  BY <1>2, UserSaved

\* The user's own messages.
LEMMA GreetKeeps ==
    ASSUME AccountsInv, NEW h \in Hands, NEW u \in Users, Greet(h, u)
    PROVE  AccountsInv'
<1>1. CASE ~Exists(u) /\ Save(h, u, u, NewUser(u))
  <2> DEFINE e == Loaded(u, u, NewUser(u), UserFields)
  <2>1. (CHOOSE n \in Caps : TRUE) \in Nat
    BY AccountsAssumption
  <2>2. NewUser(u) \in UserRows /\ DOMAIN NewUser(u) = UserFields
    BY <2>1 DEF NewUser, UserRows, UserFields, Roles, PlainUser, SuperUser
  <2>3. row[u] = Absent
    <3>1. row[u] \in UserRows \cup {Absent}
      BY DEF AccountsInv, AccountsKept, AccountsTypeOK
    <3>2. QED
      BY <1>1, <3>1, UserRowIs DEF Exists
  <2>4. /\ PlainEdit(e) /\ e.to = u /\ e.by = u /\ e.seen = row[u] /\ e.new = NewUser(u)
        /\ e.cols = UserFields
    BY LoadedIs
  <2>5. ~NewUser(u).blocked /\ (NewUser(u).role = SuperUser => u \in Owners)
    BY DEF NewUser, PlainUser, SuperUser
  <2> HIDE DEF e
  <2>6. UserEdit(e)
    BY <2>2, <2>3, <2>4, <2>5 DEF UserEdit, UserFields
  <2>7. Load(h, u, u, NewUser(u), UserFields) /\ RowsKept /\ UNCHANGED accountVars
    BY <1>1, <2>2 DEF Save, RowsKept, Greet
  <2>8. QED
    BY <2>6, <2>7, AccountLoaded DEF e
<1>2. CASE Exists(u) /\ \E name \in {"old", "new"} : Save(h, u, u, Refreshed(u, row[u], name))
  <2>1. PICK name \in {"old", "new"} : Save(h, u, u, Refreshed(u, row[u], name))
    BY <1>2
  <2> DEFINE new == Refreshed(u, row[u], name)
  <2>2. row[u] \in UserRows
    BY <1>2, UserThere
  <2>3. /\ new \in UserRows /\ new.role = (IF u \in Owners THEN SuperUser ELSE row[u].role)
        /\ new.blocked = row[u].blocked
    <3>1. \A x \in Roles : [row[u] EXCEPT !.name = name, !.role = x] \in UserRows
      BY <2>2 DEF UserRows
    <3>2. SuperUser \in Roles /\ row[u].role \in Roles
      BY <2>2, UserRowIs DEF Roles, SuperUser, PlainUser
    <3>3. DOMAIN row[u] = UserFields
      BY <2>2, UserRowIs
    <3>4. QED
      BY <3>1, <3>2, <3>3 DEF Refreshed, UserFields
  <2>4. QED
    BY <1>2, <2>1, <2>2, <2>3, UserSavedWhole DEF Greet
<1>3. QED
  BY <1>1, <1>2 DEF Greet

LEMMA OwnMessagesKeep ==
    ASSUME AccountsInv, NEW h \in Hands, NEW u \in Users,
           \/ ShareContact(h, u) \/ CheckForceJoin(h, u)
           \/ ParentReferredStart(h, u) \/ UserReferredStart(h, u)
    PROVE  AccountsInv'
<1>1. Exists(u) /\ UNCHANGED accountVars
  BY DEF ShareContact, CheckForceJoin, ParentReferredStart, UserReferredStart, Served
<1>2. row[u] \in UserRows
  BY <1>1, UserThere
<1>3. PICK new : /\ Save(h, u, u, new)
                 /\ \/ new = row[u] \/ new = [row[u] EXCEPT !.verified = TRUE]
                    \/ \E p \in Users : new = [row[u] EXCEPT !.parent = p]
                    \/ \E p \in Users : new = [row[u] EXCEPT !.referrer = p]
  BY DEF ShareContact, CheckForceJoin, ParentReferredStart, UserReferredStart
<1>4. new \in UserRows /\ new.role = row[u].role /\ new.blocked = row[u].blocked
  BY <1>2, <1>3 DEF UserRows
<1>5. QED
  BY <1>1, <1>3, <1>4, UserSavedWhole

\* The buttons of a super user in the bot.
LEMMA PressKeeps ==
    ASSUME AccountsInv, NEW h \in Hands, NEW a \in Users, NEW u \in Users, Press(h, a, u)
    PROVE  AccountsInv'
<1> DEFINE r == row[u]
<1>1. Super(a) /\ Exists(u) /\ UNCHANGED accountVars
  BY DEF Press
<1>2. r \in UserRows /\ r.role \in Roles
  BY <1>1, UserThere, UserRowIs
<1>3. CASE CycleRole(h, a, u)
  <2> DEFINE new == [r EXCEPT !.role = (@ + 1) % SuperUser]
  <2>1. (r.role + 1) % SuperUser \in 0..Admin
    BY <1>2, r.role \in Int DEF Roles, PlainUser, SuperUser, Admin
  <2>2. new \in UserRows /\ new.role # SuperUser
    BY <1>2, <2>1 DEF UserRows, Roles, PlainUser, SuperUser, Admin
  <2>3. QED
    BY <1>1, <1>3, <2>2, UserSavedWhole DEF CycleRole
<1>4. CASE SetRole(h, a, u)
  <2>1. PICK x \in Roles : Save(h, a, u, [r EXCEPT !.role = x])
    BY <1>4 DEF SetRole
  <2> DEFINE new == [r EXCEPT !.role = x]
  <2>2. new \in UserRows /\ new.blocked = r.blocked
    BY <1>2, <2>1 DEF UserRows
  <2>3. r.role = SuperUser \/ a # u
    BY <1>1 DEF Super
  <2>4. QED
    BY <1>1, <2>1, <2>2, <2>3, UserSavedWhole
<1>5. CASE Block(h, a, u)
  <2> DEFINE new == [r EXCEPT !.blocked = TRUE]
  <2>1. new \in UserRows /\ new.role # SuperUser
    BY <1>2, <1>5 DEF UserRows, Block, Protected
  <2>2. QED
    BY <1>1, <1>5, <2>1, UserSavedWhole DEF Block
<1>6. CASE \/ Unblock(h, a, u) \/ FlipAutoAccept(h, a, u) \/ Postpaid(h, a, u)
           \/ NoPostpaid(h, a, u) \/ Verify(h, a, u) \/ Unverify(h, a, u)
  <2>1. PICK new : /\ Save(h, a, u, new)
                   /\ \/ new = [r EXCEPT !.blocked = FALSE] \/ new = [r EXCEPT !.auto = ~@]
                      \/ \E b \in BOOLEAN : new = [r EXCEPT !.postpaid = b]
                      \/ \E b \in BOOLEAN : new = [r EXCEPT !.verified = b]
    BY <1>6 DEF Unblock, FlipAutoAccept, Postpaid, NoPostpaid, Verify, Unverify
  <2>2. new \in UserRows /\ new.role = r.role /\ (new.blocked => r.blocked)
    BY <1>2, <2>1 DEF UserRows
  <2>3. QED
    BY <1>1, <2>1, <2>2, UserSavedWhole
<1>7. QED
  BY <1>3, <1>4, <1>5, <1>6 DEF Press

\* The panel.
LEMMA PanelKeeps ==
    ASSUME AccountsInv, NEW h \in Hands, NEW a \in Users, NEW u \in Users,
           SetUserBlocked(h, a, u) \/ UpdateUser(h, a, u) \/ PromoteReseller(h, a, u)
    PROVE  AccountsInv'
<1> DEFINE r == row[u]
<1>1. Served(a) /\ Exists(u) /\ UNCHANGED accountVars
  BY DEF SetUserBlocked, UpdateUser, PromoteReseller, EnsureManageable, Super
<1>2. r \in UserRows /\ r.role \in Roles
  BY <1>1, UserThere, UserRowIs
<1>3. CASE SetUserBlocked(h, a, u)
  <2>1. PICK b \in BOOLEAN : SaveFields(h, None, u, [r EXCEPT !.blocked = b], {"blocked"})
    BY <1>3 DEF SetUserBlocked
  <2> DEFINE new == [r EXCEPT !.blocked = b]
  <2>2. new \in UserRows /\ Load(h, None, u, new, {"blocked"}) /\ RowsKept
    BY <1>2, <2>1 DEF UserRows, SaveFields, RowsKept
  <2> HIDE DEF new
  <2>3. QED
    BY <1>1, <2>2, UserSaved
<1>4. CASE PromoteReseller(h, a, u)
  <2> DEFINE new == [r EXCEPT !.role = Reseller]
  <2>1. /\ new \in UserRows /\ new.role = Reseller
        /\ Load(h, None, u, new, {"role"}) /\ RowsKept
    BY <1>2, <1>4 DEF UserRows, SaveFields, RowsKept, PromoteReseller, Roles, Reseller,
                      PlainUser, SuperUser
  <2> HIDE DEF new
  <2>2. QED
    BY <1>1, <2>1, UserSaved
<1>5. CASE UpdateUser(h, a, u)
  <2>1. row[u].role < row[a].role
    BY <1>5 DEF UpdateUser, EnsureManageable
  <2>2. CASE \E x \in Roles : /\ row[a].role = SuperUser /\ Save(h, a, u, [r EXCEPT !.role = x])
    <3>1. PICK x \in Roles : Save(h, a, u, [r EXCEPT !.role = x])
      BY <2>2
    <3> DEFINE new == [r EXCEPT !.role = x]
    <3>2. new \in UserRows /\ new.blocked = r.blocked
      BY <1>2, <3>1 DEF UserRows
    <3>3. a # u
      BY <1>2, <2>1 DEF Roles, PlainUser, SuperUser
    <3>4. QED
      BY <1>1, <3>1, <3>2, <3>3, UserSavedWhole
  <2>3. CASE \/ \E b \in BOOLEAN : Save(h, None, u, [r EXCEPT !.postpaid = b])
             \/ \E n \in Caps \cup {0} : Save(h, None, u, [r EXCEPT !.cap = n])
    <3>1. PICK new : /\ Save(h, None, u, new)
                     /\ \/ \E b \in BOOLEAN : new = [r EXCEPT !.postpaid = b]
                        \/ \E n \in Caps \cup {0} : new = [r EXCEPT !.cap = n]
      BY <2>3
    <3>2. new \in UserRows /\ new.role = r.role /\ new.blocked = r.blocked
      <4>1. CASE \E b \in BOOLEAN : new = [r EXCEPT !.postpaid = b]
        BY <1>2, <4>1 DEF UserRows
      <4>2. CASE \E n \in Caps \cup {0} : new = [r EXCEPT !.cap = n]
        <5>1. PICK n \in Nat : new = [r EXCEPT !.cap = n]
          BY <4>2, AccountsAssumption
        <5>2. QED
          BY <1>2, <5>1 DEF UserRows
      <4>3. QED
        BY <3>1, <4>1, <4>2
    <3>3. QED
      BY <1>1, <3>1, <3>2, UserSavedWhole
  <2>4. QED
    BY <1>5, <2>2, <2>3 DEF UpdateUser
<1>6. QED
  BY <1>3, <1>4, <1>5

\* Settings of a user.
LEMMA WithIs ==
    ASSUME AccountsInv, NEW s \in Settings, NEW f \in SettingFields
    PROVE  /\ s \in Keys /\ row[s] \in SettingRows \cup {Absent}
           /\ With(s, f) \in SettingRows
           /\ \A v \in {"default", "set"} : [With(s, f) EXCEPT ![f] = v] \in SettingRows
<1>1. s \in Keys /\ row[s] \in SettingRows \cup {Absent}
  BY AccountsAssumption DEF AccountsInv, AccountsKept, AccountsTypeOK
<1>2. DefaultSetting \in SettingRows
  BY DEF DefaultSetting, SettingRows
<1>3. With(s, f) \in SettingRows
  BY <1>1, <1>2 DEF With, SettingRows
<1>4. QED
  BY <1>1, <1>3 DEF SettingRows

LEMMA SettingAnswered ==
    ASSUME AccountsInv, NEW h \in Hands, NEW a \in Users,
           AnswerSetting(h, a) \/ OwnPrefix(h, a)
    PROVE  AccountsInv'
<1>1. PICK b \in Users \cup {None}, s \in Settings, f \in SettingFields :
         SaveFields(h, b, s, With(s, f), {f}) /\ UNCHANGED accountVars
  <2>1. CASE AnswerSetting(h, a)
    <3>1. form[a].q # None
      BY <2>1 DEF AnswerSetting, SettingFields, None
    <3>2. Setting(form[a].of) \in Settings
      BY <3>1 DEF AccountsInv, Settings
    <3>3. QED
      BY <2>1, <3>2 DEF AnswerSetting
  <2>2. CASE OwnPrefix(h, a)
    BY <2>2 DEF OwnPrefix, Settings, SettingFields
  <2>3. QED
    BY <2>1, <2>2
<1> DEFINE e == Loaded(b, s, With(s, f), {f})
<1>2. PlainEdit(e) /\ e.to = s /\ e.new = With(s, f)
  BY LoadedIs
<1>3. SettingEdit(e)
  BY <1>2, WithIs DEF SettingEdit
<1>4. Load(h, b, s, With(s, f), {f}) /\ RowsKept
  BY <1>1 DEF SaveFields, RowsKept
<1>5. QED
  BY <1>1, <1>3, <1>4, AccountLoaded

\* Steps that change rows and decisions together and no handler.
LEMMA RowsChanged ==
    ASSUME AccountsInv, EditShape', DecisionsKept', NEW k \in Users \cup Settings,
           \A m \in Keys \ {k} : row'[m] = row[m],
           k \in Users => /\ row[k] \in UserRows /\ row'[k] \in UserRows
                          /\ row'[k].role = row[k].role /\ row'[k].blocked = row[k].blocked,
           k \in Settings => row'[k] \in SettingRows,
           UNCHANGED <<hand, offers, book, granted, excused>>,
           form' \in [Users -> [q : Questions \cup {None}, of : Users \cup {None}]],
           \A a \in Users : form'[a].q # None => form'[a].of \in Users
    PROVE  AccountsInv'
<1> USE DEF AccountsInv
<1>1. /\ \A u \in Users : u \in Keys /\ (u # k => row'[u] = row[u])
      /\ \A s \in Settings : s \in Keys /\ (s # k => row'[s] = row[s])
  BY AccountsAssumption
<1>2. AccountsTypeOK'
  BY <1>1 DEF AccountsKept, AccountsTypeOK
<1>3. \A u \in Users : row[u] # Absent => row'[u] # Absent
  BY <1>1, UserRowIs
<1>4. AccountHands'
  BY <1>3 DEF AccountHands, UserEdit, SettingEdit, PlainEdit, Transfer
<1>5. \A u \in Users : Exists(u)' => /\ Exists(u) /\ row'[u].role = row[u].role
                                     /\ row'[u].blocked = row[u].blocked
  BY <1>1, UserRowIs DEF Exists
<1>6. SuperGranted' /\ SuperNotBlocked'
  BY <1>5 DEF AccountsKept, SuperGranted, SuperNotBlocked
<1>7. QED
  BY <1>2, <1>4, <1>6 DEF AccountsKept

LEMMA SettingUpdated ==
    ASSUME AccountsInv, NEW a \in Users, NEW u \in Users, UpdateSetting(a, u)
    PROVE  AccountsInv'
<1> DEFINE s == Setting(u)
<1>1. PICK f \in SettingFields, v \in {"default", "set"} :
        LET new == [With(s, f) EXCEPT ![f] = v]
        IN  row' = [row EXCEPT ![s] = new] /\ said' = [said EXCEPT ![s] = new]
  BY DEF UpdateSetting
<1> DEFINE new == [With(s, f) EXCEPT ![f] = v]
<1>2. s \in Settings /\ s \in Keys /\ s \notin Users
  BY AccountsAssumption DEF Settings
<1>3. new \in SettingRows
  BY <1>2, WithIs
<1> HIDE DEF new, s
<1>4. row' = [row EXCEPT ![s] = new] /\ said' = [said EXCEPT ![s] = new]
  BY <1>1 DEF new
<1>5. row'[s] = new /\ \A m \in Keys \ {s} : row'[m] = row[m]
  BY <1>2, <1>4 DEF AccountsInv, EditShape
<1>6. EditShape' /\ DecisionsKept'
  BY <1>4 DEF AccountsInv, EditShape, AccountsKept, DecisionsKept, UpdateSetting, accountVars
<1>7. UNCHANGED <<hand, accountVars>>
  BY DEF UpdateSetting
<1>8. QED
  BY <1>2, <1>3, <1>5, <1>6, <1>7, RowsChanged
     DEF accountVars, AccountsInv, AccountsKept, AccountsTypeOK

LEMMA ColumnAnswered ==
    ASSUME AccountsInv, NEW a \in Users, AnswerColumn(a)
    PROVE  AccountsInv'
<1> DEFINE u == form[a].of
           r == row[u]
<1>1. u \in Users /\ Exists(u)
  BY DEF AnswerColumn, AccountsInv, None
<1>2. u \in Keys /\ r \in UserRows
  BY <1>1, UserThere
<1>3. PICK new, cols : Update(u, new, cols) /\ new \in UserRows /\ cols \in {{"cap"}, {"alias"}}
  <2>1. \A n \in Caps : [r EXCEPT !.cap = n] \in UserRows
    <3>1. \A n \in Nat : [r EXCEPT !.cap = n] \in UserRows
      BY <1>2 DEF UserRows
    <3>2. QED
      BY <3>1, AccountsAssumption
  <2>2. [r EXCEPT !.alias = "some"] \in UserRows
    BY <1>2 DEF UserRows
  <2>3. QED
    BY <2>1, <2>2 DEF AnswerColumn
<1>4. UNCHANGED <<hand, raced, offers, book, granted, excused>>
  BY DEF AnswerColumn
<1>5. /\ DecisionsKept' /\ EditShape'
      /\ row'[u] = Merge(r, new, cols) /\ \A m \in Keys \ {u} : row'[m] = row[m]
  BY <1>2, <1>3, <1>4, UpdateKeeps DEF AccountsInv, AccountsKept, EditShape
<1>6. row'[u] \in UserRows /\ row'[u].role = r.role /\ row'[u].blocked = r.blocked
  BY <1>2, <1>3, <1>5, MergeUsers
<1>7. u \notin Settings
  BY <1>1, AccountsAssumption
<1>8. /\ form' \in [Users -> [q : Questions \cup {None}, of : Users \cup {None}]]
      /\ \A b \in Users : form'[b].q # None => form'[b].of \in Users
  BY DEF AnswerColumn, AccountsInv, AccountsKept, AccountsTypeOK, NoForm
<1>9. QED
  BY <1>1, <1>2, <1>4, <1>5, <1>6, <1>7, <1>8, RowsChanged

\* Steps that leave rows and written work alone.
LEMMA RowsLeft ==
    ASSUME AccountsInv, UNCHANGED <<row, said, raced, granted, excused>>,
           hand' = [g \in Hands |-> hand'[g]],
           \A g \in Hands : hand'[g] = hand[g] \/ hand'[g] = Idle \/ Transfer(hand'[g]),
           offers' \subseteq Users \X Users \X Amounts,
           book' \in Seq([user : Users, amount : Int]),
           form' \in [Users -> [q : Questions \cup {None}, of : Users \cup {None}]],
           \A a \in Users : form'[a].q # None => form'[a].of \in Users
    PROVE  AccountsInv'
<1> USE DEF AccountsInv
<1>1. EditShape' /\ DecisionsKept'
  BY RowsStay DEF AccountsKept, RowsKept
<1>2. AccountHands'
  BY DEF AccountHands, UserEdit, SettingEdit, PlainEdit, Transfer
<1>3. AccountsTypeOK' /\ SuperGranted' /\ SuperNotBlocked'
  BY DEF AccountsKept, AccountsTypeOK, SuperGranted, SuperNotBlocked, Exists
<1>4. QED
  BY <1>1, <1>2, <1>3 DEF AccountsKept

\* The money: entries of the ledger, transfers.
LEMMA MoneyKeeps ==
    ASSUME AccountsInv,
           \/ \E a \in Users, u \in Users : Charge(a, u) \/ Decharge(a, u) \/ AdjustBalance(a, u)
           \/ \E a \in Users : UndoTransaction(a) \/ UndoInvoice(a)
    PROVE  AccountsInv'
<1>1. UNCHANGED <<row, hand, said, raced, form, offers, granted, excused>>
  BY DEF Charge, Decharge, AdjustBalance, UndoTransaction, UndoInvoice, Undo, Adjust
<1>2. book' \in Seq([user : Users, amount : Int])
  <2>1. CASE \E a \in Users : UndoTransaction(a) \/ UndoInvoice(a)
    <3>1. PICK i \in DOMAIN book : book' = [book EXCEPT ![i].amount = 0]
      BY <2>1 DEF UndoTransaction, UndoInvoice, Undo
    <3>2. book[i] \in [user : Users, amount : Int]
      <4> DEFINE S == [user : Users, amount : Int]
      <4> HIDE DEF S
      <4>1. book \in Seq(S)
        BY DEF AccountsInv, AccountsKept, AccountsTypeOK, S
      <4>2. book[i] \in S
        BY <3>1, <4>1
      <4>3. QED
        BY <4>2 DEF S
    <3>3. [book[i] EXCEPT !.amount = 0] \in [user : Users, amount : Int]
      BY <3>2
    <3>4. QED
      BY <3>1, <3>3 DEF AccountsInv, AccountsKept, AccountsTypeOK
  <2>2. CASE \E a \in Users, u \in Users : Charge(a, u) \/ Decharge(a, u) \/ AdjustBalance(a, u)
    <3>1. PICK u \in Users, n \in Int : Enter(u, n)
      <4>1. \A n \in Amounts : n \in Int /\ -n \in Int
        BY AccountsAssumption
      <4>2. QED
        BY <2>2, <4>1 DEF Charge, Decharge, AdjustBalance
    <3>2. QED
      BY <3>1 DEF Enter, AccountsInv, AccountsKept, AccountsTypeOK
  <2>3. QED
    BY <2>1, <2>2
<1>3. QED
  BY <1>1, <1>2, RowsLeft DEF AccountsInv, EditShape, AccountsKept, AccountsTypeOK

LEMMA FormsKeep ==
    ASSUME AccountsInv,
           \/ \E a \in Users, u \in Users : AdminAsks(a, u) \/ ResellerAsks(a, u)
           \/ \E a \in Users : LeaveForm(a) \/ ChargeAmount(a)
    PROVE  AccountsInv'
<1>1. UNCHANGED <<row, hand, said, raced, book, granted, excused>>
  BY DEF AdminAsks, ResellerAsks, AskAs, LeaveForm, ChargeAmount, rowVars
<1>2. CASE \E a \in Users : ChargeAmount(a)
  <2>1. PICK a \in Users : ChargeAmount(a)
    BY <1>2
  <2>2. form[a].of \in Users
    BY <2>1 DEF ChargeAmount, AccountsInv, None
  <2>3. form' = form /\ offers' \subseteq Users \X Users \X Amounts
    BY <2>1, <2>2 DEF ChargeAmount, AccountsInv, AccountsKept, AccountsTypeOK
  <2>4. QED
    BY <1>1, <2>3, RowsLeft DEF AccountsInv, EditShape, AccountsKept, AccountsTypeOK
<1>3. CASE \/ \E a \in Users, u \in Users : AdminAsks(a, u) \/ ResellerAsks(a, u)
           \/ \E a \in Users : LeaveForm(a)
  <2>1. offers' = offers
    BY <1>3 DEF AdminAsks, ResellerAsks, AskAs, LeaveForm
  <2>2. PICK a \in Users, q \in Questions \cup {None}, u \in Users \cup {None} :
            /\ q # None => u \in Users
            /\ form' = [form EXCEPT ![a] = [q |-> q, of |-> u]]
    BY <1>3 DEF AdminAsks, ResellerAsks, AskAs, LeaveForm, NoForm, Questions
  <2>3. /\ form' \in [Users -> [q : Questions \cup {None}, of : Users \cup {None}]]
        /\ \A b \in Users : form'[b].q # None => form'[b].of \in Users
    BY <2>2 DEF AccountsInv, AccountsKept, AccountsTypeOK
  <2>4. QED
    BY <1>1, <2>1, <2>3, RowsLeft DEF AccountsInv, EditShape, AccountsKept, AccountsTypeOK
<1>4. QED
  BY <1>2, <1>3

LEMMA TransfersKeep ==
    ASSUME AccountsInv, NEW h \in Hands,
           (\E m \in offers : ChargeByParent(h, m)) \/ CommitTransfer(h)
    PROVE  AccountsInv'
<1>1. UNCHANGED <<row, said, raced, form, offers, granted, excused>>
  BY DEF ChargeByParent, CommitTransfer
<1>2. CASE \E m \in offers : ChargeByParent(h, m)
  <2>1. PICK m \in Users \X Users \X Amounts : ChargeByParent(h, m)
    BY <1>2 DEF AccountsInv, AccountsKept, AccountsTypeOK
  <2>2. hand' = [hand EXCEPT ![h] = [move |-> m]] /\ book' = book
    BY <2>1 DEF ChargeByParent
  <2>3. Transfer([move |-> m])
    BY DEF Transfer
  <2>4. QED
    BY <1>1, <2>2, <2>3, RowsLeft DEF AccountsInv, EditShape, AccountsKept, AccountsTypeOK
<1>3. CASE CommitTransfer(h)
  <2>1. Transfer(hand[h])
    BY <1>3, IdleIs DEF CommitTransfer, AccountsInv, AccountHands, UserEdit, SettingEdit
  <2>2. hand' = [hand EXCEPT ![h] = Idle]
    BY <1>3 DEF CommitTransfer
  <2> DEFINE m == hand[h].move
  <2>3. m[1] \in Users /\ m[2] \in Users /\ m[3] \in Int /\ -m[3] \in Int
    <3>1. m[1] \in Users /\ m[2] \in Users /\ m[3] \in Amounts
      <4>1. m \in Users \X Users \X Amounts
        BY <2>1 DEF Transfer
      <4>2. QED
        BY <4>1, Zenon
    <3>2. \A n \in Amounts : n \in Int /\ -n \in Int
      BY AccountsAssumption
    <3>3. QED
      BY <3>1, <3>2
  <2>4. book' = book \o <<[user |-> m[1], amount |-> -m[3]], [user |-> m[2], amount |-> m[3]]>>
    BY <1>3 DEF CommitTransfer
  <2> HIDE DEF m
  <2>5. <<[user |-> m[1], amount |-> -m[3]], [user |-> m[2], amount |-> m[3]]>>
          \in Seq([user : Users, amount : Int])
    BY <2>3
  <2>6. book' \in Seq([user : Users, amount : Int])
    BY <2>4, <2>5 DEF AccountsInv, AccountsKept, AccountsTypeOK
  <2>7. QED
    BY <1>1, <2>2, <2>6, RowsLeft DEF AccountsInv, EditShape, AccountsKept, AccountsTypeOK
<1>4. QED
  BY <1>2, <1>3

LEMMA AccountsStart ==
    ASSUME EditsInit([k \in Keys |-> IF k \in Users THEN FirstUsers[k] ELSE Absent]), AccountsInit
    PROVE  AccountsInv
<1>1. EditShape /\ DecisionsKept /\ AccountHands
  BY DEF EditsInit, EditShape, DecisionsKept, AccountHands
<1>2. /\ \A u \in Users : row[u] = FirstUsers[u]
      /\ \A s \in Settings : row[s] = Absent
  BY AccountsAssumption DEF EditsInit
<1>3. AccountsTypeOK
  BY <1>2, AccountsAssumption DEF AccountsInit, AccountsTypeOK, NoForm
<1>4. SuperGranted /\ SuperNotBlocked
  BY <1>2, AccountsAssumption DEF SuperGranted, SuperNotBlocked, Exists
<1>5. QED
  BY <1>1, <1>3, <1>4 DEF AccountsInv, AccountsKept, AccountsInit, NoForm

LEMMA AccountsNextKeeps ==
    ASSUME AccountsInv, [AccountsNext]_<<rowVars, accountVars>>
    PROVE  AccountsInv'
<1>1. CASE AccountsNext
  BY <1>1, GreetKeeps, OwnMessagesKeep, SettingAnswered, PressKeeps, PanelKeeps, MoneyKeeps,
     SettingUpdated, FormsKeep, ColumnAnswered, TransfersKeep, AccountWritten
     DEF AccountsNext
<1>2. CASE UNCHANGED <<rowVars, accountVars>>
  BY <1>2, RowsLeft DEF rowVars, accountVars, AccountsInv, EditShape, AccountsKept, AccountsTypeOK
<1>3. QED
  BY <1>1, <1>2

\* Whatever users, staff and resellers do at the same time: no edit of an account undoes
\* another unless it wrote a whole old copy, no super user is blocked and nobody becomes one
\* whom neither .env nor a super user made one, but for the named cases.
THEOREM AlwaysAccountsKept == AccountsSpec => []AccountsKept
<1>1. AccountsInv => AccountsKept
  BY DEF AccountsInv
<1>2. AccountsInv /\ [AccountsNext]_<<rowVars, accountVars>> => AccountsInv'
  BY AccountsNextKeeps
<1>3. QED
  BY <1>1, <1>2, AccountsStart, PTL DEF AccountsSpec

-----------------------------------------------------------------------------
(* The sum of the ledger *)

\* The function by which Credit adds up.
Adds(sum, g, N) ==
    /\ sum = [n \in 0..N |-> sum[n]]
    /\ sum[0] = 0
    /\ \A n \in 1..N : sum[n] = sum[n - 1] + g[n]

LEMMA AddsIs ==
    ASSUME NEW g, NEW N \in Nat, NEW sum
    PROVE  Adds(sum, g, N) <=> sum = [n \in 0..N |-> IF n = 0 THEN 0 ELSE sum[n - 1] + g[n]]
<1> DEFINE Value(n) == IF n = 0 THEN 0 ELSE sum[n - 1] + g[n]
<1>1. ASSUME Adds(sum, g, N) PROVE sum = [n \in 0..N |-> Value(n)]
  <2>1. \A n \in 0..N : n # 0 => n \in 1..N
    OBVIOUS
  <2>2. \A n \in 0..N : sum[n] = Value(n)
    BY <1>1, <2>1 DEF Adds
  <2>3. QED
    BY <1>1, <2>2 DEF Adds
<1>2. ASSUME sum = [n \in 0..N |-> Value(n)] PROVE Adds(sum, g, N)
  <2>1. \A n \in 0..N : sum[n] = Value(n)
    BY <1>2
  <2>2. sum = [n \in 0..N |-> sum[n]]
    BY <1>2
  <2>3. sum[0] = 0
    BY <2>1
  <2>4. \A n \in 1..N : sum[n] = sum[n - 1] + g[n]
    BY <2>1
  <2>5. QED
    BY <2>2, <2>3, <2>4 DEF Adds
<1>3. QED
  BY <1>1, <1>2

LEMMA AddsExists ==
    ASSUME NEW g, NEW N \in Nat
    PROVE  \E sum : Adds(sum, g, N)
<1> DEFINE S == {k \in Nat : \E sum : Adds(sum, g, k)}
<1>1. 0 \in S
  <2>1. Adds([n \in 0..0 |-> 0], g, 0)
    BY DEF Adds
  <2>2. QED
    BY <2>1
<1>2. ASSUME NEW k \in 1..N, k - 1 \in S PROVE k \in S
  <2>1. PICK sum : Adds(sum, g, k - 1)
    BY <1>2
  <2> DEFINE f == [n \in 0..k |-> IF n = k THEN sum[k - 1] + g[k] ELSE sum[n]]
  <2>2. f = [n \in 0..k |-> f[n]] /\ f[0] = 0
    <3>1. 0 \in 0..k /\ 0 # k
      OBVIOUS
    <3>2. sum[0] = 0
      BY <2>1 DEF Adds
    <3>3. QED
      BY <3>1, <3>2
  <2>3. ASSUME NEW n \in 1..k PROVE f[n] = f[n - 1] + g[n]
    <3>1. n - 1 \in 0..(k - 1) /\ n - 1 # k /\ n - 1 \in 0..k /\ n \in 0..k
      OBVIOUS
    <3>2. f[n - 1] = sum[n - 1]
      BY <3>1
    <3>3. CASE n = k
      BY <3>1, <3>2, <3>3
    <3>4. CASE n # k
      <4>1. n \in 1..(k - 1) /\ f[n] = sum[n]
        BY <3>1, <3>4
      <4>2. QED
        BY <2>1, <3>2, <4>1 DEF Adds
    <3>5. QED
      BY <3>3, <3>4
  <2>4. Adds(f, g, k)
    BY <2>2, <2>3 DEF Adds
  <2>5. QED
    BY <2>4
<1>3. QED
  <2> HIDE DEF S
  <2>1. 0..N \subseteq S
    BY <1>1, <1>2, StepsUp
  <2>2. QED
    BY <2>1 DEF S

LEMMA AddsIntegers ==
    ASSUME NEW g, NEW N \in Nat, NEW sum, Adds(sum, g, N), \A n \in 1..N : g[n] \in Int
    PROVE  \A n \in 0..N : sum[n] \in Int
<1> DEFINE S == {n \in 0..N : sum[n] \in Int}
<1>1. 0 \in S
  BY DEF Adds
<1>2. ASSUME NEW n \in 1..N, n - 1 \in S PROVE n \in S
  <2>1. sum[n] = sum[n - 1] + g[n]
    BY DEF Adds
  <2>2. sum[n - 1] \in Int
    BY <1>2
  <2>3. g[n] \in Int /\ n \in 0..N
    OBVIOUS
  <2>4. QED
    BY <2>1, <2>2, <2>3
<1>3. 0..N \subseteq S
  <2> HIDE DEF S
  <2>1. QED
    BY <1>1, <1>2, StepsUp
<1>4. QED
  BY <1>3

\* Two sums over numbers that differ at most at i.
LEMMA AddsDiffer ==
    ASSUME NEW N \in Nat, NEW M \in Nat, N =< M,
           NEW g, NEW sum, Adds(sum, g, N), \A n \in 1..N : g[n] \in Int,
           NEW f, NEW tot, Adds(tot, f, M), \A n \in 1..M : f[n] \in Int,
           NEW i \in Nat, \A n \in 1..N : n # i => f[n] = g[n]
    PROVE  tot[N] = sum[N] + IF i \in 1..N THEN f[i] - g[i] ELSE 0
<1> DEFINE Off(n) == IF i \in 1..n THEN f[i] - g[i] ELSE 0
           S == {n \in 0..N : tot[n] = sum[n] + Off(n)}
<1>1. /\ \A n \in 0..N : sum[n] \in Int
      /\ \A n \in 0..N : tot[n] \in Int
  <2>1. \A n \in 0..M : tot[n] \in Int
    BY AddsIntegers
  <2>2. \A n \in 0..N : n \in 0..M
    OBVIOUS
  <2>3. QED
    BY <2>1, <2>2, AddsIntegers
<1>2. 0 \in S
  BY DEF Adds
<1>3. ASSUME NEW n \in 1..N, n - 1 \in S PROVE n \in S
  <2>1. /\ sum[n] = sum[n - 1] + g[n] /\ tot[n] = tot[n - 1] + f[n]
        /\ sum[n - 1] \in Int /\ g[n] \in Int /\ f[n] \in Int
    <3>1. n \in 1..M /\ n - 1 \in 0..N
      OBVIOUS
    <3>2. QED
      BY <1>1, <3>1 DEF Adds
  <2>2. tot[n - 1] = sum[n - 1] + Off(n - 1)
    BY <1>3
  <2>3. CASE n = i
    <3>1. Off(n - 1) = 0 /\ Off(n) = f[n] - g[n]
      BY <2>3
    <3>2. QED
      BY <2>1, <2>2, <3>1
  <2>4. CASE n # i
    <3>1. Off(n - 1) = Off(n) /\ f[n] = g[n] /\ Off(n) \in Int
      BY <2>4
    <3>2. QED
      BY <2>1, <2>2, <3>1
  <2>5. QED
    BY <2>3, <2>4
<1>4. 0..N \subseteq S
  <2> HIDE DEF S
  <2>1. QED
    BY <1>2, <1>3, StepsUp
<1>5. QED
  BY <1>4

Entries == [user : Users, amount : Int]

\* Credit of any ledger.
CreditIn(entries, u) ==
    LET sum[n \in 0..Len(entries)] == IF n = 0 THEN 0 ELSE sum[n - 1] + Share(entries[n], u)
    IN  sum[Len(entries)]

LEMMA CreditNow == \A u : Credit(u) = CreditIn(book, u) /\ Credit(u)' = CreditIn(book', u)
  BY DEF Credit, CreditIn

Shares(entries, u) == [n \in 1..Len(entries) |-> Share(entries[n], u)]

LEMMA CreditInIs ==
    ASSUME NEW entries \in Seq(Entries), NEW u
    PROVE  /\ \E sum : /\ Adds(sum, Shares(entries, u), Len(entries))
                       /\ CreditIn(entries, u) = sum[Len(entries)]
           /\ \A n \in 1..Len(entries) : Shares(entries, u)[n] = Share(entries[n], u)
           /\ \A n \in 1..Len(entries) : Shares(entries, u)[n] \in Int
           /\ CreditIn(entries, u) \in Int
<1> DEFINE N == Len(entries)
           g == Shares(entries, u)
           P(sum) == sum = [n \in 0..N |-> IF n = 0 THEN 0 ELSE sum[n - 1] + Share(entries[n], u)]
           f == CHOOSE sum : P(sum)
<1>1. N \in Nat /\ \A n \in 1..N : entries[n] \in Entries
  BY Zenon, SMT
<1>2. \A n \in 1..N : g[n] = Share(entries[n], u) /\ g[n] \in Int
  BY <1>1 DEF Shares, Share, Entries
<1>3. ASSUME NEW sum PROVE P(sum) <=> Adds(sum, g, N)
  <2>1. [n \in 0..N |-> IF n = 0 THEN 0 ELSE sum[n - 1] + Share(entries[n], u)]
          = [n \in 0..N |-> IF n = 0 THEN 0 ELSE sum[n - 1] + g[n]]
    BY <1>1, <1>2
  <2> HIDE DEF g, N
  <2>2. QED
    BY <1>1, <2>1, AddsIs
<1>4. Adds(f, g, N)
  <2>1. \E sum : P(sum)
    BY <1>1, <1>3, AddsExists
  <2>2. P(f)
    BY <2>1
  <2>3. QED
    BY <1>3, <2>2
<1>5. CreditIn(entries, u) = f[N]
  BY DEF CreditIn
<1>6. f[N] \in Int
  <2> HIDE DEF f, g, N
  <2>1. QED
    BY <1>1, <1>2, <1>4, AddsIntegers
<1>7. QED
  BY <1>2, <1>4, <1>5, <1>6

\* A new entry adds to the credit of its user.
LEMMA CreditAppended ==
    ASSUME NEW entries \in Seq(Entries), NEW e \in Entries, NEW u
    PROVE  CreditIn(Append(entries, e), u) = CreditIn(entries, u) + Share(e, u)
<1> DEFINE more == Append(entries, e)
           N == Len(entries)
           g == Shares(entries, u)
           f == Shares(more, u)
<1>1. /\ more \in Seq(Entries) /\ N \in Nat /\ Len(more) = N + 1
      /\ \A n \in 1..N : more[n] = entries[n]
      /\ more[N + 1] = e
  OBVIOUS
<1>2. PICK sum : Adds(sum, g, N) /\ CreditIn(entries, u) = sum[N]
  BY CreditInIs
<1>3. PICK tot : Adds(tot, f, N + 1) /\ CreditIn(more, u) = tot[N + 1]
  <2> HIDE DEF more
  <2>1. QED
    BY <1>1, CreditInIs
<1>4. /\ \A n \in 1..N : g[n] = Share(entries[n], u) /\ g[n] \in Int
      /\ \A n \in 1..(N + 1) : f[n] = Share(more[n], u) /\ f[n] \in Int
  <2> HIDE DEF more
  <2>1. QED
    BY <1>1, CreditInIs
<1> HIDE DEF more, N, f, g
<1>5. \A n \in 1..N : f[n] = g[n]
  <2>1. \A n \in 1..N : n \in 1..(N + 1)
    BY <1>1
  <2>2. QED
    BY <1>1, <1>4, <2>1
<1>6. tot[N] = sum[N] + IF 0 \in 1..N THEN f[0] - g[0] ELSE 0
  <2>1. N + 1 \in Nat /\ N =< N + 1 /\ 0 \in Nat
    BY <1>1
  <2>2. QED
    BY <1>1, <1>2, <1>3, <1>4, <1>5, <2>1, AddsDiffer
<1>7. tot[N + 1] = tot[N] + f[N + 1] /\ f[N + 1] = Share(e, u)
  <2>1. N + 1 \in 1..(N + 1) /\ (N + 1) - 1 = N
    BY <1>1
  <2>2. tot[N + 1] = tot[(N + 1) - 1] + f[N + 1]
    BY <1>3, <2>1 DEF Adds
  <2>3. QED
    BY <1>1, <1>4, <2>1, <2>2
<1>8. tot[N] = sum[N]
  <2>1. 0 \notin 1..N
    BY <1>1
  <2>2. sum[N] \in Int
    BY <1>1, <1>2, CreditInIs DEF g, N
  <2>3. QED
    BY <1>6, <2>1, <2>2
<1>9. QED
  BY <1>2, <1>3, <1>7, <1>8 DEF more

\* An entry changed in its place adds what it is more than it was.
LEMMA CreditChanged ==
    ASSUME NEW entries \in Seq(Entries), NEW e \in Entries, NEW u, NEW i \in DOMAIN entries
    PROVE  CreditIn([entries EXCEPT ![i] = e], u)
              = CreditIn(entries, u) + (Share(e, u) - Share(entries[i], u))
<1> DEFINE other == [entries EXCEPT ![i] = e]
           N == Len(entries)
           g == Shares(entries, u)
           f == Shares(other, u)
<1>1. /\ other \in Seq(Entries) /\ N \in Nat /\ Len(other) = N
      /\ i \in 1..N /\ i \in Nat
      /\ \A n \in 1..N : n # i => other[n] = entries[n]
      /\ other[i] = e
  OBVIOUS
<1>2. PICK sum : Adds(sum, g, N) /\ CreditIn(entries, u) = sum[N]
  BY CreditInIs
<1>3. PICK tot : Adds(tot, f, N) /\ CreditIn(other, u) = tot[N]
  <2> HIDE DEF other
  <2>1. QED
    BY <1>1, CreditInIs
<1>4. /\ \A n \in 1..N : g[n] = Share(entries[n], u) /\ g[n] \in Int
      /\ \A n \in 1..N : f[n] = Share(other[n], u) /\ f[n] \in Int
  <2> HIDE DEF other
  <2>1. QED
    BY <1>1, CreditInIs
<1> HIDE DEF other, N, f, g
<1>5. \A n \in 1..N : n # i => f[n] = g[n]
  BY <1>1, <1>4
<1>6. N =< N
  BY <1>1
<1>7. tot[N] = sum[N] + IF i \in 1..N THEN f[i] - g[i] ELSE 0
  <2>1. Adds(sum, g, N) /\ Adds(tot, f, N)
    BY <1>2, <1>3
  <2>2. (\A n \in 1..N : g[n] \in Int) /\ (\A n \in 1..N : f[n] \in Int)
    BY <1>4
  <2>3. N \in Nat /\ i \in Nat
    BY <1>1
  <2>4. QED
    BY <2>1, <2>2, <2>3, <1>5, <1>6, AddsDiffer
<1>8. f[i] = Share(e, u) /\ g[i] = Share(entries[i], u)
  BY <1>1, <1>4
<1>9. QED
  BY <1>1, <1>2, <1>3, <1>7, <1>8 DEF other

-----------------------------------------------------------------------------
(* What transfers leave *)

\* The credit and the allowance of a user.
Room(u) == Credit(u) + (IF Exists(u) THEN Allowance(row[u]) ELSE 0)

\* A transfer that is being made is covered and the only one of its reseller.
TransferOK(h) ==
    LET m == hand[h].move
    IN  m[1] \notin squeezed =>
           /\ Exists(m[1]) /\ m[3] =< Room(m[1])
           /\ \A g \in Hands \ {h} : ~Moves(g, m[1])
TransfersInv ==
    /\ \A u \in Users \ squeezed : Room(u) >= 0
    /\ \A h \in Hands : Transfer(hand[h]) => TransferOK(h)

LEMMA AllowanceIs == \A r \in UserRows : Allowance(r) \in Nat
  BY DEF Allowance, UserRows

RoomsOK ==
    /\ book \in Seq(Entries)
    /\ \A u \in Users : /\ row[u] \in UserRows \cup {Absent}
                        /\ Exists(u) <=> row[u] # Absent
                        /\ Credit(u) \in Int /\ Room(u) \in Int
                        /\ Room(u) = IF row[u] = Absent THEN Credit(u)
                                     ELSE Credit(u) + Allowance(row[u])
                        /\ row[u] # Absent => Allowance(row[u]) \in Nat

LEMMA RoomIs == AccountsInv => RoomsOK
<1> SUFFICES ASSUME AccountsInv PROVE RoomsOK
  OBVIOUS
<1>1. book \in Seq(Entries) /\ \A u \in Users : row[u] \in UserRows \cup {Absent}
  BY DEF AccountsInv, AccountsKept, AccountsTypeOK, Entries
<1>2. \A u \in Users : Credit(u) \in Int
  BY <1>1, CreditNow, CreditInIs
<1>3. \A u \in Users : Exists(u) <=> row[u] # Absent
  BY <1>1, UserRowIs DEF Exists, Absent, Gone
<1>4. \A u \in Users : row[u] # Absent => Allowance(row[u]) \in Nat
  BY <1>1, AllowanceIs
<1>5. QED
  BY <1>1, <1>2, <1>3, <1>4 DEF Room, RoomsOK

\* Steps that take no room from anybody unless they say so, and begin no transfer.
LEMMA RoomLeft ==
    ASSUME AccountsInv, AccountsInv', TransfersInv, squeezed \subseteq squeezed',
           \A u \in Users \ squeezed' : /\ Room(u)' >= Room(u)
                                        /\ row[u] # Absent => row'[u] # Absent,
           \A g \in Hands : "move" \in DOMAIN hand'[g] => hand'[g] = hand[g]
    PROVE  TransfersInv'
<1>1. \A u \in Users : (Exists(u) <=> row[u] # Absent) /\ Room(u) \in Int
  BY RoomIs DEF RoomsOK
<1>2. \A u \in Users : (Exists(u)' <=> row'[u] # Absent) /\ Room(u)' \in Int
  <2>1. RoomsOK'
    BY RoomIs, PTL
  <2>2. QED
    BY <2>1 DEF RoomsOK
<1>3. \A u \in Users \ squeezed' : Room(u)' >= 0
  BY <1>1, <1>2 DEF TransfersInv
<1>4. ASSUME NEW h \in Hands, Transfer(hand'[h]) PROVE TransferOK(h)'
  <2>1. hand'[h] = hand[h] /\ Transfer(hand[h])
    BY <1>4 DEF Transfer
  <2>2. PICK a \in Users, b \in Users, n \in Amounts : hand[h].move = <<a, b, n>>
    <3>1. hand[h].move \in Users \X Users \X Amounts
      BY <2>1 DEF Transfer
    <3>2. QED
      BY <3>1
  <2>3. SUFFICES ASSUME a \notin squeezed'
                 PROVE  /\ Exists(a)' /\ n =< Room(a)'
                        /\ \A g \in Hands \ {h} : ~Moves(g, a)'
    BY <2>1, <2>2 DEF TransferOK
  <2>4. Exists(a) /\ n =< Room(a) /\ \A g \in Hands \ {h} : ~Moves(g, a)
    BY <2>1, <2>2, <2>3 DEF TransfersInv, TransferOK
  <2>5. Exists(a)' /\ n =< Room(a)'
    <3>1. /\ row[a] # Absent /\ row'[a] # Absent /\ Room(a)' >= Room(a)
          /\ Room(a) \in Int /\ Room(a)' \in Int /\ Exists(a)'
      BY <1>1, <1>2, <2>2, <2>3, <2>4
    <3>2. n \in Int
      BY AccountsAssumption
    <3>3. QED
      BY <2>4, <3>1, <3>2
  <2>6. ASSUME NEW g \in Hands \ {h} PROVE ~Moves(g, a)'
    BY <2>1, <2>4, <2>6 DEF Moves
  <2>7. QED
    BY <2>5, <2>6
<1>5. QED
  BY <1>3, <1>4 DEF TransfersInv

LEMMA RoomQuiet ==
    ASSUME AccountsInv, AccountsInv', TransfersInv, UNCHANGED <<row, book, squeezed>>,
           \A g \in Hands : "move" \in DOMAIN hand'[g] => hand'[g] = hand[g]
    PROVE  TransfersInv'
<1>1. ASSUME NEW u \in Users PROVE Room(u)' = Room(u)
  BY CreditNow DEF Room, Exists
<1>2. \A u \in Users : Room(u) \in Int
  BY RoomIs DEF RoomsOK
<1>3. \A u \in Users \ squeezed' : Room(u)' >= Room(u) /\ (row[u] # Absent => row'[u] # Absent)
  BY <1>1, <1>2
<1>4. QED
  BY <1>3, RoomLeft

\* A handler that loads a row begins no transfer.
LEMMA LoadQuiet ==
    ASSUME AccountsInv, AccountsInv', TransfersInv, NEW h \in Hands,
           \E a, k, new, cols : Load(h, a, k, new, cols),
           UNCHANGED row, UNCHANGED accountVars
    PROVE  TransfersInv'
<1>1. PICK a, k, new, cols : Load(h, a, k, new, cols)
  OBVIOUS
<1>2. /\ hand'[h] = Loaded(a, k, new, cols)
      /\ \A g \in Hands \ {h} : hand'[g] = hand[g]
  BY <1>1, LoadEffect DEF AccountsInv
<1>3. "move" \notin DOMAIN hand'[h]
  BY <1>2 DEF Loaded
<1>4. \A g \in Hands : "move" \in DOMAIN hand'[g] => hand'[g] = hand[g]
  BY <1>2, <1>3
<1>5. QED
  BY <1>4, RoomQuiet DEF accountVars

LEMMA OwnRoom ==
    ASSUME AccountsInv, AccountsInv', TransfersInv, NEW h \in Hands, NEW u \in Users,
           \/ Greet(h, u) \/ ShareContact(h, u) \/ CheckForceJoin(h, u)
           \/ ParentReferredStart(h, u) \/ UserReferredStart(h, u)
           \/ AnswerSetting(h, u) \/ OwnPrefix(h, u)
    PROVE  TransfersInv'
<1>1. UNCHANGED row /\ UNCHANGED accountVars
  BY DEF Greet, ShareContact, CheckForceJoin, ParentReferredStart, UserReferredStart,
         AnswerSetting, OwnPrefix, Save, SaveFields
<1>2. \E a, k, new, cols : Load(h, a, k, new, cols)
  BY Zenon DEF Greet, ShareContact, CheckForceJoin, ParentReferredStart, UserReferredStart,
         AnswerSetting, OwnPrefix, Save, SaveFields
<1>3. QED
  BY <1>1, <1>2, LoadQuiet

LEMMA StaffRoom ==
    ASSUME AccountsInv, AccountsInv', TransfersInv, NEW h \in Hands, NEW a \in Users,
           NEW u \in Users,
           \/ Press(h, a, u) \/ SetUserBlocked(h, a, u)
           \/ UpdateUser(h, a, u) \/ PromoteReseller(h, a, u)
    PROVE  TransfersInv'
<1>1. UNCHANGED row /\ UNCHANGED accountVars
  <2>1. CASE Press(h, a, u)
    BY <2>1 DEF Press, CycleRole, SetRole, Block, Unblock, FlipAutoAccept, Postpaid, NoPostpaid,
                Verify, Unverify, Save
  <2>2. CASE SetUserBlocked(h, a, u) \/ UpdateUser(h, a, u) \/ PromoteReseller(h, a, u)
    BY <2>2 DEF SetUserBlocked, UpdateUser, PromoteReseller, Save, SaveFields
  <2>3. QED
    BY <2>1, <2>2
<1>2. \E b, k, new, cols : Load(h, b, k, new, cols)
  <2>1. CASE Press(h, a, u)
    BY <2>1, Zenon DEF Press, CycleRole, SetRole, Block, Unblock, FlipAutoAccept, Postpaid,
                       NoPostpaid, Verify, Unverify, Save
  <2>2. CASE SetUserBlocked(h, a, u) \/ UpdateUser(h, a, u) \/ PromoteReseller(h, a, u)
    BY <2>2, Zenon DEF SetUserBlocked, UpdateUser, PromoteReseller, Save, SaveFields
  <2>3. QED
    BY <2>1, <2>2
<1>3. QED
  BY <1>1, <1>2, LoadQuiet

LEMMA FormRoom ==
    ASSUME AccountsInv, AccountsInv', TransfersInv,
           \/ \E a \in Users, u \in Users : AdminAsks(a, u) \/ ResellerAsks(a, u)
           \/ \E a \in Users : LeaveForm(a) \/ ChargeAmount(a)
           \/ UNCHANGED <<rowVars, accountVars>>
    PROVE  TransfersInv'
<1>1. UNCHANGED <<row, book, squeezed, hand>>
  BY DEF AdminAsks, ResellerAsks, AskAs, LeaveForm, ChargeAmount, rowVars, accountVars
<1>2. QED
  BY <1>1, RoomQuiet

\* Columns of a row changed at once.
LEMMA ColumnRoom ==
    ASSUME AccountsInv, AccountsInv', TransfersInv,
           \/ \E a \in Users, u \in Users : UpdateSetting(a, u)
           \/ \E a \in Users : AnswerColumn(a)
    PROVE  TransfersInv'
<1>1. UNCHANGED <<book, hand>> /\ squeezed \subseteq squeezed'
  BY DEF UpdateSetting, AnswerColumn, accountVars
<1>2. RoomsOK /\ RoomsOK'
  BY RoomIs, PTL
<1>3. ASSUME NEW u \in Users \ squeezed'
      PROVE  Room(u)' >= Room(u) /\ (row[u] # Absent => row'[u] # Absent)
  <2>1. Credit(u)' = Credit(u)
    BY <1>1, CreditNow
  <2>2. CASE row'[u] = row[u]
    BY <1>2, <2>1, <2>2 DEF RoomsOK
  <2>3. CASE row'[u] # row[u]
    <3>1. PICK a \in Users : AnswerColumn(a) /\ u = form[a].of
      <4>1. ASSUME NEW a \in Users, NEW v \in Users, UpdateSetting(a, v) PROVE FALSE
        <5>1. Setting(v) # u /\ u \in Keys
          BY AccountsAssumption DEF Settings
        <5>2. row'[u] = row[u]
          BY <4>1, <5>1 DEF UpdateSetting, AccountsInv, EditShape
        <5>3. QED
          BY <2>3, <5>2
      <4>2. PICK a \in Users : AnswerColumn(a)
        BY <4>1
      <4>3. \A k \in Keys \ {form[a].of} : row'[k] = row[k]
        BY <4>2 DEF AnswerColumn, Update, AccountsInv, EditShape
      <4>4. QED
        BY <2>3, <4>2, <4>3, AccountsAssumption
    <3>2. row[u] # Absent /\ row'[u] # Absent /\ ~(Allowance(row'[u]) < Allowance(row[u]))
      <4>1. Exists(u) /\ squeezed' = squeezed \cup Squeeze(u, row[u], row'[u])
        BY <3>1 DEF AnswerColumn
      <4>2. row[u] # Absent
        BY <4>1 DEF Exists
      <4>3. row'[u] # Absent
        <5>1. row[u] \in UserRows /\ u \in Keys
          BY <1>2, <4>2, AccountsAssumption DEF RoomsOK
        <5>2. PICK new, cols : Update(u, new, cols) /\ DOMAIN new = UserFields
          <6>1. /\ \A n : DOMAIN [row[u] EXCEPT !.cap = n] = UserFields
                /\ DOMAIN [row[u] EXCEPT !.alias = "some"] = UserFields
            BY <5>1 DEF UserRows, UserFields
          <6>2. QED
            BY <3>1, <6>1 DEF AnswerColumn
        <5>3. row'[u] = Merge(row[u], new, cols)
          BY <5>1, <5>2 DEF Update, AccountsInv, EditShape
        <5>4. DOMAIN row'[u] = UserFields
          BY <5>2, <5>3 DEF Merge
        <5>5. QED
          BY <5>4 DEF UserFields, Absent
      <4>4. QED
        BY <1>3, <4>1, <4>2, <4>3 DEF Squeeze
    <3>3. QED
      BY <1>2, <2>1, <3>2 DEF RoomsOK
  <2>4. QED
    BY <2>2, <2>3
<1>4. QED
  BY <1>1, <1>3, RoomLeft

\* Entries of the ledger: who loses by one is named.
LEMMA MoneyRoom ==
    ASSUME AccountsInv, AccountsInv', TransfersInv,
           \/ \E a \in Users, u \in Users : Charge(a, u) \/ Decharge(a, u) \/ AdjustBalance(a, u)
           \/ \E a \in Users : UndoTransaction(a) \/ UndoInvoice(a)
    PROVE  TransfersInv'
<1>1. UNCHANGED <<row, hand>>
  BY DEF Charge, Decharge, AdjustBalance, UndoTransaction, UndoInvoice, Undo, Adjust
<1>2. RoomsOK /\ RoomsOK'
  BY RoomIs, PTL
<1>3. /\ squeezed \subseteq squeezed'
      /\ \A u \in Users \ squeezed' : Credit(u)' >= Credit(u)
  <2>1. CASE \E a \in Users : UndoTransaction(a) \/ UndoInvoice(a)
    <3>1. PICK i \in DOMAIN book :
             /\ book' = [book EXCEPT ![i].amount = 0]
             /\ squeezed' = IF book[i].amount > 0 THEN squeezed \cup {book[i].user} ELSE squeezed
      BY <2>1 DEF UndoTransaction, UndoInvoice, Undo
    <3> DEFINE e == [book[i] EXCEPT !.amount = 0]
    <3>2. book[i] \in Entries
      <4> HIDE DEF Entries
      <4>1. book \in Seq(Entries)
        BY <1>2 DEF RoomsOK
      <4>2. QED
        BY <3>1, <4>1
    <3>3. e \in Entries /\ e.user = book[i].user /\ e.amount = 0 /\ book[i].amount \in Int
      BY <3>2 DEF Entries
    <3>4. book' = [book EXCEPT ![i] = e]
      BY <3>1
    <3>5. ASSUME NEW u \in Users \ squeezed' PROVE Credit(u)' >= Credit(u)
      <4>1. Credit(u)' = Credit(u) + (Share(e, u) - Share(book[i], u))
        <5> HIDE DEF e
        <5>1. book \in Seq(Entries)
          BY <1>2 DEF RoomsOK
        <5>2. CreditIn([book EXCEPT ![i] = e], u)
                 = CreditIn(book, u) + (Share(e, u) - Share(book[i], u))
          BY <3>1, <3>3, <5>1, CreditChanged
        <5>3. QED
          BY <3>4, <5>2, CreditNow
      <4>2. Share(e, u) = 0
        BY <3>3 DEF Share
      <4>3. Share(book[i], u) \in Int /\ Share(book[i], u) =< 0
        BY <3>1, <3>3, <3>5 DEF Share
      <4>4. Credit(u) \in Int /\ Credit(u)' \in Int
        BY <1>2 DEF RoomsOK
      <4>5. QED
        BY <4>1, <4>2, <4>3, <4>4
    <3>6. QED
      BY <3>1, <3>5
  <2>2. CASE \E a \in Users, u \in Users : Charge(a, u) \/ Decharge(a, u) \/ AdjustBalance(a, u)
    <3>1. PICK v \in Users, n \in Int : Enter(v, n)
      <4>1. \A n \in Amounts : n \in Int /\ -n \in Int
        BY AccountsAssumption
      <4>2. QED
        BY <2>2, <4>1 DEF Charge, Decharge, AdjustBalance
    <3> DEFINE e == [user |-> v, amount |-> n]
    <3>2. e \in Entries /\ book' = Append(book, e)
      BY <3>1 DEF Entries, Enter
    <3>3. squeezed' = IF n < 0 THEN squeezed \cup {v} ELSE squeezed
      BY <3>1 DEF Enter
    <3>4. ASSUME NEW u \in Users \ squeezed' PROVE Credit(u)' >= Credit(u)
      <4>1. Credit(u)' = Credit(u) + Share(e, u)
        BY <1>2, <3>2, CreditNow, CreditAppended DEF RoomsOK
      <4>2. Share(e, u) \in Int /\ Share(e, u) >= 0
        BY <3>3, <3>4 DEF Share
      <4>3. Credit(u) \in Int /\ Credit(u)' \in Int
        BY <1>2 DEF RoomsOK
      <4>4. QED
        BY <4>1, <4>2, <4>3
    <3>5. QED
      BY <3>3, <3>4
  <2>3. QED
    BY <2>1, <2>2
<1>4. \A u \in Users \ squeezed' : Room(u)' >= Room(u) /\ (row[u] # Absent => row'[u] # Absent)
  BY <1>1, <1>2, <1>3 DEF RoomsOK
<1>5. QED
  BY <1>1, <1>3, <1>4, RoomLeft

\* The write of a row: whose allowance it lowers is named.
LEMMA WrittenRoom ==
    ASSUME AccountsInv, AccountsInv', TransfersInv, NEW h \in Hands, WriteAccount(h)
    PROVE  TransfersInv'
<1> DEFINE e == hand[h]
           t == e.to
<1>1. RoomsOK /\ RoomsOK'
  BY RoomIs, PTL
<1>2. UserEdit(e) \/ SettingEdit(e)
  BY IdleIs DEF WriteAccount, Write, Writing, AccountsInv, AccountHands, Transfer, Idle
<1>3. /\ \A k \in Keys \ {t} : row'[k] = row[k]
      /\ \A g \in Hands \ {h} : hand'[g] = hand[g]
      /\ hand'[h] = Idle /\ "move" \notin DOMAIN hand'[h]
  <2>1. PlainEdit(e) /\ EditShape /\ Write(h)
    BY <1>2 DEF UserEdit, SettingEdit, AccountsInv, WriteAccount
  <2>2. QED
    BY <2>1, WriteEffect, IdleIs
<1>4. book' = book /\ squeezed \subseteq squeezed'
  BY DEF WriteAccount
<1>5. ASSUME NEW u \in Users \ squeezed'
      PROVE  Room(u)' >= Room(u) /\ (row[u] # Absent => row'[u] # Absent)
  <2>1. Credit(u)' = Credit(u) /\ u \in Keys
    BY <1>4, CreditNow, AccountsAssumption
  <2>2. CASE row'[u] = row[u]
    BY <1>1, <2>1, <2>2 DEF RoomsOK
  <2>3. CASE row'[u] # row[u]
    <3>1. u = t /\ UserEdit(e)
      BY <1>2, <1>3, <2>1, <2>3, AccountsAssumption DEF SettingEdit
    <3>2. CASE row[u] = Absent
      BY <1>1, <2>1, <3>2 DEF RoomsOK
    <3>3. CASE row[u] # Absent
      <4>1. row'[u] # Absent
        BY <3>1, <3>3, UserWritten
      <4>2. e.seen # Absent
        <5>1. SUFFICES ASSUME e.seen = Absent PROVE row'[u] = row[u]
          BY <2>3
        <5>2. Fails(row[u], e)
          BY <3>3, <5>1 DEF Fails
        <5>3. row'[u] = Written(row[u], e)
          BY <2>1, <3>1, WriteEffect DEF WriteAccount, AccountsInv
        <5>4. QED
          BY <5>2, <5>3 DEF Written
      <4>3. squeezed' = squeezed \cup Squeeze(u, row[u], row'[u])
        BY <3>1, <3>3, <4>2 DEF WriteAccount
      <4>4. ~(Allowance(row'[u]) < Allowance(row[u]))
        BY <1>5, <3>3, <4>1, <4>3 DEF Squeeze
      <4>5. QED
        BY <1>1, <2>1, <3>3, <4>1, <4>4 DEF RoomsOK
    <3>4. QED
      BY <3>2, <3>3
  <2>4. QED
    BY <2>2, <2>3
<1>6. \A g \in Hands : "move" \in DOMAIN hand'[g] => hand'[g] = hand[g]
  BY <1>3
<1>7. QED
  BY <1>4, <1>5, <1>6, RoomLeft

\* A transfer that begins found the room for its amount.
LEMMA ChargeRoom ==
    ASSUME AccountsInv, AccountsInv', TransfersInv, NEW h \in Hands, NEW m \in offers,
           ChargeByParent(h, m)
    PROVE  TransfersInv'
<1>1. PICK a \in Users, b \in Users, n \in Amounts : m = <<a, b, n>>
  BY DEF AccountsInv, AccountsKept, AccountsTypeOK
<1>2. /\ hand' = [hand EXCEPT ![h] = [move |-> m]] /\ row' = row /\ book' = book
      /\ hand[h] = Idle
      /\ squeezed' = IF \E g \in Hands : Moves(g, a) THEN squeezed \cup {a} ELSE squeezed
  BY <1>1 DEF ChargeByParent, Start
<1>3. Exists(a) /\ n =< Available(a, row[a])
  BY <1>1 DEF ChargeByParent, Manages, Super, Served
<1>4. /\ hand'[h] = [move |-> m]
      /\ \A g \in Hands \ {h} : hand'[g] = hand[g]
  BY <1>2 DEF AccountsInv, EditShape
<1>5. RoomsOK /\ \A u \in Users : Room(u)' = Room(u) /\ (Exists(u)' <=> Exists(u))
  BY <1>2, RoomIs, CreditNow DEF Room, Exists
<1>6. \A u \in Users \ squeezed' : Room(u)' >= 0
  BY <1>2, <1>5 DEF TransfersInv
<1>7. ASSUME NEW g \in Hands, Transfer(hand'[g]) PROVE TransferOK(g)'
  <2>1. CASE g = h
    <3>1. SUFFICES ASSUME a \notin squeezed'
                   PROVE  /\ Exists(a)' /\ n =< Room(a)'
                          /\ \A k \in Hands \ {h} : ~Moves(k, a)'
      BY <1>1, <1>4, <2>1 DEF TransferOK
    <3>2. \A k \in Hands : ~Moves(k, a)
      BY <1>2, <3>1
    <3>3. n =< Room(a)
      BY <1>3, <1>5 DEF RoomsOK, Available
    <3>4. \A k \in Hands \ {h} : ~Moves(k, a)'
      BY <1>4, <3>2 DEF Moves
    <3>5. QED
      BY <1>3, <1>5, <3>3, <3>4
  <2>2. CASE g # h
    <3>1. hand'[g] = hand[g] /\ Transfer(hand[g])
      BY <1>4, <1>7, <2>2 DEF Transfer
    <3>2. PICK c \in Users, d \in Users, k \in Amounts : hand[g].move = <<c, d, k>>
      <4>1. hand[g].move \in Users \X Users \X Amounts
        BY <3>1 DEF Transfer
      <4>2. QED
        BY <4>1
    <3>3. SUFFICES ASSUME c \notin squeezed'
                   PROVE  /\ Exists(c)' /\ k =< Room(c)'
                          /\ \A i \in Hands \ {g} : ~Moves(i, c)'
      BY <3>1, <3>2 DEF TransferOK
    <3>4. Exists(c) /\ k =< Room(c) /\ \A i \in Hands \ {g} : ~Moves(i, c)
      BY <1>2, <3>1, <3>2, <3>3 DEF TransfersInv, TransferOK
    <3>5. c # a
      <4>1. Moves(g, c)
        BY <3>1, <3>2 DEF Moves, Transfer
      <4>2. QED
        BY <1>2, <3>3, <4>1
    <3>6. ASSUME NEW i \in Hands \ {g} PROVE ~Moves(i, c)'
      <4>1. CASE i = h
        BY <1>1, <1>4, <3>5, <4>1 DEF Moves
      <4>2. CASE i # h
        BY <1>4, <3>4, <4>2 DEF Moves
      <4>3. QED
        BY <4>1, <4>2
    <3>7. QED
      BY <1>5, <3>4, <3>6
  <2>3. QED
    BY <2>1, <2>2
<1>8. QED
  BY <1>6, <1>7 DEF TransfersInv

\* A transfer that is entered takes what it was covered by.
LEMMA CommitRoom ==
    ASSUME AccountsInv, AccountsInv', TransfersInv, NEW h \in Hands, CommitTransfer(h)
    PROVE  TransfersInv'
<1>1. Transfer(hand[h])
  BY IdleIs DEF CommitTransfer, AccountsInv, AccountHands, UserEdit, SettingEdit
<1>2. PICK a \in Users, b \in Users, n \in Amounts : hand[h].move = <<a, b, n>>
  <2>1. hand[h].move \in Users \X Users \X Amounts
    BY <1>1 DEF Transfer
  <2>2. QED
    BY <2>1
<1>3. n \in Int /\ -n \in Int
  BY AccountsAssumption
<1> DEFINE out == [user |-> a, amount |-> -n]
           in == [user |-> b, amount |-> n]
<1>4. /\ row' = row /\ hand' = [hand EXCEPT ![h] = Idle]
      /\ book' = book \o <<out, in>>
      /\ squeezed' = IF n < 0 THEN squeezed \cup {b} ELSE squeezed
  BY <1>2 DEF CommitTransfer
<1>5. /\ hand'[h] = Idle /\ "move" \notin DOMAIN hand'[h]
      /\ \A g \in Hands \ {h} : hand'[g] = hand[g]
  BY <1>4, IdleIs DEF AccountsInv, EditShape
<1>6. RoomsOK /\ RoomsOK'
  BY RoomIs, PTL
<1>7. out \in Entries /\ in \in Entries
  BY <1>3 DEF Entries
<1>8. book' = Append(Append(book, out), in) /\ Append(book, out) \in Seq(Entries)
  <2>1. book \in Seq(Entries)
    BY <1>6 DEF RoomsOK
  <2> HIDE DEF out, in, Entries
  <2>2. QED
    BY <1>4, <1>7, <2>1
<1>9. ASSUME NEW u \in Users
      PROVE  Room(u)' = Room(u) + (IF u = a THEN -n ELSE 0) + (IF u = b THEN n ELSE 0)
  <2>1. Credit(u)' = Credit(u) + Share(out, u) + Share(in, u)
    <3> HIDE DEF out, in
    <3>1. book \in Seq(Entries)
      BY <1>6 DEF RoomsOK
    <3>2. /\ CreditIn(Append(book, out), u) = CreditIn(book, u) + Share(out, u)
          /\ CreditIn(book', u) = CreditIn(Append(book, out), u) + Share(in, u)
      BY <1>7, <1>8, <3>1, CreditAppended
    <3>3. QED
      BY <3>2, CreditNow
  <2>2. Share(out, u) = (IF u = a THEN -n ELSE 0) /\ Share(in, u) = (IF u = b THEN n ELSE 0)
    BY DEF Share
  <2> DEFINE allowed == IF row[u] = Absent THEN 0 ELSE Allowance(row[u])
  <2>3. Room(u) = Credit(u) + allowed /\ Credit(u) \in Int /\ allowed \in Int
    BY <1>6 DEF RoomsOK
  <2>4. Room(u)' = Credit(u)' + allowed /\ Credit(u)' \in Int
    BY <1>4, <1>6, <2>3 DEF RoomsOK
  <2> HIDE DEF allowed
  <2>5. QED
    BY <1>3, <2>1, <2>2, <2>3, <2>4
<1>10. a \notin squeezed => n =< Room(a) /\ \A g \in Hands \ {h} : ~Moves(g, a)
  BY <1>1, <1>2 DEF TransfersInv, TransferOK
<1>11. ASSUME NEW u \in Users \ squeezed' PROVE Room(u)' >= 0 /\ (u # a => Room(u)' >= Room(u))
  <2>1. u \notin squeezed /\ (u = b => n >= 0)
    BY <1>3, <1>4
  <2>2. Room(u) >= 0 /\ Room(u) \in Int /\ (u = a => n =< Room(u))
    BY <1>6, <1>10, <2>1 DEF TransfersInv, RoomsOK
  <2>3. QED
    BY <1>3, <1>9, <2>1, <2>2
<1>12. ASSUME NEW g \in Hands, Transfer(hand'[g]) PROVE TransferOK(g)'
  <2>1. g # h /\ hand'[g] = hand[g] /\ Transfer(hand[g])
    BY <1>5, <1>12 DEF Transfer
  <2>2. PICK c \in Users, d \in Users, k \in Amounts : hand[g].move = <<c, d, k>>
    <3>1. hand[g].move \in Users \X Users \X Amounts
      BY <2>1 DEF Transfer
    <3>2. QED
      BY <3>1
  <2>3. SUFFICES ASSUME c \notin squeezed'
                 PROVE  /\ Exists(c)' /\ k =< Room(c)'
                        /\ \A i \in Hands \ {g} : ~Moves(i, c)'
    BY <2>1, <2>2 DEF TransferOK
  <2>4. c \notin squeezed /\ Exists(c) /\ k =< Room(c) /\ \A i \in Hands \ {g} : ~Moves(i, c)
    BY <1>4, <2>1, <2>2, <2>3 DEF TransfersInv, TransferOK
  <2>5. c # a
    BY <1>1, <1>2, <2>1, <2>4 DEF Moves, Transfer
  <2>6. Exists(c)' /\ k =< Room(c)'
    <3>1. k \in Int /\ Room(c) \in Int /\ Room(c)' \in Int /\ Room(c)' >= Room(c)
      BY <1>6, <1>11, <2>3, <2>5, AccountsAssumption DEF RoomsOK
    <3>2. Exists(c)'
      BY <1>4, <2>4 DEF Exists
    <3>3. QED
      BY <2>4, <3>1, <3>2
  <2>7. ASSUME NEW i \in Hands \ {g} PROVE ~Moves(i, c)'
    BY <1>5, <2>4, <2>7 DEF Moves
  <2>8. QED
    BY <2>6, <2>7
<1>13. QED
  BY <1>11, <1>12 DEF TransfersInv

\* Nobody's credit is below his allowance, for any users, amounts and handlers, unless he was
\* in debt at the start, staff lowered it, his reseller transferred a negative amount, or two
\* transfers of his overlapped (TransfersCovered; charge_by_parent).
THEOREM AlwaysTransfersCovered == AccountsSpec => []TransfersCovered
<1>1. ASSUME EditsInit([k \in Keys |-> IF k \in Users THEN FirstUsers[k] ELSE Absent]),
             AccountsInit
      PROVE  AccountsInv /\ TransfersInv
  <2>1. AccountsInv
    BY <1>1, AccountsStart
  <2>2. \A u \in Users \ squeezed : Room(u) >= 0
    <3>1. \A u \in Users : Room(u) \in Int
      BY <2>1, RoomIs DEF RoomsOK
    <3>2. squeezed = {u \in Users : Room(u) < 0}
      BY <1>1 DEF AccountsInit, Room
    <3>3. QED
      BY <3>1, <3>2
  <2>3. \A h \in Hands : ~Transfer(hand[h])
    BY <1>1, IdleIs DEF EditsInit
  <2>4. QED
    BY <2>1, <2>2, <2>3 DEF TransfersInv
<1>2. ASSUME AccountsInv, TransfersInv, [AccountsNext]_<<rowVars, accountVars>>
      PROVE  AccountsInv' /\ TransfersInv'
  <2>1. AccountsInv'
    BY <1>2, AccountsNextKeeps
  <2>2. CASE AccountsNext
    BY <1>2, <2>1, <2>2, OwnRoom, StaffRoom, FormRoom, ColumnRoom, MoneyRoom, WrittenRoom,
       ChargeRoom, CommitRoom DEF AccountsNext
  <2>3. CASE UNCHANGED <<rowVars, accountVars>>
    BY <1>2, <2>1, <2>3, FormRoom
  <2>4. QED
    BY <1>2, <2>1, <2>2, <2>3
<1>3. AccountsInv /\ TransfersInv => TransfersCovered
  BY RoomIs DEF TransfersInv, TransfersCovered, RoomsOK, Available
<1>4. QED
  BY <1>1, <1>2, <1>3, PTL DEF AccountsSpec

-----------------------------------------------------------------------------
(* Discounts and menus *)

DiscountFields == {"active", "once", "channels", "used", "limit"}
MenuFields == {"audience", "channels", "text", "parent"}

\* What a handler may have in hand: an edit of a row that is there, which leaves the count of a
\* discount alone and gives a menu one audience, or two from the panel; a discount looked up for
\* a purchase; and services that it is going to link.
DiscountEdit(e) ==
    /\ PlainEdit(e) /\ e.to \in Discounts /\ e.seen \in DiscountRows /\ e.new \in DiscountRows
    /\ e.new.used = e.seen.used
    /\ e.cols = DiscountFields \/ e.cols = {"active"}
MenuEdit(e) ==
    /\ PlainEdit(e) /\ e.to \in Menus /\ e.seen \in MenuRows /\ e.new \in MenuRows
    /\ e.cols = MenuFields
    /\ e.to \in byPanel \/ e.new.audience # Audiences
Purchase(e) == DOMAIN e = {"use", "customer", "from"} /\ e.use \in Discounts
Relink(e) ==
    /\ DOMAIN e = {"relink", "ids", "customer"}
    /\ e.relink \in Discounts \cup Menus /\ e.ids \subseteq Services
CatalogHand(e) == e = Idle \/ DiscountEdit(e) \/ MenuEdit(e) \/ Purchase(e) \/ Relink(e)

\* The row that a handler has to do with was there when it began, and rows never disappear.
Concerns(h, k) ==
    \/ "to" \in DOMAIN hand[h] /\ hand[h].to = k
    \/ "use" \in DOMAIN hand[h] /\ hand[h].use = k
    \/ "relink" \in DOMAIN hand[h] /\ hand[h].relink = k
CatalogHands ==
    \A h \in Hands : /\ CatalogHand(hand[h])
                     /\ \A k \in Discounts \cup Menus : Concerns(h, k) => row[k] # Absent

\* A purchase in progress with a discount, and services about to be linked.
Redeeming(h, d) == "use" \in DOMAIN hand[h] /\ hand[h].use = d
Relinking(h, k) == "relink" \in DOMAIN hand[h] /\ hand[h].relink = k

\* A discount has a use left for the one purchase that is in progress with it.
UsesOK ==
    /\ uses \in [Discounts -> Nat]
    /\ \A d \in Discounts : row[d] = Absent => uses[d] = 0
    /\ UsesCounted
    /\ \A d \in Discounts \ (overused \cup raced), h \in Hands :
          Redeeming(h, d) /\ Exists(d) => row[d].limit = 0 \/ uses[d] < row[d].limit
    /\ \A d \in Discounts \ overused, g, h \in Hands :
          Redeeming(g, d) /\ Redeeming(h, d) => g = h

\* A discount is linked to some of the services it is for, to none of them only before its row
\* is linked or after they were deleted.
LinksOK ==
    /\ links \in [Discounts \cup Menus -> SUBSET Services]
    /\ chosen \in [Discounts \cup Menus -> SUBSET Services] /\ forSale \subseteq Services
    /\ \A k \in Discounts \cup Menus :
          /\ links[k] \subseteq forSale
          /\ ~Exists(k) => links[k] = {} /\ chosen[k] = {}
    /\ \A d \in Discounts : Exists(d) =>
          /\ links[d] \subseteq chosen[d]
          /\ d \notin widened /\ links[d] = {} => chosen[d] = {}
          /\ \A h \in Hands : Relinking(h, d) => hand[h].ids = chosen[d]

\* A menu whose services one handler is replacing has none meanwhile.
MenusOK ==
    /\ ListedAsChosen
    /\ \A m \in Menus \ relisted, h \in Hands : Relinking(h, m) =>
          /\ links[m] = {}
          /\ Exists(m) => hand[h].ids = chosen[m]
          /\ \A g \in Hands : Relinking(g, m) => g = h
    /\ \A m \in Menus \ byPanel : Exists(m) => row[m].audience # Audiences

Forms == {"none", "discount", "menu", "services", "text"}
Drafts == [form : Forms, on : Menus \cup {Root}, ids : SUBSET Services, shown : SUBSET Services]
DraftOK(c) == c.form = "services" => c.on \in Menus
DraftsOK == draft \in [Managers -> Drafts] /\ \A a \in Managers : DraftOK(draft[a])

RowsOK ==
    /\ \A d \in Discounts : row[d] \in DiscountRows \cup {Absent, Gone}
    /\ \A m \in Menus : row[m] \in MenuRows \cup {Absent, Gone}

CatalogInv ==
    /\ EditShape /\ DecisionsKept /\ RowsOK /\ CatalogHands
    /\ UsesOK /\ LinksOK /\ MenusOK /\ DraftsOK /\ stray = {}

\* The rows.
LEMMA DiscountRowIs ==
    ASSUME NEW r \in DiscountRows
    PROVE  /\ DOMAIN r = DiscountFields /\ r # Absent /\ r # Gone
           /\ r.used \in Nat /\ r.limit \in Nat
           /\ r = [f \in DOMAIN r |-> r[f]]
  BY DEF DiscountRows, DiscountFields, Absent, Gone

LEMMA MenuRowIs ==
    ASSUME NEW r \in MenuRows
    PROVE  /\ DOMAIN r = MenuFields /\ r # Absent /\ r # Gone /\ r.audience \subseteq Audiences
           /\ r = [f \in DOMAIN r |-> r[f]]
  BY DEF MenuRows, MenuFields, Absent, Gone

LEMMA MergeDiscounts ==
    ASSUME NEW r \in DiscountRows, NEW new \in DiscountRows, NEW cols
    PROVE  /\ Merge(r, new, cols) \in DiscountRows
           /\ Merge(r, new, cols).used = IF "used" \in cols THEN new.used ELSE r.used
           /\ Merge(r, new, cols).limit = IF "limit" \in cols THEN new.limit ELSE r.limit
<1>1. r # Absent /\ DOMAIN new = DiscountFields
  BY DiscountRowIs
<1>2. Merge(r, new, cols) = [f \in DiscountFields |-> IF f \in cols THEN new[f] ELSE r[f]]
  BY <1>1 DEF Merge
<1>3. QED
  BY <1>2 DEF DiscountRows, DiscountFields

LEMMA MergeMenus ==
    ASSUME NEW r \in MenuRows, NEW new \in MenuRows, NEW cols
    PROVE  /\ Merge(r, new, cols) \in MenuRows
           /\ Merge(r, new, cols).audience =
                 IF "audience" \in cols THEN new.audience ELSE r.audience
<1>1. r # Absent /\ DOMAIN new = MenuFields
  BY MenuRowIs
<1>2. Merge(r, new, cols) = [f \in MenuFields |-> IF f \in cols THEN new[f] ELSE r[f]]
  BY <1>1 DEF Merge
<1>3. QED
  BY <1>2 DEF MenuRows, MenuFields

\* A menu whose audience is not both has one at most.
LEMMA OneAudience ==
    ASSUME NEW A \in SUBSET Audiences, A # Audiences
    PROVE  Cardinality(A) =< 1
<1>1. A \in {{}, {"users"}, {"resellers"}}
  BY DEF Audiences
<1>2. Cardinality({}) = 0 /\ Cardinality({"users"}) = 1 /\ Cardinality({"resellers"}) = 1
  BY FS_EmptySet, FS_Singleton, Zenon
<1>3. QED
  BY <1>1, <1>2

LEMMA CatalogHandIs ==
    /\ DOMAIN Idle = {"idle"}
    /\ \A e : PlainEdit(e) => "to" \in DOMAIN e /\ DOMAIN e \cap {"use", "relink"} = {}
    /\ \A e : Purchase(e) => "use" \in DOMAIN e /\ DOMAIN e \cap {"to", "relink"} = {}
    /\ \A e : Relink(e) => "relink" \in DOMAIN e /\ DOMAIN e \cap {"to", "use"} = {}
  BY DEF Idle, PlainEdit, Entry, Purchase, Relink

\* The keys of the catalogue are rows, and no discount is a menu.
LEMMA CatalogKeys ==
    /\ \A d \in Discounts : d \in Keys /\ d \notin Menus
    /\ \A m \in Menus : m \in Keys /\ m \notin Discounts
  BY CatalogAssumption

\* What stays when the counts are left alone.
LEMMA UsesStay ==
    ASSUME UsesOK, uses' = uses, raced \subseteq raced', overused \subseteq overused',
           \A d \in Discounts : row'[d] = Absent => row[d] = Absent,
           \A d \in Discounts \ raced' : Exists(d)' =>
              /\ Exists(d) /\ row'[d].used = row[d].used
              /\ d \in overused' \/ row'[d].limit = row[d].limit,
           \A h \in Hands, d \in Discounts : Redeeming(h, d)' => Redeeming(h, d)
    PROVE  UsesOK'
<1>1. UsesCounted'
  BY DEF UsesOK, UsesCounted
<1>2. QED
  BY <1>1 DEF UsesOK

LEMMA LinksStay ==
    ASSUME LinksOK, MenusOK, UNCHANGED <<links, chosen, forSale, widened, relisted>>,
           byPanel \subseteq byPanel',
           \A k \in Discounts \cup Menus : Exists(k)' <=> Exists(k),
           \A m \in Menus \ byPanel' : Exists(m) =>
              row'[m].audience = row[m].audience \/ row'[m].audience # Audiences,
           \A h \in Hands, k \in Discounts \cup Menus :
              /\ Relinking(h, k)' <=> Relinking(h, k)
              /\ Relinking(h, k) => hand'[h].ids = hand[h].ids
    PROVE  LinksOK' /\ MenusOK'
<1>1. LinksOK'
  BY DEF LinksOK
<1>2. ListedAsChosen'
  BY DEF MenusOK, ListedAsChosen, Relinking
<1>3. QED
  BY <1>1, <1>2 DEF MenusOK

\* Conversations and codes change nothing that rows and handlers rest on.
LEMMA CatalogLeft ==
    ASSUME CatalogInv, DraftsOK',
           UNCHANGED <<row, hand, said, raced, links, forSale, catalogGhosts>>
    PROVE  CatalogInv'
<1> USE DEF CatalogInv
<1>1. UNCHANGED <<uses, chosen, overused, stray, widened, relisted, byPanel>>
  BY DEF catalogGhosts
<1>2. EditShape' /\ DecisionsKept' /\ RowsOK' /\ CatalogHands'
  BY <1>1 DEF EditShape, DecisionsKept, RowsOK, CatalogHands, CatalogHand, DiscountEdit, MenuEdit,
          Purchase, Relink, PlainEdit, Concerns
<1>3. UsesOK'
  BY <1>1, UsesStay DEF Exists, Redeeming
<1>4. LinksOK' /\ MenusOK'
  BY <1>1, LinksStay DEF Exists, Relinking
<1>5. QED
  BY <1>1, <1>2, <1>3, <1>4

LEMMA TalkKeeps ==
    ASSUME CatalogInv, NEW a \in Managers, NEW c \in Drafts, DraftOK(c), Talk(a, c)
    PROVE  CatalogInv'
<1>1. DraftsOK'
  BY DEF Talk, DraftsOK, CatalogInv, DraftOK
<1>2. UNCHANGED <<row, hand, said, raced, links, forSale, catalogGhosts>>
  BY DEF Talk, RowsKept
<1>3. QED
  BY <1>1, <1>2, CatalogLeft

LEMMA TalksKeep ==
    ASSUME CatalogInv, NEW a \in Managers,
           \/ AddDiscount(a) \/ ShowList(a)
           \/ \E m \in Menus : AddSubMenu(a, m) \/ EditMenuServices(a, m) \/ EditText(a, m)
           \/ \E s \in Services : SelectService(a, s)
    PROVE  CatalogInv'
<1> DEFINE c == draft[a]
<1>1. c \in Drafts /\ DraftOK(c)
  BY DEF CatalogInv, DraftsOK
<1>2. CASE ShowList(a)
  <2>1. NoDraft \in Drafts /\ DraftOK(NoDraft)
    BY DEF NoDraft, Drafts, DraftOK, Forms
  <2>2. QED
    BY <1>2, <2>1, TalkKeeps DEF ShowList
<1>3. CASE AddDiscount(a)
  <2> DEFINE d == [c EXCEPT !.form = "discount", !.shown = {}]
  <2>1. d \in Drafts /\ DraftOK(d)
    BY <1>1 DEF Drafts, DraftOK, Forms
  <2>2. QED
    BY <1>3, <2>1, TalkKeeps DEF AddDiscount
<1>4. CASE \E m \in Menus : AddSubMenu(a, m)
  <2>1. PICK m \in Menus : AddSubMenu(a, m)
    BY <1>4
  <2> DEFINE d == [c EXCEPT !.form = "menu", !.on = m, !.shown = {}]
  <2>2. d \in Drafts /\ DraftOK(d)
    BY <1>1 DEF Drafts, DraftOK, Forms
  <2>3. QED
    BY <2>1, <2>2, TalkKeeps DEF AddSubMenu
<1>5. CASE \E m \in Menus : EditText(a, m)
  <2>1. PICK m \in Menus : EditText(a, m)
    BY <1>5
  <2> DEFINE d == [c EXCEPT !.form = "text", !.on = m]
  <2>2. d \in Drafts /\ DraftOK(d)
    BY <1>1 DEF Drafts, DraftOK, Forms
  <2>3. QED
    BY <2>1, <2>2, TalkKeeps DEF EditText
<1>6. CASE \E m \in Menus : EditMenuServices(a, m)
  <2>1. PICK m \in Menus : EditMenuServices(a, m)
    BY <1>6
  <2> DEFINE d == [form |-> "services", on |-> m, ids |-> links[m], shown |-> links[m]]
  <2>2. links[m] \subseteq Services
    BY DEF CatalogInv, LinksOK
  <2>3. d \in Drafts /\ DraftOK(d)
    BY <2>2 DEF Drafts, DraftOK, Forms
  <2>4. QED
    BY <2>1, <2>3, TalkKeeps DEF EditMenuServices
<1>7. CASE \E s \in Services : SelectService(a, s)
  <2>1. PICK s \in Services : SelectService(a, s)
    BY <1>7
  <2> DEFINE ids == Toggle(c.ids, s)
             d == [c EXCEPT !.ids = ids, !.shown = ids]
  <2>2. c.ids \subseteq Services
    BY <1>1 DEF Drafts
  <2>3. ids \subseteq Services
    BY <2>2 DEF Toggle
  <2> HIDE DEF ids
  <2>4. d \in Drafts /\ DraftOK(d)
    BY <1>1, <2>3 DEF Drafts, DraftOK
  <2>5. Talk(a, d)
    BY <2>1 DEF SelectService, ids
  <2>6. QED
    BY <2>4, <2>5, TalkKeeps
<1>8. QED
  BY <1>2, <1>3, <1>4, <1>5, <1>6, <1>7

LEMMA RedeemKeeps ==
    ASSUME CatalogInv, NEW d \in Discounts, NEW c \in Customers, RedeemCode(d, c)
    PROVE  CatalogInv'
  BY CatalogLeft DEF RedeemCode, RowsKept, CatalogInv, DraftsOK, DraftOK

\* A handler that has loaded a row of the catalogue.
LEMMA CatalogLoaded ==
    ASSUME CatalogInv, NEW h \in Hands, NEW a, NEW k \in Discounts \cup Menus, NEW new, NEW cols,
           Exists(k), Load(h, a, k, new, cols), RowsKept,
           UNCHANGED <<links, forSale, draft, uses, chosen, overused, stray, widened, relisted>>,
           byPanel \subseteq byPanel',
           DiscountEdit(hand'[h]) \/ MenuEdit(hand[h])'
    PROVE  CatalogInv'
<1> USE DEF CatalogInv
<1> DEFINE e == Loaded(a, k, new, cols)
<1>1. /\ hand[h] = Idle /\ hand'[h] = e /\ hand' = [g \in Hands |-> hand'[g]]
      /\ \A g \in Hands \ {h} : hand'[g] = hand[g]
  BY LoadEffect
<1>2. PlainEdit(e) /\ e.to = k
  BY LoadedIs
<1>3. UNCHANGED <<row, said, raced>>
  BY DEF RowsKept
<1> HIDE DEF e
<1>4. EditShape' /\ DecisionsKept' /\ RowsOK' /\ DraftsOK'
  BY <1>1, <1>3 DEF EditShape, DecisionsKept, RowsOK, DraftsOK, DraftOK
<1>5. CatalogHands'
  <2>1. DiscountEdit(hand'[h]) => DiscountEdit(hand[h])'
    BY DEF DiscountEdit, PlainEdit
  <2>2. CatalogHand(hand[h])'
    BY <2>1 DEF CatalogHand
  <2>3. \A g \in Hands \ {h} : CatalogHand(hand[g])'
    BY <1>1 DEF CatalogHands, CatalogHand, DiscountEdit, MenuEdit, Purchase, Relink, PlainEdit
  <2>4. \A g \in Hands, j \in Discounts \cup Menus : Concerns(g, j)' => row'[j] # Absent
    BY <1>1, <1>2, <1>3, CatalogHandIs DEF Concerns, CatalogHands, Exists
  <2>5. QED
    BY <2>2, <2>3, <2>4 DEF CatalogHands
<1>6. \A j : \A g \in Hands :
         /\ Redeeming(g, j)' <=> Redeeming(g, j)
         /\ Relinking(g, j)' <=> Relinking(g, j)
         /\ Relinking(g, j) => hand'[g] = hand[g]
  BY <1>1, <1>2, CatalogHandIs DEF Redeeming, Relinking
<1>7. UsesOK'
  BY <1>3, <1>6, UsesStay DEF Exists
<1>8. LinksOK' /\ MenusOK'
  BY <1>3, <1>6, LinksStay DEF Exists
<1>9. QED
  BY <1>4, <1>5, <1>7, <1>8

LEMMA EditDiscountKeeps ==
    ASSUME CatalogInv, NEW h \in Hands, NEW d \in Discounts, EditDiscount(h, d)
    PROVE  CatalogInv'
<1> DEFINE r == row[d]
<1>1. r \in DiscountRows /\ Exists(d) /\ UNCHANGED catalogVars
  BY DEF EditDiscount, CatalogInv, RowsOK, Exists
<1>2. PICK a, new, cols : /\ Load(h, a, d, new, cols) /\ RowsKept
                          /\ new \in DiscountRows /\ new.used = r.used
                          /\ cols = DOMAIN new \/ cols = {"active"}
  <2>1. \A b \in BOOLEAN : /\ [r EXCEPT !.active = b] \in DiscountRows
                           /\ [r EXCEPT !.active = b].used = r.used
                           /\ [r EXCEPT !.once = b] \in DiscountRows
                           /\ [r EXCEPT !.once = b].used = r.used
    BY <1>1 DEF DiscountRows
  <2>2. \A n \in Limits : /\ [r EXCEPT !.limit = n] \in DiscountRows
                          /\ [r EXCEPT !.limit = n].used = r.used
    BY <1>1, CatalogAssumption DEF DiscountRows
  <2>3. \A x \in Channels : Toggle(r.channels, x) \in SUBSET Channels
    BY <1>1 DEF DiscountRows, Toggle
  <2>4. \A c \in SUBSET Channels : /\ [r EXCEPT !.channels = c] \in DiscountRows
                                   /\ [r EXCEPT !.channels = c].used = r.used
    BY <1>1 DEF DiscountRows
  <2>5. CASE FlipActive(h, d) \/ FlipOncePerUser(h, d)
    <3>1. (~r.active) \in BOOLEAN /\ (~r.once) \in BOOLEAN
      OBVIOUS
    <3>2. QED
      BY <2>1, <2>5, <3>1, Zenon DEF FlipActive, FlipOncePerUser, Save, RowsKept
  <2>6. CASE FlipOnPurchase(h, d) \/ FlipOnRenew(h, d)
    <3>1. "purchase" \in Channels /\ "renew" \in Channels
      BY DEF Channels
    <3>2. QED
      BY <2>3, <2>4, <2>6, <3>1, Zenon DEF FlipOnPurchase, FlipOnRenew, Save, RowsKept
  <2>7. CASE PanelSetsActive(h, d) \/ PanelSetsLimit(h, d)
    BY <2>1, <2>2, <2>7, Zenon DEF PanelSetsActive, PanelSetsLimit, Save, SaveFields, RowsKept
  <2>8. QED
    BY <2>5, <2>6, <2>7 DEF EditDiscount
<1> DEFINE e == Loaded(a, d, new, cols)
<1>3. PlainEdit(e) /\ e.to = d /\ e.seen = r /\ e.new = new /\ e.cols = cols
  BY LoadedIs
<1>4. DOMAIN new = DiscountFields
  BY <1>2, DiscountRowIs
<1>5. DiscountEdit(e)
  BY <1>1, <1>2, <1>3, <1>4 DEF DiscountEdit
<1>6. UNCHANGED <<links, forSale, draft, uses, chosen, overused, stray, widened, relisted, byPanel>>
  BY <1>1 DEF catalogVars, catalogGhosts
<1>7. Load(h, a, d, new, cols) /\ RowsKept
  BY <1>2
<1>8. hand'[h] = e
  BY <1>7, LoadEffect DEF CatalogInv
<1>9. QED
  BY <1>1, <1>5, <1>6, <1>7, <1>8, CatalogLoaded

\* A switch, and an audience, of a menu.
LEMMA AudienceToggled ==
    ASSUME NEW A \in SUBSET Audiences, NEW who \in Audiences
    PROVE  LET B == IF who \in A THEN A \ {who} ELSE {who}
           IN  B \in SUBSET Audiences /\ B # Audiences
  BY DEF Audiences

LEMMA EditMenuKeeps ==
    ASSUME CatalogInv, NEW h \in Hands, NEW m \in Menus, EditMenu(h, m) \/ PanelEditsMenu(h, m)
    PROVE  CatalogInv'
<1> DEFINE r == row[m]
<1>1. r \in MenuRows /\ Exists(m)
  BY DEF EditMenu, PanelEditsMenu, CatalogInv, RowsOK, Exists
<1>2. /\ UNCHANGED <<links, forSale, draft, uses, chosen, overused, stray, widened, relisted>>
      /\ byPanel \subseteq byPanel'
  BY DEF EditMenu, PanelEditsMenu, catalogVars, catalogGhosts
<1>3. m \in byPanel' \/ r.audience # Audiences
  BY <1>1, <1>2 DEF CatalogInv, MenusOK
<1>4. r.audience \in SUBSET Audiences /\ r.channels \in SUBSET Channels
  BY <1>1 DEF MenuRows
<1>5. PICK a, new : /\ Load(h, a, m, new, DOMAIN new) /\ RowsKept /\ new \in MenuRows
                    /\ m \in byPanel' \/ new.audience # Audiences
  <2>1. \A A \in SUBSET Audiences : /\ [r EXCEPT !.audience = A] \in MenuRows
                                    /\ [r EXCEPT !.audience = A].audience = A
    BY <1>1 DEF MenuRows
  <2>2. \A c \in SUBSET Channels : /\ [r EXCEPT !.channels = c] \in MenuRows
                                   /\ [r EXCEPT !.channels = c].audience = r.audience
    BY <1>1 DEF MenuRows
  <2>3. \A p \in Menus \cup {Root} : /\ [r EXCEPT !.parent = p] \in MenuRows
                                     /\ [r EXCEPT !.parent = p].audience = r.audience
    BY <1>1 DEF MenuRows
  <2>4. \A x \in Channels : Toggle(r.channels, x) \in SUBSET Channels
    BY <1>4 DEF Toggle
  <2>5. "purchase" \in Channels /\ "renew" \in Channels
    BY DEF Channels
  <2>6. \A who \in Audiences : ForOnly(r, who) \in MenuRows /\ ForOnly(r, who).audience # Audiences
    <3>1. SUFFICES ASSUME NEW who \in Audiences
                   PROVE  ForOnly(r, who) \in MenuRows /\ ForOnly(r, who).audience # Audiences
      OBVIOUS
    <3> DEFINE B == IF who \in r.audience THEN r.audience \ {who} ELSE {who}
    <3>2. B \in SUBSET Audiences /\ B # Audiences
      BY <1>4, AudienceToggled
    <3>3. ForOnly(r, who) = [r EXCEPT !.audience = B]
      BY DEF ForOnly
    <3> HIDE DEF B
    <3>4. QED
      BY <2>1, <3>2, <3>3
  <2>7. "users" \in Audiences /\ "resellers" \in Audiences
    BY DEF Audiences
  <2>8. CASE EditMenu(h, m)
    <3>1. CASE ToggleResellersOnly(h, m) \/ ToggleUsersOnly(h, m)
      BY <2>6, <2>7, <3>1, Zenon DEF ToggleResellersOnly, ToggleUsersOnly, Save, RowsKept
    <3>2. CASE TogglePurchase(h, m) \/ ToggleRenew(h, m)
      <4>1. PICK c \in SUBSET Channels : Save(h, "bot", m, [r EXCEPT !.channels = c])
        BY <2>4, <2>5, <3>2, Zenon DEF TogglePurchase, ToggleRenew
      <4> DEFINE new == [r EXCEPT !.channels = c]
      <4>2. new \in MenuRows /\ new.audience = r.audience
        BY <2>2
      <4>3. Load(h, "bot", m, new, DOMAIN new) /\ RowsKept
        BY <4>1, Zenon DEF Save, RowsKept
      <4> HIDE DEF new
      <4>4. QED
        BY <1>3, <4>2, <4>3
    <3>3. QED
      BY <2>8, <3>1, <3>2 DEF EditMenu
  <2>9. CASE PanelEditsMenu(h, m)
    <3>1. CASE \E p \in (Menus \ {m}) \cup {Root} : Save(h, "panel", m, [r EXCEPT !.parent = p])
      <4>1. PICK p \in Menus \cup {Root} : Save(h, "panel", m, [r EXCEPT !.parent = p])
        BY <3>1
      <4> DEFINE new == [r EXCEPT !.parent = p]
      <4>2. new \in MenuRows /\ new.audience = r.audience
        BY <2>3
      <4>3. Load(h, "panel", m, new, DOMAIN new) /\ RowsKept
        BY <4>1, Zenon DEF Save, RowsKept
      <4> HIDE DEF new
      <4>4. QED
        BY <1>3, <4>2, <4>3
    <3>2. CASE \E set \in SUBSET Audiences : /\ Save(h, "panel", m, [r EXCEPT !.audience = set])
                                             /\ m \in byPanel'
      BY <2>1, <3>2, Zenon DEF Save, RowsKept
    <3>3. QED
      BY <2>9, <3>1, <3>2 DEF PanelEditsMenu
  <2>10. QED
    BY <2>8, <2>9
<1> DEFINE e == Loaded(a, m, new, DOMAIN new)
<1>6. PlainEdit(e) /\ e.to = m /\ e.seen = r /\ e.new = new /\ e.cols = DOMAIN new
  BY LoadedIs
<1>7. DOMAIN new = MenuFields
  BY <1>5, MenuRowIs
<1>8. Load(h, a, m, new, DOMAIN new) /\ RowsKept
  BY <1>5
<1>9. hand'[h] = e
  BY <1>8, LoadEffect DEF CatalogInv
<1> HIDE DEF e
<1>10. MenuEdit(hand[h])'
  BY <1>1, <1>5, <1>6, <1>7, <1>9 DEF MenuEdit, PlainEdit
<1>11. QED
  BY <1>1, <1>2, <1>8, <1>10, CatalogLoaded

\* A purchase that looks a discount up ...
LEMMA GetDiscountKeeps ==
    ASSUME CatalogInv, NEW h \in Hands, NEW d \in Discounts, NEW c \in Customers,
           NEW s \in Services, GetDiscount(h, d, c, s)
    PROVE  CatalogInv'
<1> USE DEF CatalogInv
<1> DEFINE e == [use |-> d, customer |-> c, from |-> row[d].used]
<1>1. /\ hand[h] = Idle /\ hand' = [hand EXCEPT ![h] = e]
      /\ UNCHANGED <<row, said, raced, links, forSale, draft, uses, chosen, widened, relisted,
                     byPanel>>
      /\ overused' = IF Other(h, "use", d) THEN overused \cup {d} ELSE overused
      /\ stray' = IF chosen[d] # {} /\ s \notin chosen[d] THEN stray \cup ({d} \ widened) ELSE stray
  BY DEF GetDiscount, Hold, Start, RowsKept
<1>2. /\ Exists(d) /\ InLimit(d) /\ (links[d] = {} \/ s \in links[d])
  BY DEF GetDiscount, Applies
<1>3. DOMAIN e = {"use", "customer", "from"} /\ e.use = d
  OBVIOUS
<1> HIDE DEF e
<1>4. /\ hand' = [g \in Hands |-> hand'[g]] /\ hand'[h] = e
      /\ \A g \in Hands \ {h} : hand'[g] = hand[g]
  BY <1>1 DEF EditShape
<1>5. EditShape' /\ DecisionsKept' /\ RowsOK' /\ DraftsOK'
  BY <1>1, <1>4 DEF EditShape, DecisionsKept, RowsOK, DraftsOK, DraftOK
<1>6. CatalogHands'
  <2>1. \A g \in Hands : CatalogHand(hand[g])'
    BY <1>1, <1>3, <1>4
       DEF CatalogHands, CatalogHand, DiscountEdit, MenuEdit, Purchase, Relink, PlainEdit
  <2>2. \A g \in Hands, k \in Discounts \cup Menus : Concerns(g, k)' => row'[k] # Absent
    BY <1>1, <1>2, <1>3, <1>4 DEF Concerns, CatalogHands, Exists
  <2>3. QED
    BY <2>1, <2>2 DEF CatalogHands
<1>7. \A k : \A g \in Hands :
         /\ g # h => (Redeeming(g, k)' <=> Redeeming(g, k))
         /\ Relinking(g, k)' <=> Relinking(g, k)
         /\ Relinking(g, k) => hand'[g] = hand[g]
         /\ Redeeming(h, k)' => k = d
  BY <1>1, <1>3, <1>4, CatalogHandIs DEF Redeeming, Relinking
<1>8. UsesOK'
  <2>1. UsesCounted'
    BY <1>1 DEF UsesOK, UsesCounted, Exists
  <2>2. d \notin overused' => \A g \in Hands \ {h} : ~Redeeming(g, d)
    BY <1>1 DEF Other, Redeeming
  <2>3. overused \subseteq overused'
    BY <1>1
  <2>4. d \notin raced => row[d].limit = 0 \/ uses[d] < row[d].limit
    BY <1>2 DEF InLimit, UsesOK, UsesCounted
  <2>5. QED
    BY <1>1, <1>7, <2>1, <2>2, <2>3, <2>4 DEF UsesOK, Exists
<1>9. LinksOK' /\ MenusOK'
  BY <1>1, <1>7, LinksStay DEF Exists
<1>10. stray' = {}
  BY <1>1, <1>2 DEF LinksOK
<1>11. QED
  BY <1>5, <1>6, <1>8, <1>9, <1>10

\* ... and counts it.
LEMMA UseDiscountKeeps ==
    ASSUME CatalogInv, NEW h \in Hands, UseDiscount(h)
    PROVE  CatalogInv'
<1> USE DEF CatalogInv
<1> DEFINE e == hand[h]
           d == e.use
           r == row[d]
<1>1. /\ hand' = [hand EXCEPT ![h] = Idle]
      /\ UNCHANGED <<raced, links, forSale, draft, chosen, overused, stray, widened, relisted,
                     byPanel>>
  BY DEF UseDiscount, LetGo
<1>2. Purchase(e) /\ Redeeming(h, d)
  BY CatalogHandIs DEF UseDiscount, CatalogHands, CatalogHand, DiscountEdit, MenuEdit, Redeeming
<1>3. d \in Discounts /\ d \in Keys /\ d \notin Menus
  BY <1>2, CatalogKeys DEF Purchase
<1>4. /\ hand' = [g \in Hands |-> hand'[g]] /\ hand'[h] = Idle
      /\ \A g \in Hands \ {h} : hand'[g] = hand[g]
  BY <1>1 DEF EditShape
<1>5. \A k : \A g \in Hands :
         /\ Redeeming(g, k)' <=> g # h /\ Redeeming(g, k)
         /\ Relinking(g, k)' <=> Relinking(g, k)
         /\ Relinking(g, k) => hand'[g] = hand[g]
         /\ Concerns(g, k)' => Concerns(g, k)
  BY <1>2, <1>4, CatalogHandIs DEF Redeeming, Relinking, Concerns
<1>6. DraftsOK'
  BY <1>1 DEF DraftsOK, DraftOK
<1>7. \A g \in Hands : CatalogHand(hand[g])'
  BY <1>1, <1>4
     DEF CatalogHands, CatalogHand, DiscountEdit, MenuEdit, Purchase, Relink, PlainEdit
<1>8. CASE ~Exists(d)
  <2>1. UNCHANGED <<row, said, uses>>
    BY <1>8 DEF UseDiscount
  <2>2. EditShape' /\ DecisionsKept' /\ RowsOK'
    BY <1>1, <1>4, <2>1 DEF EditShape, DecisionsKept, RowsOK
  <2>3. CatalogHands'
    BY <1>5, <1>7, <2>1 DEF CatalogHands
  <2>4. UsesOK'
    BY <1>1, <1>5, <2>1, UsesStay DEF Exists
  <2>5. LinksOK' /\ MenusOK'
    BY <1>1, <1>5, <2>1, LinksStay DEF Exists
  <2>6. QED
    BY <1>1, <1>6, <2>2, <2>3, <2>4, <2>5
<1>9. CASE Exists(d)
  <2>1. /\ row' = [row EXCEPT ![d] = Count(@, e)] /\ said' = [said EXCEPT ![d] = Count(@, e)]
        /\ uses' = [uses EXCEPT ![d] = @ + 1]
    BY <1>9 DEF UseDiscount
  <2>2. r \in DiscountRows
    BY <1>3, <1>9 DEF RowsOK, Exists
  <2>3. Count(r, e) \in DiscountRows /\ Count(r, e).used = r.used + 1 /\ Count(r, e).limit = r.limit
    BY <2>2 DEF Count, DiscountRows
  <2>4. row'[d] = Count(r, e) /\ \A k \in Keys \ {d} : row'[k] = row[k]
    BY <1>3, <2>1 DEF EditShape
  <2>5. EditShape' /\ DecisionsKept'
    BY <1>1, <1>4, <2>1 DEF EditShape, DecisionsKept
  <2>6. RowsOK'
    BY <1>3, <2>3, <2>4, CatalogKeys DEF RowsOK
  <2>7. \A k \in Discounts \cup Menus : Exists(k)' <=> Exists(k)
    BY <1>3, <1>9, <2>3, <2>4, CatalogKeys, DiscountRowIs DEF Exists
  <2>8. CatalogHands'
    BY <1>3, <1>5, <1>7, <2>3, <2>4, CatalogKeys, DiscountRowIs DEF CatalogHands
  <2>9. UsesOK'
    <3>1. uses' \in [Discounts -> Nat] /\ uses'[d] = uses[d] + 1
          /\ \A k \in Discounts \ {d} : uses'[k] = uses[k]
      BY <1>3, <2>1 DEF UsesOK
    <3>2. d \notin raced => r.used = uses[d]
      BY <1>3, <1>9 DEF UsesOK, UsesCounted
    <3>3. d \notin overused \cup raced => r.limit = 0 \/ uses[d] < r.limit
      BY <1>2, <1>3, <1>9 DEF UsesOK
    <3>4. d \notin overused => \A k : \A g \in Hands : k = d => ~Redeeming(g, k)'
      BY <1>2, <1>3, <1>5 DEF UsesOK
    <3>5. r.limit \in Nat /\ uses[d] \in Nat
      BY <1>3, <2>2, DiscountRowIs DEF UsesOK
    <3>6. UsesCounted'
      BY <1>1, <1>3, <2>3, <2>4, <2>7, <3>1, <3>2, <3>3, <3>5, CatalogKeys DEF UsesOK, UsesCounted
    <3>7. \A k \in Discounts : row'[k] = Absent => uses'[k] = 0
      BY <1>3, <2>3, <2>4, <3>1, CatalogKeys, DiscountRowIs DEF UsesOK
    <3>8. QED
      BY <1>1, <1>3, <1>5, <2>4, <2>7, <3>1, <3>4, <3>6, <3>7, CatalogKeys DEF UsesOK
  <2>10. LinksOK' /\ MenusOK'
    BY <1>1, <1>3, <1>5, <2>4, <2>7, CatalogKeys, LinksStay
  <2>11. QED
    BY <1>1, <1>6, <2>5, <2>6, <2>8, <2>9, <2>10
<1>10. QED
  BY <1>8, <1>9

\* Rows deleted, with their links.
LEMMA CatalogDeleted ==
    ASSUME CatalogInv, NEW ks \in SUBSET (Discounts \cup Menus), Delete(ks), Unlink(ks),
           UNCHANGED <<hand, raced, forSale, draft, uses, overused, stray, widened, relisted,
                       byPanel>>
    PROVE  CatalogInv'
<1> USE DEF CatalogInv
<1>1. \A k \in Discounts \cup Menus : /\ k \in Keys
                                      /\ row'[k] = IF k \in ks THEN Gone ELSE row[k]
  BY CatalogKeys DEF Delete
<1>2. \A k \in Discounts \cup Menus :
         /\ links'[k] = IF k \in ks THEN {} ELSE links[k]
         /\ chosen'[k] = IF k \in ks THEN {} ELSE chosen[k]
  BY DEF Unlink, LinksOK
<1>3. /\ links' \in [Discounts \cup Menus -> SUBSET Services]
      /\ chosen' \in [Discounts \cup Menus -> SUBSET Services]
  BY DEF Unlink, LinksOK
<1>4. EditShape' /\ DecisionsKept'
  BY DEF Delete, EditShape, DecisionsKept
<1>5. RowsOK'
  BY <1>1 DEF RowsOK
<1>6. Gone # Absent
  BY DEF Gone, Absent
<1>7. CatalogHands'
  BY <1>1, <1>6 DEF CatalogHands, CatalogHand, DiscountEdit, MenuEdit, Purchase, Relink, PlainEdit,
     Concerns
<1>8. \A k \in Discounts \cup Menus : Exists(k)' <=> Exists(k) /\ k \notin ks
  BY <1>1 DEF Exists
<1>9. UsesOK'
  BY <1>1, <1>6, <1>8, UsesStay DEF Redeeming
<1>10. \A k : \A h \in Hands : Relinking(h, k)' <=> Relinking(h, k)
  BY DEF Relinking
<1>11. LinksOK'
  <2>1. \A k \in Discounts \cup Menus :
           /\ links'[k] \subseteq forSale
           /\ ~Exists(k)' => links'[k] = {} /\ chosen'[k] = {}
    BY <1>2, <1>8 DEF LinksOK
  <2>2. \A d \in Discounts :
           Exists(d)' => Exists(d) /\ links'[d] = links[d] /\ chosen'[d] = chosen[d]
    BY <1>2, <1>8
  <2>3. QED
    BY <1>3, <1>10, <2>1, <2>2 DEF LinksOK
<1>12. MenusOK'
  <2>1. ListedAsChosen'
    <3>1. \A m \in Menus \ relisted : (~\E h \in Hands : Relinking(h, m)) =>
             links'[m] = chosen'[m] \cap forSale
      BY <1>2 DEF MenusOK, ListedAsChosen, Relinking
    <3>2. QED
      BY <3>1 DEF ListedAsChosen, Relinking
  <2>2. \A m \in Menus : Exists(m)' => Exists(m) /\ row'[m] = row[m] /\ chosen'[m] = chosen[m]
    BY <1>1, <1>2, <1>8
  <2>3. \A m \in Menus : links[m] = {} => links'[m] = {}
    BY <1>2
  <2>4. QED
    BY <1>10, <2>1, <2>2, <2>3 DEF MenusOK
<1>13. DraftsOK'
  BY DEF DraftsOK, DraftOK
<1>14. QED
  BY <1>4, <1>5, <1>7, <1>9, <1>11, <1>12, <1>13

LEMMA CatalogDeletes ==
    ASSUME CatalogInv,
           (\E d \in Discounts : RemoveDiscount(d)) \/ (\E m \in Menus : DeleteMenu(m))
    PROVE  CatalogInv'
<1>1. CASE \E d \in Discounts : RemoveDiscount(d)
  <2>1. PICK d \in Discounts : RemoveDiscount(d)
    BY <1>1
  <2>2. QED
    BY <2>1, CatalogDeleted DEF RemoveDiscount
<1>2. CASE \E m \in Menus : DeleteMenu(m)
  <2>1. PICK m \in Menus : DeleteMenu(m)
    BY <1>2
  <2> DEFINE below == {k \in Menus : Exists(k) /\ m \in Above(Parents, k)}
  <2>2. /\ Delete(below) /\ Unlink(below)
        /\ UNCHANGED <<hand, raced, forSale, draft, uses, overused, stray, widened, relisted,
                       byPanel>>
    BY <2>1 DEF DeleteMenu
  <2>3. below \in SUBSET (Discounts \cup Menus)
    OBVIOUS
  <2> HIDE DEF below
  <2>4. QED
    BY <2>2, <2>3, CatalogDeleted
<1>3. QED
  BY <1>1, <1>2

LEMMA RemoveServiceKeeps ==
    ASSUME CatalogInv, NEW s \in Services, RemoveService(s)
    PROVE  CatalogInv'
<1> USE DEF CatalogInv
<1>1. /\ forSale' = forSale \ {s} /\ widened' = widened \cup {d \in Discounts : links[d] = {s}}
      /\ UNCHANGED <<row, hand, said, raced, draft, uses, chosen, overused, stray, relisted>>
      /\ UNCHANGED byPanel
  BY DEF RemoveService
<1>2. /\ links' \in [Discounts \cup Menus -> SUBSET Services]
      /\ \A k \in Discounts \cup Menus : links'[k] = links[k] \ {s}
  BY DEF RemoveService, LinksOK
<1>3. EditShape' /\ DecisionsKept' /\ RowsOK' /\ DraftsOK'
  BY <1>1 DEF EditShape, DecisionsKept, RowsOK, DraftsOK, DraftOK
<1>4. CatalogHands'
  BY <1>1 DEF CatalogHands, CatalogHand, DiscountEdit, MenuEdit, Purchase, Relink, PlainEdit,
              Concerns
<1>5. UsesOK'
  BY <1>1, UsesStay DEF Exists, Redeeming
<1>6. LinksOK'
  <2>1. \A k \in Discounts \cup Menus :
           /\ links'[k] \subseteq forSale'
           /\ ~Exists(k) => links'[k] = {} /\ chosen[k] = {}
    BY <1>1, <1>2 DEF LinksOK
  <2>2. \A d \in Discounts : Exists(d) =>
           /\ links'[d] \subseteq chosen[d]
           /\ d \notin widened' /\ links'[d] = {} => chosen[d] = {}
    BY <1>1, <1>2 DEF LinksOK
  <2>3. QED
    BY <1>1, <1>2, <2>1, <2>2 DEF LinksOK, Exists, Relinking
<1>7. MenusOK'
  <2>1. ListedAsChosen'
    BY <1>1, <1>2 DEF MenusOK, ListedAsChosen
  <2>2. \A m \in Menus : links[m] = {} => links'[m] = {}
    BY <1>2
  <2>3. QED
    BY <1>1, <2>1, <2>2 DEF MenusOK, Exists, Relinking
<1>8. QED
  BY <1>1, <1>3, <1>4, <1>5, <1>6, <1>7

LEMMA GetTextKeeps ==
    ASSUME CatalogInv, NEW a \in Managers, GetText(a)
    PROVE  CatalogInv'
<1> USE DEF CatalogInv
<1>1. PICK m \in Menus : /\ Exists(m) /\ Update(m, [row[m] EXCEPT !.text = "new"], {"text"})
                         /\ draft' = [draft EXCEPT ![a] = NoDraft]
                         /\ UNCHANGED <<hand, raced, links, forSale, catalogGhosts>>
  BY DEF GetText
<1> DEFINE new == [row[m] EXCEPT !.text = "new"]
<1>2. row[m] \in MenuRows /\ m \in Keys
  BY <1>1, CatalogKeys DEF RowsOK, Exists
<1>3. new \in MenuRows
  BY <1>2 DEF MenuRows
<1>4. Update(m, new, {"text"})
  BY <1>1
<1> HIDE DEF new
<1>5. /\ EditShape' /\ DecisionsKept' /\ row'[m] = Merge(row[m], new, {"text"})
      /\ \A k \in Keys \ {m} : row'[k] = row[k]
  BY <1>1, <1>2, <1>4, UpdateKeeps DEF EditShape
<1>6. row'[m] \in MenuRows /\ row'[m].audience = row[m].audience
  BY <1>2, <1>3, <1>5, MergeMenus
<1>7. UNCHANGED <<uses, chosen, overused, stray, widened, relisted, byPanel>>
  BY <1>1 DEF catalogGhosts
<1>8. RowsOK'
  BY <1>5, <1>6, CatalogKeys DEF RowsOK
<1>9. \A k \in Discounts \cup Menus : Exists(k)' <=> Exists(k)
  BY <1>1, <1>5, <1>6, CatalogKeys, MenuRowIs DEF Exists
<1>10. DraftsOK'
  <2>1. NoDraft \in Drafts /\ DraftOK(NoDraft)
    BY DEF NoDraft, Drafts, DraftOK, Forms
  <2>2. QED
    BY <1>1, <2>1 DEF DraftsOK, DraftOK
<1>11. CatalogHands'
  BY <1>1, <1>5, <1>6, <1>7, CatalogKeys, MenuRowIs DEF CatalogHands, CatalogHand, DiscountEdit,
     MenuEdit, Purchase, Relink, PlainEdit, Concerns
<1>12. UsesOK'
  BY <1>1, <1>5, <1>7, <1>9, CatalogKeys, UsesStay DEF Redeeming
<1>13. LinksOK' /\ MenusOK'
  BY <1>1, <1>5, <1>6, <1>7, <1>9, CatalogKeys, LinksStay DEF Relinking
<1>14. QED
  BY <1>5, <1>7, <1>8, <1>10, <1>11, <1>12, <1>13

\* A row made, to be linked after it.
LEMMA MakeKeeps ==
    ASSUME CatalogInv, NEW h \in Hands, NEW ks \in {Discounts, Menus}, NEW new, NEW ids,
           ks = Discounts => new = NewDiscount,
           ks = Menus => \E p \in Menus \cup {Root} : new = NewMenu(p),
           ids \subseteq forSale, Make(h, ks, new, ids), DraftsOK'
    PROVE  CatalogInv'
<1> USE DEF CatalogInv
<1>1. PICK k \in ks :
        /\ row[k] = Absent /\ Appear(k, new)
        /\ Hold(h, [relink |-> k, ids |-> ids, customer |-> "none"])
        /\ chosen' = [chosen EXCEPT ![k] = ids]
        /\ widened' = IF k \in Discounts /\ ids # {} THEN widened \cup {k} ELSE widened
        /\ UNCHANGED <<raced, links, forSale, uses, overused, stray, relisted, byPanel>>
  BY DEF Make
<1> DEFINE e == [relink |-> k, ids |-> ids, customer |-> "none"]
<1>2. /\ DOMAIN e = {"relink", "ids", "customer"} /\ e.relink = k /\ e.ids = ids
  OBVIOUS
<1>3. hand[h] = Idle /\ hand' = [hand EXCEPT ![h] = e]
  BY <1>1 DEF Hold, Start
<1> HIDE DEF e
<1>4. /\ hand' = [g \in Hands |-> hand'[g]] /\ hand'[h] = e
      /\ \A g \in Hands \ {h} : hand'[g] = hand[g]
  BY <1>3 DEF EditShape
<1>5. k \in Discounts \cup Menus /\ k \in Keys
  BY CatalogKeys
<1>6. row'[k] = new /\ \A j \in Keys \ {k} : row'[j] = row[j]
  BY <1>1, <1>5 DEF Appear, EditShape
<1>7. EditShape' /\ DecisionsKept'
  BY <1>1, <1>4 DEF Appear, EditShape, DecisionsKept
<1>8. /\ k \in Discounts => new \in DiscountRows /\ new.used = 0 /\ new.limit = 0
      /\ k \in Menus => new \in MenuRows /\ new.audience # Audiences
  <2>1. NewDiscount \in DiscountRows /\ NewDiscount.used = 0 /\ NewDiscount.limit = 0
    BY DEF NewDiscount, DiscountRows, Channels
  <2>2. \A p \in Menus \cup {Root} : NewMenu(p) \in MenuRows /\ NewMenu(p).audience = {}
    BY DEF NewMenu, MenuRows, Audiences
  <2>3. Audiences # {}
    BY DEF Audiences
  <2>4. QED
    BY <1>1, <2>1, <2>2, <2>3, CatalogKeys
<1>9. new # Absent /\ new # Gone
  BY <1>5, <1>8, DiscountRowIs, MenuRowIs
<1>10. RowsOK'
  BY <1>6, <1>8, CatalogKeys DEF RowsOK
<1>11. /\ Exists(k)' /\ ~Exists(k)
       /\ \A j \in Discounts \cup Menus : j # k => (Exists(j)' <=> Exists(j))
  BY <1>1, <1>6, <1>9, CatalogKeys DEF Exists
<1>12. \A g \in Hands : /\ ~Concerns(g, k) /\ ~Redeeming(g, k) /\ ~Relinking(g, k)
  BY <1>1, <1>5 DEF CatalogHands, Concerns, Redeeming, Relinking
<1>13. \A j : \A g \in Hands :
          /\ Redeeming(g, j)' <=> Redeeming(g, j)
          /\ g # h => (Relinking(g, j)' <=> Relinking(g, j)) /\ hand'[g] = hand[g]
          /\ Relinking(h, j)' <=> j = k
          /\ ~Relinking(h, j)
  BY <1>2, <1>3, <1>4, CatalogHandIs DEF Redeeming, Relinking
<1>14. CatalogHands'
  <2>1. \A g \in Hands : CatalogHand(hand[g])'
    BY <1>1, <1>2, <1>4, <1>5
       DEF CatalogHands, CatalogHand, DiscountEdit, MenuEdit, Purchase, Relink, PlainEdit, LinksOK
  <2>2. \A g \in Hands, j \in Discounts \cup Menus : Concerns(g, j)' => row'[j] # Absent
    BY <1>2, <1>4, <1>6, <1>9, CatalogKeys DEF Concerns, CatalogHands
  <2>3. QED
    BY <2>1, <2>2 DEF CatalogHands
<1>15. UsesOK'
  <2>1. k \in Discounts => uses[k] = 0
    BY <1>1 DEF UsesOK
  <2>2. UsesCounted'
    BY <1>1, <1>5, <1>6, <1>8, <1>11, <2>1, CatalogKeys DEF UsesOK, UsesCounted
  <2>3. \A d \in Discounts : row'[d] = Absent => uses[d] = 0
    BY <1>6, <1>9, CatalogKeys DEF UsesOK
  <2>4. \A d \in Discounts, g \in Hands : Redeeming(g, d)' =>
           /\ d # k /\ Redeeming(g, d) /\ row'[d] = row[d] /\ (Exists(d)' <=> Exists(d))
    BY <1>6, <1>11, <1>12, <1>13, CatalogKeys
  <2>5. QED
    BY <1>1, <2>2, <2>3, <2>4 DEF UsesOK
<1>16. /\ chosen' \in [Discounts \cup Menus -> SUBSET Services] /\ chosen'[k] = ids
       /\ \A j \in Discounts \cup Menus : j # k => chosen'[j] = chosen[j]
  BY <1>1, <1>5 DEF LinksOK
<1>17. links[k] = {}
  BY <1>5, <1>11 DEF LinksOK
<1>18. LinksOK'
  <2>1. \A j \in Discounts \cup Menus :
          /\ links'[j] \subseteq forSale'
          /\ ~Exists(j)' => links'[j] = {} /\ chosen'[j] = {}
    BY <1>1, <1>11, <1>16 DEF LinksOK
  <2>2. \A d \in Discounts : Exists(d)' =>
          /\ links'[d] \subseteq chosen'[d]
          /\ d \notin widened' /\ links'[d] = {} => chosen'[d] = {}
    BY <1>1, <1>11, <1>16, <1>17 DEF LinksOK
  <2>3. \A d \in Discounts, g \in Hands :
           Exists(d)' /\ Relinking(g, d)' => hand'[g].ids = chosen'[d]
    BY <1>2, <1>4, <1>11, <1>12, <1>13, <1>16 DEF LinksOK
  <2>4. QED
    BY <1>1, <1>16, <2>1, <2>2, <2>3 DEF LinksOK
<1>19. MenusOK'
  <2>1. ListedAsChosen'
    <3>1. SUFFICES ASSUME NEW m \in Menus, m \notin relisted, \A g \in Hands : ~Relinking(g, m)'
                   PROVE  links[m] = chosen'[m] \cap forSale
      BY <1>1 DEF ListedAsChosen, Relinking
    <3>2. m # k /\ chosen'[m] = chosen[m]
      BY <1>13, <1>16, <3>1
    <3>3. \A g \in Hands : ~Relinking(g, m)
      BY <1>13, <3>1
    <3>4. QED
      BY <3>1, <3>2, <3>3 DEF MenusOK, ListedAsChosen, Relinking
  <2>2. \A m \in Menus \ relisted, g \in Hands : Relinking(g, m)' =>
           /\ links[m] = {}
           /\ Exists(m)' => hand'[g].ids = chosen'[m]
           /\ \A f \in Hands : Relinking(f, m)' => f = g
    <3>1. SUFFICES ASSUME NEW m \in Menus \ relisted, NEW g \in Hands, Relinking(g, m)'
                   PROVE  /\ links[m] = {}
                          /\ Exists(m)' => hand'[g].ids = chosen'[m]
                          /\ \A f \in Hands : Relinking(f, m)' => f = g
      OBVIOUS
    <3>2. CASE m = k
      BY <1>2, <1>4, <1>12, <1>13, <1>16, <1>17, <3>1, <3>2
    <3>3. CASE m # k
      BY <1>11, <1>13, <1>16, <3>1, <3>3 DEF MenusOK
    <3>4. QED
      BY <3>2, <3>3
  <2>3. \A m \in Menus \ byPanel : Exists(m)' => row'[m].audience # Audiences
    BY <1>5, <1>6, <1>8, <1>11, CatalogKeys DEF MenusOK
  <2>4. QED
    BY <1>1, <2>1, <2>2, <2>3 DEF MenusOK
<1>20. QED
  BY <1>1, <1>7, <1>10, <1>14, <1>15, <1>18, <1>19

LEMMA MakesKeep ==
    ASSUME CatalogInv, NEW h \in Hands,
           \/ PanelCreatesDiscount(h) \/ PanelCreatesMenu(h)
           \/ \E a \in Managers : SaveMenu(h, a) \/ SaveDiscount(h, a)
    PROVE  CatalogInv'
<1>1. NoDraft \in Drafts /\ DraftOK(NoDraft)
  BY DEF NoDraft, Drafts, DraftOK, Forms
<1>2. DraftsOK'
  BY <1>1 DEF PanelCreatesDiscount, PanelCreatesMenu, SaveMenu, SaveDiscount, CatalogInv,
     DraftsOK, DraftOK
<1>3. \A m : Parent(m) \in Menus \cup {Root}
  BY DEF Parent
<1>4. Menus # Discounts \/ Menus = {}
  BY CatalogKeys
<1>5. PICK ks, new, ids :
        /\ ks \in {Discounts, Menus} /\ ids \subseteq forSale /\ Make(h, ks, new, ids)
        /\ \/ ks = Discounts /\ new = NewDiscount
           \/ ks = Menus /\ \E p \in Menus \cup {Root} : new = NewMenu(p)
  <2>1. CASE PanelCreatesDiscount(h)
    BY <2>1 DEF PanelCreatesDiscount
  <2>2. CASE PanelCreatesMenu(h)
    BY <1>3, <2>2, Zenon DEF PanelCreatesMenu
  <2>3. CASE \E a \in Managers : SaveMenu(h, a)
    <3>1. PICK a \in Managers :
            Make(h, Menus, NewMenu(Parent(draft[a].on)), draft[a].ids \cap forSale)
      BY <2>3 DEF SaveMenu
    <3>2. draft[a].ids \cap forSale \subseteq forSale
      OBVIOUS
    <3>3. QED
      BY <1>3, <3>1, <3>2, Zenon
  <2>4. CASE \E a \in Managers : SaveDiscount(h, a)
    <3>1. PICK a \in Managers : Make(h, Discounts, NewDiscount, draft[a].ids \cap forSale)
      BY <2>4 DEF SaveDiscount
    <3>2. draft[a].ids \cap forSale \subseteq forSale
      OBVIOUS
    <3>3. QED
      BY <3>1, <3>2, Zenon
  <2>5. QED
    BY <2>1, <2>2, <2>3, <2>4
<1>6. ks # {}
  BY <1>5 DEF Make
<1>7. QED
  BY <1>2, <1>4, <1>5, <1>6, MakeKeeps

\* The services of a menu replaced: none first ...
LEMMA ClearServicesKeeps ==
    ASSUME CatalogInv, NEW h \in Hands, NEW m \in Menus, NEW ids \in SUBSET Services,
           ClearServices(h, m, ids), DraftsOK'
    PROVE  CatalogInv'
<1> USE DEF CatalogInv
<1> DEFINE e == [relink |-> m, ids |-> ids, customer |-> "none"]
<1>1. DOMAIN e = {"relink", "ids", "customer"} /\ e.relink = m /\ e.ids = ids
  OBVIOUS
<1>2. /\ Exists(m) /\ hand[h] = Idle /\ hand' = [hand EXCEPT ![h] = e]
      /\ links' = [links EXCEPT ![m] = {}] /\ chosen' = [chosen EXCEPT ![m] = ids]
      /\ relisted' = IF Other(h, "relink", m) THEN relisted \cup {m} ELSE relisted
      /\ UNCHANGED <<row, said, raced, forSale, uses, overused, stray, widened, byPanel>>
  BY DEF ClearServices, Hold, Start, RowsKept
<1> HIDE DEF e
<1>3. /\ hand' = [g \in Hands |-> hand'[g]] /\ hand'[h] = e
      /\ \A g \in Hands \ {h} : hand'[g] = hand[g]
  BY <1>2 DEF EditShape
<1>4. EditShape' /\ DecisionsKept' /\ RowsOK'
  BY <1>2, <1>3 DEF EditShape, DecisionsKept, RowsOK
<1>5. \A j : \A g \in Hands :
         /\ Redeeming(g, j)' <=> Redeeming(g, j)
         /\ g # h => (Relinking(g, j)' <=> Relinking(g, j)) /\ hand'[g] = hand[g]
         /\ Relinking(h, j)' <=> j = m
         /\ ~Relinking(h, j)
  BY <1>1, <1>2, <1>3, CatalogHandIs DEF Redeeming, Relinking
<1>6. CatalogHands'
  <2>1. \A g \in Hands : CatalogHand(hand[g])'
    BY <1>1, <1>2, <1>3
       DEF CatalogHands, CatalogHand, DiscountEdit, MenuEdit, Purchase, Relink, PlainEdit
  <2>2. \A g \in Hands, j \in Discounts \cup Menus : Concerns(g, j)' => row'[j] # Absent
    BY <1>1, <1>2, <1>3 DEF Concerns, CatalogHands, Exists
  <2>3. QED
    BY <2>1, <2>2 DEF CatalogHands
<1>7. UsesOK'
  BY <1>2, <1>5, UsesStay DEF Exists
<1>8. /\ links' \in [Discounts \cup Menus -> SUBSET Services] /\ links'[m] = {}
      /\ chosen' \in [Discounts \cup Menus -> SUBSET Services] /\ chosen'[m] = ids
      /\ \A j \in Discounts \cup Menus : j # m => links'[j] = links[j] /\ chosen'[j] = chosen[j]
  BY <1>2 DEF LinksOK
<1>9. LinksOK'
  BY <1>2, <1>5, <1>8, CatalogKeys DEF LinksOK, Exists
<1>10. m \notin relisted' => \A g \in Hands \ {h} : ~Relinking(g, m)
  BY <1>2 DEF Other, Relinking
<1>11. MenusOK'
  <2>1. ListedAsChosen'
    <3>1. SUFFICES ASSUME NEW k \in Menus, k \notin relisted', \A g \in Hands : ~Relinking(g, k)'
                   PROVE  links'[k] = chosen'[k] \cap forSale
      BY <1>2 DEF ListedAsChosen, Relinking
    <3>2. k # m /\ links'[k] = links[k] /\ chosen'[k] = chosen[k] /\ k \notin relisted
      BY <1>2, <1>5, <1>8, <3>1
    <3>3. \A g \in Hands : ~Relinking(g, k)
      BY <1>5, <3>1
    <3>4. QED
      BY <3>1, <3>2, <3>3 DEF MenusOK, ListedAsChosen, Relinking
  <2>2. \A k \in Menus \ relisted', g \in Hands : Relinking(g, k)' =>
           /\ links'[k] = {}
           /\ Exists(k)' => hand'[g].ids = chosen'[k]
           /\ \A f \in Hands : Relinking(f, k)' => f = g
    <3>1. SUFFICES ASSUME NEW k \in Menus \ relisted', NEW g \in Hands, Relinking(g, k)'
                   PROVE  /\ links'[k] = {}
                          /\ Exists(k)' => hand'[g].ids = chosen'[k]
                          /\ \A f \in Hands : Relinking(f, k)' => f = g
      OBVIOUS
    <3>2. CASE k = m
      BY <1>1, <1>3, <1>5, <1>8, <1>10, <3>1, <3>2
    <3>3. CASE k # m
      BY <1>2, <1>5, <1>8, <3>1, <3>3 DEF MenusOK, Exists
    <3>4. QED
      BY <3>2, <3>3
  <2>3. QED
    BY <1>2, <2>1, <2>2 DEF MenusOK, Exists
<1>12. QED
  BY <1>2, <1>4, <1>6, <1>7, <1>9, <1>11

LEMMA ListsKeep ==
    ASSUME CatalogInv, NEW h \in Hands,
           \/ \E m \in Menus : SetServices(h, m)
           \/ \E a \in Managers : SaveMenuServices(h, a)
    PROVE  CatalogInv'
<1>1. NoDraft \in Drafts /\ DraftOK(NoDraft)
  BY DEF NoDraft, Drafts, DraftOK, Forms
<1>2. DraftsOK'
  BY <1>1 DEF SetServices, SaveMenuServices, CatalogInv, DraftsOK, DraftOK
<1>3. PICK m \in Menus, ids \in SUBSET Services : ClearServices(h, m, ids)
  <2>1. CASE \E m \in Menus : SetServices(h, m)
    <3>1. \A ids \in SUBSET forSale : ids \in SUBSET Services
      BY DEF CatalogInv, LinksOK
    <3>2. QED
      BY <2>1, <3>1 DEF SetServices
  <2>2. CASE \E a \in Managers : SaveMenuServices(h, a)
    <3>1. PICK a \in Managers :
             draft[a].form = "services" /\ ClearServices(h, draft[a].on, draft[a].ids)
      BY <2>2 DEF SaveMenuServices
    <3>2. draft[a].on \in Menus /\ draft[a].ids \in SUBSET Services
      BY <3>1 DEF CatalogInv, DraftsOK, DraftOK, Drafts
    <3>3. QED
      BY <3>1, <3>2
  <2>3. QED
    BY <2>1, <2>2
<1>4. QED
  BY <1>2, <1>3, ClearServicesKeeps

\* ... and the chosen ones then.
LEMMA AddServicesKeeps ==
    ASSUME CatalogInv, NEW h \in Hands, AddServices(h)
    PROVE  CatalogInv'
<1> USE DEF CatalogInv
<1>1. /\ "relink" \in DOMAIN hand[h] /\ hand' = [hand EXCEPT ![h] = Idle]
      /\ UNCHANGED <<row, said, raced, forSale, draft, uses, chosen, overused, stray, relisted,
                     byPanel>>
  BY DEF AddServices, LetGo, RowsKept
<1>2. Relink(hand[h])
  BY <1>1, CatalogHandIs DEF CatalogHands, CatalogHand, DiscountEdit, MenuEdit
<1>3. PICK k \in Discounts \cup Menus : hand[h].relink = k
  BY <1>2 DEF Relink
<1>4. PICK ids \in SUBSET Services : hand[h].ids = ids
  BY <1>2 DEF Relink
<1>5. /\ links' = IF Exists(k) THEN [links EXCEPT ![k] = @ \cup (ids \cap forSale)] ELSE links
      /\ widened' = IF ids \cap forSale # {} THEN widened \ {k} ELSE widened
  BY <1>3, <1>4 DEF AddServices
<1>6. /\ hand' = [g \in Hands |-> hand'[g]] /\ hand'[h] = Idle
      /\ \A g \in Hands \ {h} : hand'[g] = hand[g]
  BY <1>1 DEF EditShape
<1>7. \A j : \A g \in Hands :
         /\ Redeeming(g, j)' <=> Redeeming(g, j)
         /\ g # h => (Relinking(g, j)' <=> Relinking(g, j)) /\ hand'[g] = hand[g]
         /\ ~Relinking(h, j)'
         /\ Relinking(h, j) <=> j = k
         /\ Concerns(g, j)' => Concerns(g, j)
  BY <1>1, <1>2, <1>3, <1>6, CatalogHandIs DEF Redeeming, Relinking, Concerns
<1>8. EditShape' /\ DecisionsKept' /\ RowsOK' /\ DraftsOK'
  BY <1>1, <1>6 DEF EditShape, DecisionsKept, RowsOK, DraftsOK, DraftOK
<1>9. CatalogHands'
  <2>1. \A g \in Hands : CatalogHand(hand[g])'
    BY <1>1, <1>6
       DEF CatalogHands, CatalogHand, DiscountEdit, MenuEdit, Purchase, Relink, PlainEdit
  <2>2. QED
    BY <1>1, <1>7, <2>1 DEF CatalogHands
<1>10. UsesOK'
  BY <1>1, <1>7, UsesStay DEF Exists
<1>11. /\ links' \in [Discounts \cup Menus -> SUBSET Services]
       /\ \A j \in Discounts \cup Menus :
             links'[j] = IF j = k /\ Exists(k) THEN links[k] \cup (ids \cap forSale) ELSE links[j]
  BY <1>5 DEF LinksOK
<1>12. LinksOK'
  <2>1. \A j \in Discounts \cup Menus :
          /\ links'[j] \subseteq forSale
          /\ ~Exists(j) => links'[j] = {} /\ chosen[j] = {}
    BY <1>11 DEF LinksOK
  <2>2. k \in Discounts /\ Exists(k) => ids = chosen[k]
    BY <1>4, <1>7 DEF LinksOK
  <2>3. \A d \in Discounts : Exists(d) =>
          /\ links'[d] \subseteq chosen[d]
          /\ d \notin widened' /\ links'[d] = {} => chosen[d] = {}
    <3>1. SUFFICES ASSUME NEW d \in Discounts, Exists(d)
                   PROVE  /\ links'[d] \subseteq chosen[d]
                          /\ d \notin widened' /\ links'[d] = {} => chosen[d] = {}
      OBVIOUS
    <3>2. CASE d = k
      BY <1>5, <1>11, <2>2, <3>1, <3>2 DEF LinksOK
    <3>3. CASE d # k
      BY <1>5, <1>11, <3>1, <3>3 DEF LinksOK
    <3>4. QED
      BY <3>2, <3>3
  <2>4. \A d \in Discounts, g \in Hands : Exists(d) /\ Relinking(g, d)' => hand'[g].ids = chosen[d]
    BY <1>7 DEF LinksOK
  <2>5. QED
    BY <1>1, <1>11, <2>1, <2>3, <2>4 DEF LinksOK, Exists
<1>13. MenusOK'
  <2>1. ListedAsChosen'
    <3>1. SUFFICES ASSUME NEW m \in Menus, m \notin relisted, \A g \in Hands : ~Relinking(g, m)'
                   PROVE  links'[m] = chosen[m] \cap forSale
      BY <1>1 DEF ListedAsChosen, Relinking
    <3>2. CASE m = k
      <4>1. links[k] = {} /\ (Exists(k) => ids = chosen[k])
        BY <1>4, <1>7, <3>1, <3>2 DEF MenusOK
      <4>2. ~Exists(k) => chosen[k] = {}
        BY DEF LinksOK
      <4>3. QED
        BY <1>11, <3>2, <4>1, <4>2
    <3>3. CASE m # k
      <4>1. \A g \in Hands : ~Relinking(g, m)
        BY <1>7, <3>1, <3>3
      <4>2. QED
        BY <1>11, <3>1, <3>3, <4>1 DEF MenusOK, ListedAsChosen, Relinking
    <3>4. QED
      BY <3>2, <3>3
  <2>2. \A m \in Menus \ relisted, g \in Hands : Relinking(g, m)' =>
           /\ links'[m] = {}
           /\ Exists(m) => hand'[g].ids = chosen[m]
           /\ \A f \in Hands : Relinking(f, m)' => f = g
    <3>1. SUFFICES ASSUME NEW m \in Menus \ relisted, NEW g \in Hands, Relinking(g, m)'
                   PROVE  /\ links'[m] = {}
                          /\ Exists(m) => hand'[g].ids = chosen[m]
                          /\ \A f \in Hands : Relinking(f, m)' => f = g
      OBVIOUS
    <3>2. g # h /\ Relinking(g, m) /\ hand'[g] = hand[g]
      BY <1>7, <3>1
    <3>3. m # k
      BY <1>7, <3>2 DEF MenusOK
    <3>4. QED
      BY <1>7, <1>11, <3>2, <3>3 DEF MenusOK
  <2>3. QED
    BY <1>1, <2>1, <2>2 DEF MenusOK, Exists
<1>14. QED
  BY <1>1, <1>8, <1>9, <1>10, <1>12, <1>13

\* The write of a handler.
LEMMA CatalogWritten ==
    ASSUME CatalogInv, NEW h \in Hands, WriteCatalog(h)
    PROVE  CatalogInv'
<1> USE DEF CatalogInv
<1>1. PICK e : e = hand[h]
  OBVIOUS
<1>2. PICK t : t = e.to
  OBVIOUS
<1>3. DiscountEdit(e) \/ MenuEdit(e)
  BY <1>1, CatalogHandIs DEF WriteCatalog, Write, Writing, CatalogHands, CatalogHand
<1>4. /\ PlainEdit(e) /\ t \in Discounts \cup Menus /\ t \in Keys
      /\ t \in Discounts => DiscountEdit(e)
      /\ t \in Menus => MenuEdit(e)
  BY <1>2, <1>3, CatalogKeys DEF DiscountEdit, MenuEdit
<1> DEFINE r == row[t]
<1>5. /\ row'[t] = Written(r, e) /\ \A k \in Keys \ {t} : row'[k] = row[k]
      /\ hand'[h] = Idle /\ \A g \in Hands \ {h} : hand'[g] = hand[g]
      /\ raced \subseteq raced'
      /\ Whole(e) /\ ~Fails(r, e) /\ t \notin raced' => r = e.seen
  BY <1>1, <1>2, <1>4, WriteEffect DEF WriteCatalog
<1>6. /\ UNCHANGED <<links, forSale, draft, uses, chosen, stray, widened, relisted, byPanel>>
      /\ overused' = IF t \in Discounts /\ e.new.limit # e.seen.limit
                     THEN overused \cup {t} ELSE overused
  BY <1>1, <1>2 DEF WriteCatalog
<1>7. EditShape' /\ DecisionsKept'
  BY WriteKeeps DEF WriteCatalog
<1>8. r # Absent /\ e.seen # Absent
  <2>1. Concerns(h, t)
    BY <1>1, <1>2, <1>4, CatalogHandIs DEF Concerns
  <2>2. QED
    BY <1>3, <1>4, <2>1, DiscountRowIs, MenuRowIs DEF CatalogHands, DiscountEdit, MenuEdit
<1>9. r = Gone => row'[t] = Gone
  BY <1>5, <1>8 DEF Fails, Written
<1>10. r # Gone => row'[t] = Merge(r, e.new, e.cols) /\ ~Fails(r, e)
  BY <1>5, <1>8 DEF Fails, Written
<1>11. t \in Discounts /\ r # Gone =>
         /\ r \in DiscountRows /\ row'[t] \in DiscountRows
         /\ t \notin raced' => row'[t].used = r.used
         /\ t \notin raced' => t \in overused' \/ row'[t].limit = r.limit
  <2>1. SUFFICES ASSUME t \in Discounts, r # Gone
                 PROVE  /\ r \in DiscountRows /\ row'[t] \in DiscountRows
                        /\ t \notin raced' => row'[t].used = r.used
                        /\ t \notin raced' => t \in overused' \/ row'[t].limit = r.limit
    OBVIOUS
  <2>2. /\ r \in DiscountRows /\ e.new \in DiscountRows /\ e.new.used = e.seen.used
        /\ e.cols = DiscountFields \/ e.cols = {"active"}
    BY <1>4, <1>8, <2>1 DEF RowsOK, DiscountEdit
  <2>3. /\ row'[t] \in DiscountRows
        /\ row'[t].used = IF "used" \in e.cols THEN e.new.used ELSE r.used
        /\ row'[t].limit = IF "limit" \in e.cols THEN e.new.limit ELSE r.limit
    BY <1>10, <2>1, <2>2, MergeDiscounts
  <2>4. CASE e.cols = {"active"}
    BY <2>2, <2>3, <2>4
  <2>5. CASE e.cols = DiscountFields
    <3>1. t \notin raced' => r = e.seen
      BY <1>5, <1>10, <2>1, <2>2, <2>5, DiscountRowIs DEF Whole
    <3>2. QED
      BY <1>6, <2>1, <2>2, <2>3, <2>5, <3>1 DEF DiscountFields
  <2>6. QED
    BY <2>2, <2>4, <2>5
<1>12. t \in Menus /\ r # Gone =>
         /\ r \in MenuRows /\ row'[t] \in MenuRows
         /\ t \in byPanel \/ row'[t].audience # Audiences
  <2>1. SUFFICES ASSUME t \in Menus, r # Gone
                 PROVE  /\ r \in MenuRows /\ row'[t] \in MenuRows
                        /\ t \in byPanel \/ row'[t].audience # Audiences
    OBVIOUS
  <2>2. /\ r \in MenuRows /\ e.new \in MenuRows /\ e.cols = MenuFields
        /\ t \in byPanel \/ e.new.audience # Audiences
    BY <1>2, <1>4, <1>8, <2>1 DEF RowsOK, MenuEdit
  <2>3. row'[t] \in MenuRows /\ row'[t].audience = e.new.audience
    BY <1>10, <2>1, <2>2, MergeMenus DEF MenuFields
  <2>4. QED
    BY <2>2, <2>3
<1>13. RowsOK'
  BY <1>4, <1>5, <1>9, <1>11, <1>12, CatalogKeys DEF RowsOK
<1>14. /\ row'[t] # Absent /\ row[t] # Absent
       /\ \A k \in Discounts \cup Menus : /\ Exists(k)' <=> Exists(k)
                                          /\ row'[k] = Absent => row[k] = Absent
  <2>1. Gone # Absent
    BY DEF Gone, Absent
  <2>2. row'[t] # Absent /\ (row'[t] = Gone <=> r = Gone)
    BY <1>4, <1>9, <1>11, <1>12, <2>1, DiscountRowIs, MenuRowIs
  <2>3. QED
    BY <1>4, <1>5, <1>8, <2>2, CatalogKeys DEF Exists
<1>15. \A j : \A g \in Hands :
          /\ Redeeming(g, j)' <=> Redeeming(g, j)
          /\ Relinking(g, j)' <=> Relinking(g, j)
          /\ Relinking(g, j) => hand'[g] = hand[g]
          /\ Concerns(g, j)' => Concerns(g, j)
  BY <1>1, <1>4, <1>5, CatalogHandIs DEF Redeeming, Relinking, Concerns
<1>16. CatalogHands'
  <2>1. \A g \in Hands : CatalogHand(hand[g])'
    BY <1>5, <1>6
       DEF CatalogHands, CatalogHand, DiscountEdit, MenuEdit, Purchase, Relink, PlainEdit
  <2>2. QED
    BY <1>14, <1>15, <2>1 DEF CatalogHands
<1>17. UsesOK'
  <2>1. \A d \in Discounts \ raced' : Exists(d)' =>
           /\ Exists(d) /\ row'[d].used = row[d].used
           /\ d \in overused' \/ row'[d].limit = row[d].limit
    BY <1>5, <1>11, <1>14, CatalogKeys DEF Exists
  <2>2. uses' = uses /\ raced \subseteq raced' /\ overused \subseteq overused'
    BY <1>5, <1>6
  <2>3. QED
    BY <1>14, <1>15, <2>1, <2>2, UsesStay
<1>18. LinksOK' /\ MenusOK'
  <2>1. \A m \in Menus \ byPanel' : Exists(m) =>
           row'[m].audience = row[m].audience \/ row'[m].audience # Audiences
    BY <1>5, <1>6, <1>12, CatalogKeys DEF Exists
  <2>2. QED
    BY <1>6, <1>14, <1>15, <2>1, LinksStay
<1>19. DraftsOK'
  BY <1>6 DEF DraftsOK, DraftOK
<1>20. QED
  BY <1>6, <1>7, <1>13, <1>16, <1>17, <1>18, <1>19

\* The catalogue at the start, and in every step.
LEMMA CatalogStart ==
    ASSUME EditsInit([k \in Keys |-> IF k \in Discounts \cup Menus THEN FirstCatalog[k]
                                     ELSE Absent]),
           CatalogInit
    PROVE  CatalogInv
<1>1. EditShape /\ DecisionsKept /\ \A h \in Hands : hand[h] = Idle
  BY DEF EditsInit, EditShape, DecisionsKept
<1>2. \A k \in Discounts \cup Menus : row[k] = FirstCatalog[k]
  BY CatalogKeys DEF EditsInit
<1>3. RowsOK
  BY <1>2, CatalogAssumption DEF RowsOK
<1>4. \A k : \A h \in Hands : ~Concerns(h, k) /\ ~Redeeming(h, k) /\ ~Relinking(h, k)
  BY <1>1, CatalogHandIs DEF Concerns, Redeeming, Relinking
<1>5. CatalogHands
  BY <1>1, <1>4 DEF CatalogHands, CatalogHand
<1>6. UsesOK
  <2>1. \A d \in Discounts : Exists(d) => row[d] \in DiscountRows
    BY <1>3 DEF RowsOK, Exists
  <2>2. /\ uses = [d \in Discounts |-> IF Exists(d) THEN row[d].used ELSE 0]
        /\ overused =
              {d \in Discounts : Exists(d) /\ row[d].limit > 0 /\ row[d].used > row[d].limit}
    BY DEF CatalogInit
  <2>3. UsesCounted
    BY <2>1, <2>2, DiscountRowIs DEF UsesCounted
  <2>4. uses \in [Discounts -> Nat] /\ \A d \in Discounts : row[d] = Absent => uses[d] = 0
    BY <2>1, <2>2, DiscountRowIs DEF Exists
  <2>5. QED
    BY <1>4, <2>3, <2>4 DEF UsesOK
<1>7. /\ links = FirstLinks /\ chosen = FirstLinks /\ forSale = Services
      /\ byPanel = {m \in Menus : Exists(m) /\ row[m].audience = Audiences} /\ stray = {}
  BY DEF CatalogInit
<1>8. \A k \in Discounts \cup Menus : ~Exists(k) => FirstLinks[k] = {}
  BY <1>2, <1>3, CatalogAssumption, DiscountRowIs, MenuRowIs DEF Exists
<1>9. LinksOK
  BY <1>4, <1>7, <1>8, CatalogAssumption DEF LinksOK
<1>10. MenusOK
  <2>1. ListedAsChosen
    BY <1>7, CatalogAssumption DEF ListedAsChosen
  <2>2. QED
    BY <1>4, <1>7, <2>1 DEF MenusOK
<1>11. DraftsOK
  BY DEF CatalogInit, DraftsOK, DraftOK, Drafts, NoDraft, Forms
<1>12. QED
  BY <1>1, <1>3, <1>5, <1>6, <1>7, <1>9, <1>10, <1>11 DEF CatalogInv

LEMMA CatalogNextKeeps ==
    ASSUME CatalogInv, [CatalogNext]_<<rowVars, catalogVars>>
    PROVE  CatalogInv'
<1>1. CASE CatalogNext
  BY <1>1, EditDiscountKeeps, GetDiscountKeeps, CatalogDeletes, RedeemKeeps, RemoveServiceKeeps,
     UseDiscountKeeps, AddServicesKeeps, CatalogWritten, MakesKeep, TalksKeep, GetTextKeeps,
     ListsKeep, EditMenuKeeps
     DEF CatalogNext
<1>2. CASE UNCHANGED <<rowVars, catalogVars>>
  <2>1. UNCHANGED <<row, hand, said, raced, links, forSale, draft, catalogGhosts>>
    BY <1>2 DEF rowVars, catalogVars
  <2>2. QED
    BY <2>1, CatalogLeft DEF CatalogInv, DraftsOK, DraftOK
<1>3. QED
  BY <1>1, <1>2

\* Whatever super users, the panel and customers do to discounts and menus at the same time: no
\* edit undoes another unless it wrote a whole old copy, a code is not used more often than its
\* limit nor for services it is not made for, a menu lists what was chosen for it and has one
\* audience, but for the named cases.
THEOREM AlwaysCatalogSound == CatalogSpec => []CatalogSound
<1>1. CatalogInv => CatalogSound
  <2> SUFFICES ASSUME CatalogInv PROVE CatalogSound
    OBVIOUS
  <2>1. CatalogTypeOK
    BY DEF CatalogInv, CatalogTypeOK, RowsOK, LinksOK, DraftsOK, Drafts
  <2>2. MenuExclusive
    <3>1. SUFFICES ASSUME NEW m \in Menus \ byPanel, Exists(m)
                   PROVE  Cardinality(row[m].audience) =< 1
      BY DEF MenuExclusive
    <3>2. row[m].audience \subseteq Audiences /\ row[m].audience # Audiences
      BY <3>1, MenuRowIs DEF CatalogInv, RowsOK, MenusOK, Exists
    <3>3. QED
      BY <3>2, OneAudience
  <2>3. QED
    BY <2>1, <2>2 DEF CatalogInv, UsesOK, MenusOK, CatalogSound, MadeForIt
<1>2. CatalogInv /\ [CatalogNext]_<<rowVars, catalogVars>> => CatalogInv'
  BY CatalogNextKeeps
<1>3. QED
  BY <1>1, <1>2, CatalogStart, PTL DEF CatalogSpec

-----------------------------------------------------------------------------
(* The menus above a menu *)

Climb(parents, S) == S \cup {parents[k] : k \in S \ {Root}}

\* The function by which Above climbs.
Climbs(chain, parents, m, N) ==
    /\ chain = [n \in 0..N |-> chain[n]]
    /\ chain[0] = {m}
    /\ \A n \in 1..N : chain[n] = Climb(parents, chain[n - 1])

LEMMA ClimbsIs ==
    ASSUME NEW parents, NEW m, NEW N \in Nat, NEW chain
    PROVE  Climbs(chain, parents, m, N) <=>
              chain = [n \in 0..N |-> IF n = 0 THEN {m} ELSE Climb(parents, chain[n - 1])]
<1> DEFINE Value(n) == IF n = 0 THEN {m} ELSE Climb(parents, chain[n - 1])
<1>1. ASSUME Climbs(chain, parents, m, N) PROVE chain = [n \in 0..N |-> Value(n)]
  <2>1. \A n \in 0..N : chain[n] = Value(n)
    BY <1>1 DEF Climbs
  <2>2. QED
    BY <1>1, <2>1 DEF Climbs
<1>2. ASSUME chain = [n \in 0..N |-> Value(n)] PROVE Climbs(chain, parents, m, N)
  <2>1. \A n \in 0..N : chain[n] = Value(n)
    BY <1>2
  <2>2. chain = [n \in 0..N |-> chain[n]]
    BY <1>2
  <2>3. chain[0] = {m}
    BY <2>1
  <2>4. \A n \in 1..N : chain[n] = Climb(parents, chain[n - 1])
    BY <2>1
  <2>5. QED
    BY <2>2, <2>3, <2>4 DEF Climbs
<1>3. QED
  BY <1>1, <1>2

LEMMA ClimbsExists ==
    ASSUME NEW parents, NEW m, NEW N \in Nat
    PROVE  \E chain : Climbs(chain, parents, m, N)
<1> DEFINE S == {k \in Nat : \E chain : Climbs(chain, parents, m, k)}
<1>1. 0 \in S
  <2>1. Climbs([n \in 0..0 |-> {m}], parents, m, 0)
    BY DEF Climbs
  <2>2. QED
    BY <2>1
<1>2. ASSUME NEW k \in 1..N, k - 1 \in S PROVE k \in S
  <2>1. PICK chain : Climbs(chain, parents, m, k - 1)
    BY <1>2
  <2> DEFINE f == [n \in 0..k |-> IF n = k THEN Climb(parents, chain[k - 1]) ELSE chain[n]]
  <2>2. f = [n \in 0..k |-> f[n]] /\ f[0] = {m}
    <3>1. 0 \in 0..k /\ 0 # k
      OBVIOUS
    <3>2. chain[0] = {m}
      BY <2>1 DEF Climbs
    <3>3. QED
      BY <3>1, <3>2
  <2>3. ASSUME NEW n \in 1..k PROVE f[n] = Climb(parents, f[n - 1])
    <3>1. n - 1 \in 0..(k - 1) /\ n - 1 # k /\ n - 1 \in 0..k /\ n \in 0..k
      OBVIOUS
    <3>2. f[n - 1] = chain[n - 1]
      BY <3>1
    <3>3. CASE n = k
      BY <3>1, <3>2, <3>3
    <3>4. CASE n # k
      <4>1. n \in 1..(k - 1) /\ f[n] = chain[n]
        BY <3>1, <3>4
      <4>2. QED
        BY <2>1, <3>2, <4>1 DEF Climbs
    <3>5. QED
      BY <3>3, <3>4
  <2>4. Climbs(f, parents, m, k)
    BY <2>2, <2>3 DEF Climbs
  <2>5. QED
    BY <2>4
<1>3. QED
  <2> HIDE DEF S
  <2>1. 0..N \subseteq S
    BY <1>1, <1>2, StepsUp
  <2>2. QED
    BY <2>1 DEF S

LEMMA AboveIs ==
    ASSUME NEW parents, NEW m, Cardinality(Menus) \in Nat
    PROVE  \E chain : /\ Climbs(chain, parents, m, Cardinality(Menus))
                      /\ Above(parents, m) = chain[Cardinality(Menus)]
<1> DEFINE N == Cardinality(Menus)
           f == CHOOSE chain :
                   chain = [n \in 0..N |-> IF n = 0 THEN {m} ELSE Climb(parents, chain[n - 1])]
<1>1. Climbs(f, parents, m, N)
  BY ClimbsExists, ClimbsIs
<1>2. Above(parents, m) = f[N]
  BY DEF Above, Climb
<1>3. QED
  BY <1>1, <1>2

\* What is above a menu in a finite list of menus: the menu, and with each menu its parent.
LEMMA AboveClosed ==
    ASSUME IsFiniteSet(Menus), Root \notin Menus, NEW parents \in [Menus -> Menus \cup {Root}],
           NEW m \in Menus
    PROVE  /\ m \in Above(parents, m) /\ Above(parents, m) \subseteq Menus \cup {Root}
           /\ \A k \in Above(parents, m) \ {Root} : parents[k] \in Above(parents, m)
<1> DEFINE N == Cardinality(Menus)
           All == Menus \cup {Root}
<1>1. /\ N \in Nat /\ IsFiniteSet(All) /\ Cardinality(All) = N + 1
  BY FS_CardinalityType, FS_AddElement
<1>2. PICK chain : Climbs(chain, parents, m, N) /\ Above(parents, m) = chain[N]
  BY <1>1, AboveIs
<1> DEFINE Full(n) == Climb(parents, chain[n]) = chain[n] \/ n + 1 =< Cardinality(chain[n])
           S == {n \in 0..N : m \in chain[n] /\ chain[n] \subseteq All /\ Full(n)}
<1>3. 0 \in S
  <2>1. chain[0] = {m}
    BY <1>2 DEF Climbs
  <2>2. Cardinality(chain[0]) = 1
    BY <2>1, FS_Singleton
  <2>3. m \in chain[0] /\ chain[0] \subseteq All /\ 0 \in 0..N
    BY <1>1, <2>1
  <2>4. QED
    BY <2>2, <2>3
<1>4. ASSUME NEW n \in 1..N, n - 1 \in S PROVE n \in S
  <2> DEFINE low == chain[n - 1]
  <2>1. chain[n] = Climb(parents, low)
    BY <1>2 DEF Climbs
  <2>2. m \in low /\ low \subseteq All
    BY <1>4
  <2>3. m \in chain[n] /\ low \subseteq chain[n] /\ chain[n] \subseteq All
    BY <2>1, <2>2 DEF Climb
  <2>4. CASE chain[n] = low
    BY <2>1, <2>3, <2>4, n \in 0..N
  <2>5. CASE chain[n] # low
    <3>1. n =< Cardinality(low)
      BY <1>4, <2>1, <2>5
    <3>2. PICK x \in chain[n] : x \notin low
      BY <2>3, <2>5
    <3>3. IsFiniteSet(low) /\ IsFiniteSet(chain[n])
      BY <1>1, <2>2, <2>3, FS_Subset
    <3>4. Cardinality(low \cup {x}) = Cardinality(low) + 1 /\ Cardinality(low) \in Nat
      BY <3>2, <3>3, FS_AddElement, FS_CardinalityType
    <3>5. Cardinality(low \cup {x}) =< Cardinality(chain[n]) /\ Cardinality(chain[n]) \in Nat
      BY <2>3, <3>2, <3>3, FS_Subset, FS_CardinalityType
    <3>6. n + 1 =< Cardinality(chain[n])
      BY <3>1, <3>4, <3>5
    <3>7. QED
      BY <2>3, <3>6, n \in 0..N
  <2>6. QED
    BY <2>4, <2>5
<1>5. N \in S
  <2> HIDE DEF S
  <2>1. 0..N \subseteq S
    BY <1>1, <1>3, <1>4, StepsUp
  <2>2. QED
    BY <1>1, <2>1
<1>6. Climb(parents, chain[N]) = chain[N]
  <2>1. CASE N + 1 =< Cardinality(chain[N])
    <3>1. chain[N] = All
      BY <1>1, <1>5, <2>1, FS_Subset, FS_CardinalityType
    <3>2. QED
      BY <3>1 DEF Climb
  <2>2. QED
    BY <1>5, <2>1
<1>7. QED
  BY <1>2, <1>5, <1>6 DEF Climb

-----------------------------------------------------------------------------
(* The menus form a forest *)

\* A handler about to write a menu.
EditsMenu(h) == Writing(h) /\ hand[h].to \in Menus

\* A menu is in one that was there when it was put there, or is about to be.
Placed(p) == p = Root \/ (p \in Menus /\ row[p] # Absent)
NoOrphans ==
    /\ \A m \in Menus : Exists(m) => Placed(row[m].parent)
    /\ \A h \in Hands : EditsMenu(h) => Placed(hand[h].new.parent)

\* Some menus that are there or were, with whatever is above them.
Upward(A) ==
    A \subseteq Menus /\ \A k \in A : row[k] # Absent /\ Parents[k] \in A \cup {Root}

\* No menu is below itself, and the one that is being moved is not put below itself.
Forest == \A ring \in (SUBSET Menus) \ {{}} : \E m \in ring : Parents[m] \notin ring
MovesOK ==
    \A h \in Hands : MovesMenu(h) =>
       /\ \A g \in Hands : MovesMenu(g) => g = h
       /\ \/ hand[h].new.parent = Root
          \/ \E A \in SUBSET Menus : /\ Upward(A) /\ hand[h].new.parent \in A
                                     /\ hand[h].to \notin A
TreeInv == NoOrphans /\ (crossed = {} /\ raced = {} => Forest /\ MovesOK)

\* Steps that put no menu anywhere and let no handler begin to.
TreeLeft ==
    /\ \A m \in Menus : /\ row[m] # Absent => row'[m] # Absent
                        /\ Exists(m)' => Exists(m) /\ row'[m].parent = row[m].parent
    /\ \A h \in Hands : EditsMenu(h)' => EditsMenu(h) /\ hand'[h] = hand[h]
    /\ raced \subseteq raced' /\ crossed \subseteq crossed'

\* The parents before and after a step.
LEMMA ParentsAre ==
    /\ Parents \in [Menus -> {Parents[m] : m \in Menus}]
    /\ \A m \in Menus : Parents[m] = IF Exists(m) THEN row[m].parent ELSE Root
    /\ \A m \in Menus : Parents'[m] = IF Exists(m)' THEN row'[m].parent ELSE Root
  BY DEF Parents

LEMMA MergeParents ==
    ASSUME NEW r \in MenuRows, NEW new \in MenuRows, NEW cols
    PROVE  /\ Merge(r, new, cols) \in MenuRows
           /\ Merge(r, new, cols).parent = IF "parent" \in cols THEN new.parent ELSE r.parent
<1>1. r # Absent /\ DOMAIN new = MenuFields
  BY MenuRowIs
<1>2. Merge(r, new, cols) = [f \in MenuFields |-> IF f \in cols THEN new[f] ELSE r[f]]
  BY <1>1 DEF Merge
<1>3. QED
  BY <1>2, MergeMenus DEF MenuFields

LEMMA TreeStays ==
    ASSUME TreeInv, TreeLeft
    PROVE  TreeInv'
<1>1. \A p : Placed(p) => Placed(p)'
  BY DEF TreeLeft, Placed
<1>2. NoOrphans'
  BY <1>1 DEF TreeInv, TreeLeft, NoOrphans
<1>3. ASSUME crossed' = {}, raced' = {} PROVE Forest' /\ MovesOK'
  <2>1. Forest /\ MovesOK
    BY <1>3 DEF TreeInv, TreeLeft
  <2>2. \A m \in Menus : Parents'[m] \in {Parents[m], Root}
    BY ParentsAre DEF TreeLeft
  <2>3. Forest'
    <3>1. SUFFICES ASSUME NEW ring \in (SUBSET Menus) \ {{}}
                   PROVE  \E m \in ring : Parents'[m] \notin ring
      BY DEF Forest
    <3>2. PICK m \in ring : Parents[m] \notin ring
      BY <2>1 DEF Forest
    <3>3. Root \notin ring
      BY CatalogAssumption
    <3>4. QED
      BY <2>2, <3>2, <3>3
  <2>4. \A A : Upward(A) => Upward(A)'
    <3>1. SUFFICES ASSUME NEW A, Upward(A) PROVE Upward(A)'
      OBVIOUS
    <3>2. \A k \in A : row'[k] # Absent /\ Parents'[k] \in A \cup {Root}
      BY <2>2, <3>1 DEF Upward, TreeLeft
    <3>3. QED
      BY <3>1, <3>2 DEF Upward
  <2>5. \A h \in Hands : MovesMenu(h)' => MovesMenu(h) /\ hand'[h] = hand[h]
    BY DEF MovesMenu, EditsMenu, TreeLeft
  <2>6. QED
    BY <2>1, <2>3, <2>4, <2>5 DEF MovesOK
<1>4. QED
  BY <1>2, <1>3 DEF TreeInv

\* A handler that begins something else than a write, or is done.
LEMMA HandsLeft ==
    ASSUME EditShape, NEW h \in Hands, NEW e, "to" \notin DOMAIN e,
           hand' = [hand EXCEPT ![h] = e]
    PROVE  \A g \in Hands : EditsMenu(g)' => EditsMenu(g) /\ hand'[g] = hand[g]
  BY DEF EditShape, EditsMenu, Writing

LEMMA QuietSteps ==
    ASSUME CatalogInv,
           \/ UNCHANGED <<row, hand, raced, crossed>>
           \/ \E h \in Hands : AddServices(h) \/ UseDiscount(h)
           \/ \E h \in Hands, d \in Discounts, c \in Customers, s \in Services :
                 GetDiscount(h, d, c, s)
           \/ \E h \in Hands, m \in Menus, ids \in SUBSET Services : ClearServices(h, m, ids)
           \/ \E h \in Hands, d \in Discounts : EditDiscount(h, d)
    PROVE  TreeLeft
<1> USE DEF CatalogInv
<1>1. CASE UNCHANGED <<row, hand, raced, crossed>>
  BY <1>1 DEF TreeLeft, Exists, EditsMenu, Writing
<1>2. CASE \E h \in Hands : AddServices(h)
  <2>1. PICK h \in Hands : AddServices(h)
    BY <1>2
  <2>2. hand' = [hand EXCEPT ![h] = Idle] /\ UNCHANGED <<row, raced, crossed>>
    BY <2>1 DEF AddServices, LetGo, RowsKept
  <2>3. QED
    BY <2>2, HandsLeft, CatalogHandIs DEF TreeLeft, Exists
<1>3. CASE \E h \in Hands : UseDiscount(h)
  <2>1. PICK h \in Hands : UseDiscount(h)
    BY <1>3
  <2>2. hand' = [hand EXCEPT ![h] = Idle] /\ UNCHANGED <<raced, crossed>>
    BY <2>1 DEF UseDiscount, LetGo
  <2>3. hand[h].use \in Discounts
    BY <2>1, CatalogHandIs
       DEF UseDiscount, CatalogHands, CatalogHand, DiscountEdit, MenuEdit, Purchase, Relink
  <2>4. \A m \in Menus : row'[m] = row[m]
    BY <2>1, <2>3, CatalogKeys DEF UseDiscount, EditShape
  <2>5. QED
    BY <2>2, <2>4, HandsLeft, CatalogHandIs DEF TreeLeft, Exists
<1>4. CASE \E h \in Hands, d \in Discounts, c \in Customers, s \in Services :
              GetDiscount(h, d, c, s)
  <2>1. PICK h \in Hands, d \in Discounts, c \in Customers, s \in Services :
               GetDiscount(h, d, c, s)
    BY <1>4
  <2> DEFINE e == [use |-> d, customer |-> c, from |-> row[d].used]
  <2>2. hand' = [hand EXCEPT ![h] = e] /\ UNCHANGED <<row, raced, crossed>>
    BY <2>1 DEF GetDiscount, Hold, RowsKept
  <2>3. "to" \notin DOMAIN e
    OBVIOUS
  <2> HIDE DEF e
  <2>4. QED
    BY <2>2, <2>3, HandsLeft DEF TreeLeft, Exists
<1>5. CASE \E h \in Hands, m \in Menus, ids \in SUBSET Services : ClearServices(h, m, ids)
  <2>1. PICK h \in Hands, m \in Menus, ids \in SUBSET Services : ClearServices(h, m, ids)
    BY <1>5
  <2> DEFINE e == [relink |-> m, ids |-> ids, customer |-> "none"]
  <2>2. hand' = [hand EXCEPT ![h] = e] /\ UNCHANGED <<row, raced, crossed>>
    BY <2>1 DEF ClearServices, Hold, RowsKept
  <2>3. "to" \notin DOMAIN e
    OBVIOUS
  <2> HIDE DEF e
  <2>4. QED
    BY <2>2, <2>3, HandsLeft DEF TreeLeft, Exists
<1>6. CASE \E h \in Hands, d \in Discounts : EditDiscount(h, d)
  <2>1. PICK h \in Hands, d \in Discounts : EditDiscount(h, d)
    BY <1>6
  <2>2. PICK a, new, cols : Load(h, a, d, new, cols)
    BY <2>1, Zenon DEF EditDiscount, FlipActive, FlipOnPurchase, FlipOnRenew, FlipOncePerUser,
       PanelSetsActive, PanelSetsLimit, Save, SaveFields
  <2>3. UNCHANGED <<row, raced, crossed>>
    BY <2>1 DEF EditDiscount, FlipActive, FlipOnPurchase, FlipOnRenew, FlipOncePerUser,
       PanelSetsActive, PanelSetsLimit, Save, SaveFields, catalogVars, catalogGhosts
  <2>4. hand'[h] = Loaded(a, d, new, cols) /\ \A g \in Hands \ {h} : hand'[g] = hand[g]
    BY <2>2, LoadEffect
  <2>5. hand'[h].to = d
    BY <2>4, LoadedIs
  <2>6. QED
    BY <2>3, <2>4, <2>5, CatalogKeys DEF TreeLeft, Exists, EditsMenu, Writing
<1>7. QED
  BY <1>1, <1>2, <1>3, <1>4, <1>5, <1>6

\* Rows that are deleted, and the text of a menu.
LEMMA QuietWrites ==
    ASSUME CatalogInv,
           \/ \E d \in Discounts : RemoveDiscount(d)
           \/ \E m \in Menus : DeleteMenu(m)
           \/ \E a \in Managers : GetText(a)
    PROVE  TreeLeft
<1> USE DEF CatalogInv
<1>1. UNCHANGED <<hand, raced, crossed>>
  BY DEF RemoveDiscount, DeleteMenu, GetText, catalogGhosts
<1>2. CASE \E ks : Delete(ks)
  <2>1. \A m \in Menus : row'[m] \in {row[m], Gone}
    BY <1>2, CatalogKeys DEF Delete
  <2>2. Gone # Absent
    BY DEF Gone, Absent
  <2>3. QED
    BY <1>1, <2>1, <2>2 DEF TreeLeft, Exists, EditsMenu, Writing
<1>3. CASE \E a \in Managers : GetText(a)
  <2>1. PICK a \in Managers : GetText(a)
    BY <1>3
  <2> DEFINE m == draft[a].on
             new == [row[m] EXCEPT !.text = "new"]
  <2>2. m \in Menus /\ Exists(m) /\ Update(m, new, {"text"}) /\ m \in Keys
    BY <2>1, CatalogKeys DEF GetText
  <2>3. row[m] \in MenuRows
    BY <2>2 DEF RowsOK, Exists
  <2>4. row'[m] = Merge(row[m], new, {"text"}) /\ \A k \in Keys \ {m} : row'[k] = row[k]
    BY <1>1, <2>2, UpdateKeeps
  <2>5. new \in MenuRows
    BY <2>3 DEF MenuRows
  <2> HIDE DEF new
  <2>6. row'[m] \in MenuRows /\ row'[m].parent = row[m].parent
    BY <2>3, <2>4, <2>5, MergeParents
  <2>7. QED
    BY <1>1, <2>2, <2>3, <2>4, <2>6, MenuRowIs, CatalogKeys
       DEF TreeLeft, Exists, EditsMenu, Writing
<1>4. QED
  BY <1>2, <1>3 DEF RemoveDiscount, DeleteMenu

\* A new row: a discount, or a menu that has no menu below it.
LEMMA NewDiscounts ==
    ASSUME CatalogInv, NEW h \in Hands, NEW new, NEW ids, Make(h, Discounts, new, ids)
    PROVE  TreeLeft
<1> USE DEF CatalogInv
<1>1. PICK d \in Discounts :
        /\ Appear(d, new) /\ Hold(h, [relink |-> d, ids |-> ids, customer |-> "none"])
        /\ UNCHANGED <<raced, crossed>>
  BY DEF Make
<1> DEFINE e == [relink |-> d, ids |-> ids, customer |-> "none"]
<1>2. hand' = [hand EXCEPT ![h] = e] /\ "to" \notin DOMAIN e
  BY <1>1 DEF Hold
<1> HIDE DEF e
<1>3. \A m \in Menus : row'[m] = row[m]
  BY <1>1, CatalogKeys DEF Appear, EditShape
<1>4. QED
  BY <1>1, <1>2, <1>3, HandsLeft DEF TreeLeft, Exists

LEMMA NewMenus ==
    ASSUME CatalogInv, TreeInv, NEW h \in Hands, NEW q, NEW ids,
           Make(h, Menus, NewMenu(Parent(q)), ids)
    PROVE  TreeInv'
<1> USE DEF CatalogInv
<1>0. PICK p : p = Parent(q)
  OBVIOUS
<1>1. PICK n \in Menus :
        /\ row[n] = Absent /\ Appear(n, NewMenu(p))
        /\ Hold(h, [relink |-> n, ids |-> ids, customer |-> "none"])
        /\ UNCHANGED <<raced, crossed>>
  BY <1>0 DEF Make
<1> DEFINE e == [relink |-> n, ids |-> ids, customer |-> "none"]
<1>2. hand' = [hand EXCEPT ![h] = e] /\ "to" \notin DOMAIN e
  BY <1>1 DEF Hold
<1>3. \A g \in Hands : EditsMenu(g)' => EditsMenu(g) /\ hand'[g] = hand[g]
  <2> HIDE DEF e
  <2>1. QED
    BY <1>2, HandsLeft
<1>4. row'[n] = NewMenu(p) /\ \A m \in Menus \ {n} : row'[m] = row[m]
  BY <1>1, CatalogKeys DEF Appear, EditShape
<1>5. p = Root \/ (p \in Menus /\ Exists(p))
  BY <1>0 DEF Parent
<1>6. NewMenu(p).parent = p /\ NewMenu(p) # Absent /\ NewMenu(p) # Gone
  BY DEF NewMenu, Absent, Gone
<1>7. /\ Parents'[n] = p /\ p # n
      /\ \A m \in Menus \ {n} : Parents'[m] = Parents[m] /\ Parents[m] # n
  <2>1. p # n
    BY <1>1, <1>5, CatalogAssumption DEF Exists
  <2>2. Parents'[n] = p
    BY <1>4, <1>6, ParentsAre DEF Exists
  <2>3. ASSUME NEW m \in Menus \ {n} PROVE Parents'[m] = Parents[m] /\ Parents[m] # n
    <3>1. Parents'[m] = Parents[m]
      BY <1>4, ParentsAre DEF Exists
    <3>2. n # Root
      BY CatalogAssumption
    <3>3. Exists(m) => row[m].parent # n
      BY <1>1, <3>2 DEF TreeInv, NoOrphans, Placed
    <3>4. QED
      BY <3>1, <3>2, <3>3, ParentsAre
  <2>4. QED
    BY <2>1, <2>2, <2>3
<1> HIDE DEF e
<1>8. \A x : Placed(x) => Placed(x)'
  BY <1>1, <1>4 DEF Placed
<1>9. NoOrphans'
  <2>1. Placed(p)'
    BY <1>4, <1>5, <1>6 DEF Placed, Exists
  <2>2. QED
    <3>1. \A g \in Hands : EditsMenu(g)' => Placed(hand[g].new.parent)'
      BY <1>3, <1>8 DEF TreeInv, NoOrphans
    <3>2. \A m \in Menus : Exists(m)' => Placed(row[m].parent)'
      BY <1>4, <1>6, <1>8, <2>1 DEF TreeInv, NoOrphans, Exists
    <3>3. QED
      BY <3>1, <3>2 DEF NoOrphans
<1>10. ASSUME crossed' = {}, raced' = {} PROVE Forest' /\ MovesOK'
  <2>1. Forest /\ MovesOK
    BY <1>1, <1>10 DEF TreeInv
  <2>2. Forest'
    <3>1. SUFFICES ASSUME NEW ring \in (SUBSET Menus) \ {{}}, \A m \in ring : Parents'[m] \in ring
                   PROVE  FALSE
      BY DEF Forest
    <3>2. CASE n \notin ring
      BY <1>7, <2>1, <3>1, <3>2 DEF Forest
    <3>3. CASE n \in ring
      <4> DEFINE rest == ring \ {n}
      <4>1. p \in rest
        BY <1>7, <3>1, <3>3
      <4>2. rest \in (SUBSET Menus) \ {{}} /\ \A m \in rest : Parents[m] \in rest
        BY <1>7, <3>1, <4>1
      <4>3. QED
        BY <2>1, <4>2 DEF Forest
    <3>4. QED
      BY <3>2, <3>3
  <2>3. ASSUME NEW A, Upward(A) PROVE Upward(A)'
    <3>1. n \notin A
      BY <1>1, <2>3 DEF Upward
    <3>2. \A k \in A : k \in Menus \ {n} /\ row'[k] = row[k] /\ Parents'[k] = Parents[k]
      BY <1>4, <1>7, <2>3, <3>1 DEF Upward
    <3>3. QED
      BY <2>3, <3>2 DEF Upward
  <2>4. \A g \in Hands : MovesMenu(g)' => MovesMenu(g) /\ hand'[g] = hand[g]
    BY <1>3 DEF MovesMenu, EditsMenu
  <2>5. QED
    BY <2>1, <2>2, <2>3, <2>4 DEF MovesOK
<1>11. QED
  BY <1>9, <1>10 DEF TreeInv

\* A handler that has loaded a menu: it moves it only where it is not below itself, while
\* nobody else moves one.
LEMMA MenuLoaded ==
    ASSUME CatalogInv, TreeInv, NEW h \in Hands, NEW a, NEW m \in Menus, NEW new \in MenuRows,
           Exists(m), Save(h, a, m, new), crossed \subseteq crossed',
           Placed(new.parent),
           \/ new.parent = row[m].parent
           \/ /\ crossed' = {} => ~\E g \in Hands : MovesMenu(g)
              /\ \/ new.parent = Root
                 \/ \E A \in SUBSET Menus : Upward(A) /\ new.parent \in A /\ m \notin A
    PROVE  TreeInv'
<1> USE DEF CatalogInv
<1>1. Load(h, a, m, new, DOMAIN new) /\ UNCHANGED <<row, said, raced>>
  BY DEF Save
<1> DEFINE e == Loaded(a, m, new, DOMAIN new)
<1>2. hand[h] = Idle /\ hand'[h] = e /\ \A g \in Hands \ {h} : hand'[g] = hand[g]
  BY <1>1, LoadEffect
<1>3. PlainEdit(e) /\ e.to = m /\ e.seen = row[m] /\ e.new = new
  BY LoadedIs
<1> HIDE DEF e
<1>4. NoOrphans'
  <2>1. \A x : Placed(x)' <=> Placed(x)
    BY <1>1 DEF Placed
  <2>2. \A g \in Hands : EditsMenu(g)' => Placed(hand'[g].new.parent)
    BY <1>2, <1>3 DEF EditsMenu, Writing, TreeInv, NoOrphans
  <2>3. QED
    BY <1>1, <2>1, <2>2 DEF TreeInv, NoOrphans, Exists
<1>5. ASSUME crossed' = {}, raced' = {} PROVE Forest' /\ MovesOK'
  <2>1. Forest /\ MovesOK
    BY <1>1, <1>5 DEF TreeInv
  <2>2. Parents' = Parents
    BY <1>1 DEF Parents, Exists
  <2>3. Forest' /\ \A A : Upward(A)' <=> Upward(A)
    BY <1>1, <2>1, <2>2 DEF Forest, Upward
  <2>4. \A g \in Hands \ {h} : MovesMenu(g)' <=> MovesMenu(g)
    BY <1>2 DEF MovesMenu, Writing
  <2>5. MovesMenu(h)' => new.parent # row[m].parent
    BY <1>2, <1>3 DEF MovesMenu
  <2>6. ~MovesMenu(h)
    BY <1>2, CatalogHandIs DEF MovesMenu, Writing
  <2>7. CASE new.parent = row[m].parent
    BY <1>2, <2>1, <2>3, <2>4, <2>5, <2>7 DEF MovesOK
  <2>8. CASE new.parent # row[m].parent
    <3>1. \A g \in Hands : MovesMenu(g)' => g = h
      BY <1>1, <1>5, <2>1, <2>4, <2>8
    <3>2. QED
      BY <1>2, <1>3, <2>3, <2>8, <3>1 DEF MovesOK
  <2>9. QED
    BY <2>3, <2>7, <2>8
<1>6. QED
  BY <1>4, <1>5 DEF TreeInv

\* The menus above a place, without those that are no more.
LEMMA AboveUpward ==
    ASSUME CatalogInv, NoOrphans, NEW p \in Menus, Exists(p)
    PROVE  LET A == {k \in Above(Parents, p) \ {Root} : row[k] # Absent}
           IN  Upward(A) /\ p \in A
<1> DEFINE A == {k \in Above(Parents, p) \ {Root} : row[k] # Absent}
<1>1. /\ \A m \in Menus : Exists(m) => row[m].parent \in Menus \cup {Root}
      /\ Root \notin Menus /\ IsFiniteSet(Menus)
  BY CatalogAssumption DEF CatalogInv, RowsOK, Exists, MenuRows
<1>2. Parents \in [Menus -> Menus \cup {Root}]
  BY <1>1 DEF Parents
<1>3. /\ p \in Above(Parents, p) /\ Above(Parents, p) \subseteq Menus \cup {Root}
      /\ \A k \in Above(Parents, p) \ {Root} : Parents[k] \in Above(Parents, p)
  BY <1>1, <1>2, AboveClosed
<1>4. p \in A
  BY <1>1, <1>3 DEF Exists
<1>5. ASSUME NEW k \in A PROVE Parents[k] \in A \cup {Root}
  <2>1. k \in Menus /\ Parents[k] \in Above(Parents, p)
    BY <1>3
  <2>2. Parents[k] # Root => row[Parents[k]] # Absent
    BY <2>1, ParentsAre DEF NoOrphans, Placed
  <2>3. QED
    BY <2>1, <2>2
<1>6. A \subseteq Menus /\ \A k \in A : row[k] # Absent
  BY <1>3
<1> HIDE DEF A
<1>7. Upward(A)
  BY <1>5, <1>6 DEF Upward
<1>8. QED
  BY <1>4, <1>7 DEF A

\* The switches of a menu, and what the panel sets.
LEMMA MenuEdited ==
    ASSUME CatalogInv, TreeInv, NEW h \in Hands, NEW m \in Menus,
           EditMenu(h, m) \/ PanelEditsMenu(h, m)
    PROVE  TreeInv'
<1> USE DEF CatalogInv
<1> DEFINE r == row[m]
<1>1. r \in MenuRows /\ Exists(m)
  BY DEF EditMenu, PanelEditsMenu, RowsOK, Exists
<1>2. crossed \subseteq crossed'
  BY DEF EditMenu, PanelEditsMenu, catalogVars, catalogGhosts
<1>3. Placed(r.parent)
  BY <1>1 DEF TreeInv, NoOrphans
<1>4. /\ \A A \in SUBSET Audiences : /\ [r EXCEPT !.audience = A] \in MenuRows
                                     /\ [r EXCEPT !.audience = A].parent = r.parent
      /\ \A c \in SUBSET Channels : /\ [r EXCEPT !.channels = c] \in MenuRows
                                    /\ [r EXCEPT !.channels = c].parent = r.parent
      /\ \A p \in Menus \cup {Root} : /\ [r EXCEPT !.parent = p] \in MenuRows
                                      /\ [r EXCEPT !.parent = p].parent = p
  BY <1>1 DEF MenuRows
<1>5. CASE \E a, new : /\ Save(h, a, m, new) /\ new \in MenuRows /\ new.parent = r.parent
  BY <1>1, <1>2, <1>3, <1>5, MenuLoaded
<1>6. CASE EditMenu(h, m)
  <2>1. r.audience \in SUBSET Audiences /\ r.channels \in SUBSET Channels
    BY <1>1 DEF MenuRows
  <2>2. \A x \in Channels : Toggle(r.channels, x) \in SUBSET Channels
    BY <2>1 DEF Toggle
  <2>3. "purchase" \in Channels /\ "renew" \in Channels
    BY DEF Channels
  <2>4. "users" \in Audiences /\ "resellers" \in Audiences
    BY DEF Audiences
  <2>5. \A who \in Audiences : ForOnly(r, who) \in MenuRows /\ ForOnly(r, who).parent = r.parent
    <3>1. SUFFICES ASSUME NEW who \in Audiences
                   PROVE  ForOnly(r, who) \in MenuRows /\ ForOnly(r, who).parent = r.parent
      OBVIOUS
    <3> DEFINE B == IF who \in r.audience THEN r.audience \ {who} ELSE {who}
    <3>2. B \in SUBSET Audiences
      BY <2>1, AudienceToggled
    <3>3. ForOnly(r, who) = [r EXCEPT !.audience = B]
      BY DEF ForOnly
    <3> HIDE DEF B
    <3>4. QED
      BY <1>4, <3>2, <3>3
  <2>6. CASE ToggleResellersOnly(h, m) \/ ToggleUsersOnly(h, m)
    BY <1>5, <2>4, <2>5, <2>6, Zenon DEF ToggleResellersOnly, ToggleUsersOnly
  <2>7. CASE TogglePurchase(h, m) \/ ToggleRenew(h, m)
    <3>1. PICK c \in SUBSET Channels : Save(h, "bot", m, [r EXCEPT !.channels = c])
      BY <2>2, <2>3, <2>7, Zenon DEF TogglePurchase, ToggleRenew
    <3> DEFINE new == [r EXCEPT !.channels = c]
    <3>2. new \in MenuRows /\ new.parent = r.parent
      BY <1>4
    <3>3. Save(h, "bot", m, new)
      BY <3>1
    <3> HIDE DEF new
    <3>4. QED
      BY <1>5, <3>2, <3>3
  <2>8. QED
    BY <1>6, <2>6, <2>7 DEF EditMenu
<1>7. CASE PanelEditsMenu(h, m)
  <2>1. CASE \E set \in SUBSET Audiences : Save(h, "panel", m, [r EXCEPT !.audience = set])
    <3>1. PICK set \in SUBSET Audiences : Save(h, "panel", m, [r EXCEPT !.audience = set])
      BY <2>1
    <3> DEFINE new == [r EXCEPT !.audience = set]
    <3>2. new \in MenuRows /\ new.parent = r.parent
      BY <1>4
    <3>3. Save(h, "panel", m, new)
      BY <3>1
    <3> HIDE DEF new
    <3>4. QED
      BY <1>5, <3>2, <3>3
  <2>2. CASE \E p \in (Menus \ {m}) \cup {Root} :
                /\ (p # Root => Exists(p)) /\ ~WouldCycle(m, p)
                /\ Save(h, "panel", m, [r EXCEPT !.parent = p])
                /\ crossed' = crossed \cup
                      (IF \E g \in Hands : MovesMenu(g) THEN {m} ELSE {})
    <3>1. PICK p \in (Menus \ {m}) \cup {Root} :
                /\ (p # Root => Exists(p)) /\ ~WouldCycle(m, p)
                /\ Save(h, "panel", m, [r EXCEPT !.parent = p])
                /\ crossed' = crossed \cup
                      (IF \E g \in Hands : MovesMenu(g) THEN {m} ELSE {})
      BY <2>2
    <3> DEFINE new == [r EXCEPT !.parent = p]
    <3>2. new \in MenuRows /\ new.parent = p
      BY <1>4
    <3>3. Save(h, "panel", m, new)
      BY <3>1
    <3>4. crossed' = {} => ~\E g \in Hands : MovesMenu(g)
      BY <3>1
    <3>5. Placed(p)
      BY <3>1 DEF Placed, Exists
    <3>6. p # Root => \E A \in SUBSET Menus : Upward(A) /\ p \in A /\ m \notin A
      <4>1. SUFFICES ASSUME p # Root
                     PROVE  \E A \in SUBSET Menus : Upward(A) /\ p \in A /\ m \notin A
        OBVIOUS
      <4>2. PICK A : /\ A = {k \in Above(Parents, p) \ {Root} : row[k] # Absent}
                     /\ Upward(A) /\ p \in A
        BY <3>1, <4>1, AboveUpward DEF TreeInv
      <4>3. m \notin A
        BY <3>1, <4>1, <4>2 DEF WouldCycle
      <4>4. QED
        BY <4>2, <4>3 DEF Upward
    <3> HIDE DEF new
    <3>7. QED
      BY <1>1, <1>2, <3>2, <3>3, <3>4, <3>5, <3>6, MenuLoaded
  <2>3. QED
    BY <1>7, <2>1, <2>2, Zenon DEF PanelEditsMenu
<1>8. QED
  BY <1>6, <1>7

\* The write of a menu: it goes where it was, or where it is not below itself.
LEMMA MenuWritten ==
    ASSUME CatalogInv, TreeInv, NEW h \in Hands, WriteCatalog(h)
    PROVE  TreeInv'
<1> USE DEF CatalogInv
<1>1. PICK e : e = hand[h]
  OBVIOUS
<1>2. PICK t : t = e.to
  OBVIOUS
<1>3. DiscountEdit(e) \/ MenuEdit(e)
  BY <1>1, CatalogHandIs DEF WriteCatalog, Write, Writing, CatalogHands, CatalogHand
<1>4. /\ PlainEdit(e) /\ t \in Discounts \cup Menus /\ t \in Keys
      /\ t \in Menus => MenuEdit(e)
  BY <1>2, <1>3, CatalogKeys DEF DiscountEdit, MenuEdit
<1>5. PICK r : r = row[t]
  OBVIOUS
<1>6. /\ row'[t] = Written(r, e) /\ \A k \in Keys \ {t} : row'[k] = row[k]
      /\ hand'[h] = Idle /\ \A g \in Hands \ {h} : hand'[g] = hand[g]
      /\ raced \subseteq raced' /\ crossed' = crossed
      /\ Whole(e) /\ ~Fails(r, e) /\ t \notin raced' => r = e.seen
  BY <1>1, <1>2, <1>4, <1>5, WriteEffect DEF WriteCatalog
<1>7. \A g \in Hands : EditsMenu(g)' => g # h /\ EditsMenu(g) /\ hand'[g] = hand[g]
  BY <1>6, CatalogHandIs DEF EditsMenu, Writing
<1>8. CASE t \in Discounts
  BY <1>6, <1>7, <1>8, CatalogKeys, TreeStays DEF TreeLeft, Exists
<1>9. ASSUME t \in Menus PROVE TreeInv'
  <2>1. /\ r # Absent /\ e.seen # Absent /\ e.seen \in MenuRows /\ e.new \in MenuRows
        /\ e.cols = MenuFields /\ r \in MenuRows \cup {Gone}
    <3>1. Concerns(h, t)
      BY <1>1, <1>2, <1>4, CatalogHandIs DEF Concerns
    <3>2. QED
      BY <1>4, <1>5, <1>9, <3>1, MenuRowIs DEF CatalogHands, MenuEdit, RowsOK
  <2>2. r = Gone => row'[t] = Gone
    BY <1>6, <2>1 DEF Fails, Written
  <2>3. r # Gone => /\ r \in MenuRows /\ row'[t] \in MenuRows
                    /\ row'[t].parent = e.new.parent
                    /\ t \notin raced' => r = e.seen
    <3>1. SUFFICES ASSUME r # Gone
                   PROVE  /\ r \in MenuRows /\ row'[t] \in MenuRows
                          /\ row'[t].parent = e.new.parent
                          /\ t \notin raced' => r = e.seen
      OBVIOUS
    <3>2. ~Fails(r, e) /\ r \in MenuRows
      BY <2>1, <3>1 DEF Fails
    <3>3. row'[t] = Merge(r, e.new, e.cols)
      BY <1>6, <3>2 DEF Written
    <3>4. Whole(e)
      BY <2>1, MenuRowIs DEF Whole
    <3>5. QED
      BY <1>6, <2>1, <3>2, <3>3, <3>4, MergeParents DEF MenuFields
  <2>4. /\ \A m \in Menus : row[m] # Absent => row'[m] # Absent
        /\ \A m \in Menus : Exists(m)' => Exists(m)
        /\ \A m \in Menus \ {t} : row'[m] = row[m]
    <3>1. Gone # Absent
      BY DEF Gone, Absent
    <3>2. QED
      BY <1>5, <1>6, <2>2, <2>3, <3>1, MenuRowIs, CatalogKeys DEF Exists
  <2>5. CASE r = Gone
    BY <1>5, <1>6, <1>7, <2>2, <2>4, <2>5, TreeStays DEF TreeLeft, Exists
  <2>6. CASE r # Gone
    <3>1. \A x : Placed(x) => Placed(x)'
      BY <2>4 DEF Placed
    <3>2. EditsMenu(h)
      BY <1>1, <1>2, <1>9 DEF EditsMenu, WriteCatalog, Write
    <3>3. Placed(e.new.parent)
      BY <1>1, <3>2 DEF TreeInv, NoOrphans
    <3>4. NoOrphans'
      <4>1. \A g \in Hands : EditsMenu(g)' => Placed(hand[g].new.parent)'
        BY <1>7, <3>1 DEF TreeInv, NoOrphans
      <4>2. \A m \in Menus : Exists(m)' => Placed(row[m].parent)'
        BY <2>3, <2>4, <2>6, <3>1, <3>3 DEF TreeInv, NoOrphans, Exists
      <4>3. QED
        BY <4>1, <4>2 DEF NoOrphans
    <3>5. ASSUME crossed' = {}, raced' = {} PROVE Forest' /\ MovesOK'
      <4>1. Forest /\ MovesOK /\ r = e.seen
        BY <1>6, <2>3, <2>6, <3>5 DEF TreeInv
      <4>2. CASE e.new.parent = r.parent
        <5>1. TreeLeft
          BY <1>5, <1>6, <1>7, <2>3, <2>4, <2>6, <4>2 DEF TreeLeft, Exists
        <5>2. QED
          BY <3>5, <5>1, TreeStays DEF TreeInv
      <4>3. CASE e.new.parent # r.parent
        <5>1. MovesMenu(h)
          BY <1>1, <1>2, <1>9, <4>1, <4>3 DEF MovesMenu, WriteCatalog, Write
        <5>2. PICK p : p = e.new.parent
          OBVIOUS
        <5>3. /\ \A g \in Hands : MovesMenu(g) => g = h
              /\ p = Root \/ \E A \in SUBSET Menus : Upward(A) /\ p \in A /\ t \notin A
          BY <1>1, <1>2, <4>1, <5>1, <5>2 DEF MovesOK
        <5>4. Exists(t) /\ Exists(t)'
          BY <1>5, <2>1, <2>3, <2>6, MenuRowIs DEF Exists
        <5>5. Parents'[t] = p /\ \A m \in Menus \ {t} : Parents'[m] = Parents[m]
          BY <1>9, <2>3, <2>4, <2>6, <5>2, <5>4, ParentsAre DEF Exists
        <5>6. Forest'
          <6>1. SUFFICES ASSUME NEW ring \in (SUBSET Menus) \ {{}},
                                \A m \in ring : Parents'[m] \in ring
                         PROVE  FALSE
            BY DEF Forest
          <6>2. t \in ring
            BY <4>1, <5>5, <6>1 DEF Forest
          <6>3. p \in ring /\ Root \notin ring
            BY <1>9, <5>5, <6>1, <6>2, CatalogAssumption
          <6>4. PICK A \in SUBSET Menus : Upward(A) /\ p \in A /\ t \notin A
            BY <5>3, <6>3
          <6>5. ring \cap A \in (SUBSET Menus) \ {{}}
            BY <6>3, <6>4
          <6>6. \A m \in ring \cap A : Parents[m] \in ring \cap A
            BY <5>5, <6>1, <6>3, <6>4 DEF Upward
          <6>7. QED
            BY <4>1, <6>5, <6>6 DEF Forest
        <5>7. MovesOK'
          <6>1. \A g \in Hands : ~MovesMenu(g)'
            BY <1>7, <5>3 DEF MovesMenu, EditsMenu
          <6>2. QED
            BY <6>1 DEF MovesOK
        <5>8. QED
          BY <5>6, <5>7
      <4>4. QED
        BY <4>2, <4>3
    <3>6. QED
      BY <3>4, <3>5 DEF TreeInv
  <2>7. QED
    BY <2>5, <2>6
<1>10. QED
  BY <1>4, <1>8, <1>9

LEMMA TreeStart ==
    ASSUME EditsInit([k \in Keys |-> IF k \in Discounts \cup Menus THEN FirstCatalog[k]
                                     ELSE Absent]),
           CatalogInit
    PROVE  TreeInv
<1>1. \A h \in Hands : ~EditsMenu(h)
  BY CatalogHandIs DEF EditsInit, EditsMenu, Writing
<1>2. \A m \in Menus : row[m] = FirstCatalog[m]
  BY CatalogKeys DEF EditsInit
<1>3. \A m \in Menus : row[m] \in MenuRows \cup {Absent}
  BY <1>2, CatalogAssumption
<1>4. NoOrphans
  <2>1. \A m \in Menus : Exists(m) => row[m].parent \in Menus \cup {Root}
    BY <1>3 DEF Exists, MenuRows
  <2>2. QED
    BY <1>1, <1>2, <2>1, CatalogAssumption DEF NoOrphans, Placed, Exists
<1>5. Forest
  <2>1. SUFFICES ASSUME NEW ring \in (SUBSET Menus) \ {{}}
                 PROVE  \E m \in ring : Parents[m] \notin ring
    BY DEF Forest
  <2>2. PICK m \in ring : FirstCatalog[m] = Absent \/ FirstCatalog[m].parent \notin ring
    BY CatalogAssumption
  <2>3. Root \notin ring
    BY CatalogAssumption
  <2>4. QED
    BY <1>2, <2>2, <2>3, ParentsAre DEF Exists
<1>6. MovesOK
  BY <1>1 DEF MovesOK, MovesMenu, EditsMenu
<1>7. QED
  BY <1>4, <1>5, <1>6 DEF TreeInv

LEMMA TreeNext ==
    ASSUME CatalogInv, TreeInv, [CatalogNext]_<<rowVars, catalogVars>>
    PROVE  TreeInv'
<1>1. CASE \/ \E d \in Discounts, c \in Customers : RedeemCode(d, c)
           \/ \E s \in Services : RemoveService(s)
           \/ \E a \in Managers :
                 \/ AddDiscount(a) \/ ShowList(a)
                 \/ \E m \in Menus : AddSubMenu(a, m) \/ EditMenuServices(a, m) \/ EditText(a, m)
                 \/ \E s \in Services : SelectService(a, s)
           \/ UNCHANGED <<rowVars, catalogVars>>
  <2>1. UNCHANGED <<row, hand, raced, crossed>>
    BY <1>1 DEF RedeemCode, RemoveService, AddDiscount, ShowList, AddSubMenu, EditMenuServices,
       EditText, SelectService, Talk, RowsKept, rowVars, catalogVars, catalogGhosts
  <2>2. QED
    BY <2>1, QuietSteps, TreeStays
<1>2. CASE \E h \in Hands : \E a \in Managers : SaveMenuServices(h, a)
  <2>1. PICK h \in Hands, a \in Managers : SaveMenuServices(h, a)
    BY <1>2
  <2>2. draft[a].on \in Menus /\ draft[a].ids \in SUBSET Services
    BY <2>1 DEF SaveMenuServices, CatalogInv, DraftsOK, DraftOK, Drafts
  <2>3. QED
    BY <2>1, <2>2, QuietSteps, TreeStays DEF SaveMenuServices
<1>3. CASE \E h \in Hands, m \in Menus : SetServices(h, m)
  <2>1. forSale \subseteq Services
    BY DEF CatalogInv, LinksOK
  <2>2. QED
    BY <1>3, <2>1, QuietSteps, TreeStays DEF SetServices
<1>4. CASE \/ \E h \in Hands : PanelCreatesDiscount(h)
           \/ \E h \in Hands, a \in Managers : SaveDiscount(h, a)
  BY <1>4, NewDiscounts, TreeStays DEF PanelCreatesDiscount, SaveDiscount
<1>5. CASE \E h \in Hands, a \in Managers : SaveMenu(h, a)
  BY <1>5, NewMenus DEF SaveMenu
<1>6. CASE \E h \in Hands : PanelCreatesMenu(h)
  BY <1>6, NewMenus DEF PanelCreatesMenu
<1>7. CASE \/ \E h \in Hands, d \in Discounts :
                 EditDiscount(h, d) \/ \E c \in Customers, s \in Services : GetDiscount(h, d, c, s)
           \/ \E h \in Hands : UseDiscount(h) \/ AddServices(h)
  BY <1>7, QuietSteps, TreeStays
<1>8. CASE \/ \E d \in Discounts : RemoveDiscount(d)
           \/ \E m \in Menus : DeleteMenu(m)
           \/ \E a \in Managers : GetText(a)
  BY <1>8, QuietWrites, TreeStays
<1>9. CASE \/ \E h \in Hands, m \in Menus : EditMenu(h, m) \/ PanelEditsMenu(h, m)
           \/ \E h \in Hands : WriteCatalog(h)
  BY <1>9, MenuEdited, MenuWritten
<1>10. QED
  BY <1>1, <1>2, <1>3, <1>4, <1>5, <1>6, <1>7, <1>8, <1>9 DEF CatalogNext

\* In a forest whatever is above a menu ends at the top.
LEMMA ForestReaches ==
    ASSUME CatalogInv, Forest, NEW m \in Menus
    PROVE  Root \in Above(Parents, m)
<1>1. /\ \A k \in Menus : Exists(k) => row[k].parent \in Menus \cup {Root}
      /\ Root \notin Menus /\ IsFiniteSet(Menus)
  BY CatalogAssumption DEF CatalogInv, RowsOK, Exists, MenuRows
<1>2. Parents \in [Menus -> Menus \cup {Root}]
  BY <1>1 DEF Parents
<1>3. PICK A : A = Above(Parents, m)
  OBVIOUS
<1>4. m \in A /\ A \subseteq Menus \cup {Root} /\ \A k \in A \ {Root} : Parents[k] \in A
  BY <1>1, <1>2, <1>3, AboveClosed
<1>5. SUFFICES ASSUME Root \notin A PROVE FALSE
  BY <1>3
<1>6. A \in (SUBSET Menus) \ {{}} /\ \A k \in A : Parents[k] \in A
  BY <1>4, <1>5
<1>7. QED
  BY <1>6 DEF Forest

\* Every menu can be reached from the top of the list, for any menus, handlers and edits, unless
\* a menu was moved while another one was, or an old copy of a row was written (MenusReachable;
\* _would_cycle of the panel).
THEOREM AlwaysMenusReachable == CatalogSpec => []MenusReachable
<1>1. CatalogInv /\ TreeInv => MenusReachable
  BY ForestReaches DEF MenusReachable, TreeInv
<1>2. CatalogInv /\ TreeInv /\ [CatalogNext]_<<rowVars, catalogVars>> => (CatalogInv /\ TreeInv)'
  BY CatalogNextKeeps, TreeNext
<1>3. QED
  BY <1>1, <1>2, CatalogStart, TreeStart, PTL DEF CatalogSpec

-----------------------------------------------------------------------------
(* Servers *)

ServerFields == {"host", "login", "token", "https", "enabled", "total"}

\* What a handler may have in hand about a server: only the rows that are there are edited,
\* and no handler changes the count of the copy it saves.
ServerEdit(e) ==
    /\ PlainEdit(e) /\ e.to \in Servers /\ e.seen \in ServerRows /\ e.new \in ServerRows
    /\ row[e.to] # Absent
    /\ e.new.total = e.seen.total /\ e.cols \in {ServerFields, {"enabled"}}
ServerHand(e) ==
    \/ e \in {Idle, [refresh |-> TRUE]} \/ DOMAIN e = {"rows"}
    \/ DOMAIN e = {"drop"} /\ e.drop \in Servers
    \/ ServerEdit(e)
ServerHands == \A h \in Hands : ServerHand(hand[h])

\* A new server's form has at each question what was asked before.
Stages == {"none", "host", "token", "confirm", "value", "edit", "new host", "new token"}
Talks ==
    [at : Stages, of : Servers \cup {"nobody"}, data : [Access -> Values \cup {Unset}],
     https : YesNo \cup {Unset}, bulk : BOOLEAN]
FormFilled(c) ==
    /\ c.at \in {"token", "confirm"} => c.data.host \in Values /\ c.https \in YesNo
    /\ c.at = "confirm" => c.data.token \in Values
TalksOK == talk \in [Operators -> Talks] /\ \A a \in Operators : FormFilled(talk[a])

\* Rows that were read to build the adapters from them are current, and so are the adapters
\* when nobody is going to build them, except for the servers changed by others.
Pending(h) == "refresh" \in DOMAIN hand[h]
RefreshOK ==
    ~overlap =>
       /\ \A g, h \in Hands : Refreshing(g) /\ Refreshing(h) => g = h
       /\ (\A h \in Hands : ~Pending(h)) =>
            \A s \in Servers \ outdated :
               /\ \A h \in Hands : Refreshing(h) => Adapters(hand[h].rows)[s] = Adapters(row)[s]
               /\ (\A h \in Hands : ~Refreshing(h)) => adapters[s] = Adapters(row)[s]

ServersInv ==
    /\ EditShape /\ ServersTypeOK /\ DecisionsKept /\ TotalsKept
    /\ ServerHands /\ TalksOK /\ RefreshOK
    /\ adapters = [s \in Servers |-> adapters[s]]
    /\ \A s \in Servers : row[s] = Absent => made[s] = 0 /\ refused[s] = 0

\* A server's row, and what its adapter takes from it.
LEMMA ServerRowIs ==
    ASSUME NEW r \in ServerRows
    PROVE  /\ DOMAIN r = ServerFields /\ r # Absent /\ r # Gone /\ r.total \in Nat
           /\ r = [f \in DOMAIN r |-> r[f]]
  BY DEF ServerRows, ServerFields, Absent, Gone

LEMMA MergeServers ==
    ASSUME NEW r \in ServerRows, NEW new \in ServerRows, NEW cols
    PROVE  /\ Merge(r, new, cols) \in ServerRows
           /\ Merge(r, new, cols).total = IF "total" \in cols THEN new.total ELSE r.total
<1>1. r # Absent /\ DOMAIN new = ServerFields
  BY ServerRowIs
<1>2. Merge(r, new, cols) = [f \in ServerFields |-> IF f \in cols THEN new[f] ELSE r[f]]
  BY <1>1 DEF Merge
<1>3. QED
  BY <1>2 DEF ServerRows, ServerFields

LEMMA AdaptersAre ==
    ASSUME NEW rows
    PROVE  /\ Adapters(rows) = [s \in Servers |-> Adapters(rows)[s]]
           /\ \A s \in Servers : \/ Adapters(rows)[s] = NoAdapter
                                 \/ DOMAIN Adapters(rows)[s] = Access \cup {"https"}
  BY DEF Adapters, Adapter, Access

LEMMA AdapterOf ==
    ASSUME NEW rows, NEW others, NEW s \in Servers,
           \/ rows[s] = others[s]
           \/ /\ rows[s] \in ServerRows /\ others[s] \in ServerRows
              /\ \A f \in Access \cup {"https"} : rows[s][f] = others[s][f]
    PROVE  Adapters(rows)[s] = Adapters(others)[s]
<1>1. CASE rows[s] = others[s]
  BY <1>1 DEF Adapters
<1>2. CASE /\ rows[s] \in ServerRows /\ others[s] \in ServerRows
           /\ \A f \in Access \cup {"https"} : rows[s][f] = others[s][f]
  <2>1. rows[s] \notin {Absent, Gone} /\ others[s] \notin {Absent, Gone}
    BY <1>2, ServerRowIs
  <2>2. Adapter(rows[s]) = Adapter(others[s])
    BY <1>2 DEF Adapter, Access
  <2>3. QED
    BY <2>1, <2>2 DEF Adapters
<1>3. QED
  BY <1>1, <1>2

\* A handler that does not build adapters, and changes none of an undisturbed server.
LEMMA FreshStays ==
    ASSUME RefreshOK, UNCHANGED <<adapters, overlap>>,
           \A g \in Hands : \/ hand'[g] = hand[g]
                            \/ /\ ~Pending(g) /\ ~Refreshing(g)
                               /\ ~Pending(g)' /\ ~Refreshing(g)',
           \A s \in Servers \ outdated' :
              s \notin outdated /\ Adapters(row)'[s] = Adapters(row)[s]
    PROVE  RefreshOK'
<1>1. \A g \in Hands : /\ Pending(g)' <=> Pending(g)
                       /\ Refreshing(g)' <=> Refreshing(g)
                       /\ Refreshing(g)' => hand'[g] = hand[g]
  BY DEF Pending, Refreshing
<1>2. QED
  BY <1>1 DEF RefreshOK

\* A handler that is going to build the adapters may have changed anything.
LEMMA FreshLater ==
    ASSUME RefreshOK, NEW h \in Hands, hand[h] = Idle, UNCHANGED overlap,
           hand' = [hand EXCEPT ![h] = [refresh |-> TRUE]], EditShape
    PROVE  RefreshOK'
<1>1. Pending(h)' /\ ~Refreshing(h)' /\ \A g \in Hands \ {h} : Refreshing(g)' <=> Refreshing(g)
  BY DEF EditShape, Pending, Refreshing
<1>2. QED
  BY <1>1 DEF RefreshOK

LEMMA ServerHandIs ==
    /\ DOMAIN Idle = {"idle"}
    /\ \A e : PlainEdit(e) => "to" \in DOMAIN e /\ DOMAIN e \cap {"refresh", "rows", "drop"} = {}
  BY DEF Idle, PlainEdit, Entry

\* A server that was loaded stays in the table until it is deleted.
LEMMA ServerHandsStay ==
    ASSUME ServerHands,
           \A g \in Hands : hand'[g] = hand[g] \/ hand'[g] \in {Idle, [refresh |-> TRUE]},
           \A s \in Servers : row[s] # Absent => row'[s] # Absent
    PROVE  ServerHands'
  BY DEF ServerHands, ServerHand, ServerEdit, PlainEdit

\* Conversations change nothing else.
LEMMA ChatKeeps ==
    ASSUME ServersInv, NEW a \in Operators, NEW c \in Talks, FormFilled(c), Chat(a, c)
    PROVE  ServersInv'
<1> USE DEF ServersInv
<1>1. UNCHANGED <<row, said, raced, hand, adapters, sold, made, refused, outdated, overlap>>
  BY DEF Chat, RowsKept, serverGhosts
<1>2. TalksOK'
  BY DEF Chat, TalksOK, FormFilled
<1>3. EditShape' /\ DecisionsKept' /\ TotalsKept' /\ ServersTypeOK'
  BY <1>1 DEF EditShape, DecisionsKept, TotalsKept, ServersTypeOK, Exists
<1>4. ServerHands' /\ RefreshOK'
  BY <1>1 DEF ServerHands, ServerHand, ServerEdit, PlainEdit, RefreshOK, Pending, Refreshing,
              Adapters
<1>5. QED
  BY <1>1, <1>2, <1>3, <1>4

LEMMA ConversationsKeep ==
    ASSUME ServersInv, NEW a \in Operators,
           \/ LeaveTalk(a) \/ BulkPanel(a) \/ EnterBulkValue(a) \/ AddServer(a)
           \/ GetServerHost(a) \/ GetServerToken(a) \/ ConfirmNo(a) \/ AskToken(a)
           \/ EditServerHost(a) \/ EditServerToken(a) \/ ToggleHttps(a)
           \/ \E s \in Servers : EditServer(a, s)
    PROVE  ServersInv'
<1> DEFINE c == talk[a]
<1>1. c \in Talks /\ FormFilled(c)
  BY DEF ServersInv, TalksOK
<1>2. NoTalk \in Talks /\ FormFilled(NoTalk)
  BY DEF NoTalk, Talks, FormFilled, Stages
<1>3. CASE LeaveTalk(a)
  BY <1>2, <1>3, ChatKeeps DEF LeaveTalk
<1>4. CASE EnterBulkValue(a)
  <2> DEFINE d == [NoTalk EXCEPT !.at = "value", !.bulk = TRUE]
  <2>1. d \in Talks /\ FormFilled(d)
    BY DEF NoTalk, Talks, FormFilled, Stages
  <2>2. QED
    BY <1>4, <2>1, ChatKeeps DEF EnterBulkValue
<1>5. CASE BulkPanel(a)
  <2>1. [c EXCEPT !.bulk = TRUE] \in Talks /\ FormFilled([c EXCEPT !.bulk = TRUE])
    BY <1>1 DEF Talks, FormFilled
  <2>2. QED
    BY <1>5, <2>1, ChatKeeps DEF BulkPanel
<1>6. CASE AddServer(a) \/ ConfirmNo(a) \/ AskToken(a)
  <2>1. PICK at \in {"host", "new token"} : Chat(a, [c EXCEPT !.at = at])
    BY <1>6 DEF AddServer, ConfirmNo, AskToken, AskFor
  <2> DEFINE d == [c EXCEPT !.at = at]
  <2>2. d \in Talks /\ FormFilled(d)
    BY <1>1, <2>1 DEF Talks, FormFilled, Stages
  <2>3. QED
    BY <2>1, <2>2, ChatKeeps
<1>7. CASE ToggleHttps(a)
  <2>1. PICK x \in YesNo : c.at = "edit" /\ Chat(a, [c EXCEPT !.https = x])
    BY <1>7 DEF ToggleHttps, YesNo
  <2> DEFINE d == [c EXCEPT !.https = x]
  <2>2. d \in Talks /\ FormFilled(d)
    BY <1>1, <2>1 DEF Talks, FormFilled
  <2>3. QED
    BY <2>1, <2>2, ChatKeeps
<1>8. CASE \E s \in Servers : EditServer(a, s)
  <2>1. PICK s \in Servers : Chat(a, [c EXCEPT !.at = "edit", !.of = s])
    BY <1>8 DEF EditServer
  <2> DEFINE d == [c EXCEPT !.at = "edit", !.of = s]
  <2>2. d \in Talks /\ FormFilled(d)
    BY <1>1, <2>1 DEF Talks, FormFilled, Stages
  <2>3. QED
    BY <2>1, <2>2, ChatKeeps
<1>9. CASE GetServerHost(a)
  <2>1. PICK v \in Values, b \in YesNo :
            Chat(a, [c EXCEPT !.at = "token", !.data.host = v, !.https = b])
    BY <1>9 DEF GetServerHost
  <2> DEFINE d == [c EXCEPT !.at = "token", !.data.host = v, !.https = b]
  <2>2. d \in Talks /\ FormFilled(d)
    BY <1>1, <2>1 DEF Talks, FormFilled, Access, Stages
  <2>3. QED
    BY <2>1, <2>2, ChatKeeps
<1>10. CASE EditServerHost(a)
  <2>1. PICK v \in Values : Chat(a, [c EXCEPT !.at = "edit", !.data.host = v])
    BY <1>10 DEF EditServerHost
  <2> DEFINE d == [c EXCEPT !.at = "edit", !.data.host = v]
  <2>2. d \in Talks /\ FormFilled(d)
    BY <1>1, <2>1 DEF Talks, FormFilled, Access, Stages
  <2>3. QED
    BY <2>1, <2>2, ChatKeeps
<1>11. CASE GetServerToken(a) \/ EditServerToken(a)
  <2>1. PICK at \in {"confirm", "edit"}, v \in Values :
            /\ at = "confirm" => c.at = "token"
            /\ \/ Chat(a, [c EXCEPT !.at = at, !.data.token = v])
               \/ Chat(a, [c EXCEPT !.at = at, !.data.token = v, !.data.login = v])
               \/ Chat(a, [c EXCEPT !.data.login = v])
    BY <1>11 DEF GetServerToken, EditServerToken, Typed
  <2> DEFINE x == [c EXCEPT !.at = at, !.data.token = v]
             y == [c EXCEPT !.at = at, !.data.token = v, !.data.login = v]
             z == [c EXCEPT !.data.login = v]
  <2>2. x \in Talks /\ FormFilled(x)
    BY <1>1, <2>1 DEF Talks, FormFilled, Access, Stages
  <2>3. y \in Talks /\ FormFilled(y)
    BY <1>1, <2>1 DEF Talks, FormFilled, Access, Stages
  <2>4. z \in Talks /\ FormFilled(z)
    BY <1>1, <2>1 DEF Talks, FormFilled, Access, Stages
  <2>5. QED
    BY <2>1, <2>2, <2>3, <2>4, ChatKeeps
<1>12. QED
  BY <1>3, <1>4, <1>5, <1>6, <1>7, <1>8, <1>9, <1>10, <1>11

\* A handler that has loaded a server, or will delete one.
LEMMA ServerHandKeeps ==
    ASSUME ServersInv, NEW h \in Hands, RowsKept, UNCHANGED serverVars, hand[h] = Idle,
           hand' = [g \in Hands |-> hand'[g]], \A g \in Hands \ {h} : hand'[g] = hand[g],
           ServerEdit(hand'[h]) \/ (DOMAIN hand'[h] = {"drop"} /\ hand'[h].drop \in Servers)
    PROVE  ServersInv'
<1> USE DEF ServersInv
<1>1. UNCHANGED <<row, said, raced, talk, adapters, sold, made, refused, outdated, overlap>>
  BY DEF RowsKept, serverVars, serverGhosts
<1>2. EditShape' /\ DecisionsKept' /\ TotalsKept' /\ ServersTypeOK' /\ TalksOK'
  BY <1>1 DEF EditShape, DecisionsKept, TotalsKept, ServersTypeOK, Exists, TalksOK, FormFilled
<1>3. ServerHands'
  BY <1>1 DEF ServerHands, ServerHand, ServerEdit, PlainEdit
<1>4. \A g \in Hands : \/ hand'[g] = hand[g]
                       \/ ~Pending(g) /\ ~Refreshing(g) /\ ~Pending(g)' /\ ~Refreshing(g)'
  BY <1>1, ServerHandIs DEF Pending, Refreshing, ServerEdit
<1>5. RefreshOK'
  BY <1>1, <1>4, FreshStays DEF Adapters
<1>6. QED
  BY <1>1, <1>2, <1>3, <1>5

LEMMA ServerButtonsKeep ==
    ASSUME ServersInv, NEW h \in Hands, NEW s \in Servers,
           \/ EnableOrDisable(h, s) \/ PanelDelete(h, s) \/ PanelUpdates(h, s) \/ RenewToken(h, s)
    PROVE  ServersInv'
<1> DEFINE r == row[s]
<1>1. r \in ServerRows
  BY DEF EnableOrDisable, PanelDelete, PanelUpdates, RenewToken, Exists, ServersInv, ServersTypeOK
<1>2. UNCHANGED serverVars
  BY DEF EnableOrDisable, PanelDelete, PanelUpdates, RenewToken
<1>3. CASE PanelDelete(h, s)
  <2>1. hand' = [hand EXCEPT ![h] = [drop |-> s]] /\ hand[h] = Idle /\ RowsKept
    BY <1>3 DEF PanelDelete, Hold, Start
  <2>2. /\ hand' = [g \in Hands |-> hand'[g]] /\ \A g \in Hands \ {h} : hand'[g] = hand[g]
        /\ hand'[h] = [drop |-> s]
    BY <2>1 DEF ServersInv, EditShape
  <2>3. QED
    BY <1>2, <2>1, <2>2, ServerHandKeeps
<1>4. CASE EnableOrDisable(h, s) \/ PanelUpdates(h, s) \/ RenewToken(h, s)
  <2>1. PICK a, new, cols :
          /\ new \in ServerRows
          /\ Load(h, a, s, new, cols) /\ RowsKept /\ cols \in {DOMAIN new, {"enabled"}}
          /\ new.total = r.total
    <3>1. \A b \in BOOLEAN : /\ [r EXCEPT !.enabled = b] \in ServerRows
                             /\ [r EXCEPT !.enabled = b].total = r.total
      BY <1>1 DEF ServerRows
    <3>2. \A v \in Values : /\ [r EXCEPT !.host = v, !.token = v] \in ServerRows
                            /\ [r EXCEPT !.host = v, !.token = v].total = r.total
                            /\ [r EXCEPT !.login = v, !.token = v] \in ServerRows
                            /\ [r EXCEPT !.login = v, !.token = v].total = r.total
                            /\ [r EXCEPT !.token = v] \in ServerRows
                            /\ [r EXCEPT !.token = v].total = r.total
      BY <1>1 DEF ServerRows
    <3>3. CASE EnableOrDisable(h, s)
      <4>1. (~r.enabled) \in BOOLEAN
        OBVIOUS
      <4>2. QED
        BY <3>1, <3>3, <4>1, Zenon DEF EnableOrDisable, Save, RowsKept
    <3>4. CASE PanelUpdates(h, s)
      BY <3>1, <3>2, <3>4 DEF PanelUpdates, Save, SaveFields, RowsKept
    <3>5. CASE RenewToken(h, s)
      BY <3>2, <3>5 DEF RenewToken, Save, RowsKept
    <3>6. QED
      BY <1>4, <3>3, <3>4, <3>5
  <2> DEFINE e == Loaded(a, s, new, cols)
  <2>3. /\ PlainEdit(e) /\ e.to = s /\ e.seen = r /\ e.new = new /\ e.cols = cols
    BY LoadedIs
  <2>4. ServerEdit(e)
    BY <1>1, <2>1, <2>3, ServerRowIs DEF ServerEdit
  <2> HIDE DEF e
  <2>5. /\ hand[h] = Idle /\ hand'[h] = e /\ hand' = [g \in Hands |-> hand'[g]]
        /\ \A g \in Hands \ {h} : hand'[g] = hand[g]
    BY <2>1, LoadEffect DEF ServersInv, e
  <2>6. RowsKept
    BY <2>1
  <2>7. QED
    BY <1>2, <2>4, <2>5, <2>6, ServerHandKeeps
<1>5. QED
  BY <1>3, <1>4

\* A new row, made by a conversation or by the panel.
LEMMA ServerMade ==
    ASSUME ServersInv, NEW s \in Servers, row[s] = Absent, NEW new \in ServerRows, new.total = 0,
           row' = [row EXCEPT ![s] = new], said' = [said EXCEPT ![s] = new],
           UNCHANGED <<raced, adapters, sold, made, refused>>,
           outdated' \in {outdated, outdated \cup {s}}
    PROVE  /\ ServersTypeOK' /\ DecisionsKept' /\ TotalsKept'
           /\ hand' = [h \in Hands |-> hand'[h]] => EditShape'
           /\ \A t \in Servers : row'[t] = Absent => made'[t] = 0 /\ refused'[t] = 0
           /\ \A t \in Servers \ {s} : row'[t] = row[t]
<1> USE DEF ServersInv
<1>1. s \in Keys /\ row'[s] = new /\ \A k \in Keys \ {s} : row'[k] = row[k]
  BY ServersAssumption DEF EditShape
<1>2. \A t \in Servers : t \in Keys
  BY ServersAssumption
<1>3. ServersTypeOK'
  BY <1>1, <1>2 DEF ServersTypeOK
<1>4. DecisionsKept'
  BY <1>1 DEF DecisionsKept, EditShape
<1>5. TotalsKept'
  BY <1>1, <1>2 DEF TotalsKept, Exists
<1>6. new # Absent
  BY ServerRowIs
<1>7. hand' = [h \in Hands |-> hand'[h]] => EditShape'
  BY DEF EditShape
<1>8. QED
  BY <1>1, <1>2, <1>3, <1>4, <1>5, <1>6, <1>7

LEMMA PanelAddsKeeps ==
    ASSUME ServersInv, NEW s \in Servers, PanelAdds(s)
    PROVE  ServersInv'
<1> USE DEF ServersInv
<1>1. PICK new \in ServerRows : /\ new.total = 0 /\ row' = [row EXCEPT ![s] = new]
                                /\ said' = [said EXCEPT ![s] = new]
  <2>1. PICK v \in Values :
          LET new == [host |-> v, login |-> v, token |-> v, https |-> "yes",
                      enabled |-> TRUE, total |-> 0]
          IN  row' = [row EXCEPT ![s] = new] /\ said' = [said EXCEPT ![s] = new]
    BY DEF PanelAdds
  <2> DEFINE new == [host |-> v, login |-> v, token |-> v, https |-> "yes",
                     enabled |-> TRUE, total |-> 0]
  <2>2. new \in ServerRows /\ new.total = 0
    BY DEF ServerRows, YesNo
  <2>3. QED
    BY <2>1, <2>2
<1>2. /\ row[s] = Absent /\ outdated' = outdated \cup {s}
      /\ UNCHANGED <<hand, raced, talk, adapters, sold, made, refused, overlap>>
  BY DEF PanelAdds
<1>3. /\ ServersTypeOK' /\ DecisionsKept' /\ TotalsKept' /\ EditShape'
      /\ \A t \in Servers : row'[t] = Absent => made'[t] = 0 /\ refused'[t] = 0
      /\ \A t \in Servers \ {s} : row'[t] = row[t]
  BY <1>1, <1>2, ServerMade DEF EditShape
<1>4. \A t \in Servers \ outdated' : t \notin outdated /\ Adapters(row)'[t] = Adapters(row)[t]
  BY <1>2, <1>3 DEF Adapters
<1>5. RefreshOK'
  BY <1>2, <1>4, FreshStays
<1>6. ServerHands' /\ TalksOK'
  BY <1>2, <1>3, ServerHandsStay DEF TalksOK, FormFilled
<1>7. QED
  BY <1>2, <1>3, <1>5, <1>6

LEMMA ConfirmYesKeeps ==
    ASSUME ServersInv, NEW h \in Hands, NEW a \in Operators, ConfirmYes(h, a)
    PROVE  ServersInv'
<1> USE DEF ServersInv
<1>1. TalksOK'
  <2>1. NoTalk \in Talks /\ FormFilled(NoTalk)
    BY DEF NoTalk, Talks, FormFilled, Stages
  <2>2. QED
    BY <2>1 DEF ConfirmYes, TalksOK, FormFilled
<1>2. UNCHANGED <<raced, adapters, sold, made, refused, overlap>>
  BY DEF ConfirmYes
<1>3. CASE talk[a].of # "nobody"
  <2>1. UNCHANGED <<row, said, hand, outdated>>
    BY <1>3 DEF ConfirmYes
  <2>2. EditShape' /\ DecisionsKept' /\ TotalsKept' /\ ServersTypeOK'
    BY <1>2, <2>1 DEF EditShape, DecisionsKept, TotalsKept, ServersTypeOK, Exists
  <2>3. ServerHands'
    BY <2>1 DEF ServerHands, ServerHand, ServerEdit, PlainEdit
  <2>4. RefreshOK'
    BY <1>2, <2>1, FreshStays DEF Adapters
  <2>5. QED
    BY <1>1, <1>2, <2>1, <2>2, <2>3, <2>4
<1>4. CASE talk[a].of = "nobody"
  <2> DEFINE new == FromForm(talk[a])
  <2>1. PICK s \in Servers :
          /\ row[s] = Absent /\ row' = [row EXCEPT ![s] = new] /\ said' = [said EXCEPT ![s] = new]
          /\ Hold(h, [refresh |-> TRUE]) /\ outdated' = outdated
    BY <1>4 DEF ConfirmYes
  <2>2. new \in ServerRows /\ new.total = 0
    <3>1. talk[a] \in Talks /\ FormFilled(talk[a]) /\ talk[a].at = "confirm"
      BY DEF TalksOK, ConfirmYes
    <3>2. /\ talk[a].data.host \in Values /\ talk[a].data.token \in Values
          /\ talk[a].https \in YesNo
          /\ talk[a].data.login \in Values \cup {Unset}
      BY <3>1 DEF FormFilled, Talks, Access
    <3>3. QED
      BY <3>2 DEF FromForm, ServerRows
  <2> HIDE DEF new
  <2>3. hand[h] = Idle /\ hand' = [hand EXCEPT ![h] = [refresh |-> TRUE]]
    BY <2>1 DEF Hold, Start
  <2>4. hand' = [g \in Hands |-> hand'[g]]
    BY <2>3 DEF EditShape
  <2>5. /\ ServersTypeOK' /\ DecisionsKept' /\ TotalsKept' /\ EditShape'
        /\ \A t \in Servers : row'[t] = Absent => made'[t] = 0 /\ refused'[t] = 0
        /\ \A t \in Servers \ {s} : row'[t] = row[t]
    BY <1>2, <2>1, <2>2, <2>4, ServerMade
  <2>6. RefreshOK'
    BY <1>2, <2>3, FreshLater
  <2>7. ServerHands'
    BY <2>1, <2>3, <2>5, ServerHandsStay DEF EditShape
  <2>8. QED
    BY <1>1, <1>2, <2>5, <2>6, <2>7
<1>5. QED
  BY <1>3, <1>4

\* The columns a conversation holds.
LEMMA SaveEditKeeps ==
    ASSUME ServersInv, NEW h \in Hands, NEW a \in Operators, NEW s \in Servers, SaveEdit(h, a, s)
    PROVE  ServersInv'
<1> USE DEF ServersInv
<1> DEFINE c == talk[a]
           r == row[s]
           new == [f \in DOMAIN r |-> IF f \notin Given(c) THEN r[f]
                                      ELSE IF f = "https" THEN c.https ELSE c.data[f]]
<1>1. /\ Exists(s) /\ Update(s, new, Given(c)) /\ talk' = [talk EXCEPT ![a] = NoTalk]
      /\ hand[h] = Idle /\ hand' = [hand EXCEPT ![h] = [refresh |-> TRUE]]
      /\ UNCHANGED <<raced, adapters, sold, made, refused, outdated, overlap>>
  BY DEF SaveEdit, Hold, Start, serverGhosts
<1>2. r \in ServerRows /\ c \in Talks /\ s \in Keys
  BY <1>1, ServersAssumption DEF Exists, ServersTypeOK, TalksOK
<1>3. new \in ServerRows /\ Given(c) \subseteq Access \cup {"https"}
  <2>1. Given(c) \subseteq Access \cup {"https"}
    BY DEF Given
  <2>2. \A f \in Given(c) : IF f = "https" THEN c.https \in YesNo ELSE c.data[f] \in Values
    BY <1>2 DEF Given, Talks, Access
  <2>3. new = [f \in ServerFields |-> IF f \notin Given(c) THEN r[f]
                                      ELSE IF f = "https" THEN c.https ELSE c.data[f]]
    BY <1>2, ServerRowIs
  <2>4. QED
    BY <1>2, <2>1, <2>2, <2>3 DEF ServerRows, ServerFields, Access
<1> HIDE DEF new
<1>4. hand' = [g \in Hands |-> hand'[g]]
  BY <1>1 DEF EditShape
<1>5. /\ EditShape' /\ DecisionsKept' /\ row'[s] = Merge(r, new, Given(c))
      /\ \A k \in Keys \ {s} : row'[k] = row[k]
  BY <1>1, <1>2, <1>4, UpdateKeeps
<1>6. row'[s] \in ServerRows /\ row'[s].total = r.total
  BY <1>2, <1>3, <1>5, MergeServers DEF Access
<1>7. \A t \in Servers : t \in Keys
  BY ServersAssumption
<1>8. /\ ServersTypeOK' /\ TotalsKept'
      /\ \A t \in Servers : row'[t] = Absent => made'[t] = 0 /\ refused'[t] = 0
  BY <1>1, <1>5, <1>6, <1>7, ServerRowIs DEF ServersTypeOK, TotalsKept, Exists
<1>9. TalksOK'
  <2>1. NoTalk \in Talks /\ FormFilled(NoTalk)
    BY DEF NoTalk, Talks, FormFilled, Stages
  <2>2. QED
    BY <1>1, <2>1 DEF TalksOK, FormFilled
<1>10. RefreshOK'
  BY <1>1, FreshLater
<1>11. ServerHands'
  BY <1>1, <1>5, <1>6, <1>7, ServerRowIs, ServerHandsStay DEF EditShape
<1>12. QED
  BY <1>1, <1>5, <1>8, <1>9, <1>10, <1>11

\* A server deleted.
LEMMA ServerDropped ==
    ASSUME ServersInv, NEW s \in Servers, Drop(s), hand' = [g \in Hands |-> hand'[g]],
           \A g \in Hands : hand'[g] = hand[g] \/ (DOMAIN hand[g] = {"drop"} /\ hand'[g] = Idle)
    PROVE  ServersInv'
<1> USE DEF ServersInv
<1>1. /\ Delete({s}) /\ sold' = [sold EXCEPT ![s] = 0] /\ outdated' = outdated \cup {s}
      /\ UNCHANGED <<raced, talk, adapters, made, refused, overlap>>
  BY DEF Drop
<1>2. /\ s \in Keys /\ row'[s] = Gone /\ \A k \in Keys \ {s} : row'[k] = row[k]
      /\ row' = [k \in Keys |-> row'[k]] /\ said' = [k \in Keys |-> said'[k]]
      /\ said'[s] = Gone /\ \A k \in Keys \ {s} : said'[k] = said[k]
  BY <1>1, ServersAssumption DEF Delete
<1>3. \A t \in Servers : t \in Keys
  BY ServersAssumption
<1>4. EditShape' /\ DecisionsKept'
  BY <1>1, <1>2 DEF EditShape, DecisionsKept
<1>5. ServersTypeOK' /\ TotalsKept'
  BY <1>1, <1>2, <1>3 DEF ServersTypeOK, TotalsKept, Exists
<1>6. \A t \in Servers : row'[t] = Absent => made'[t] = 0 /\ refused'[t] = 0
  BY <1>1, <1>2, <1>3, Gone # Absent DEF Gone, Absent
<1>7. \A t \in Servers \ outdated' : t \notin outdated /\ Adapters(row)'[t] = Adapters(row)[t]
  BY <1>1, <1>2, <1>3 DEF Adapters
<1>8. \A g \in Hands : \/ hand'[g] = hand[g]
                       \/ ~Pending(g) /\ ~Refreshing(g) /\ ~Pending(g)' /\ ~Refreshing(g)'
  BY ServerHandIs DEF Pending, Refreshing
<1>9. RefreshOK'
  BY <1>1, <1>7, <1>8, FreshStays
<1>10. ServerHands' /\ TalksOK'
  <2>1. Gone # Absent
    BY DEF Gone, Absent
  <2>2. \A t \in Servers : row[t] # Absent => row'[t] # Absent
    BY <1>2, <1>3, <2>1
  <2>3. QED
    BY <1>1, <2>2, ServerHandsStay DEF TalksOK, FormFilled
<1>11. QED
  BY <1>1, <1>4, <1>5, <1>6, <1>9, <1>10

LEMMA DeletesKeep ==
    ASSUME ServersInv,
           (\E s \in Servers : RemoveServer(s)) \/ (\E h \in Hands : PanelDeletes(h))
    PROVE  ServersInv'
<1> USE DEF ServersInv
<1>1. CASE \E s \in Servers : RemoveServer(s)
  <2>1. PICK s \in Servers : Drop(s) /\ hand' = hand
    BY <1>1 DEF RemoveServer
  <2>2. QED
    BY <2>1, ServerDropped DEF EditShape
<1>2. CASE \E h \in Hands : PanelDeletes(h)
  <2>1. PICK h \in Hands : PanelDeletes(h)
    BY <1>2
  <2>2. DOMAIN hand[h] = {"drop"} /\ hand[h].drop \in Servers
    <3>1. "drop" \in DOMAIN hand[h] /\ ServerHand(hand[h])
      BY <2>1 DEF PanelDeletes, ServerHands
    <3>2. DOMAIN [refresh |-> TRUE] = {"refresh"}
      OBVIOUS
    <3>3. QED
      BY <3>1, <3>2, ServerHandIs DEF ServerHand, ServerEdit
  <2>3. hand' = [hand EXCEPT ![h] = Idle]
    BY <2>1 DEF PanelDeletes, LetGo
  <2>4. /\ hand' = [g \in Hands |-> hand'[g]] /\ hand'[h] = Idle
        /\ \A g \in Hands \ {h} : hand'[g] = hand[g]
    BY <2>3 DEF EditShape
  <2>5. CASE Exists(hand[h].drop)
    BY <2>1, <2>2, <2>4, <2>5, ServerDropped DEF PanelDeletes
  <2>6. CASE ~Exists(hand[h].drop)
    <3>1. UNCHANGED <<row, said, raced, talk, adapters, sold, made, refused, outdated, overlap>>
      BY <2>1, <2>6 DEF PanelDeletes, RowsKept, serverVars, serverGhosts
    <3>2. EditShape' /\ DecisionsKept' /\ TotalsKept' /\ ServersTypeOK' /\ TalksOK'
      BY <2>4, <3>1 DEF EditShape, DecisionsKept, TotalsKept, ServersTypeOK, Exists, TalksOK,
                        FormFilled
    <3>3. ServerHands'
      BY <2>4, <3>1, ServerHandsStay
    <3>4. \A g \in Hands : \/ hand'[g] = hand[g]
                           \/ ~Pending(g) /\ ~Refreshing(g) /\ ~Pending(g)' /\ ~Refreshing(g)'
      BY <2>2, <2>4, ServerHandIs DEF Pending, Refreshing
    <3>5. RefreshOK'
      BY <3>1, <3>4, FreshStays DEF Adapters
    <3>6. QED
      BY <3>1, <3>2, <3>3, <3>5
  <2>7. QED
    BY <2>5, <2>6
<1>3. QED
  BY <1>1, <1>2

\* A subscription sold.
LEMMA SellKeeps ==
    ASSUME ServersInv, NEW s \in Servers, Sell(s)
    PROVE  ServersInv'
<1> USE DEF ServersInv
<1>1. /\ Exists(s) /\ sold' = [sold EXCEPT ![s] = @ + 1] /\ made' = [made EXCEPT ![s] = @ + 1]
      /\ UNCHANGED <<hand, raced, talk, adapters, outdated, overlap>>
  BY DEF Sell
<1>2. PICK n \in 0..MaxRetry : /\ row' = [row EXCEPT ![s] = OneMore(@, n)]
                               /\ said' = [said EXCEPT ![s] = OneMore(@, n)]
                               /\ refused' = [refused EXCEPT ![s] = @ + n]
  BY DEF Sell
<1>3. s \in Keys /\ row[s] \in ServerRows /\ n \in Nat /\ \A t \in Servers : t \in Keys
  BY <1>1, ServersAssumption DEF Exists, ServersTypeOK
<1> DEFINE r == OneMore(row[s], n)
<1>4. /\ r \in ServerRows /\ r.total = row[s].total + n + 1
      /\ \A f \in Access \cup {"https"} : r[f] = row[s][f]
  BY <1>3 DEF OneMore, ServerRows, Access
<1>5. row'[s] = r /\ \A k \in Keys \ {s} : row'[k] = row[k]
  BY <1>2, <1>3 DEF EditShape
<1>6. EditShape' /\ DecisionsKept'
  BY <1>1, <1>2 DEF EditShape, DecisionsKept
<1>7. /\ made'[s] = made[s] + 1 /\ refused'[s] = refused[s] + n
      /\ \A t \in Servers \ {s} : made'[t] = made[t] /\ refused'[t] = refused[t]
      /\ sold' \in [Servers -> Nat] /\ made' \in [Servers -> Nat] /\ refused' \in [Servers -> Nat]
  BY <1>1, <1>2, <1>3 DEF ServersTypeOK
<1> HIDE DEF r
<1>8. ServersTypeOK'
  BY <1>1, <1>3, <1>4, <1>5, <1>7 DEF ServersTypeOK
<1>9. \A t \in Servers : row'[t] = Absent => made'[t] = 0 /\ refused'[t] = 0
  BY <1>3, <1>4, <1>5, <1>7, ServerRowIs
<1>10. TotalsKept'
  <2>1. row[s].total = made[s] + refused[s] => row'[s].total = made'[s] + refused'[s]
    <3>1. row[s].total \in Nat /\ made[s] \in Nat /\ refused[s] \in Nat
      BY <1>3, ServerRowIs DEF ServersTypeOK
    <3>2. QED
      BY <1>3, <1>4, <1>5, <1>7, <3>1
  <2>2. QED
    BY <1>1, <1>3, <1>5, <1>7, <2>1 DEF TotalsKept, Exists
<1>11. \A t \in Servers : Adapters(row)'[t] = Adapters(row)[t]
  BY <1>3, <1>4, <1>5, AdapterOf
<1>12. RefreshOK'
  BY <1>1, <1>11, FreshStays
<1>13. ServerHands' /\ TalksOK'
  BY <1>1, <1>3, <1>4, <1>5, ServerRowIs, ServerHandsStay DEF TalksOK, FormFilled
<1>14. QED
  BY <1>1, <1>6, <1>8, <1>9, <1>10, <1>12, <1>13

\* The write of a handler.
LEMMA ServerWritten ==
    ASSUME ServersInv, NEW h \in Hands, WriteServer(h)
    PROVE  ServersInv'
<1> USE DEF ServersInv
<1> DEFINE e == hand[h]
           t == e.to
           r == row[t]
<1>1. ServerEdit(e)
  <2>1. "to" \in DOMAIN e /\ ServerHand(e)
    BY DEF WriteServer, Write, Writing, ServerHands
  <2>2. DOMAIN [refresh |-> TRUE] = {"refresh"}
    OBVIOUS
  <2>3. QED
    BY <2>1, <2>2, ServerHandIs DEF ServerHand
<1>2. /\ UNCHANGED <<talk, adapters, sold, made, refused, overlap>>
      /\ outdated' = IF Adapters(row')[t] # Adapters(row)[t] THEN outdated \cup {t} ELSE outdated
  BY DEF WriteServer
<1>3. /\ t \in Servers /\ t \in Keys /\ e.seen \in ServerRows /\ e.new \in ServerRows
      /\ e.new.total = e.seen.total /\ e.cols \in {ServerFields, {"enabled"}}
      /\ r \in ServerRows \cup {Absent, Gone} /\ \A s \in Servers : s \in Keys
  BY <1>1, ServersAssumption DEF ServerEdit, ServersTypeOK
<1>4. /\ row'[t] = Written(r, e) /\ \A k \in Keys \ {t} : row'[k] = row[k]
      /\ hand'[h] = Idle /\ \A g \in Hands \ {h} : hand'[g] = hand[g]
      /\ raced \subseteq raced'
      /\ Whole(e) /\ ~Fails(r, e) /\ t \notin raced' => r = e.seen
  BY <1>1, <1>3, WriteEffect DEF WriteServer, ServerEdit
<1>5. EditShape' /\ DecisionsKept'
  BY WriteKeeps DEF WriteServer
<1>6. e.seen # Absent /\ e.seen # Gone /\ DOMAIN e.new = ServerFields
      /\ e.new = [f \in DOMAIN e.new |-> e.new[f]]
  BY <1>3, ServerRowIs
<1>7. \/ row'[t] = Gone
      \/ r \in ServerRows /\ row'[t] = Merge(r, e.new, e.cols) /\ ~Fails(r, e)
  <2>1. CASE r = Gone
    BY <1>4, <1>6, <2>1 DEF Fails, Written
  <2>2. CASE r # Gone
    BY <1>1, <1>3, <1>4, <1>6, <2>2 DEF Fails, Written, ServerEdit
  <2>3. QED
    BY <2>1, <2>2
<1>8. row'[t] \in ServerRows \cup {Gone} /\ row'[t] # Absent
  <2>1. Gone # Absent
    BY DEF Gone, Absent
  <2>2. QED
    BY <1>3, <1>7, <2>1, MergeServers, ServerRowIs
<1>9. ServersTypeOK' /\ \A s \in Servers : row'[s] = Absent => made'[s] = 0 /\ refused'[s] = 0
  BY <1>2, <1>3, <1>4, <1>8 DEF ServersTypeOK
<1>10. TotalsKept'
  <2>1. SUFFICES ASSUME t \notin raced', row'[t] \notin {Absent, Gone}
                 PROVE  row'[t].total = made[t] + refused[t]
    BY <1>2, <1>3, <1>4 DEF TotalsKept, Exists
  <2>2. r \in ServerRows /\ row'[t] = Merge(r, e.new, e.cols) /\ ~Fails(r, e)
    BY <1>7, <2>1
  <2>3. r.total = made[t] + refused[t]
    BY <1>3, <1>4, <2>1, <2>2, ServerRowIs DEF TotalsKept, Exists
  <2>4. row'[t].total = IF "total" \in e.cols THEN e.new.total ELSE r.total
    BY <1>3, <2>2, MergeServers
  <2>5. CASE e.cols = {"enabled"}
    BY <2>3, <2>4, <2>5
  <2>6. CASE e.cols = ServerFields
    <3>1. r = e.seen
      BY <1>4, <1>6, <2>1, <2>2, <2>6 DEF Whole
    <3>2. QED
      BY <1>3, <2>3, <2>4, <3>1
  <2>7. QED
    BY <1>3, <2>5, <2>6
<1>11. ServerHands'
  BY <1>3, <1>4, <1>8 DEF ServerHands, ServerHand, ServerEdit, PlainEdit
<1>12. \A s \in Servers \ outdated' : s \notin outdated /\ Adapters(row)'[s] = Adapters(row)[s]
  <2>1. \A s \in Servers \ {t} : Adapters(row')[s] = Adapters(row)[s]
    BY <1>3, <1>4, AdapterOf
  <2>2. QED
    BY <1>2, <2>1
<1>13. \A g \in Hands : \/ hand'[g] = hand[g]
                        \/ ~Pending(g) /\ ~Refreshing(g) /\ ~Pending(g)' /\ ~Refreshing(g)'
  BY <1>1, <1>4, ServerHandIs DEF Pending, Refreshing, ServerEdit
<1>14. RefreshOK'
  BY <1>2, <1>12, <1>13, FreshStays
<1>15. TalksOK'
  BY <1>2 DEF TalksOK, FormFilled
<1>16. QED
  BY <1>2, <1>5, <1>9, <1>10, <1>11, <1>14, <1>15

\* The adapters built anew.
LEMMA AdaptersBuilt ==
    ASSUME ServersInv, UNCHANGED <<row, said, raced, talk, sold, made, refused>>,
           hand' = [g \in Hands |-> hand'[g]],
           \A g \in Hands : \/ hand'[g] = hand[g] \/ hand'[g] = Idle
                            \/ DOMAIN hand'[g] = {"rows"},
           outdated' \subseteq Servers, adapters' = [s \in Servers |-> adapters'[s]],
           \A s \in Servers : \/ adapters'[s] = NoAdapter
                              \/ DOMAIN adapters'[s] = Access \cup {"https"},
           RefreshOK'
    PROVE  ServersInv'
<1> USE DEF ServersInv
<1>1. EditShape' /\ DecisionsKept' /\ TotalsKept' /\ ServersTypeOK' /\ TalksOK'
  BY DEF EditShape, DecisionsKept, TotalsKept, ServersTypeOK, Exists, TalksOK, FormFilled
<1>2. ServerHands'
  BY DEF ServerHands, ServerHand, ServerEdit, PlainEdit
<1>3. QED
  BY <1>1, <1>2

LEMMA ReadServersKeeps ==
    ASSUME ServersInv, NEW h \in Hands, ReadServers(h)
    PROVE  ServersInv'
<1> USE DEF ServersInv
<1> DEFINE e == [rows |-> [s \in Servers |-> row[s]]]
<1>1. /\ UNCHANGED <<row, said, raced, talk, sold, made, refused>> /\ outdated' = {}
      /\ hand' = [hand EXCEPT ![h] = e] /\ adapters' = [s \in Servers |-> NoAdapter]
      /\ overlap' = (overlap \/ \E g \in Hands \ {h} : Refreshing(g))
  BY DEF ReadServers, RowsKept
<1>2. DOMAIN e = {"rows"} /\ \A s \in Servers : e.rows[s] = row[s]
  OBVIOUS
<1> HIDE DEF e
<1>3. /\ hand' = [g \in Hands |-> hand'[g]] /\ hand'[h] = e
      /\ \A g \in Hands \ {h} : hand'[g] = hand[g]
  BY <1>1 DEF EditShape
<1>4. RefreshOK'
  <2>1. SUFFICES ASSUME ~overlap'
                 PROVE  /\ \A g \in Hands : Refreshing(g)' => g = h
                        /\ \A s \in Servers : Adapters(e.rows)[s] = Adapters(row)[s]
    BY <1>1, <1>2, <1>3 DEF RefreshOK, Refreshing, Adapters
  <2>2. \A g \in Hands \ {h} : ~Refreshing(g)
    BY <1>1, <2>1
  <2>3. QED
    BY <1>2, <1>3, <2>2, AdapterOf DEF Refreshing
<1>5. QED
  BY <1>1, <1>2, <1>3, <1>4, AdaptersBuilt

LEMMA BuildAdaptersKeeps ==
    ASSUME ServersInv, NEW h \in Hands, BuildAdapters(h)
    PROVE  ServersInv'
<1> USE DEF ServersInv
<1>1. /\ UNCHANGED <<row, said, raced, talk, sold, made, refused, outdated, overlap>>
      /\ Refreshing(h)
      /\ hand' = [hand EXCEPT ![h] = Idle] /\ adapters' = Adapters(hand[h].rows)
  BY DEF BuildAdapters, RowsKept, LetGo, serverGhosts
<1>2. /\ hand' = [g \in Hands |-> hand'[g]] /\ hand'[h] = Idle
      /\ \A g \in Hands \ {h} : hand'[g] = hand[g]
  BY <1>1 DEF EditShape
<1>3. DOMAIN hand[h] = {"rows"}
  <2>1. DOMAIN [refresh |-> TRUE] = {"refresh"}
    OBVIOUS
  <2>2. ServerHand(hand[h]) /\ "rows" \in DOMAIN hand[h]
    BY <1>1 DEF ServerHands, Refreshing
  <2>3. QED
    BY <2>1, <2>2, ServerHandIs DEF ServerHand, ServerEdit
<1>4. ~Refreshing(h)' /\ ~Pending(h)' /\ ~Pending(h)
  BY <1>2, <1>3, ServerHandIs DEF Refreshing, Pending
<1>5. \A g \in Hands \ {h} : (Refreshing(g)' <=> Refreshing(g)) /\ (Pending(g)' <=> Pending(g))
  BY <1>2 DEF Refreshing, Pending
<1>6. RefreshOK'
  BY <1>1, <1>2, <1>4, <1>5 DEF RefreshOK, Adapters
<1>7. QED
  BY <1>1, <1>2, <1>6, AdaptersBuilt, AdaptersAre DEF ServersTypeOK

LEMMA RestartKeeps ==
    ASSUME ServersInv, Restart
    PROVE  ServersInv'
<1>1. /\ UNCHANGED <<row, said, raced, talk, sold, made, refused, overlap>> /\ outdated' = {}
      /\ hand' = [h \in Hands |-> Idle] /\ adapters' = Adapters(row)
  BY DEF Restart, RowsKept
<1>2. \A h \in Hands : ~Refreshing(h)'
  BY <1>1, ServerHandIs DEF Refreshing
<1>3. RefreshOK'
  BY <1>1, <1>2 DEF RefreshOK, Adapters
<1>4. QED
  BY <1>1, <1>3, AdaptersBuilt, AdaptersAre

\* Whatever operators and the panel do to the servers at the same time: no edit undoes
\* another unless it wrote a whole old copy, a server's count is the number of its
\* subscriptions, and the adapters are those of the rows once nobody is at work on them,
\* but for the named cases.
THEOREM AlwaysServersSound == ServersSpec => []ServersSound
<1>1. EditsInit([k \in Keys |-> IF k \in Servers THEN FirstServers[k] ELSE Absent]) /\ ServersInit
        => ServersInv
  <2> SUFFICES ASSUME EditsInit([k \in Keys |-> IF k \in Servers THEN FirstServers[k] ELSE Absent]),
                      ServersInit
               PROVE  ServersInv
    OBVIOUS
  <2>1. EditShape /\ DecisionsKept /\ \A h \in Hands : hand[h] = Idle
    BY DEF EditsInit, EditShape, DecisionsKept
  <2>2. \A s \in Servers : row[s] = FirstServers[s] /\ row[s] \in ServerRows \cup {Absent}
    BY ServersAssumption DEF EditsInit
  <2>3. ServersTypeOK
    <3>1. made \in [Servers -> Nat]
      BY <2>2, ServerRowIs DEF ServersInit, Exists
    <3>2. QED
      BY <2>2, <3>1, AdaptersAre DEF ServersInit, ServersTypeOK
  <2>4. TotalsKept /\ \A s \in Servers : row[s] = Absent => made[s] = 0 /\ refused[s] = 0
    <3>1. \A s \in Servers : row[s] \in ServerRows => row[s].total \in Nat
      BY ServerRowIs
    <3>2. QED
      BY <2>2, <3>1 DEF ServersInit, TotalsKept, Exists
  <2>5. \A h \in Hands : ~Refreshing(h)
    BY <2>1, ServerHandIs DEF Refreshing
  <2>6. RefreshOK /\ ServerHands
    BY <2>1, <2>5 DEF RefreshOK, ServerHands, ServerHand, ServersInit
  <2>7. TalksOK
    BY DEF ServersInit, TalksOK, NoTalk, Talks, FormFilled, Stages
  <2>8. adapters = [s \in Servers |-> adapters[s]]
    BY AdaptersAre DEF ServersInit
  <2>9. QED
    BY <2>1, <2>3, <2>4, <2>6, <2>7, <2>8 DEF ServersInv
<1>2. ServersInv /\ [ServersNext]_<<rowVars, serverVars>> => ServersInv'
  <2> SUFFICES ASSUME ServersInv, [ServersNext]_<<rowVars, serverVars>> PROVE ServersInv'
    OBVIOUS
  <2>1. CASE ServersNext
    BY <2>1, RestartKeeps, ReadServersKeeps, BuildAdaptersKeeps, DeletesKeep, ServerWritten,
       ConversationsKeep, ConfirmYesKeeps, SaveEditKeeps, PanelAddsKeeps, SellKeeps,
       ServerButtonsKeep
       DEF ServersNext
  <2>2. CASE UNCHANGED <<rowVars, serverVars>>
    <3>1. UNCHANGED <<row, said, raced, hand, talk, adapters, sold, made, refused, outdated,
                      overlap>>
      BY <2>2 DEF rowVars, serverVars, serverGhosts
    <3>2. RefreshOK'
      BY <3>1, FreshStays DEF ServersInv, Adapters
    <3>3. QED
      BY <3>1, <3>2, AdaptersBuilt DEF ServersInv, EditShape, ServersTypeOK
  <2>3. QED
    BY <2>1, <2>2
<1>3. ServersInv => ServersSound
  <2> SUFFICES ASSUME ServersInv PROVE ServersSound
    OBVIOUS
  <2>1. AdaptersFresh
    BY DEF ServersInv, RefreshOK, AdaptersFresh, Pending
  <2>2. QED
    BY <2>1 DEF ServersInv, ServersSound
<1>4. QED
  BY <1>1, <1>2, <1>3, PTL DEF ServersSpec

-----------------------------------------------------------------------------
(* Subscriptions *)

SubFields == {"status", "name", "owner", "plan"}
Refund == [i : Nat, amount : Int]

\* What a handler may have in hand: a question to the panel about the row it loaded, a renewal,
\* an account or a row to be removed, a status or a bulk change to be written, or the row, to
\* be saved as a whole or in one column.
Question(e) == DOMAIN e = {"ask", "seen"} /\ e.ask \in Buttons /\ e.seen \in SubRows

\* The limit of a renewal by data is the plan's, unless another data plan's rest is added to it.
LimitFor(plan, e) == e.limit \in Int /\ (plan = "data" => e.limit = Limit \/ e.seen.plan = "data")
Renewing(e) ==
    /\ \/ DOMAIN e = {"renew", "seen"} /\ e.renew \in Plans
       \/ DOMAIN e = {"look", "seen", "bill"} /\ e.look \in Plans /\ e.seen.plan = "data"
       \/ /\ DOMAIN e = {"reset", "limit", "seen", "bill"}
          /\ e.reset \in Plans /\ LimitFor(e.reset, e)
       \/ /\ DOMAIN e = {"modify", "limit", "seen", "bill"}
          /\ e.modify \in Plans /\ LimitFor(e.modify, e)
       \/ DOMAIN e = {"recharge", "seen", "bill"} /\ e.recharge \in Plans
       \/ DOMAIN e = {"recharged", "seen", "bill"} /\ e.recharged \in Plans
    /\ e.seen \in SubRows
Removal(e) ==
    \/ DOMAIN e = {"kill"} /\ e.kill \in Refund
    \/ DOMAIN e = {"forget"} /\ e.forget \in Refund
Turn(e) == DOMAIN e = {"set"} /\ e.set \in BOOLEAN
Change(e) ==
    \/ DOMAIN e = {"mark"} /\ e.mark \in Statuses
    \/ /\ DOMAIN e = {"field", "value", "from"}
       /\ e.field \in {"ends", "limit"} /\ e.value \in Int /\ e.from \in Int
RowWrite(e) ==
    /\ Entry \subseteq DOMAIN e /\ DOMAIN e \subseteq Entry \cup {"next", "bill"}
    /\ e.to = Sub /\ e.seen \in SubRows /\ e.new \in SubRows
    /\ "next" \in DOMAIN e => e.next = Idle \/ Turn(e.next)
SubHand(e) ==
    e = Idle \/ Question(e) \/ Renewing(e) \/ Removal(e) \/ Turn(e) \/ Change(e) \/ RowWrite(e)

\* The row may be deleted, for there is no account any more or nobody asks for it; nothing that
\* spoils a refund has happened yet; the account still has the limit it was bought with, which
\* is not that of a plan by data.
FirstLimit == DataLimit(FirstSub[scheme].plan)
Cleared == orphan \/ ~Alive
Still == ~moved
Calm == ~moved /\ now =< Duration /\ ~resized
Plain == ~moved /\ ~resized /\ FirstLimit # Limit

\* A refund leaves no less of an invoice than nothing, and no more than the price and the fee.
Fair(n, still, calm) == (still => n >= 0) /\ (calm => n =< Price + Fee)

\* No plan by data in what a handler has in hand.
Dataless(e) ==
    /\ "seen" \in DOMAIN e => e.seen.plan # "data"
    /\ "new" \in DOMAIN e => e.new.plan # "data"
    /\ "recharged" \in DOMAIN e => e.recharged # "data"

\* A handler deletes the row only when it may, with a fair refund.
Fits(e, cleared, still, calm, plain) ==
    /\ SubHand(e)
    /\ "kill" \in DOMAIN e => (e.kill.i # 0 => Fair(e.kill.amount, still, calm))
    /\ "forget" \in DOMAIN e => cleared /\ (e.forget.i # 0 => Fair(e.forget.amount, still, calm))
    /\ plain => Dataless(e)
FitsNow(e) == Fits(e, Cleared, Still, Calm, Plain)
FitsThen(e) == Fits(e, Cleared', Still', Calm', Plain')
HandsFit == \A h \in Hands : FitsNow(hand[h])

\* A step that clears no less and calms no more.
Ages == (Cleared => Cleared') /\ (Still' => Still) /\ (Calm' => Calm) /\ (Plain' => Plain)

\* An account has what was paid for it, a period that has begun, and no more used than its limit.
Account == [off : BOOLEAN, ends : Int, limit : Int, used : Nat]
AcctOK ==
    /\ acct \in Account \cup {NoAccount} /\ term \in [ends : Int, limit : Int] /\ now \in Nat
    /\ scheme \in Schemes
    /\ TermKept
    /\ ~moved /\ Alive /\ acct.ends # 0 => acct.ends - Duration \in 0..now
    /\ ~moved /\ ~resized /\ Alive =>
          acct.limit = FirstLimit /\ (FirstLimit = Limit => acct.used =< Limit)

\* The nightly job.
NightOK ==
    \/ night = Idle
    \/ /\ DOMAIN night = {"snap", "status"}
       /\ night.snap \in Account /\ night.status \in Statuses
    \/ DOMAIN night = {"forget"} /\ Cleared

SubRowOK ==
    /\ row[Sub] \in SubRows \cup {Absent, Gone} /\ (row[Sub] = Gone => Cleared)
    /\ Plain /\ row[Sub] \in SubRows => row[Sub].plan # "data"
BillsOK == bills \in Seq([amount : Int, linked : BOOLEAN, renewal : BOOLEAN]) /\ RefundBounded

SubscriptionInv ==
    /\ EditShape /\ DecisionsKept /\ SubRowOK
    /\ HandsFit /\ AcctOK /\ NightOK /\ BillsOK

\* The row of a subscription, field by field.
LEMMA SubRowIs ==
    ASSUME NEW r \in SubRows
    PROVE  /\ DOMAIN r = SubFields /\ r # Absent /\ r # Gone /\ r # Idle
           /\ r.status \in Statuses /\ r.plan \in Plans \cup {NoPlan}
           /\ r = [f \in DOMAIN r |-> r[f]]
  BY DEF SubRows, SubFields, Absent, Gone, Idle

\* Columns of a row over another row.
LEMMA SubMerge ==
    ASSUME NEW r, r \in SubRows \cup {Absent}, NEW new \in SubRows, NEW cols
    PROVE  /\ Merge(r, new, cols) \in SubRows
           /\ Merge(r, new, cols).plan = new.plan
                 \/ (r \in SubRows /\ Merge(r, new, cols).plan = r.plan)
<1>1. DOMAIN new = SubFields
  BY SubRowIs
<1>2. CASE r = Absent
  <2>1. Merge(r, new, cols) = new
    BY <1>2, SubRowIs DEF Merge
  <2>2. QED
    BY <2>1
<1>3. CASE r \in SubRows
  BY <1>1, <1>3 DEF Merge, SubRows, SubFields
<1>4. QED
  BY <1>2, <1>3

\* What a handler may have in hand, by what it does next.
LEMMA SubHandIs ==
    ASSUME NEW e, SubHand(e)
    PROVE  /\ "ask" \in DOMAIN e => Question(e)
           /\ \A f \in {"renew", "look", "reset", "modify", "recharge", "recharged"} :
                 f \in DOMAIN e => e[f] \in Plans /\ e.seen \in SubRows /\ "seen" \in DOMAIN e
           /\ "look" \in DOMAIN e => e.seen.plan = "data"
           /\ "reset" \in DOMAIN e => LimitFor(e.reset, e)
           /\ "modify" \in DOMAIN e => LimitFor(e.modify, e)
           /\ "kill" \in DOMAIN e => e.kill \in Refund
           /\ "forget" \in DOMAIN e => e.forget \in Refund
           /\ "set" \in DOMAIN e => e.set \in BOOLEAN
           /\ "mark" \in DOMAIN e => e.mark \in Statuses
           /\ "field" \in DOMAIN e =>
                 e.field \in {"ends", "limit"} /\ e.value \in Int /\ e.from \in Int
           /\ "to" \in DOMAIN e => RowWrite(e)
           /\ e = Idle => "to" \notin DOMAIN e
  BY DEF SubHand, Question, Renewing, Removal, Turn, Change, RowWrite, Entry, Idle

\* What a handler has in hand now.
LEMMA InHand ==
    ASSUME SubscriptionInv, NEW h \in Hands
    PROVE  /\ SubHand(hand[h]) /\ (Plain => Dataless(hand[h])) /\ FitsNow(hand[h])
           /\ hand = [g \in Hands |-> hand[g]]
  BY DEF SubscriptionInv, HandsFit, FitsNow, Fits, EditShape

\* An idle handler, and one that has a new question, renewal, status or write in hand.
LEMMA FitsPlain ==
    ASSUME NEW e, SubHand(e), "kill" \notin DOMAIN e, "forget" \notin DOMAIN e,
           NEW cleared, NEW still, NEW calm, NEW plain, plain => Dataless(e)
    PROVE  Fits(e, cleared, still, calm, plain)
  BY DEF Fits
LEMMA NothingFits == Dataless(Idle) /\ SubHand(Idle) /\ FitsNow(Idle) /\ FitsThen(Idle)
  BY DEF FitsNow, FitsThen, Fits, SubHand, Dataless, Idle

\* A step that ages keeps what fits.
LEMMA FitsOn ==
    ASSUME NEW e, Ages, FitsNow(e)
    PROVE  FitsThen(e)
  BY DEF Ages, FitsNow, FitsThen, Fits, Fair

\* Nothing that counts for the handlers changes.
LEMMA SameAge ==
    ASSUME UNCHANGED <<acct, now, scheme, moved, resized, orphan>>
    PROVE  /\ Ages /\ Cleared' = Cleared /\ Still' = Still /\ Calm' = Calm /\ Plain' = Plain
           /\ FirstLimit' = FirstLimit /\ Alive' = Alive
  BY DEF Ages, Cleared, Still, Calm, Plain, Alive, NoAccount, FirstLimit, DataLimit

\* A step keeps the invariant that keeps its parts, ages, and gives handlers only what fits.
LEMMA SubParts ==
    ASSUME SubscriptionInv, Ages,
           EditShape', DecisionsKept', SubRowOK', AcctOK', NightOK', BillsOK',
           \A g \in Hands : hand'[g] = hand[g] \/ FitsThen(hand'[g])
    PROVE  SubscriptionInv'
<1>1. ASSUME NEW g \in Hands PROVE FitsThen(hand'[g])
  <2>1. CASE hand'[g] = hand[g]
    <3>1. FitsThen(hand[g])
      BY InHand, FitsOn
    <3>2. QED
      BY <2>1, <3>1
  <2>2. QED
    BY <1>1, <2>1
<1>2. HandsFit'
  BY <1>1, Zenon DEF HandsFit, FitsNow, FitsThen
<1>3. QED
  BY <1>2 DEF SubscriptionInv

\* Steps that leave the row and the invoices alone.
LEMMA AcctStep ==
    ASSUME SubscriptionInv, RowsKept, bills' = bills,
           hand' = [g \in Hands |-> hand'[g]], AcctOK', NightOK', Ages,
           \A g \in Hands : hand'[g] = hand[g] \/ FitsThen(hand'[g])
    PROVE  SubscriptionInv'
<1>1. EditShape' /\ DecisionsKept'
  BY RowsStay DEF SubscriptionInv
<1>2. SubRowOK'
  BY DEF SubscriptionInv, SubRowOK, RowsKept, Ages
<1>3. BillsOK'
  BY DEF SubscriptionInv, BillsOK, RefundBounded, RowsKept, Ages, Calm, Still
<1>4. QED
  BY <1>1, <1>2, <1>3, SubParts

\* Nothing but a handler changes.
LEMMA SubHandStep ==
    ASSUME SubscriptionInv, NEW h \in Hands, RowsKept, UNCHANGED subVars,
           hand' = [hand EXCEPT ![h] = hand'[h]], FitsNow(hand'[h])
    PROVE  SubscriptionInv'
<1>1. /\ hand' = [g \in Hands |-> hand'[g]]
      /\ \A g \in Hands \ {h} : hand'[g] = hand[g]
  BY DEF SubscriptionInv, EditShape
<1>2. UNCHANGED <<acct, now, scheme, bills, night, term, undone, moved, resized, orphan>>
  BY DEF subVars, acctVars, subGhosts
<1>3. Ages /\ Cleared' = Cleared /\ FirstLimit' = FirstLimit
  BY <1>2, SameAge
<1>4. AcctOK' /\ NightOK'
  BY <1>2, <1>3 DEF SubscriptionInv, AcctOK, NightOK, TermKept, Alive, NoAccount
<1>5. \A g \in Hands : hand'[g] = hand[g] \/ FitsThen(hand'[g])
  BY <1>1, <1>3, FitsOn
<1>6. QED
  BY <1>1, <1>2, <1>3, <1>4, <1>5, AcctStep

\* The status of an account, and a row with another status.
LEMMA StatusIs == \A a : Status(a) \in Statuses
  BY DEF Status, Statuses
LEMMA NewStatus ==
    ASSUME NEW r \in SubRows, NEW s \in Statuses
    PROVE  [r EXCEPT !.status = s] \in SubRows /\ [r EXCEPT !.status = s].plan = r.plan
  BY DEF SubRows

\* The row, to be saved with a status, and what comes after.
LEMMA SaveThenFits ==
    ASSUME SubscriptionInv, NEW h \in Hands, "ask" \in DOMAIN hand[h],
           NEW s \in Statuses, NEW next, next = Idle \/ Turn(next), SaveThen(h, s, next)
    PROVE  /\ hand' = [hand EXCEPT ![h] = hand'[h]]
           /\ FitsNow(hand'[h])
<1> DEFINE seen == hand[h].seen
           e == [to |-> Sub, by |-> "bot", seen |-> seen, next |-> next,
                 new |-> [seen EXCEPT !.status = s], cols |-> DOMAIN seen]
<1>1. hand' = [hand EXCEPT ![h] = e] /\ hand'[h] = e
  BY DEF SaveThen, Then, SubscriptionInv, EditShape
<1>2. SubHand(hand[h]) /\ (Plain => Dataless(hand[h]))
  BY InHand
<1>3. seen \in SubRows /\ (Plain => seen.plan # "data")
  BY <1>2, SubHandIs DEF Question, Dataless
<1>4. [seen EXCEPT !.status = s] \in SubRows /\ [seen EXCEPT !.status = s].plan = seen.plan
  BY <1>3, NewStatus
<1>5. RowWrite(e)
  BY <1>3, <1>4 DEF RowWrite, Entry
<1>6. "kill" \notin DOMAIN e /\ "forget" \notin DOMAIN e /\ (Plain => Dataless(e))
  BY <1>3, <1>4 DEF Dataless
<1> HIDE DEF e
<1>7. QED
  BY <1>1, <1>5, <1>6, FitsPlain DEF SubHand, FitsNow

\* A handler that looks at the row or asks the panel, and changes nothing else.
LEMMA QuestionsKeep ==
    ASSUME SubscriptionInv, NEW h \in Hands,
           \/ \E what \in Buttons : Ask(h, what)
           \/ \E plan \in Plans : RenewProxyNow(h, plan)
           \/ ShowProxy(h) \/ DisableProxy(h) \/ EnableProxy(h) \/ RefreshProxies(h)
           \/ CreateInvoice(h) \/ ReadLeft(h) \/ StartBulk(h) \/ GiveUp(h) \/ Deadlocked(h)
    PROVE  SubscriptionInv'
<1> USE DEF Then, LetGo, Hold, Start
<1>1. hand = [g \in Hands |-> hand[g]] /\ SubHand(hand[h]) /\ (Plain => Dataless(hand[h]))
  BY InHand
<1>2. Exists(Sub) => row[Sub] \in SubRows /\ (Plain => row[Sub].plan # "data")
  BY DEF SubscriptionInv, SubRowOK, Exists
<1>3. FitsNow(Idle)
  BY NothingFits
<1>6. ASSUME NEW s \in Statuses, NEW next, next = Idle \/ Turn(next), SaveThen(h, s, next),
             "ask" \in DOMAIN hand[h], RowsKept, UNCHANGED subVars
      PROVE  SubscriptionInv'
  BY <1>6, SaveThenFits, SubHandStep
<1>7. ASSUME LetGo(h), RowsKept, UNCHANGED subVars PROVE SubscriptionInv'
  BY <1>1, <1>3, <1>7, SubHandStep
<1>8. ASSUME NEW e, SubHand(e), "kill" \notin DOMAIN e, "forget" \notin DOMAIN e,
             Plain => Dataless(e),
             hand' = [hand EXCEPT ![h] = e], RowsKept, UNCHANGED subVars
      PROVE  SubscriptionInv'
  <2>1. hand'[h] = e /\ FitsNow(e)
    BY <1>1, <1>8, FitsPlain DEF FitsNow
  <2>2. QED
    BY <1>8, <2>1, SubHandStep
<1>4. ASSUME NEW what \in Buttons, Ask(h, what) PROVE SubscriptionInv'
  <2> DEFINE e == [ask |-> what, seen |-> row[Sub]]
  <2>1. hand' = [hand EXCEPT ![h] = e] /\ RowsKept /\ UNCHANGED subVars
    BY <1>4 DEF Ask
  <2>2. /\ Question(e) /\ "kill" \notin DOMAIN e /\ "forget" \notin DOMAIN e
        /\ Plain => Dataless(e)
    BY <1>2, <1>4 DEF Ask, Question, Dataless
  <2> HIDE DEF e
  <2>3. QED
    BY <1>8, <2>1, <2>2 DEF SubHand
<1>5. ASSUME NEW plan \in Plans, RenewProxyNow(h, plan) PROVE SubscriptionInv'
  <2> DEFINE e == [renew |-> plan, seen |-> row[Sub]]
  <2>1. hand' = [hand EXCEPT ![h] = e] /\ RowsKept /\ UNCHANGED subVars
    BY <1>5 DEF RenewProxyNow
  <2>2. /\ Renewing(e) /\ "kill" \notin DOMAIN e /\ "forget" \notin DOMAIN e
        /\ Plain => Dataless(e)
    BY <1>2, <1>5 DEF RenewProxyNow, Renewing, Dataless
  <2> HIDE DEF e
  <2>3. QED
    BY <1>8, <2>1, <2>2 DEF SubHand
<1>9. Idle = Idle \/ Turn(Idle)
  OBVIOUS
<1>10. CASE ShowProxy(h)
  <2>1. "ask" \in DOMAIN hand[h] /\ RowsKept /\ UNCHANGED subVars
    BY <1>10 DEF ShowProxy, Asks, Does
  <2>2. \/ LetGo(h)
        \/ SaveThen(h, "disabled", Idle) \/ SaveThen(h, Status(acct), Idle)
    BY <1>10, Zenon DEF ShowProxy
  <2>3. "disabled" \in Statuses
    BY DEF Statuses
  <2>4. QED
    BY <1>6, <1>7, <1>9, <2>1, <2>2, <2>3, StatusIs
<1>11. ASSUME NEW off \in BOOLEAN, Switch(h, off) PROVE SubscriptionInv'
  <2> DEFINE wanted == IF off THEN "active" ELSE "disabled"
             next == IF Alive /\ Status(acct) = wanted THEN [set |-> off] ELSE Idle
  <2>1. "ask" \in DOMAIN hand[h] /\ RowsKept /\ UNCHANGED subVars
    BY <1>11 DEF Switch, Asks, Does
  <2>2. next = Idle \/ Turn(next)
    BY DEF Turn
  <2>3. \/ SaveThen(h, Status(acct), next)
        \/ hand' = [hand EXCEPT ![h] = next] \/ hand' = [hand EXCEPT ![h] = Idle]
    BY <1>11 DEF Switch
  <2>4. /\ SubHand(next) /\ "kill" \notin DOMAIN next /\ "forget" \notin DOMAIN next
        /\ SubHand(Idle) /\ "kill" \notin DOMAIN Idle /\ "forget" \notin DOMAIN Idle
        /\ Dataless(next) /\ Dataless(Idle)
    BY <2>2 DEF SubHand, Turn, Idle, Dataless
  <2> HIDE DEF next
  <2>5. QED
    BY <1>6, <1>8, <2>1, <2>2, <2>3, <2>4, StatusIs
<1>12. CASE RefreshProxies(h)
  <2>1. "ask" \in DOMAIN hand[h] /\ RowsKept /\ UNCHANGED subVars
    BY <1>12 DEF RefreshProxies, Asks, Does
  <2>2. CASE LetGo(h)
    BY <1>7, <2>1, <2>2
  <2>3. ASSUME NEW s \in Statuses, MarkThen(h, s) PROVE SubscriptionInv'
    <3> DEFINE e == [mark |-> s]
    <3>1. Change(e) /\ "kill" \notin DOMAIN e /\ "forget" \notin DOMAIN e /\ Dataless(e)
      BY DEF Change, Dataless
    <3>2. hand' = [hand EXCEPT ![h] = e]
      BY <2>3 DEF MarkThen
    <3> HIDE DEF e
    <3>3. QED
      BY <1>8, <2>1, <3>1, <3>2 DEF SubHand
  <2>4. CASE ~Alive /\ Then(h, [forget |-> NoBill])
    <3> DEFINE e == [forget |-> NoBill]
    <3>1. hand' = [hand EXCEPT ![h] = e] /\ hand'[h] = e
      BY <1>1, <2>4
    <3>2. Removal(e) /\ Dataless(e)
      BY DEF Removal, Refund, NoBill, Dataless
    <3>3. FitsNow(e)
      BY <2>4, <3>2 DEF FitsNow, Fits, SubHand, Cleared, NoBill
    <3> HIDE DEF e
    <3>4. QED
      BY <2>1, <3>1, <3>3, SubHandStep
  <2>5. \/ LetGo(h) \/ (~Alive /\ Then(h, [forget |-> NoBill]))
        \/ MarkThen(h, "disabled") \/ MarkThen(h, Status(acct))
    BY <1>12, Zenon DEF RefreshProxies
  <2>6. "disabled" \in Statuses
    BY DEF Statuses
  <2>7. QED
    BY <2>2, <2>3, <2>4, <2>5, <2>6, StatusIs
<1>13. CASE CreateInvoice(h)
  <2> DEFINE plan == hand[h].renew
             seen == hand[h].seen
             e1 == [recharge |-> plan, seen |-> seen, bill |-> TRUE]
             e2 == [look |-> plan, seen |-> seen, bill |-> TRUE]
             e3 == Resetting(plan, DataLimit(plan), seen)
  <2>1. RowsKept /\ UNCHANGED subVars
    BY <1>13 DEF CreateInvoice
  <2>2. \/ hand' = [hand EXCEPT ![h] = Idle] \/ hand' = [hand EXCEPT ![h] = e1]
        \/ Appends(seen, plan) /\ hand' = [hand EXCEPT ![h] = e2]
        \/ hand' = [hand EXCEPT ![h] = e3]
    BY <1>13, Zenon DEF CreateInvoice
  <2>3. /\ plan \in Plans /\ seen \in SubRows /\ (Plain => seen.plan # "data")
        /\ Appends(seen, plan) => seen.plan = "data"
    BY <1>1, <1>13, SubHandIs DEF CreateInvoice, Does, Dataless, Appends
  <2>4. DataLimit(plan) \in Int /\ (plan = "data" => DataLimit(plan) = Limit)
    BY SubscriptionsAssumption DEF DataLimit
  <2>5. /\ Renewing(e1) /\ "kill" \notin DOMAIN e1 /\ "forget" \notin DOMAIN e1
        /\ Plain => Dataless(e1)
    BY <2>3 DEF Renewing, Dataless
  <2>6. /\ Appends(seen, plan) => Renewing(e2)
        /\ "kill" \notin DOMAIN e2 /\ "forget" \notin DOMAIN e2 /\ (Plain => Dataless(e2))
    BY <2>3 DEF Renewing, Dataless
  <2>7. /\ Renewing(e3) /\ "kill" \notin DOMAIN e3 /\ "forget" \notin DOMAIN e3
        /\ Plain => Dataless(e3)
    BY <2>3, <2>4 DEF Renewing, LimitFor, Resetting, Dataless
  <2>8. SubHand(Idle) /\ "kill" \notin DOMAIN Idle /\ "forget" \notin DOMAIN Idle /\ Dataless(Idle)
    BY NothingFits DEF Idle
  <2> HIDE DEF e1, e2, e3
  <2>9. QED
    BY <1>8, <2>1, <2>2, <2>5, <2>6, <2>7, <2>8 DEF SubHand
<1>14. CASE ReadLeft(h)
  <2> DEFINE seen == hand[h].seen
             left == IF Alive THEN acct.limit - acct.used ELSE 0
             e == Resetting(hand[h].look, Limit + left, seen)
  <2>1. RowsKept /\ UNCHANGED subVars
    BY <1>14 DEF ReadLeft
  <2>2. hand' = [hand EXCEPT ![h] = Idle] \/ hand' = [hand EXCEPT ![h] = e]
    BY <1>14 DEF ReadLeft
  <2>3. /\ hand[h].look \in Plans /\ seen \in SubRows /\ seen.plan = "data"
        /\ Plain => seen.plan # "data"
    BY <1>1, <1>14, SubHandIs DEF ReadLeft, Does, Dataless
  <2>4. Limit + left \in Int
    BY SubscriptionsAssumption DEF SubscriptionInv, AcctOK, Alive, Account
  <2>5. /\ Renewing(e) /\ "kill" \notin DOMAIN e /\ "forget" \notin DOMAIN e
        /\ Plain => Dataless(e)
    BY <2>3, <2>4 DEF Renewing, LimitFor, Resetting, Dataless
  <2>6. SubHand(Idle) /\ "kill" \notin DOMAIN Idle /\ "forget" \notin DOMAIN Idle /\ Dataless(Idle)
    BY NothingFits DEF Idle
  <2> HIDE DEF e
  <2>7. QED
    BY <1>8, <2>1, <2>2, <2>5, <2>6 DEF SubHand
<1>15. CASE StartBulk(h)
  <2>1. PICK field \in {"ends", "limit"}, by \in {Step, -Step} :
           /\ Touched(field)
           /\ Hold(h, [field |-> field, value |-> acct[field] + by, from |-> acct[field]])
    BY <1>15 DEF StartBulk
  <2> DEFINE e == [field |-> field, value |-> acct[field] + by, from |-> acct[field]]
  <2>2. hand' = [hand EXCEPT ![h] = e] /\ RowsKept /\ UNCHANGED subVars
    BY <1>15, <2>1 DEF StartBulk
  <2>3. acct \in Account
    BY <2>1 DEF Touched, Alive, SubscriptionInv, AcctOK
  <2>4. acct[field] \in Int /\ by \in Int
    BY <2>3, SubscriptionsAssumption DEF Account
  <2>5. Change(e) /\ "kill" \notin DOMAIN e /\ "forget" \notin DOMAIN e /\ Dataless(e)
    BY <2>4 DEF Change, Dataless
  <2> HIDE DEF e
  <2>6. QED
    BY <1>8, <2>2, <2>5 DEF SubHand
<1>16. CASE GiveUp(h) \/ Deadlocked(h)
  <2>1. hand' = [hand EXCEPT ![h] = Idle] /\ RowsKept /\ UNCHANGED subVars
    BY <1>16 DEF GiveUp, Deadlocked
  <2>2. QED
    BY <1>1, <1>3, <2>1, SubHandStep
<1>17. QED
  BY <1>4, <1>5, <1>10, <1>11, <1>12, <1>13, <1>14, <1>15, <1>16, Zenon
     DEF DisableProxy, EnableProxy


\* The part of a price that is used.
LEMMA PartOfPrice ==
    ASSUME NEW price \in Nat, NEW n \in Nat \ {0}, NEW used \in 0..n, price % n = 0
    PROVE  used * (price \div n) \in 0..price
<1> DEFINE q == price \div n
<1>1. q \in Nat /\ n * q = price
  OBVIOUS
<1> HIDE DEF q
<1>2. used \in Nat /\ n - used \in Nat
  OBVIOUS
<1>3. (n - used) * q \in Nat /\ used * q \in Nat
  BY <1>1, <1>2
<1>4. n * q = used * q + (n - used) * q
  BY <1>1, <1>2
<1>5. used * q \in 0..price
  BY <1>1, <1>3, <1>4
<1>6. QED
  BY <1>5 DEF q
LEMMA SomeOfPrice ==
    ASSUME NEW price \in Nat, NEW n \in Nat \ {0}, NEW used \in Nat
    PROVE  used * (price \div n) \in Nat
<1> DEFINE q == price \div n
<1>1. q \in Nat
  OBVIOUS
<1> HIDE DEF q
<1>2. used * q \in Nat
  BY <1>1
<1>3. QED
  BY <1>2 DEF q

\* What a refund leaves of an invoice is fair: of a plan by data that the account may have, no
\* more than its limit has been used.
LEMMA RefundFair ==
    ASSUME SubscriptionInv, Alive, NEW plan \in Plans, plan = "time" => acct.ends # 0,
           Plain => plan # "data"
    PROVE  Fair(Fee + UsedOf(plan, acct), Still, Calm)
<1>1. /\ acct \in Account /\ now \in Nat /\ Price \in Nat /\ Fee \in Nat
      /\ Duration \in Nat \ {0} /\ Limit \in Nat \ {0}
  BY SubscriptionsAssumption DEF SubscriptionInv, AcctOK, Alive
<1>2. CASE plan = "data"
  <2>1. acct.used \in Nat /\ (Calm => acct.used \in 0..Limit)
    BY <1>1, <1>2 DEF SubscriptionInv, AcctOK, Account, Calm, Plain
  <2>2. acct.used * (Price \div Limit) \in Nat
    BY <1>1, <2>1, SomeOfPrice
  <2>3. Calm => acct.used * (Price \div Limit) \in 0..Price
    BY <2>1, PartOfPrice, SubscriptionsAssumption
  <2>4. UsedOf(plan, acct) = acct.used * (Price \div Limit)
    BY <1>2 DEF UsedOf
  <2>5. QED
    BY <1>1, <2>2, <2>3, <2>4 DEF Fair
<1>3. CASE plan = "time"
  <2>1. acct.ends \in Int /\ (Still => acct.ends - Duration \in 0..now)
    BY <1>1, <1>3 DEF SubscriptionInv, AcctOK, Account, Still
  <2> DEFINE past == now - (acct.ends - Duration)
  <2>2. (Still => past \in Nat) /\ (Calm => Still /\ past \in 0..Duration)
    BY <1>1, <2>1 DEF Calm, Still
  <2>3. UsedOf(plan, acct) = past * (Price \div Duration)
    BY <1>3 DEF UsedOf
  <2> HIDE DEF past
  <2>4. Still => past * (Price \div Duration) \in Nat
    BY <1>1, <2>2, SomeOfPrice
  <2>5. Calm => past * (Price \div Duration) \in 0..Price
    BY <2>2, PartOfPrice, SubscriptionsAssumption
  <2>6. QED
    BY <1>1, <2>3, <2>4, <2>5 DEF Fair
<1>4. QED
  BY <1>2, <1>3 DEF Plans

\* A removal begins: nothing to change, or a fair part of the first invoice.
LEMMA RemovalsKeep ==
    ASSUME SubscriptionInv, NEW h \in Hands, RemoveProxy(h) \/ DeleteWithPayback(h)
    PROVE  SubscriptionInv'
<1> USE DEF Then, LetGo
<1>1. hand = [g \in Hands |-> hand[g]] /\ SubHand(hand[h]) /\ (Plain => Dataless(hand[h]))
  BY InHand
<1>2. RowsKept /\ UNCHANGED subVars
  BY DEF RemoveProxy, DeleteWithPayback
<1>3. NoBill \in Refund /\ NoBill.i = 0
  BY DEF NoBill, Refund
<1>4. ASSUME NEW b \in Refund, b.i # 0 => Fair(b.amount, Still, Calm), Then(h, [kill |-> b])
      PROVE  SubscriptionInv'
  <2> DEFINE e == [kill |-> b]
  <2>1. hand' = [hand EXCEPT ![h] = e] /\ hand'[h] = e
    BY <1>1, <1>4
  <2>2. Removal(e) /\ Dataless(e) /\ "forget" \notin DOMAIN e /\ e.kill = b
    BY DEF Removal, Dataless
  <2> HIDE DEF e
  <2>3. FitsNow(e)
    BY <1>4, <2>2 DEF FitsNow, Fits, SubHand
  <2>4. QED
    BY <1>2, <2>1, <2>3, SubHandStep
<1>5. ASSUME ~Alive, Then(h, [forget |-> NoBill]) PROVE SubscriptionInv'
  <2> DEFINE e == [forget |-> NoBill]
  <2>1. hand' = [hand EXCEPT ![h] = e] /\ hand'[h] = e
    BY <1>1, <1>5
  <2>2. Removal(e) /\ Dataless(e) /\ "kill" \notin DOMAIN e /\ e.forget.i = 0
    BY <1>3 DEF Removal, Dataless
  <2> HIDE DEF e
  <2>3. FitsNow(e)
    BY <1>5, <2>2 DEF FitsNow, Fits, SubHand, Cleared
  <2>4. QED
    BY <1>2, <2>1, <2>3, SubHandStep
<1>6. ASSUME Then(h, Idle) PROVE SubscriptionInv'
  <2>1. hand' = [hand EXCEPT ![h] = hand'[h]] /\ hand'[h] = Idle
    BY <1>1, <1>6
  <2>2. QED
    BY <1>2, <2>1, NothingFits, SubHandStep
<1>7. CASE RemoveProxy(h)
  <2>1. Then(h, Idle) \/ Then(h, [kill |-> NoBill]) \/ (~Alive /\ Then(h, [forget |-> NoBill]))
    BY <1>7, Zenon DEF RemoveProxy
  <2>2. QED
    BY <1>3, <1>4, <1>5, <1>6, <2>1
<1>8. CASE DeleteWithPayback(h)
  <2> DEFINE plan == hand[h].seen.plan
             amount == Fee + UsedOf(plan, acct)
  <2>1. Question(hand[h])
    BY <1>1, <1>8, SubHandIs DEF DeleteWithPayback, Asks, Does
  <2>2. plan \in Plans \cup {NoPlan} /\ (Plain => plan # "data")
    BY <1>1, <2>1, SubRowIs DEF Question, Dataless
  <2>3. ASSUME Alive, plan # NoPlan, plan = "time" => acct.ends # 0, NEW i \in FirstLinked,
               Then(h, [kill |-> [i |-> i, amount |-> amount]])
        PROVE  SubscriptionInv'
    <3>1. i \in Nat
      BY DEF FirstLinked, SubscriptionInv, BillsOK
    <3>2. acct \in Account /\ now \in Nat
      BY <2>3 DEF SubscriptionInv, AcctOK, Alive
    <3>3. amount \in Int
      <4>1. acct.used \in Int /\ acct.ends \in Int
        BY <3>2, SubscriptionsAssumption DEF Account
      <4>2. Price \div Limit \in Int /\ Price \div Duration \in Int
        BY SubscriptionsAssumption
      <4>3. UsedOf(plan, acct) \in Int
        BY <3>2, <4>1, <4>2, SubscriptionsAssumption DEF UsedOf
      <4>4. QED
        BY <4>3, SubscriptionsAssumption
    <3>4. Fair(amount, Still, Calm)
      BY <2>2, <2>3, RefundFair
    <3> HIDE DEF amount
    <3>5. QED
      BY <1>4, <2>3, <3>1, <3>3, <3>4 DEF Refund
  <2>4. CASE LetGo(h)
    BY <1>6, <2>4
  <2>5. QED
    BY <1>8, <2>3, <2>4 DEF DeleteWithPayback
<1>9. QED
  BY <1>7, <1>8

\* The account removed, turned off or on, or its use counted: its end and limit stay.
LEMMA AcctLess ==
    ASSUME AcctOK, UNCHANGED <<now, scheme, term, undone, moved, resized>>,
           \/ acct' = NoAccount
           \/ /\ acct \in Account /\ acct' \in Account
              /\ acct'.ends = acct.ends /\ acct'.limit = acct.limit
              /\ FirstLimit = Limit /\ acct.limit = Limit /\ acct.used =< Limit =>
                    acct'.used =< Limit
    PROVE  AcctOK'
<1>1. acct' \in Account => Alive' /\ (acct \in Account => Alive)
  BY DEF Account, Alive, NoAccount
<1>2. FirstLimit' = FirstLimit
  BY DEF FirstLimit, DataLimit
<1>3. CASE acct' = NoAccount
  BY <1>3 DEF AcctOK, TermKept, Alive, NoAccount
<1>4. CASE acct' \in Account
  <2>1. /\ acct \in Account /\ acct'.ends = acct.ends /\ acct'.limit = acct.limit /\ Alive /\ Alive'
        /\ FirstLimit = Limit /\ acct.limit = Limit /\ acct.used =< Limit => acct'.used =< Limit
    BY <1>1, <1>4 DEF Alive
  <2>2. TermKept'
    BY <2>1 DEF AcctOK, TermKept
  <2>3. ~moved' /\ ~resized' =>
           acct'.limit = FirstLimit' /\ (FirstLimit' = Limit => acct'.used =< Limit)
    BY <1>2, <2>1 DEF AcctOK
  <2>4. QED
    BY <1>4, <2>1, <2>2, <2>3 DEF AcctOK
<1>5. QED
  BY <1>3, <1>4

LEMMA AccountIs ==
    ASSUME NEW a \in Account
    PROVE  /\ a # NoAccount /\ a.ends \in Int /\ a.limit \in Int /\ a.used \in Nat
           /\ \A off \in BOOLEAN :
                 /\ [a EXCEPT !.off = off] \in Account
                 /\ [a EXCEPT !.off = off].ends = a.ends
                 /\ [a EXCEPT !.off = off].limit = a.limit
                 /\ [a EXCEPT !.off = off].used = a.used
           /\ \A used \in Nat :
                 /\ [a EXCEPT !.used = used] \in Account
                 /\ [a EXCEPT !.used = used].ends = a.ends
                 /\ [a EXCEPT !.used = used].limit = a.limit
                 /\ [a EXCEPT !.used = used].used = used
           /\ \A n \in Int :
                 /\ [a EXCEPT !["ends"] = n] \in Account /\ [a EXCEPT !["ends"] = n].ends = n
                 /\ [a EXCEPT !["ends"] = n].limit = a.limit
                 /\ [a EXCEPT !["limit"] = n] \in Account /\ [a EXCEPT !["limit"] = n].limit = n
                 /\ [a EXCEPT !["limit"] = n].ends = a.ends
  BY DEF Account, NoAccount

\* What a plan gives, and an account that was renewed.
LEMMA PlanGives ==
    ASSUME NEW plan, now \in Nat
    PROVE  /\ Ends(plan) \in Int /\ DataLimit(plan) \in Int
           /\ Ends(plan) # 0 => Ends(plan) - Duration \in 0..now
           /\ plan = "data" => DataLimit(plan) = Limit
  BY SubscriptionsAssumption DEF Ends, DataLimit
LEMMA RenewedIs ==
    ASSUME NEW a \in Account, NEW plan, NEW limit \in Int, now \in Nat
    PROVE  /\ Renewed(a, plan, limit) \in Account /\ Renewed(a, plan, limit).ends = Ends(plan)
           /\ Renewed(a, plan, limit).limit = limit /\ Renewed(a, plan, limit).used = a.used
<1>1. Ends(plan) \in Int
  BY PlanGives
<1>2. QED
  BY <1>1 DEF Renewed, Account

\* A removal that the panel has done clears the row, and a refund is still fair.
LEMMA RemoveUserKeeps ==
    ASSUME SubscriptionInv, NEW h \in Hands, RemoveUser(h)
    PROVE  SubscriptionInv'
<1> DEFINE b == hand[h].kill
           e == IF up THEN [forget |-> b] ELSE Idle
<1>1. /\ hand' = [g \in Hands |-> hand'[g]] /\ hand'[h] = e
      /\ \A g \in Hands \ {h} : hand'[g] = hand[g]
  BY DEF RemoveUser, Then, SubscriptionInv, EditShape
<1>2. FitsNow(hand[h]) /\ SubHand(hand[h]) /\ "kill" \in DOMAIN hand[h]
  BY InHand DEF RemoveUser, Does
<1>3. b \in Refund /\ (b.i # 0 => Fair(b.amount, Still, Calm))
  BY <1>2, SubHandIs DEF FitsNow, Fits
<1>4. AcctOK'
  <2>1. CASE up
    BY <2>1, AcctLess DEF RemoveUser, SubscriptionInv, subGhosts
  <2>2. CASE ~up
    BY <2>2, SameAge DEF RemoveUser, SubscriptionInv, subGhosts, AcctOK, TermKept
  <2>3. QED
    BY <2>1, <2>2
<1>5. Ages /\ Still' = Still /\ Calm' = Calm /\ (up => Cleared')
  BY DEF RemoveUser, Ages, Cleared, Still, Calm, Plain, FirstLimit, DataLimit, Alive, NoAccount,
         subGhosts
<1>6. NightOK'
  BY <1>5 DEF SubscriptionInv, NightOK, RemoveUser, Ages
<1>7. FitsThen(e)
  <2>1. CASE up
    <3>1. e = [forget |-> b]
      BY <2>1
    <3>2. Removal(e) /\ Dataless(e) /\ "kill" \notin DOMAIN e /\ e.forget = b
      BY <1>3, <3>1 DEF Removal, Dataless
    <3> HIDE DEF e
    <3>3. QED
      BY <1>3, <1>5, <2>1, <3>2 DEF FitsThen, Fits, SubHand
  <2>2. CASE ~up
    BY <2>2, NothingFits
  <2>3. QED
    BY <2>1, <2>2
<1> HIDE DEF e
<1>8. QED
  BY <1>1, <1>4, <1>5, <1>6, <1>7, AcctStep DEF RemoveUser

\* A step that changes no more of the account than its switch, or resets what it has used.
LEMMA SwitchedIs ==
    ASSUME SubscriptionInv, UNCHANGED <<now, scheme, term, undone, moved, resized, orphan, night>>,
           \/ acct' = acct
           \/ Alive /\ \E off \in BOOLEAN : acct' = [acct EXCEPT !.off = off]
           \/ Alive /\ acct' = [acct EXCEPT !.used = 0]
    PROVE  AcctOK' /\ NightOK' /\ Ages /\ Cleared' = Cleared /\ Plain' = Plain
<1>1. CASE acct' = acct
  <2>1. Ages /\ Cleared' = Cleared /\ FirstLimit' = FirstLimit /\ Plain' = Plain
    BY <1>1, SameAge
  <2>2. AcctOK' /\ NightOK'
    BY <1>1, <2>1 DEF SubscriptionInv, AcctOK, NightOK, TermKept, Alive, NoAccount
  <2>3. QED
    BY <2>1, <2>2
<1>2. CASE /\ Alive
           /\ \/ \E off \in BOOLEAN : acct' = [acct EXCEPT !.off = off]
              \/ acct' = [acct EXCEPT !.used = 0]
  <2>1. acct \in Account /\ 0 \in Nat
    BY <1>2 DEF SubscriptionInv, AcctOK, Alive
  <2>2. /\ acct' \in Account /\ acct'.ends = acct.ends /\ acct'.limit = acct.limit
        /\ acct' # NoAccount /\ (acct'.used = acct.used \/ acct'.used = 0)
    <3>1. CASE \E off \in BOOLEAN : acct' = [acct EXCEPT !.off = off]
      BY <2>1, <3>1, AccountIs
    <3>2. CASE acct' = [acct EXCEPT !.used = 0]
      BY <2>1, <3>2, AccountIs
    <3>3. QED
      BY <1>2, <3>1, <3>2
  <2>3. acct.used =< Limit => acct'.used =< Limit
    BY <2>2, SubscriptionsAssumption
  <2>4. AcctOK'
    BY <2>1, <2>2, <2>3, AcctLess DEF SubscriptionInv
  <2>5. Alive' /\ Ages /\ Cleared' = Cleared /\ Plain' = Plain
    BY <1>2, <2>2 DEF Ages, Cleared, Still, Calm, Plain, FirstLimit, DataLimit, Alive, NoAccount
  <2>6. NightOK'
    BY <2>5 DEF SubscriptionInv, NightOK
  <2>7. QED
    BY <2>4, <2>5, <2>6
<1>3. QED
  BY <1>1, <1>2

\* Turned off or on, and the page shown again.
LEMMA SetStatusKeeps ==
    ASSUME SubscriptionInv, NEW h \in Hands, SetStatus(h)
    PROVE  SubscriptionInv'
<1> DEFINE e == IF up /\ Alive /\ Exists(Sub) THEN [ask |-> "show", seen |-> row[Sub]] ELSE Idle
<1>1. /\ hand' = [g \in Hands |-> hand'[g]] /\ hand'[h] = e
      /\ \A g \in Hands \ {h} : hand'[g] = hand[g]
  BY DEF SetStatus, Then, SubscriptionInv, EditShape
<1>2. hand[h].set \in BOOLEAN
  BY InHand, SubHandIs DEF SetStatus, Does
<1>3. AcctOK' /\ NightOK' /\ Ages /\ Plain' = Plain
  BY <1>2, SwitchedIs DEF SetStatus, subGhosts
<1>4. SubHand(e) /\ "kill" \notin DOMAIN e /\ "forget" \notin DOMAIN e
  BY DEF SubHand, Question, Buttons, Idle, SubscriptionInv, SubRowOK, Exists
<1>5. Plain => Dataless(e)
  BY DEF Dataless, Idle, SubscriptionInv, SubRowOK, Exists
<1> HIDE DEF e
<1>6. FitsThen(e)
  BY <1>3, <1>4, <1>5, FitsPlain DEF FitsThen
<1>7. QED
  BY <1>1, <1>3, <1>6, AcctStep DEF SetStatus

\* A renewal: the account's use is reset ...
LEMMA ResetUsageKeeps ==
    ASSUME SubscriptionInv, NEW h \in Hands, ResetUsage(h)
    PROVE  SubscriptionInv'
<1> DEFINE e == [modify |-> hand[h].reset, limit |-> hand[h].limit, seen |-> hand[h].seen,
                 bill |-> TRUE]
<1>1. /\ hand' = [g \in Hands |-> hand'[g]]
      /\ \A g \in Hands \ {h} : hand'[g] = hand[g]
      /\ hand'[h] = e \/ hand'[h] = Idle
  BY DEF ResetUsage, Then, LetGo, SubscriptionInv, EditShape
<1>2. /\ hand[h].reset \in Plans /\ hand[h].seen \in SubRows /\ LimitFor(hand[h].reset, hand[h])
      /\ Plain => hand[h].seen.plan # "data"
  BY InHand, SubHandIs DEF ResetUsage, Does, Dataless
<1>3. AcctOK' /\ NightOK' /\ Ages /\ Plain' = Plain
  BY SwitchedIs DEF ResetUsage, subGhosts
<1>4. /\ Renewing(e) /\ "kill" \notin DOMAIN e /\ "forget" \notin DOMAIN e
      /\ Plain => Dataless(e)
  BY <1>2 DEF Renewing, LimitFor, Dataless
<1> HIDE DEF e
<1>5. FitsThen(e)
  BY <1>3, <1>4, FitsPlain DEF FitsThen, SubHand
<1>6. QED
  BY <1>1, <1>3, <1>5, NothingFits, AcctStep DEF ResetUsage

\* ... and the account gets the end and the limit that were paid for.
LEMMA ChangesIs ==
    ASSUME SubscriptionInv, Alive, NEW plan, NEW a \in Account, Changes(a), a.ends = Ends(plan),
           a.used = acct.used \/ a.used = 0,
           UNCHANGED <<now, scheme, undone, moved, orphan, night>>
    PROVE  /\ AcctOK' /\ NightOK' /\ Ages
           /\ Plain' => a.limit # Limit
<1>1. /\ acct \in Account /\ acct.used \in Nat /\ a.used \in Nat /\ now \in Nat /\ Limit \in Nat
      /\ a # NoAccount /\ a.ends \in Int /\ a.limit \in Int
  BY SubscriptionsAssumption, AccountIs DEF SubscriptionInv, AcctOK, Alive
<1>2. /\ acct' = a /\ term' = [ends |-> a.ends, limit |-> a.limit]
      /\ resized' = (resized \/ a.limit # acct.limit)
  BY DEF Changes
<1>3. Alive' /\ FirstLimit' = FirstLimit
  BY <1>1, <1>2 DEF Alive, NoAccount, FirstLimit, DataLimit
<1>4. Ages
  BY <1>2, <1>3 DEF Ages, Cleared, Still, Calm, Plain
<1>5. TermKept' /\ term' \in [ends : Int, limit : Int]
  BY <1>1, <1>2 DEF TermKept
<1>6. a.ends # 0 => a.ends - Duration \in 0..now
  BY <1>1, PlanGives
<1>7. ~moved' /\ ~resized' =>
         a.limit = FirstLimit /\ (FirstLimit = Limit => a.used =< Limit)
  <2>1. SUFFICES ASSUME ~moved', ~resized'
                 PROVE  a.limit = FirstLimit /\ (FirstLimit = Limit => a.used =< Limit)
    OBVIOUS
  <2>2. ~moved /\ ~resized /\ a.limit = acct.limit
    BY <1>2, <2>1
  <2>3. acct.limit = FirstLimit /\ (FirstLimit = Limit => acct.used =< Limit)
    BY <2>2 DEF SubscriptionInv, AcctOK
  <2>4. QED
    BY <1>1, <2>2, <2>3
<1>8. AcctOK'
  <2> HIDE DEF Changes
  <2>1. scheme' \in Schemes
    BY DEF SubscriptionInv, AcctOK
  <2>2. QED
    BY <1>1, <1>2, <1>3, <1>5, <1>6, <1>7, <2>1 DEF AcctOK
<1>9. NightOK'
  BY <1>4 DEF SubscriptionInv, NightOK, Ages
<1>10. QED
  BY <1>3, <1>4, <1>7, <1>8, <1>9 DEF Plain
LEMMA FollowsFits ==
    ASSUME SubscriptionInv, NEW h \in Hands, NEW plan \in Plans, Follows(h, plan),
           hand[h].seen \in SubRows, Plain' => plan # "data" /\ hand[h].seen.plan # "data"
    PROVE  /\ hand' = [hand EXCEPT ![h] = hand'[h]] /\ FitsThen(hand'[h])
<1> DEFINE seen == hand[h].seen
           new == [seen EXCEPT !.status = Status(acct'), !.plan = plan]
           e == [to |-> Sub, by |-> "bot", seen |-> seen, bill |-> TRUE,
                 new |-> new, cols |-> DOMAIN seen]
<1>1. hand' = [hand EXCEPT ![h] = e] /\ hand'[h] = e
  BY DEF Follows, Then, SubscriptionInv, EditShape
<1>2. new \in SubRows /\ new.plan = plan
  BY StatusIs DEF SubRows
<1> HIDE DEF new
<1>3. RowWrite(e) /\ "kill" \notin DOMAIN e /\ "forget" \notin DOMAIN e
  BY <1>2 DEF RowWrite, Entry
<1>4. Plain' => Dataless(e)
  BY <1>2 DEF Dataless
<1> HIDE DEF e
<1>5. QED
  BY <1>1, <1>3, <1>4, FitsPlain DEF SubHand, FitsThen
LEMMA ModifyUserKeeps ==
    ASSUME SubscriptionInv, NEW h \in Hands, ModifyUser(h)
    PROVE  SubscriptionInv'
<1> DEFINE plan == hand[h].modify
           limit == hand[h].limit
           a == Renewed(acct, plan, limit)
<1>1. /\ plan \in Plans /\ hand[h].seen \in SubRows /\ LimitFor(plan, hand[h])
      /\ Plain => hand[h].seen.plan # "data"
  BY InHand, SubHandIs DEF ModifyUser, Does, Dataless
<1>2. CASE Alive /\ Changes(a) /\ Follows(h, plan)
  <2>1. acct \in Account /\ now \in Nat /\ limit \in Int
    BY <1>1, <1>2 DEF SubscriptionInv, AcctOK, Alive, LimitFor
  <2>2. a \in Account /\ a.ends = Ends(plan) /\ a.used = acct.used /\ a.limit = limit
    BY <2>1, RenewedIs
  <2> HIDE DEF a
  <2>3. /\ UNCHANGED <<now, scheme, undone, moved, orphan, night, bills>> /\ RowsKept
    BY DEF ModifyUser
  <2>4. AcctOK' /\ NightOK' /\ Ages /\ (Plain' => limit # Limit)
    BY <1>2, <2>2, <2>3, ChangesIs
  <2>5. Plain' => plan # "data" /\ hand[h].seen.plan # "data"
    BY <1>1, <2>4 DEF LimitFor, Ages
  <2>6. hand' = [hand EXCEPT ![h] = hand'[h]] /\ FitsThen(hand'[h])
    BY <1>1, <1>2, <2>5, FollowsFits
  <2>7. /\ hand' = [g \in Hands |-> hand'[g]] /\ \A g \in Hands \ {h} : hand'[g] = hand[g]
    BY <2>6 DEF SubscriptionInv, EditShape
  <2>8. QED
    BY <2>3, <2>4, <2>6, <2>7, AcctStep
<1>3. CASE LetGo(h) /\ UNCHANGED <<acct, term, resized>>
  <2>1. hand' = [hand EXCEPT ![h] = hand'[h]] /\ hand'[h] = Idle /\ RowsKept
    BY <1>3 DEF LetGo, ModifyUser, SubscriptionInv, EditShape
  <2>2. UNCHANGED subVars
    BY <1>3 DEF ModifyUser, subVars, acctVars, subGhosts
  <2>3. QED
    BY <2>1, <2>2, NothingFits, SubHandStep
<1>4. QED
  BY <1>2, <1>3 DEF ModifyUser

\* A hub does both in one call, and is asked for the account.
LEMMA RenewUserKeeps ==
    ASSUME SubscriptionInv, NEW h \in Hands, RenewUser(h)
    PROVE  SubscriptionInv'
<1> DEFINE plan == hand[h].recharge
           fresh == [acct EXCEPT !.used = 0]
           a == Renewed(fresh, plan, DataLimit(plan))
           e == [recharged |-> plan, seen |-> hand[h].seen, bill |-> TRUE]
<1>1. /\ plan \in Plans /\ hand[h].seen \in SubRows
      /\ Plain => hand[h].seen.plan # "data"
  BY InHand, SubHandIs DEF RenewUser, Does, Dataless
<1>2. CASE Alive /\ Changes(a) /\ Then(h, e)
  <2>1. acct \in Account /\ now \in Nat /\ 0 \in Nat
    BY <1>2 DEF SubscriptionInv, AcctOK, Alive
  <2>2. fresh \in Account /\ fresh.used = 0
    BY <2>1, AccountIs
  <2> HIDE DEF fresh
  <2>3. DataLimit(plan) \in Int /\ (plan = "data" => DataLimit(plan) = Limit)
    BY <2>1, PlanGives
  <2>4. a \in Account /\ a.ends = Ends(plan) /\ a.used = 0 /\ a.limit = DataLimit(plan)
    BY <2>1, <2>2, <2>3, RenewedIs
  <2> HIDE DEF a
  <2>5. UNCHANGED <<now, scheme, undone, moved, orphan, night, bills>> /\ RowsKept
    BY DEF RenewUser
  <2>6. AcctOK' /\ NightOK' /\ Ages /\ (Plain' => a.limit # Limit)
    BY <1>2, <2>4, <2>5, ChangesIs
  <2>7. Plain' => plan # "data" /\ hand[h].seen.plan # "data"
    BY <1>1, <2>3, <2>4, <2>6 DEF Ages
  <2>8. /\ hand' = [g \in Hands |-> hand'[g]] /\ \A g \in Hands \ {h} : hand'[g] = hand[g]
        /\ hand'[h] = e
    BY <1>2 DEF Then, SubscriptionInv, EditShape
  <2>9. /\ Renewing(e) /\ "kill" \notin DOMAIN e /\ "forget" \notin DOMAIN e
        /\ Plain' => Dataless(e)
    BY <1>1, <2>7 DEF Renewing, Dataless
  <2> HIDE DEF e
  <2>10. FitsThen(e)
    BY <2>9, FitsPlain DEF FitsThen, SubHand
  <2>11. QED
    BY <2>5, <2>6, <2>8, <2>10, AcctStep
<1>3. CASE LetGo(h) /\ UNCHANGED <<acct, term, resized>>
  <2>1. hand' = [hand EXCEPT ![h] = hand'[h]] /\ hand'[h] = Idle /\ RowsKept
    BY <1>3 DEF LetGo, RenewUser, SubscriptionInv, EditShape
  <2>2. UNCHANGED subVars
    BY <1>3 DEF RenewUser, subVars, acctVars, subGhosts
  <2>3. QED
    BY <2>1, <2>2, NothingFits, SubHandStep
<1>4. QED
  BY <1>2, <1>3 DEF RenewUser
LEMMA GetRechargedKeeps ==
    ASSUME SubscriptionInv, NEW h \in Hands, GetRecharged(h)
    PROVE  SubscriptionInv'
<1> DEFINE plan == hand[h].recharged
<1>1. /\ plan \in Plans /\ hand[h].seen \in SubRows
      /\ Plain => plan # "data" /\ hand[h].seen.plan # "data"
  BY InHand, SubHandIs DEF GetRecharged, Does, Dataless
<1>2. UNCHANGED <<acct, now, scheme, bills, night, term, undone, moved, resized, orphan>>
  BY DEF GetRecharged, subGhosts
<1>3. UNCHANGED subVars /\ RowsKept
  BY <1>2 DEF GetRecharged, subVars, acctVars, subGhosts
<1>4. Cleared' = Cleared /\ Still' = Still /\ Calm' = Calm /\ Plain' = Plain
  BY <1>2, SameAge
<1>5. hand' = [hand EXCEPT ![h] = hand'[h]] /\ FitsThen(hand'[h])
  <2>1. CASE Follows(h, plan)
    BY <1>1, <1>4, <2>1, FollowsFits
  <2>2. CASE LetGo(h)
    BY <2>2, NothingFits DEF LetGo, SubscriptionInv, EditShape
  <2>3. QED
    BY <2>1, <2>2 DEF GetRecharged
<1>6. FitsNow(hand'[h])
  BY <1>4, <1>5 DEF FitsThen, FitsNow
<1>7. QED
  BY <1>3, <1>5, <1>6, SubHandStep

\* A bulk change: what was paid for moves with the account, unless it was changed meanwhile.
LEMMA BulkUpdateKeeps ==
    ASSUME SubscriptionInv, NEW h \in Hands, BulkUpdate(h)
    PROVE  SubscriptionInv'
<1> DEFINE f == hand[h].field
           value == hand[h].value
           from == hand[h].from
<1>1. f \in {"ends", "limit"} /\ value \in Int /\ from \in Int
  BY InHand, SubHandIs DEF BulkUpdate, Does
<1>2. CASE up /\ Alive /\ scheme # "hub"
  <2> DEFINE e == [mark |-> Status(acct')]
  <2>1. /\ acct' = [acct EXCEPT ![f] = value]
        /\ term' = [term EXCEPT ![f] = @ + value - from]
        /\ undone' = (undone \/ acct[f] # from) /\ moved' = TRUE
        /\ UNCHANGED <<now, scheme, bills, night, orphan, resized>> /\ RowsKept
        /\ hand' = [hand EXCEPT ![h] = e]
    BY <1>2 DEF BulkUpdate, MarkThen, Then
  <2>2. acct \in Account /\ term \in [ends : Int, limit : Int] /\ now \in Nat /\ scheme \in Schemes
    BY <1>2 DEF SubscriptionInv, AcctOK, Alive
  <2>3. ~undone => acct.ends = term.ends /\ acct.limit = term.limit
    BY <1>2 DEF SubscriptionInv, AcctOK, TermKept
  <2>4. acct' \in Account /\ term' \in [ends : Int, limit : Int] /\ TermKept'
    <3>1. CASE f = "ends"
      <4>1. acct' = [acct EXCEPT !["ends"] = value]
        BY <2>1, <3>1
      <4>2. acct' \in Account /\ acct'.ends = value /\ acct'.limit = acct.limit
        BY <1>1, <2>2, <4>1, AccountIs
      <4>3. term' \in [ends : Int, limit : Int]
        BY <1>1, <2>1, <2>2, <3>1
      <4>4. term'.ends = term.ends + value - from /\ term'.limit = term.limit
        BY <2>1, <2>2, <3>1
      <4>5. (~undone' => ~undone /\ acct.ends = from) /\ term.ends \in Int
        BY <2>1, <2>2, <3>1
      <4>6. TermKept'
        BY <1>1, <2>3, <4>2, <4>4, <4>5 DEF TermKept
      <4>7. QED
        BY <4>2, <4>3, <4>6
    <3>2. CASE f = "limit"
      <4>1. acct' = [acct EXCEPT !["limit"] = value]
        BY <2>1, <3>2
      <4>2. acct' \in Account /\ acct'.limit = value /\ acct'.ends = acct.ends
        BY <1>1, <2>2, <4>1, AccountIs
      <4>3. term' \in [ends : Int, limit : Int]
        BY <1>1, <2>1, <2>2, <3>2
      <4>4. term'.limit = term.limit + value - from /\ term'.ends = term.ends
        BY <2>1, <2>2, <3>2
      <4>5. (~undone' => ~undone /\ acct.limit = from) /\ term.limit \in Int
        BY <2>1, <2>2, <3>2
      <4>6. TermKept'
        BY <1>1, <2>3, <4>2, <4>4, <4>5 DEF TermKept
      <4>7. QED
        BY <4>2, <4>3, <4>6
    <3>3. QED
      BY <1>1, <3>1, <3>2
  <2>5. AcctOK' /\ Alive'
    BY <2>1, <2>2, <2>4, AccountIs DEF AcctOK, Alive, NoAccount
  <2>6. Ages
    BY <1>2, <2>1, <2>5 DEF Ages, Cleared, Still, Calm, Plain
  <2>7. NightOK'
    BY <2>1, <2>6 DEF SubscriptionInv, NightOK, Ages
  <2>8. Change(e) /\ "kill" \notin DOMAIN e /\ "forget" \notin DOMAIN e /\ Dataless(e)
    BY StatusIs DEF Change, Dataless
  <2> HIDE DEF e
  <2>9. FitsThen(e)
    BY <2>8, FitsPlain DEF SubHand, FitsThen
  <2>10. /\ hand' = [g \in Hands |-> hand'[g]] /\ hand'[h] = e
         /\ \A g \in Hands \ {h} : hand'[g] = hand[g]
    BY <2>1 DEF SubscriptionInv, EditShape
  <2>11. QED
    BY <2>1, <2>5, <2>6, <2>7, <2>9, <2>10, AcctStep
<1>3. CASE ~(up /\ Alive /\ scheme # "hub")
  <2>1. /\ hand' = [hand EXCEPT ![h] = Idle] /\ RowsKept
        /\ UNCHANGED <<scheme, acct, term, undone, moved, now, up, bills, night, resized, orphan>>
    BY <1>3 DEF BulkUpdate, LetGo
  <2>2. hand'[h] = Idle
    BY <2>1 DEF SubscriptionInv, EditShape
  <2>3. QED
    BY <2>1, <2>2, NothingFits, SubHandStep DEF subVars, acctVars, subGhosts
<1>4. QED
  BY <1>2, <1>3

\* The panel switches an account, and its row is to be saved.
LEMMA PanelSetsKeeps ==
    ASSUME SubscriptionInv, NEW h \in Hands, NEW off \in BOOLEAN, PanelSets(h, off)
    PROVE  SubscriptionInv'
<1> DEFINE status == IF off THEN "disabled" ELSE "active"
           new == [row[Sub] EXCEPT !.status = status]
           e == Loaded("panel", Sub, new, {"status"})
<1>1. /\ Alive /\ row[Sub] \in SubRows /\ (Plain => row[Sub].plan # "data")
      /\ acct' = [acct EXCEPT !.off = off] /\ RowsKept
      /\ UNCHANGED <<now, scheme, up, bills, night, subGhosts>>
  BY DEF PanelSets, SaveFields, RowsKept, SubscriptionInv, SubRowOK, Exists
<1>2. /\ hand' = [g \in Hands |-> hand'[g]] /\ hand'[h] = e
      /\ \A g \in Hands \ {h} : hand'[g] = hand[g]
  BY LoadEffect DEF PanelSets, SaveFields, SubscriptionInv
<1>3. AcctOK' /\ NightOK' /\ Ages /\ Plain' = Plain
  BY <1>1, SwitchedIs DEF subGhosts
<1>4. new \in SubRows /\ new.plan = row[Sub].plan
  BY <1>1, NewStatus DEF Statuses
<1> HIDE DEF new
<1>5. RowWrite(e) /\ "kill" \notin DOMAIN e /\ "forget" \notin DOMAIN e /\ (Plain => Dataless(e))
  BY <1>1, <1>4 DEF RowWrite, Entry, Loaded, Dataless
<1> HIDE DEF e
<1>6. FitsThen(e)
  BY <1>3, <1>5, FitsPlain DEF SubHand, FitsThen
<1>7. QED
  BY <1>1, <1>2, <1>3, <1>6, AcctStep

\* A deletion that goes on when the account cannot be removed.
LEMMA RemovesAnywayKeeps ==
    ASSUME SubscriptionInv, NEW h \in Hands, RemovesAnyway(h)
    PROVE  SubscriptionInv'
<1> DEFINE e == [forget |-> NoBill]
<1>1. /\ hand' = [g \in Hands |-> hand'[g]] /\ hand'[h] = e
      /\ \A g \in Hands \ {h} : hand'[g] = hand[g]
  BY DEF RemovesAnyway, Hold, SubscriptionInv, EditShape
<1>2. AcctOK'
  <2>1. CASE acct' = NoAccount
    BY <2>1, AcctLess DEF RemovesAnyway, SubscriptionInv
  <2>2. CASE acct' = acct
    BY <2>2 DEF RemovesAnyway, SubscriptionInv, AcctOK, TermKept, Alive, NoAccount, FirstLimit,
                DataLimit
  <2>3. QED
    BY <2>1, <2>2 DEF RemovesAnyway
<1>3. Cleared' /\ Ages
  BY DEF RemovesAnyway, Ages, Cleared, Still, Calm, Plain, FirstLimit, DataLimit, Alive, NoAccount
<1>4. NightOK'
  BY <1>3 DEF SubscriptionInv, NightOK, RemovesAnyway
<1>5. Removal(e) /\ Dataless(e) /\ "kill" \notin DOMAIN e /\ e.forget.i = 0
  BY DEF Removal, Refund, NoBill, Dataless
<1> HIDE DEF e
<1>6. FitsThen(e)
  BY <1>3, <1>5 DEF FitsThen, Fits, SubHand
<1>7. QED
  BY <1>1, <1>2, <1>3, <1>4, <1>6, AcctStep DEF RemovesAnyway

\* What happens around, and the nightly job on the panel.
LEMMA AroundKeeps ==
    ASSUME SubscriptionInv,
           Tick \/ UseData \/ OperatorRemoves \/ Outage \/ PanelBack \/ NightReads \/ NightRemoves
    PROVE  SubscriptionInv'
<1>1. /\ RowsKept /\ hand' = hand
      /\ UNCHANGED <<bills, scheme, term, undone, moved, resized, orphan>>
  BY DEF Tick, UseData, OperatorRemoves, Outage, PanelBack, NightReads, NightRemoves, RowsKept,
         rowVars, subGhosts, acctVars
<1>2. ASSUME AcctOK', NightOK', Ages PROVE SubscriptionInv'
  <2>1. hand' = [g \in Hands |-> hand'[g]] /\ \A g \in Hands : hand'[g] = hand[g]
    BY <1>1 DEF SubscriptionInv, EditShape
  <2>2. QED
    BY <1>1, <1>2, <2>1, AcctStep
<1>3. CASE Tick
  <2>1. now \in Nat /\ now' = now + 1 /\ UNCHANGED <<acct, night>>
    BY <1>3 DEF Tick, SubscriptionInv, AcctOK
  <2>2. FirstLimit' = FirstLimit /\ Alive' = Alive
    BY <1>1, <2>1 DEF FirstLimit, DataLimit, Alive, NoAccount
  <2>3. Ages /\ Cleared' = Cleared
    BY <1>1, <2>1, <2>2, SubscriptionsAssumption DEF Ages, Calm, Still, Plain, Cleared
  <2>4. AcctOK'
    <3>1. ~moved' /\ Alive' /\ acct'.ends # 0 => acct'.ends - Duration \in 0..now'
      BY <1>1, <2>1, <2>2 DEF SubscriptionInv, AcctOK
    <3>2. QED
      BY <1>1, <2>1, <2>2, <3>1 DEF SubscriptionInv, AcctOK, TermKept
  <2>5. NightOK'
    BY <2>1, <2>3 DEF SubscriptionInv, NightOK
  <2>6. QED
    BY <1>2, <2>3, <2>4, <2>5
<1>4. CASE UseData
  <2>1. /\ acct \in Account /\ acct' = [acct EXCEPT !.used = acct.used + 1]
        /\ UNCHANGED <<now, night>> /\ Alive
    BY <1>4 DEF UseData, SubscriptionInv, AcctOK, Alive
  <2>2. acct.limit > 0 => acct.used < acct.limit
    <3>1. Status(acct) = "active"
      BY <1>4 DEF UseData
    <3>2. QED
      BY <2>1, <3>1, AccountIs DEF Status
  <2>3. acct.used + 1 \in Nat /\ acct.used \in Nat
    BY <2>1, AccountIs
  <2>4. /\ acct' \in Account /\ acct'.ends = acct.ends /\ acct'.limit = acct.limit
        /\ acct' # NoAccount /\ acct'.used = acct.used + 1
    BY <2>1, <2>3, AccountIs
  <2>5. acct.limit = Limit => acct'.used =< Limit
    BY <2>2, <2>3, <2>4, SubscriptionsAssumption
  <2>6. AcctOK'
    BY <1>1, <2>1, <2>4, <2>5, AcctLess DEF SubscriptionInv
  <2>7. Ages /\ Cleared' = Cleared
    BY <1>1, <2>1, <2>4
       DEF Ages, Calm, Still, Plain, Cleared, Alive, NoAccount, FirstLimit, DataLimit
  <2>8. NightOK'
    BY <2>1, <2>7 DEF SubscriptionInv, NightOK
  <2>9. QED
    BY <1>2, <2>6, <2>7, <2>8
<1>5. CASE OperatorRemoves \/ Outage \/ PanelBack \/ NightReads \/ NightRemoves
  <2>1. /\ acct' = NoAccount \/ acct' = acct
        /\ now' = now
    BY <1>5 DEF OperatorRemoves, Outage, PanelBack, NightReads, NightRemoves, acctVars
  <2>2. AcctOK'
    <3>1. CASE acct' = NoAccount
      BY <1>1, <2>1, <3>1, AcctLess DEF SubscriptionInv
    <3>2. CASE acct' = acct
      BY <1>1, <2>1, <3>2 DEF SubscriptionInv, AcctOK, TermKept, Alive, NoAccount, FirstLimit,
                              DataLimit
    <3>3. QED
      BY <2>1, <3>1, <3>2
  <2>3. Ages /\ (acct' = NoAccount => Cleared')
    BY <1>1, <2>1 DEF Ages, Calm, Still, Plain, Cleared, Alive, NoAccount, FirstLimit, DataLimit
  <2>4. NightOK'
    <3>1. CASE night' = night
      BY <2>3, <3>1 DEF SubscriptionInv, NightOK, Ages
    <3>2. CASE NightReads
      <4>1. acct \in Account /\ night' = [snap |-> acct, status |-> Status(acct)]
        BY <3>2 DEF NightReads, SubscriptionInv, AcctOK, Alive
      <4>2. QED
        BY <4>1, StatusIs DEF NightOK
    <3>3. CASE NightRemoves
      <4>1. \/ acct' = NoAccount /\ night' = [forget |-> NoBill]
            \/ night' = Idle
        BY <3>3 DEF NightRemoves
      <4>2. QED
        BY <2>3, <4>1 DEF NightOK
    <3>4. QED
      BY <1>5, <3>1, <3>2, <3>3 DEF OperatorRemoves, Outage, PanelBack
  <2>5. QED
    BY <1>2, <2>2, <2>3, <2>4
<1>6. QED
  BY <1>3, <1>4, <1>5

\* Invoices: unlinked, one of them changed, one more.
Bills == [amount : Int, linked : BOOLEAN, renewal : BOOLEAN]
LEMMA SeqIs ==
    ASSUME NEW S, NEW n \in Nat, NEW b \in [1..n -> S]
    PROVE  b \in Seq(S)
  OBVIOUS
LEMMA BillIs ==
    ASSUME NEW x \in Bills
    PROVE  /\ [x EXCEPT !.linked = FALSE] \in Bills /\ [x EXCEPT !.linked = FALSE].amount = x.amount
           /\ \A n \in Int : [x EXCEPT !.amount = n] \in Bills /\ [x EXCEPT !.amount = n].amount = n
  BY DEF Bills
LEMMA UnlinkedIs ==
    ASSUME NEW b \in Seq(Bills)
    PROVE  /\ Unlinked(b) \in Seq(Bills) /\ DOMAIN Unlinked(b) = DOMAIN b
           /\ \A i \in DOMAIN b : Unlinked(b)[i].amount = b[i].amount
<1>1. b \in [1..Len(b) -> Bills] /\ Len(b) \in Nat /\ DOMAIN b = 1..Len(b)
  OBVIOUS
<1>2. \A i \in DOMAIN b : b[i] \in Bills
  BY <1>1
<1>3. Unlinked(b) \in [1..Len(b) -> Bills]
  BY <1>1, <1>2, BillIs DEF Unlinked
<1>4. QED
  BY <1>1, <1>2, <1>3, BillIs, SeqIs DEF Unlinked
LEMMA OneUnlinkedIs ==
    ASSUME NEW b \in Seq(Bills), NEW i \in DOMAIN b
    PROVE  LET c == [b EXCEPT ![i].linked = FALSE]
           IN  /\ c \in Seq(Bills) /\ DOMAIN c = DOMAIN b
               /\ \A j \in DOMAIN b : c[j].amount = b[j].amount
<1> DEFINE c == [b EXCEPT ![i].linked = FALSE]
<1>1. b \in [1..Len(b) -> Bills] /\ Len(b) \in Nat /\ DOMAIN b = 1..Len(b)
  OBVIOUS
<1>2. \A j \in DOMAIN b : b[j] \in Bills
  BY <1>1
<1>3. c \in [1..Len(b) -> Bills]
  BY <1>1, <1>2, BillIs
<1>4. \A j \in DOMAIN b : c[j].amount = b[j].amount
  BY <1>2, BillIs
<1>5. QED
  BY <1>1, <1>3, <1>4, SeqIs
LEMMA ChargedIs ==
    ASSUME NEW b \in Seq(Bills), NEW i \in Nat, NEW n \in Int
    PROVE  /\ [b EXCEPT ![i].amount = n] \in Seq(Bills)
           /\ DOMAIN [b EXCEPT ![i].amount = n] = DOMAIN b
           /\ i \in DOMAIN b => [b EXCEPT ![i].amount = n][i].amount = n
           /\ \A j \in DOMAIN b \ {i} : [b EXCEPT ![i].amount = n][j] = b[j]
<1>1. b \in [1..Len(b) -> Bills] /\ Len(b) \in Nat /\ DOMAIN b = 1..Len(b)
  OBVIOUS
<1>2. \A j \in DOMAIN b : b[j] \in Bills
  BY <1>1
<1>3. [b EXCEPT ![i].amount = n] \in [1..Len(b) -> Bills]
  BY <1>1, <1>2, BillIs
<1>4. QED
  BY <1>1, <1>2, <1>3, BillIs, SeqIs
LEMMA BilledIs ==
    ASSUME BillsOK, NEW new \in Bills, new.amount = Price, bills' = Append(bills, new),
           row[Sub] = Gone <=> row'[Sub] = Gone, UNCHANGED <<now, moved, resized>>
    PROVE  BillsOK'
<1>1. bills \in Seq(Bills) /\ bills' \in Seq(Bills)
  BY DEF BillsOK, Bills
<1>2. /\ DOMAIN bills' = 1..(Len(bills) + 1) /\ DOMAIN bills = 1..Len(bills)
      /\ Len(bills) \in Nat
      /\ \A i \in 1..Len(bills) : bills'[i] = bills[i]
      /\ bills'[Len(bills) + 1] = new
  BY <1>1
<1>3. ASSUME NEW i \in DOMAIN bills', bills'[i].amount # Price
      PROVE  i \in DOMAIN bills /\ bills'[i] = bills[i]
  BY <1>2, <1>3
<1>4. RefundBounded'
  BY <1>3 DEF BillsOK, RefundBounded
<1>5. QED
  BY <1>1, <1>4 DEF BillsOK, Bills
LEMMA SameAmounts ==
    ASSUME BillsOK, bills' \in Seq(Bills), DOMAIN bills' = DOMAIN bills,
           \A i \in DOMAIN bills : bills'[i].amount = bills[i].amount,
           row[Sub] = Gone => row'[Sub] = Gone, UNCHANGED <<now, moved, resized>>
    PROVE  BillsOK'
<1>1. RefundBounded'
  BY DEF BillsOK, RefundBounded
<1>2. QED
  BY <1>1 DEF BillsOK, Bills

\* Steps that change the row or the invoices, and leave the account alone.
LEMMA SubRowStep ==
    ASSUME SubscriptionInv, EditShape', DecisionsKept', SubRowOK', BillsOK',
           UNCHANGED <<acctVars, term, undone, moved, resized>>, orphan => orphan',
           night' = night \/ night' = Idle,
           \A g \in Hands : hand'[g] = hand[g] \/ FitsThen(hand'[g])
    PROVE  SubscriptionInv'
<1>1. Ages /\ FirstLimit' = FirstLimit
  BY DEF acctVars, Ages, Cleared, Still, Calm, Plain, Alive, NoAccount, FirstLimit, DataLimit
<1>2. AcctOK' /\ NightOK'
  BY <1>1 DEF SubscriptionInv, AcctOK, NightOK, TermKept, acctVars, Alive, NoAccount, Ages
<1>3. QED
  BY <1>1, <1>2, SubParts

\* A status written by itself.
LEMMA MarkKeeps ==
    ASSUME SubscriptionInv, NEW s \in Statuses, Mark(s), UNCHANGED <<raced, bills>>,
           UNCHANGED <<acctVars, subGhosts>>
    PROVE  /\ DecisionsKept' /\ SubRowOK' /\ BillsOK'
           /\ (hand' = [g \in Hands |-> hand'[g]]) => EditShape'
<1>1. /\ EditShape /\ DecisionsKept /\ SubRowOK /\ BillsOK /\ Sub \in Keys
      /\ UNCHANGED <<acct, now, scheme, moved, resized, orphan>>
  BY SubscriptionsAssumption DEF SubscriptionInv, acctVars, subGhosts
<1>2. Cleared' = Cleared /\ Plain' = Plain
  BY <1>1, SameAge
<1>3. CASE Exists(Sub)
  <2> DEFINE new == [row[Sub] EXCEPT !.status = s]
  <2>1. row[Sub] \in SubRows
    BY <1>1, <1>3 DEF SubRowOK, Exists
  <2>2. new \in SubRows /\ new.plan = row[Sub].plan
    BY <2>1, NewStatus
  <2>3. Update(Sub, new, {"status"})
    BY <1>3 DEF Mark
  <2> HIDE DEF new
  <2>4. row'[Sub] = Merge(row[Sub], new, {"status"})
    BY <1>1, <2>3, UpdateKeeps
  <2>5. row'[Sub] \in SubRows /\ row'[Sub].plan = row[Sub].plan
    BY <2>1, <2>2, <2>4, SubMerge
  <2>6. SubRowOK'
    BY <1>1, <1>2, <2>1, <2>5, SubRowIs DEF SubRowOK
  <2>7. BillsOK'
    BY <1>1, <2>1, SubRowIs DEF BillsOK, RefundBounded
  <2>8. QED
    BY <1>1, <2>3, <2>6, <2>7, UpdateKeeps
<1>4. CASE ~Exists(Sub)
  <2>1. RowsKept
    BY <1>4 DEF Mark, RowsKept
  <2>2. QED
    BY <1>1, <1>2, <2>1, RowsStay DEF SubRowOK, BillsOK, RefundBounded, RowsKept
<1>5. QED
  BY <1>3, <1>4
LEMMA MarksKeep ==
    ASSUME SubscriptionInv, NightMarks \/ \E h \in Hands : MarkStatus(h)
    PROVE  SubscriptionInv'
<1>1. CASE NightMarks
  <2>1. night.status \in Statuses
    BY <1>1 DEF NightMarks, SubscriptionInv, NightOK, Idle
  <2>2. hand' = [g \in Hands |-> hand'[g]] /\ \A g \in Hands : hand'[g] = hand[g]
    BY <1>1 DEF NightMarks, SubscriptionInv, EditShape
  <2>3. /\ Mark(night.status) /\ night' = Idle /\ UNCHANGED <<raced, bills>>
        /\ UNCHANGED <<acctVars, subGhosts>>
    BY <1>1 DEF NightMarks
  <2>4. EditShape' /\ DecisionsKept' /\ SubRowOK' /\ BillsOK'
    BY <2>1, <2>2, <2>3, MarkKeeps
  <2>5. QED
    BY <2>2, <2>3, <2>4, SubRowStep DEF subGhosts
<1>2. ASSUME NEW h \in Hands, MarkStatus(h) PROVE SubscriptionInv'
  <2>1. hand[h].mark \in Statuses
    BY <1>2, InHand, SubHandIs DEF MarkStatus, Does
  <2>2. /\ hand' = [g \in Hands |-> hand'[g]] /\ hand'[h] = Idle
        /\ \A g \in Hands \ {h} : hand'[g] = hand[g]
    BY <1>2 DEF MarkStatus, LetGo, SubscriptionInv, EditShape
  <2>3. /\ Mark(hand[h].mark) /\ night' = night /\ UNCHANGED <<raced, bills>>
        /\ UNCHANGED <<acctVars, subGhosts>>
    BY <1>2 DEF MarkStatus, subVars
  <2>4. EditShape' /\ DecisionsKept' /\ SubRowOK' /\ BillsOK'
    BY <2>1, <2>2, <2>3, MarkKeeps
  <2>5. QED
    BY <2>2, <2>3, <2>4, NothingFits, SubRowStep DEF subGhosts
<1>3. QED
  BY <1>1, <1>2

\* A new name, and the handler's write of the row: with a renewal's write its invoice is kept.
LEMMA SetNameKeeps ==
    ASSUME SubscriptionInv, NEW h \in Hands, SetName(h)
    PROVE  SubscriptionInv'
<1> DEFINE new == [row[Sub] EXCEPT !.name = "new"]
           e == Loaded("customer", Sub, new, DOMAIN new)
<1>1. /\ row[Sub] \in SubRows /\ RowsKept /\ UNCHANGED subVars
      /\ Load(h, "customer", Sub, new, DOMAIN new) /\ (Plain => row[Sub].plan # "data")
  BY DEF SetName, Save, RowsKept, SubscriptionInv, SubRowOK, Exists
<1>2. new \in SubRows /\ new.plan = row[Sub].plan
  BY <1>1 DEF SubRows
<1> HIDE DEF new
<1>3. hand' = [hand EXCEPT ![h] = e] /\ hand'[h] = e
  BY <1>1, LoadEffect DEF SubscriptionInv
<1>4. RowWrite(e) /\ "kill" \notin DOMAIN e /\ "forget" \notin DOMAIN e /\ (Plain => Dataless(e))
  BY <1>1, <1>2 DEF RowWrite, Entry, Loaded, Dataless
<1> HIDE DEF e
<1>5. FitsNow(e)
  BY <1>4, FitsPlain DEF SubHand, FitsNow
<1>6. QED
  BY <1>1, <1>3, <1>5, SubHandStep

LEMMA WriteSubscriptionKeeps ==
    ASSUME SubscriptionInv, NEW h \in Hands, WriteSubscription(h)
    PROVE  SubscriptionInv'
<1> DEFINE e == hand[h]
<1>1. Write(h) /\ UNCHANGED <<acctVars, night, subGhosts>>
  BY DEF WriteSubscription
<1>2. EditShape' /\ DecisionsKept'
  BY <1>1, WriteKeeps DEF SubscriptionInv
<1>3. RowWrite(e) /\ (Plain => Dataless(e))
  BY <1>1, InHand, SubHandIs DEF Write, Writing
<1>4. /\ e.to = Sub /\ e.seen # Absent /\ e.new \in SubRows /\ Sub \in Keys
      /\ Plain => e.new.plan # "data"
  BY <1>3, SubRowIs, SubscriptionsAssumption DEF RowWrite, Dataless, Entry
<1>5. row'[Sub] = IF row[Sub] = Gone THEN Gone ELSE Merge(row[Sub], e.new, e.cols)
  BY <1>1, <1>4, WriteEffect DEF SubscriptionInv, Written, Fails
<1>6. /\ row'[Sub] \in SubRows \cup {Absent, Gone}
      /\ row[Sub] = Gone <=> row'[Sub] = Gone
      /\ Plain /\ row'[Sub] \in SubRows => row'[Sub].plan # "data"
  <2>1. /\ row[Sub] \in SubRows \cup {Absent, Gone}
        /\ Plain /\ row[Sub] \in SubRows => row[Sub].plan # "data"
    BY DEF SubscriptionInv, SubRowOK
  <2>2. CASE row[Sub] = Gone
    BY <1>5, <2>2, SubRowIs
  <2>3. CASE row[Sub] # Gone
    <3>1. /\ row'[Sub] = Merge(row[Sub], e.new, e.cols) /\ row'[Sub] \in SubRows
          /\ \/ row'[Sub].plan = e.new.plan
             \/ row[Sub] \in SubRows /\ row'[Sub].plan = row[Sub].plan
      BY <1>4, <1>5, <2>1, <2>3, SubMerge
    <3>2. QED
      BY <1>4, <2>1, <2>3, <3>1, SubRowIs
  <2>4. QED
    BY <2>2, <2>3
<1>7. UNCHANGED <<acct, now, scheme, term, undone, moved, resized, orphan>>
  BY <1>1 DEF acctVars, subGhosts
<1>8. Cleared' = Cleared /\ Plain' = Plain
  BY <1>7, SameAge
<1>9. SubRowOK'
  BY <1>6, <1>8 DEF SubscriptionInv, SubRowOK
<1>10. BillsOK'
  <2>1. CASE bills' = bills
    BY <1>6, <1>7, <2>1 DEF SubscriptionInv, BillsOK, RefundBounded
  <2>2. CASE bills' = Append(bills, Renewal)
    <3>1. Renewal \in Bills /\ Renewal.amount = Price
      BY SubscriptionsAssumption DEF Bills, Renewal
    <3>2. QED
      BY <1>6, <1>7, <2>2, <3>1, BilledIs DEF SubscriptionInv
  <2>3. QED
    BY <2>1, <2>2 DEF WriteSubscription
<1>11. /\ \A g \in Hands \ {h} : hand'[g] = hand[g]
       /\ hand'[h] = IF "next" \in DOMAIN e THEN e.next ELSE Idle
  BY <1>1 DEF Write, SubscriptionInv, EditShape
<1>12. FitsThen(hand'[h])
  <2>1. CASE hand'[h] = Idle
    BY <2>1, NothingFits
  <2>2. CASE Turn(hand'[h])
    <3>1. SubHand(hand'[h]) /\ "kill" \notin DOMAIN hand'[h] /\ "forget" \notin DOMAIN hand'[h]
          /\ Dataless(hand'[h])
      BY <2>2 DEF Turn, SubHand, Dataless
    <3>2. QED
      BY <3>1, FitsPlain DEF FitsThen
  <2>3. QED
    BY <1>3, <1>11, <2>1, <2>2 DEF RowWrite
<1>13. QED
  BY <1>1, <1>2, <1>7, <1>9, <1>10, <1>11, <1>12, SubRowStep

\* A link pasted into the chat: another owner, or a row for an account that has none.
LEMMA AddFromLinkKeeps ==
    ASSUME SubscriptionInv, NEW u \in Holders, AddFromLink(u)
    PROVE  SubscriptionInv'
<1>1. /\ EditShape /\ DecisionsKept /\ SubRowOK /\ BillsOK /\ Sub \in Keys
      /\ UNCHANGED <<hand, raced, bills, night, acctVars, subGhosts>>
      /\ UNCHANGED <<acct, now, scheme, term, undone, moved, resized, orphan>>
  BY SubscriptionsAssumption DEF SubscriptionInv, AddFromLink, subVars, acctVars, subGhosts
<1>2. hand' = [g \in Hands |-> hand'[g]]
  BY <1>1 DEF EditShape
<1>3. ASSUME EditShape', DecisionsKept', row'[Sub] \in SubRows, row[Sub] # Gone,
             Plain => row'[Sub].plan # "data"
      PROVE  SubscriptionInv'
  <2>1. row'[Sub] # Gone
    BY <1>3, SubRowIs
  <2>2. Plain' = Plain
    BY <1>1, SameAge
  <2>3. SubRowOK' /\ BillsOK'
    BY <1>1, <1>3, <2>1, <2>2 DEF SubRowOK, BillsOK, RefundBounded
  <2>4. QED
    BY <1>1, <1>3, <2>3, SubRowStep
<1>4. CASE Exists(Sub) /\ Update(Sub, [row[Sub] EXCEPT !.owner = u], {"owner"})
  <2> DEFINE new == [row[Sub] EXCEPT !.owner = u]
  <2>1. row[Sub] \in SubRows /\ (Plain => row[Sub].plan # "data")
    BY <1>1, <1>4 DEF SubRowOK, Exists
  <2>2. new \in SubRows /\ Update(Sub, new, {"owner"}) /\ new.plan = row[Sub].plan
    BY <1>4, <2>1 DEF SubRows
  <2> HIDE DEF new
  <2>3. row'[Sub] = Merge(row[Sub], new, {"owner"}) /\ EditShape' /\ DecisionsKept'
    BY <1>1, <1>2, <2>2, UpdateKeeps
  <2>4. row'[Sub] \in SubRows /\ row'[Sub].plan = row[Sub].plan
    BY <2>1, <2>2, <2>3, SubMerge
  <2>5. QED
    BY <1>3, <2>1, <2>3, <2>4, SubRowIs
<1>5. CASE /\ row[Sub] = Absent
           /\ LET new == [status |-> Status(acct), name |-> "old", owner |-> u,
                          plan |-> NoPlan]
              IN  row' = [row EXCEPT ![Sub] = new] /\ said' = [said EXCEPT ![Sub] = new]
  <2> DEFINE new == [status |-> Status(acct), name |-> "old", owner |-> u, plan |-> NoPlan]
  <2>1. new \in SubRows /\ new.plan # "data"
    BY StatusIs DEF SubRows, NoPlan
  <2>2. row' = [row EXCEPT ![Sub] = new] /\ said' = [said EXCEPT ![Sub] = new]
    BY <1>5
  <2> HIDE DEF new
  <2>3. EditShape' /\ DecisionsKept' /\ row'[Sub] = new
    BY <1>1, <1>2, <2>2 DEF EditShape, DecisionsKept
  <2>4. QED
    BY <1>3, <1>5, <2>1, <2>3 DEF Absent, Gone
<1>6. QED
  BY <1>4, <1>5 DEF AddFromLink

\* The row deleted and its invoices unlinked, of which one may be changed to b.
LEMMA ForgetKeeps ==
    ASSUME SubscriptionInv, Cleared', NEW b \in Refund, b.i # 0 => Fair(b.amount, Still, Calm),
           ForgetRow(IF b.i = 0 \/ ~Exists(Sub) THEN bills
                     ELSE [bills EXCEPT ![b.i].amount = b.amount]),
           UNCHANGED <<raced, now, scheme, moved, resized>>
    PROVE  /\ DecisionsKept' /\ SubRowOK' /\ BillsOK'
           /\ (hand' = [g \in Hands |-> hand'[g]]) => EditShape'
<1> DEFINE new == IF b.i = 0 \/ ~Exists(Sub) THEN bills
                  ELSE [bills EXCEPT ![b.i].amount = b.amount]
           gone == {Sub} \ {k \in Keys : row[k] = Absent}
<1>1. /\ EditShape /\ DecisionsKept /\ SubRowOK /\ BillsOK /\ Sub \in Keys
      /\ Calm' = Calm /\ Still' = Still /\ Plain' = Plain
  BY SubscriptionsAssumption
     DEF SubscriptionInv, Calm, Still, Plain, FirstLimit, DataLimit
<1>2. Delete(gone) /\ bills' = Unlinked(new)
  BY DEF ForgetRow
<1>3. /\ row' = [k \in Keys |-> row'[k]] /\ said' = [k \in Keys |-> said'[k]]
      /\ \A k \in Keys : k \in gone => row'[k] = Gone /\ said'[k] = Gone
      /\ \A k \in Keys : k \notin gone => row'[k] = row[k] /\ said'[k] = said[k]
  BY <1>2 DEF Delete
<1>4. row'[Sub] = IF row[Sub] = Absent THEN Absent ELSE Gone
  BY <1>1, <1>3
<1>5. DecisionsKept'
  BY <1>1, <1>3 DEF DecisionsKept
<1>6. SubRowOK'
  <2>1. row'[Sub] \notin SubRows
    BY <1>4, SubRowIs
  <2>2. QED
    BY <1>1, <1>4, <2>1 DEF SubRowOK
<1>7. BillsOK'
  <2>1. bills \in Seq(Bills) /\ b.i \in Nat /\ b.amount \in Int
    BY <1>1 DEF BillsOK, Bills, Refund
  <2>2. CASE b.i = 0 \/ ~Exists(Sub)
    <3>1. /\ bills' \in Seq(Bills) /\ DOMAIN bills' = DOMAIN bills
          /\ \A i \in DOMAIN bills : bills'[i].amount = bills[i].amount
      BY <1>2, <2>1, <2>2, UnlinkedIs
    <3>2. row[Sub] = Gone => row'[Sub] = Gone
      BY <1>4 DEF Gone, Absent
    <3>3. QED
      BY <1>1, <3>1, <3>2, SameAmounts
  <2>3. CASE b.i # 0 /\ Exists(Sub)
    <3> DEFINE charged == [bills EXCEPT ![b.i].amount = b.amount]
    <3>1. /\ charged \in Seq(Bills) /\ DOMAIN charged = DOMAIN bills
          /\ b.i \in DOMAIN bills => charged[b.i].amount = b.amount
          /\ \A j \in DOMAIN bills \ {b.i} : charged[j] = bills[j]
      BY <2>1, ChargedIs
    <3>2. bills' = Unlinked(charged)
      BY <1>2, <2>3
    <3> HIDE DEF charged
    <3>3. /\ bills' \in Seq(Bills) /\ DOMAIN bills' = DOMAIN bills
          /\ \A i \in DOMAIN bills : bills'[i].amount = charged[i].amount
      BY <3>1, <3>2, UnlinkedIs
    <3>4. \A i \in DOMAIN bills : bills[i].amount = Price
      BY <1>1, <2>3 DEF BillsOK, RefundBounded, Exists
    <3>5. \A i \in DOMAIN bills' :
             bills'[i].amount # Price => i = b.i /\ bills'[i].amount = b.amount
      BY <3>1, <3>3, <3>4
    <3>6. row'[Sub] = Gone
      BY <1>4, <2>3 DEF Exists
    <3>7. Fair(b.amount, Still', Calm')
      BY <1>1, <2>3
    <3>8. RefundBounded'
      BY <3>5, <3>6, <3>7 DEF RefundBounded, Calm, Still, Fair
    <3>9. QED
      BY <3>3, <3>8 DEF BillsOK, Bills
  <2>4. QED
    BY <2>2, <2>3
<1>8. QED
  BY <1>3, <1>5, <1>6, <1>7 DEF EditShape

LEMMA ForgetsKeep ==
    ASSUME SubscriptionInv, NightDeletes \/ ServerRemoved \/ \E h \in Hands : DeleteRow(h)
    PROVE  SubscriptionInv'
<1>1. NoBill \in Refund /\ NoBill.i = 0
  BY DEF NoBill, Refund
<1>2. CASE NightDeletes \/ ServerRemoved
  <2>1. Cleared'
    BY <1>2 DEF NightDeletes, ServerRemoved, SubscriptionInv, NightOK, Idle, Cleared, Alive,
                NoAccount, acctVars, subGhosts
  <2>2. /\ hand' = [g \in Hands |-> hand'[g]] /\ \A g \in Hands : hand'[g] = hand[g]
        /\ night' = night \/ night' = Idle
        /\ raced' = raced /\ UNCHANGED <<acctVars, term, undone, moved, resized>>
        /\ orphan => orphan'
    BY <1>2 DEF NightDeletes, ServerRemoved, SubscriptionInv, EditShape, subGhosts
  <2>3. ForgetRow(IF NoBill.i = 0 \/ ~Exists(Sub) THEN bills
                  ELSE [bills EXCEPT ![NoBill.i].amount = NoBill.amount])
    BY <1>1, <1>2 DEF NightDeletes, ServerRemoved
  <2>4. UNCHANGED <<raced, now, scheme, moved, resized>>
    BY <2>2 DEF acctVars
  <2>5. EditShape' /\ DecisionsKept' /\ SubRowOK' /\ BillsOK'
    BY <1>1, <2>1, <2>2, <2>3, <2>4, ForgetKeeps
  <2>6. QED
    BY <2>2, <2>5, SubRowStep
<1>3. ASSUME NEW h \in Hands, DeleteRow(h) PROVE SubscriptionInv'
  <2> DEFINE b == hand[h].forget
  <2>1. FitsNow(hand[h]) /\ SubHand(hand[h]) /\ "forget" \in DOMAIN hand[h]
    BY <1>3, InHand DEF DeleteRow, Does
  <2>2. b \in Refund /\ Cleared /\ (b.i # 0 => Fair(b.amount, Still, Calm))
    BY <2>1, SubHandIs DEF FitsNow, Fits
  <2>3. /\ hand' = [g \in Hands |-> hand'[g]] /\ hand'[h] = Idle
        /\ \A g \in Hands \ {h} : hand'[g] = hand[g]
        /\ night' = night /\ UNCHANGED <<acctVars, term, undone, moved, resized>>
        /\ UNCHANGED <<raced, acct, now, scheme, moved, resized, orphan>>
    BY <1>3 DEF DeleteRow, LetGo, SubscriptionInv, EditShape, acctVars, subGhosts
  <2>4. Cleared'
    BY <2>2, <2>3, SameAge
  <2>5. ForgetRow(IF b.i = 0 \/ ~Exists(Sub) THEN bills
                  ELSE [bills EXCEPT ![b.i].amount = b.amount])
    BY <1>3 DEF DeleteRow
  <2> HIDE DEF b
  <2>6. EditShape' /\ DecisionsKept' /\ SubRowOK' /\ BillsOK'
    BY <2>2, <2>3, <2>4, <2>5, ForgetKeeps
  <2>7. QED
    BY <2>3, <2>6, NothingFits, SubRowStep
<1>4. QED
  BY <1>2, <1>3

\* The invoice of a renewal deleted.
LEMMA RevokeRenewalKeeps ==
    ASSUME SubscriptionInv, RevokeRenewal
    PROVE  SubscriptionInv'
<1>1. /\ RowsKept /\ UNCHANGED <<hand, night, acctVars, term, undone, moved, resized, orphan>>
      /\ UNCHANGED <<acct, now, scheme, moved, resized, orphan>>
  BY DEF RevokeRenewal, acctVars, subGhosts
<1>2. PICK i \in DOMAIN bills : bills' = [bills EXCEPT ![i].linked = FALSE]
  BY DEF RevokeRenewal
<1>3. bills \in Seq(Bills) /\ BillsOK
  BY DEF SubscriptionInv, BillsOK, Bills
<1>4. /\ bills' \in Seq(Bills) /\ DOMAIN bills' = DOMAIN bills
      /\ \A j \in DOMAIN bills : bills'[j].amount = bills[j].amount
  BY <1>2, <1>3, OneUnlinkedIs
<1>5. BillsOK'
  BY <1>1, <1>3, <1>4, SameAmounts DEF RowsKept
<1>6. EditShape' /\ DecisionsKept'
  <2>1. hand' = [g \in Hands |-> hand'[g]]
    BY <1>1 DEF SubscriptionInv, EditShape
  <2>2. QED
    BY <1>1, <2>1, RowsStay DEF SubscriptionInv
<1>7. SubRowOK'
  <2>1. Cleared' = Cleared /\ Plain' = Plain
    BY <1>1, SameAge
  <2>2. QED
    BY <1>1, <2>1 DEF SubscriptionInv, SubRowOK, RowsKept
<1>8. QED
  BY <1>1, <1>5, <1>6, <1>7, SubRowStep

\* A subscription bought from the bot, or an account of the panel, satisfies the invariant.
LEMMA SubscriptionsStart == SubscriptionsInit => SubscriptionInv
<1> SUFFICES ASSUME SubscriptionsInit PROVE SubscriptionInv
  OBVIOUS
<1>1. scheme \in Schemes /\ FirstSub[scheme] \in SubRows /\ now = 0 /\ Sub \in Keys
  BY SubscriptionsAssumption DEF SubscriptionsInit
<1>2. PICK first \in {FirstSub[scheme], Absent} :
         EditsInit([k \in Keys |-> IF k = Sub THEN first ELSE Absent])
  BY DEF SubscriptionsInit
<1>3. EditShape /\ DecisionsKept /\ row[Sub] = first /\ \A h \in Hands : hand[h] = Idle
  BY <1>1, <1>2 DEF EditsInit, EditShape, DecisionsKept
<1>4. SubRowOK
  <2>1. Plain => FirstSub[scheme].plan # "data"
    BY <1>1, PlanGives DEF Plain, FirstLimit
  <2>2. QED
    BY <1>1, <1>3, <2>1, SubRowIs DEF SubRowOK, Absent, Gone
<1>5. HandsFit
  BY <1>3, NothingFits, Zenon DEF HandsFit
<1>6. NightOK
  BY DEF SubscriptionsInit, NightOK
<1>7. AcctOK
  <2> DEFINE plan == FirstSub[scheme].plan
  <2>1. acct = [off |-> FALSE, ends |-> Ends(plan), limit |-> DataLimit(plan), used |-> 0]
    BY DEF SubscriptionsInit, NewAccount
  <2>2. /\ Ends(plan) \in Int /\ DataLimit(plan) \in Int
        /\ Ends(plan) # 0 => Ends(plan) - Duration \in 0..now
    BY <1>1, PlanGives
  <2>3. FirstLimit = DataLimit(plan)
    BY DEF FirstLimit
  <2> HIDE DEF plan
  <2>4. /\ acct \in Account /\ acct.ends = Ends(plan) /\ acct.limit = DataLimit(plan)
        /\ acct.used = 0
    BY <2>1, <2>2 DEF Account
  <2>5. term = [ends |-> acct.ends, limit |-> acct.limit]
    BY DEF SubscriptionsInit
  <2>6. QED
    BY <1>1, <2>2, <2>3, <2>4, <2>5, SubscriptionsAssumption DEF AcctOK, TermKept
<1>8. BillsOK
  <2> DEFINE bill == [amount |-> Price, linked |-> TRUE, renewal |-> FALSE]
  <2>1. bills = <<>> \/ bills = <<bill>>
    BY DEF SubscriptionsInit
  <2>2. CASE bills = <<>>
    BY <2>2 DEF BillsOK, RefundBounded
  <2>3. CASE bills = <<bill>>
    <3>1. bill \in Bills /\ bill.amount = Price
      BY SubscriptionsAssumption DEF Bills
    <3> HIDE DEF bill
    <3>2. bills \in Seq(Bills)
      BY <2>3, <3>1
    <3>3. \A i \in DOMAIN bills : bills[i].amount = Price
      BY <2>3, <3>1
    <3>4. QED
      BY <3>2, <3>3 DEF BillsOK, Bills, RefundBounded
  <2>4. QED
    BY <2>1, <2>2, <2>3
<1>9. QED
  BY <1>3, <1>4, <1>5, <1>6, <1>7, <1>8 DEF SubscriptionInv

\* Every step keeps the invariant.
LEMMA SubscriptionsStep ==
    SubscriptionInv /\ [SubscriptionsNext]_<<rowVars, subVars>> => SubscriptionInv'
<1> SUFFICES ASSUME SubscriptionInv, [SubscriptionsNext]_<<rowVars, subVars>>
             PROVE  SubscriptionInv'
  OBVIOUS
<1>1. ASSUME NEW h \in Hands, Continue(h) PROVE SubscriptionInv'
  <2>1. CASE \/ ShowProxy(h) \/ DisableProxy(h) \/ EnableProxy(h) \/ RefreshProxies(h)
             \/ CreateInvoice(h) \/ ReadLeft(h) \/ Deadlocked(h)
    BY <2>1, QuestionsKeep
  <2>2. CASE RemoveProxy(h) \/ DeleteWithPayback(h) \/ RemoveUser(h) \/ DeleteRow(h)
    BY <2>2, RemovalsKeep, RemoveUserKeeps, ForgetsKeep
  <2>3. CASE ResetUsage(h) \/ ModifyUser(h) \/ RenewUser(h) \/ GetRecharged(h)
    BY <2>3, ResetUsageKeeps, ModifyUserKeeps, RenewUserKeeps, GetRechargedKeeps
  <2>4. CASE SetStatus(h) \/ MarkStatus(h) \/ BulkUpdate(h) \/ WriteSubscription(h)
    BY <2>4, SetStatusKeeps, MarksKeep, BulkUpdateKeeps, WriteSubscriptionKeeps
  <2>5. QED
    BY <1>1, <2>1, <2>2, <2>3, <2>4 DEF Continue
<1>2. ASSUME NEW h \in Hands,
             \/ \E what \in Buttons : Ask(h, what)
             \/ \E plan \in Plans : RenewProxyNow(h, plan)
             \/ SetName(h) \/ StartBulk(h) \/ PanelSets(h, TRUE) \/ PanelSets(h, FALSE)
             \/ PanelRemoves(h) \/ RevokePurchase(h) \/ GiveUp(h)
      PROVE  SubscriptionInv'
  BY <1>2, QuestionsKeep, SetNameKeeps, PanelSetsKeeps, RemovesAnywayKeeps
     DEF PanelRemoves, RevokePurchase
<1>3. CASE NightReads \/ NightContinues \/ RevokeRenewal \/ ServerRemoved
  BY <1>3, AroundKeeps, MarksKeep, ForgetsKeep, RevokeRenewalKeeps DEF NightContinues
<1>4. ASSUME NEW u \in Holders, AddFromLink(u) PROVE SubscriptionInv'
  BY <1>4, AddFromLinkKeeps
<1>5. CASE Tick \/ UseData \/ OperatorRemoves \/ Outage \/ PanelBack
  BY <1>5, AroundKeeps
<1>6. CASE UNCHANGED <<rowVars, subVars>>
  <2>1. /\ RowsKept /\ hand' = hand
        /\ UNCHANGED <<acct, now, scheme, bills, night, term, undone, moved, resized, orphan>>
    BY <1>6 DEF rowVars, RowsKept, subVars, acctVars, subGhosts
  <2>2. Ages /\ Cleared' = Cleared /\ FirstLimit' = FirstLimit
    BY <2>1, SameAge
  <2>3. AcctOK' /\ NightOK'
    BY <2>1, <2>2 DEF SubscriptionInv, AcctOK, NightOK, TermKept, Alive, NoAccount
  <2>4. hand' = [g \in Hands |-> hand'[g]] /\ \A g \in Hands : hand'[g] = hand[g]
    BY <2>1 DEF SubscriptionInv, EditShape
  <2>5. QED
    BY <2>1, <2>2, <2>3, <2>4, AcctStep
<1>7. QED
  BY <1>1, <1>2, <1>3, <1>4, <1>5, <1>6, Zenon DEF SubscriptionsNext

\* Whatever the handlers, staff, the jobs, the panel and its outages do: a subscription whose row
\* was deleted leaves no account behind, unless it was deleted by one who goes on without the
\* panel (NoOrphan); its account has the end and the limit that were paid for, with the rest of
\* the old plan where a renewal adds it (TermKept); and no decision about its row is undone
\* (DecisionsKept).  For any number of handlers, each way to renew, any plan and any price.
THEOREM AlwaysSubscriptionSound == SubscriptionsSpec => []SubscriptionSound
<1>1. SubscriptionInv => SubscriptionSound
  <2> SUFFICES ASSUME SubscriptionInv PROVE SubscriptionSound
    OBVIOUS
  <2>1. /\ row[Sub] \in SubRows \cup {Absent, Gone} /\ DecisionsKept /\ TermKept
        /\ scheme \in Schemes
    BY DEF SubscriptionInv, SubRowOK, AcctOK
  <2>2. NoOrphan
    BY DEF SubscriptionInv, SubRowOK, Cleared, NoOrphan
  <2>3. acct = NoAccount \/ acct \in [off : BOOLEAN, ends : Int, limit : Int, used : Nat]
    BY DEF SubscriptionInv, AcctOK, Account
  <2>4. bills \in Seq([amount : Int, linked : BOOLEAN, renewal : BOOLEAN])
    BY DEF SubscriptionInv, BillsOK
  <2>5. night = Idle \/ DOMAIN night \in {{"snap", "status"}, {"forget"}}
    BY DEF SubscriptionInv, NightOK
  <2>6. QED
    BY <2>1, <2>2, <2>3, <2>4, <2>5 DEF SubscriptionSound, SubscriptionTypeOK
<1>2. QED
  BY <1>1, SubscriptionsStart, SubscriptionsStep, PTL DEF SubscriptionsSpec

\* A refund changes one invoice, once, with the deletion of the row; it leaves no less of it than
\* nothing until a bulk change moves the account, and no more than the price and the fee while
\* the first period lasts and no renewal gave the account another limit (delete_with_payback):
\* until then the account has the limit of the plan its row names, and no more of it is used.
THEOREM AlwaysRefundBounded == SubscriptionsSpec => []RefundBounded
<1>1. SubscriptionInv => RefundBounded
  BY DEF SubscriptionInv, BillsOK
<1>2. QED
  BY <1>1, SubscriptionsStart, SubscriptionsStep, PTL DEF SubscriptionsSpec
=============================================================================
