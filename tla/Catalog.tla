------------------------------ MODULE Catalog ------------------------------
(***************************************************************************)
(* Discounts and the menus in which services are listed.  Super users edit   *)
(* both in the bot and in the panel; customers redeem codes and buy with     *)
(* them; what a discount or a menu is for is a set of links of its own.      *)
(***************************************************************************)
EXTENDS RowEdits

CONSTANTS
    Discounts, Menus, Services, Customers, Managers,
    Open,          \* discounts without a code: everybody has them
    FirstCatalog,  \* the rows at the start
    FirstLinks,    \* the services of each discount and menu at the start
    FirstReserved, \* the customers who had redeemed each discount
    Limits         \* values of use_counts, 0 for none

Root == "root"
Audiences == {"users", "resellers"}   \* users_only, resellers_only
Channels == {"purchase", "renew"}

\* once is once_per_user; the channels of a discount are on_purchase and on_renew.
DiscountRows == [active : BOOLEAN, once : BOOLEAN, channels : SUBSET Channels,
                 used : Nat, limit : Nat]
MenuRows == [audience : SUBSET Audiences, channels : SUBSET Channels,
             text : {"old", "new"}, parent : Menus \cup {Root}]

\* At the start each menu is in one that is there, and none is below itself.
ASSUME CatalogAssumption ==
    /\ Discounts \cup Menus \subseteq Keys /\ Open \subseteq Discounts
    /\ Discounts \cap Menus = {} /\ IsFiniteSet(Menus) /\ Root \notin Menus
    /\ FirstCatalog \in [Discounts \cup Menus -> DiscountRows \cup MenuRows \cup {Absent}]
    /\ \A d \in Discounts : FirstCatalog[d] \in DiscountRows \cup {Absent}
    /\ \A m \in Menus : FirstCatalog[m] \in MenuRows \cup {Absent}
    /\ \A m \in Menus : FirstCatalog[m] # Absent /\ FirstCatalog[m].parent # Root =>
          FirstCatalog[FirstCatalog[m].parent] # Absent
    /\ \A ring \in (SUBSET Menus) \ {{}} : \E m \in ring :
          FirstCatalog[m] = Absent \/ FirstCatalog[m].parent \notin ring
    /\ FirstLinks \in [Discounts \cup Menus -> SUBSET Services]
    /\ \A k \in Discounts \cup Menus : FirstCatalog[k] = Absent => FirstLinks[k] = {}
    /\ Limits \subseteq Nat

VARIABLES
    links,      \* services of each discount and menu
    forSale,    \* the services that exist
    reserved,   \* per discount: customers who redeemed it
    usedBy,     \* per discount: customers who used it
    draft,      \* per manager: the conversation [form, on, ids, shown]
    \* Only for the properties.
    uses,       \* per discount: purchases made with it
    chosen,     \* per discount and menu: the services somebody saved for it
    overused,   \* discounts over their limit at the start, with two purchases at once, or
                \* whose limit was changed
    stray,      \* discounts used for a service they are not made for, not being widened
    widened,    \* discounts whose services were all deleted, or are not linked yet
    relisted,   \* menus whose services two saves replaced at once
    byPanel,    \* menus whose audience the panel set, now or before
    crossed     \* menus moved while another one was being moved

catalogGhosts == <<uses, chosen, overused, stray, widened, relisted, byPanel, crossed>>
catalogVars == <<links, forSale, reserved, usedBy, draft, catalogGhosts>>

NoDraft == [form |-> "none", on |-> Root, ids |-> {}, shown |-> {}]

CatalogTypeOK ==
    /\ \A d \in Discounts : row[d] \in DiscountRows \cup {Absent, Gone}
    /\ \A m \in Menus : row[m] \in MenuRows \cup {Absent, Gone}
    /\ links \in [Discounts \cup Menus -> SUBSET Services]
    /\ \A a \in Managers : draft[a].ids \subseteq Services /\ draft[a].on \in Menus \cup {Root}

CatalogInit ==
    /\ links = FirstLinks /\ chosen = FirstLinks /\ forSale = Services
    /\ reserved = FirstReserved /\ usedBy = [d \in Discounts |-> {}]
    /\ draft = [a \in Managers |-> NoDraft]
    /\ uses = [d \in Discounts |-> IF Exists(d) THEN row[d].used ELSE 0]
    /\ overused = {d \in Discounts : Exists(d) /\ row[d].limit > 0 /\ row[d].used > row[d].limit}
    /\ byPanel = {m \in Menus : Exists(m) /\ row[m].audience = Audiences}
    /\ stray = {} /\ widened = {} /\ relisted = {} /\ crossed = {}

Other(h, field, k) == \E g \in Hands \ {h} : field \in DOMAIN hand[g] /\ hand[g][field] = k
Toggle(S, x) == IF x \in S THEN S \ {x} ELSE S \cup {x}

-----------------------------------------------------------------------------
(* Discounts. *)

\* A switch of a discount, confirmed: what the row says by now is turned over.
FlipActive(h, d) == Save(h, "bot", d, [row[d] EXCEPT !.active = ~@])
FlipOnPurchase(h, d) == Save(h, "bot", d, [row[d] EXCEPT !.channels = Toggle(@, "purchase")])
FlipOnRenew(h, d) == Save(h, "bot", d, [row[d] EXCEPT !.channels = Toggle(@, "renew")])
FlipOncePerUser(h, d) == Save(h, "bot", d, [row[d] EXCEPT !.once = ~@])

PanelSetsActive(h, d) ==
    \E b \in BOOLEAN : SaveFields(h, "panel", d, [row[d] EXCEPT !.active = b], {"active"})
PanelSetsLimit(h, d) ==
    \E n \in Limits : n # row[d].limit /\ Save(h, "panel", d, [row[d] EXCEPT !.limit = n])

EditDiscount(h, d) ==
    /\ Exists(d)
    /\ \/ FlipActive(h, d) \/ FlipOnPurchase(h, d) \/ FlipOnRenew(h, d) \/ FlipOncePerUser(h, d)
       \/ PanelSetsActive(h, d) \/ PanelSetsLimit(h, d)
    /\ UNCHANGED catalogVars

Unlink(ks) ==
    /\ links' = [k \in DOMAIN links |-> IF k \in ks THEN {} ELSE links[k]]
    /\ chosen' = [k \in DOMAIN chosen |-> IF k \in ks THEN {} ELSE chosen[k]]

RemoveDiscount(d) ==
    /\ Exists(d) /\ Begin /\ Delete({d}) /\ Unlink({d})
    /\ UNCHANGED <<hand, raced, forSale, reserved, usedBy, draft, uses, overused, stray, widened,
                   relisted, byPanel, crossed>>

\* A service deleted: the links to it go too, and a discount left with none is for all services.
RemoveService(s) ==
    /\ s \in forSale /\ Begin /\ forSale' = forSale \ {s}
    /\ links' = [k \in DOMAIN links |-> links[k] \ {s}]
    /\ widened' = widened \cup {d \in Discounts : links[d] = {s}}
    /\ UNCHANGED <<row, hand, said, raced, reserved, usedBy, draft, uses, chosen, overused, stray,
                   relisted, byPanel, crossed>>

InLimit(d) == row[d].limit = 0 \/ row[d].used < row[d].limit
FirstUse(d, c) == row[d].once => c \notin usedBy[d]

\* A code redeemed.
RedeemCode(d, c) ==
    /\ Exists(d) /\ InLimit(d) /\ FirstUse(d, c) /\ c \notin reserved[d] /\ Begin
    /\ reserved' = [reserved EXCEPT ![d] = @ \cup {c}]
    /\ RowsKept /\ UNCHANGED <<hand, links, forSale, usedBy, draft, catalogGhosts>>

\* A discount that applies to service s for customer c.
Applies(d, c, s, channel) ==
    /\ Exists(d) /\ row[d].active /\ InLimit(d) /\ FirstUse(d, c)
    /\ links[d] = {} \/ s \in links[d]
    /\ d \in Open \/ c \in reserved[d]
    /\ channel \in row[d].channels

\* A purchase or renewal looks the discount up, one at a time for a customer ...
GetDiscount(h, d, c, s) ==
    /\ s \in forSale /\ \E channel \in Channels : Applies(d, c, s, channel)
    /\ ~Other(h, "customer", c)
    /\ Hold(h, [use |-> d, customer |-> c, from |-> row[d].used])
    /\ overused' = IF Other(h, "use", d) THEN overused \cup {d} ELSE overused
    /\ stray' = IF chosen[d] # {} /\ s \notin chosen[d] THEN stray \cup ({d} \ widened) ELSE stray
    /\ RowsKept
    /\ UNCHANGED <<links, forSale, reserved, usedBy, draft, uses, chosen, widened, relisted,
                   byPanel, crossed>>

\* Broken variant for CatalogSound: the object's count is written, not the column plus one.
Count_FromObject(r, e) == [r EXCEPT !.used = e.from + 1]
Count(r, e) == [r EXCEPT !.used = @ + 1]

\* ... and counts it when it has been paid.
UseDiscount(h) ==
    LET d == hand[h].use
    IN  /\ "use" \in DOMAIN hand[h] /\ LetGo(h)
        /\ IF ~Exists(d) THEN UNCHANGED <<row, said, usedBy, uses>>
           ELSE /\ row' = [row EXCEPT ![d] = Count(@, hand[h])]
                /\ said' = [said EXCEPT ![d] = Count(@, hand[h])]
                /\ usedBy' = [usedBy EXCEPT ![d] = @ \cup {hand[h].customer}]
                /\ uses' = [uses EXCEPT ![d] = @ + 1]
        /\ UNCHANGED <<raced, links, forSale, reserved, draft, chosen, overused, stray, widened,
                       relisted, byPanel, crossed>>

-----------------------------------------------------------------------------
(* Conversations: a new discount, a new menu, the services of a menu. *)

Talk(a, c) ==
    /\ Begin /\ draft' = [draft EXCEPT ![a] = c]
    /\ RowsKept /\ UNCHANGED <<hand, links, forSale, reserved, usedBy, catalogGhosts>>

\* A new form, up to its list of services: none is shown as selected, but a selection of an
\* unfinished form is still in the conversation.
AddDiscount(a) == Talk(a, [draft[a] EXCEPT !.form = "discount", !.shown = {}])
AddSubMenu(a, m) == Talk(a, [draft[a] EXCEPT !.form = "menu", !.on = m, !.shown = {}])
EditMenuServices(a, m) ==
    Exists(m) /\ Talk(a, [form |-> "services", on |-> m, ids |-> links[m], shown |-> links[m]])
SelectService(a, s) ==
    LET ids == Toggle(draft[a].ids, s)
    IN  /\ draft[a].form \in {"discount", "menu", "services"} /\ s \in forSale
        /\ Talk(a, [draft[a] EXCEPT !.ids = ids, !.shown = ids])
\* A list of menus or discounts, or another page.
ShowList(a) == draft[a] # NoDraft /\ Talk(a, NoDraft)

EditText(a, m) == Talk(a, [draft[a] EXCEPT !.form = "text", !.on = m])
GetText(a) ==
    /\ draft[a].form = "text" /\ Begin
    /\ draft[a].on \in Menus /\ Exists(draft[a].on)
    /\ Update(draft[a].on, [row[draft[a].on] EXCEPT !.text = "new"], {"text"})
    /\ draft' = [draft EXCEPT ![a] = NoDraft]
    /\ UNCHANGED <<hand, raced, links, forSale, reserved, usedBy, catalogGhosts>>

NewDiscount == [active |-> TRUE, once |-> FALSE, channels |-> {"purchase"}, used |-> 0, limit |-> 0]
NewMenu(p) == [audience |-> {}, channels |-> Channels, text |-> "old", parent |-> p]
Appear(k, new) == row' = [row EXCEPT ![k] = new] /\ said' = [said EXCEPT ![k] = new]

\* The row is created first and its services are linked after it.
Make(h, ks, new, ids) ==
    \E k \in ks :
        /\ row[k] = Absent /\ Appear(k, new)
        /\ Hold(h, [relink |-> k, ids |-> ids, customer |-> "none"])
        /\ chosen' = [chosen EXCEPT ![k] = ids]
        /\ widened' = IF k \in Discounts /\ ids # {} THEN widened \cup {k} ELSE widened
        /\ UNCHANGED <<raced, links, forSale, reserved, usedBy, uses, overused, stray, relisted,
                       byPanel, crossed>>

Parent(m) == IF m \in Menus /\ Exists(m) THEN m ELSE Root
SaveMenu(h, a) ==
    /\ draft[a].form = "menu"
    /\ Make(h, Menus, NewMenu(Parent(draft[a].on)), draft[a].ids \cap forSale)
    /\ draft' = [draft EXCEPT ![a] = NoDraft]
SaveDiscount(h, a) ==
    /\ draft[a].form = "discount"
    /\ Make(h, Discounts, NewDiscount, draft[a].ids \cap forSale)
    /\ draft' = [draft EXCEPT ![a] = NoDraft]
\* In the panel a discount is always for all services.
PanelCreatesDiscount(h) == Make(h, Discounts, NewDiscount, {}) /\ UNCHANGED draft
PanelCreatesMenu(h) ==
    /\ \E m \in Menus \cup {Root}, ids \in SUBSET forSale :
          Make(h, Menus, NewMenu(Parent(m)), ids)
    /\ UNCHANGED draft

\* The services of a menu are replaced in two steps, in the bot and in the panel.
ClearServices(h, m, ids) ==
    /\ Exists(m) /\ Hold(h, [relink |-> m, ids |-> ids, customer |-> "none"])
    /\ links' = [links EXCEPT ![m] = {}]
    /\ chosen' = [chosen EXCEPT ![m] = ids]
    /\ relisted' = IF Other(h, "relink", m) THEN relisted \cup {m} ELSE relisted
    /\ RowsKept
    /\ UNCHANGED <<forSale, reserved, usedBy, uses, overused, stray, widened, byPanel, crossed>>
SaveMenuServices(h, a) ==
    /\ draft[a].form = "services" /\ ClearServices(h, draft[a].on, draft[a].ids)
    /\ draft' = [draft EXCEPT ![a] = NoDraft]
SetServices(h, m) == \E ids \in SUBSET forSale : ClearServices(h, m, ids) /\ UNCHANGED draft

AddServices(h) ==
    LET e == hand[h]
    IN  /\ "relink" \in DOMAIN e /\ LetGo(h)
        /\ links' = IF Exists(e.relink)
                    THEN [links EXCEPT ![e.relink] = @ \cup (e.ids \cap forSale)] ELSE links
        /\ widened' = IF e.ids \cap forSale # {} THEN widened \ {e.relink} ELSE widened
        /\ RowsKept
        /\ UNCHANGED <<forSale, reserved, usedBy, draft, uses, chosen, overused, stray, relisted,
                       byPanel, crossed>>

-----------------------------------------------------------------------------
(* Menus. *)

\* Broken variant for CatalogSound: the other audience is left as it is.
ForOnly_Adds(r, who) == [r EXCEPT !.audience = Toggle(@, who)]
ForOnly(r, who) == [r EXCEPT !.audience = IF who \in @ THEN @ \ {who} ELSE {who}]
ToggleResellersOnly(h, m) == Save(h, "bot", m, ForOnly(row[m], "resellers"))
ToggleUsersOnly(h, m) == Save(h, "bot", m, ForOnly(row[m], "users"))
TogglePurchase(h, m) == Save(h, "bot", m, [row[m] EXCEPT !.channels = Toggle(@, "purchase")])
ToggleRenew(h, m) == Save(h, "bot", m, [row[m] EXCEPT !.channels = Toggle(@, "renew")])

EditMenu(h, m) ==
    /\ Exists(m)
    /\ \/ ToggleResellersOnly(h, m) \/ ToggleUsersOnly(h, m)
       \/ TogglePurchase(h, m) \/ ToggleRenew(h, m)
    /\ UNCHANGED catalogVars

Parents == [m \in Menus |-> IF Exists(m) THEN row[m].parent ELSE Root]
Above(parents, m) ==
    LET up[n \in 0..Cardinality(Menus)] ==
            IF n = 0 THEN {m} ELSE up[n - 1] \cup {parents[k] : k \in up[n - 1] \ {Root}}
    IN  up[Cardinality(Menus)]

\* Broken variant for MenusReachable: only the menu just above the new place is looked at.
WouldCycle_Direct(m, p) == p # Root /\ Parents[p] = m
WouldCycle(m, p) == p # Root /\ m \in Above(Parents, p)

\* The panel: any field, a parent only when it is not below the menu now.
MovesMenu(g) == Writing(g) /\ hand[g].to \in Menus /\ hand[g].new.parent # hand[g].seen.parent
PanelEditsMenu(h, m) ==
    /\ Exists(m)
    /\ \/ \E p \in (Menus \ {m}) \cup {Root} :
             /\ p # row[m].parent /\ (p # Root => Exists(p)) /\ ~WouldCycle(m, p)
             /\ Save(h, "panel", m, [row[m] EXCEPT !.parent = p])
             /\ crossed' = crossed \cup
                   (IF \E g \in Hands : MovesMenu(g) THEN {m} ELSE {})
             /\ UNCHANGED byPanel
       \/ \E set \in SUBSET Audiences :
             /\ Save(h, "panel", m, [row[m] EXCEPT !.audience = set])
             /\ byPanel' = byPanel \cup {m} /\ UNCHANGED crossed
    /\ UNCHANGED <<links, forSale, reserved, usedBy, draft, uses, chosen, overused, stray, widened,
                   relisted>>

\* A menu deleted with the menus below it.
DeleteMenu(m) ==
    LET below == {k \in Menus : Exists(k) /\ m \in Above(Parents, k)}
    IN  /\ Exists(m) /\ Begin /\ Delete(below) /\ Unlink(below)
        /\ UNCHANGED <<hand, raced, forSale, reserved, usedBy, draft, uses, overused, stray,
                       widened, relisted, byPanel, crossed>>

-----------------------------------------------------------------------------
WriteCatalog(h) ==
    LET e == hand[h]
    IN  /\ Write(h)
        /\ overused' = IF e.to \in Discounts /\ e.new.limit # e.seen.limit
                       THEN overused \cup {e.to} ELSE overused
        /\ UNCHANGED <<links, forSale, reserved, usedBy, draft, uses, chosen, stray, widened,
                       relisted, byPanel, crossed>>

CatalogNext ==
    \/ \E h \in Hands, d \in Discounts :
          EditDiscount(h, d) \/ \E c \in Customers, s \in Services : GetDiscount(h, d, c, s)
    \/ \E d \in Discounts : RemoveDiscount(d) \/ \E c \in Customers : RedeemCode(d, c)
    \/ \E s \in Services : RemoveService(s)
    \/ \E h \in Hands : UseDiscount(h) \/ AddServices(h) \/ WriteCatalog(h)
    \/ \E h \in Hands : PanelCreatesDiscount(h) \/ PanelCreatesMenu(h)
    \/ \E a \in Managers :
          \/ AddDiscount(a) \/ ShowList(a) \/ GetText(a)
          \/ \E m \in Menus : AddSubMenu(a, m) \/ EditMenuServices(a, m) \/ EditText(a, m)
          \/ \E s \in Services : SelectService(a, s)
          \/ \E h \in Hands : SaveMenu(h, a) \/ SaveDiscount(h, a) \/ SaveMenuServices(h, a)
    \/ \E h \in Hands, m \in Menus : EditMenu(h, m) \/ PanelEditsMenu(h, m) \/ SetServices(h, m)
    \/ \E m \in Menus : DeleteMenu(m)

\* The catalogue by itself.
CatalogSpec ==
    /\ EditsInit([k \in Keys |-> IF k \in Discounts \cup Menus THEN FirstCatalog[k] ELSE Absent])
    /\ CatalogInit
    /\ [][CatalogNext]_<<rowVars, catalogVars>>

-----------------------------------------------------------------------------
(* Properties. *)

\* A discount is not used more often than its limit, unless two purchases with it
\* overlapped, its limit was changed, or an old copy of its row undid a count; its count is
\* the number of purchases made with it (used_times is written as F + 1).
UsesCounted ==
    \A d \in Discounts \ raced : Exists(d) =>
       /\ row[d].used = uses[d]
       /\ d \notin overused /\ row[d].limit > 0 => uses[d] =< row[d].limit

\* A discount made for chosen services is given for no other service, unless those were all
\* deleted or it was so new that they were not linked yet: no link means every service.
MadeForIt == stray = {}

\* A menu has one audience at most, although two switches and whole-row saves of several
\* super users set it; only the panel can give it two.
MenuExclusive ==
    \A m \in Menus \ byPanel : Exists(m) => Cardinality(row[m].audience) =< 1

\* Every menu can be reached from the top of the list, unless a menu was moved while another
\* one was, or an old copy of a row brought back a parent: _would_cycle looks at the rows of
\* the moment, and the save comes later.
MenusReachable ==
    (crossed = {} /\ raced = {}) =>
       \A m \in Menus : Exists(m) => Root \in Above(Parents, m)

\* A menu lists the services of one save, unless two saves replaced them at once.
ListedAsChosen ==
    \A m \in Menus \ relisted :
       (~\E h \in Hands : "relink" \in DOMAIN hand[h] /\ hand[h].relink = m) =>
       links[m] = chosen[m] \cap forSale

\* The catalogue after any edits at the same time.
CatalogSound ==
    /\ CatalogTypeOK /\ DecisionsKept
    /\ UsesCounted /\ MadeForIt /\ MenuExclusive /\ ListedAsChosen
=============================================================================
