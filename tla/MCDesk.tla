------------------------------- MODULE MCDesk -------------------------------
(***************************************************************************)
(* Accounts, Catalog and Servers for TLC.  They edit different rows in the   *)
(* same way, so a behaviour has the edits of one of them, its part, with as  *)
(* many handlers started as Starts allows it.                                *)
(***************************************************************************)
EXTENDS Accounts, Catalog, Servers, TLC

CONSTANTS boss, seller, buyer, d1, d2, m1, m2, m3, s1, s2, p1, p2, v, w, h1, h2, c1, c2
VARIABLE part

Starts == [accounts |-> 2, catalog |-> 3, servers |-> 4]

\* A super user of .env, a reseller with credit for one transfer, a customer of his.
MCUsers == {boss, seller, buyer}
MCFirstUsers == [u \in MCUsers |->
    [role |-> IF u = boss THEN SuperUser ELSE IF u = seller THEN Reseller ELSE PlainUser,
     blocked |-> FALSE, postpaid |-> FALSE, verified |-> FALSE, auto |-> FALSE, cap |-> 2,
     name |-> "old", alias |-> None, referrer |-> None,
     parent |-> IF u = buyer THEN seller ELSE None]]
MCOffers == {<<seller, buyer, 2>>, <<seller, buyer, -1>>}
MCBook == <<[user |-> seller, amount |-> 2]>>
MCAmounts == {-1, 2}

\* A discount for one purchase of s1, and two menus, one of them with s1; one of each is new.
MCMenus == {m1, m2, m3}
MCDiscount == [active |-> TRUE, once |-> FALSE, channels |-> Channels, used |-> 0, limit |-> 1]
MCMenu == [audience |-> {}, channels |-> Channels, text |-> "old", parent |-> Root]
MCFirstCatalog == [k \in {d1, d2} \cup MCMenus |->
    IF k = d1 THEN MCDiscount ELSE IF k \in {m1, m2} THEN MCMenu ELSE Absent]
MCFirstLinks == [k \in {d1, d2} \cup MCMenus |-> IF k \in {d1, m1} THEN {s1} ELSE {}]

MCReserved == [k \in {d1, d2} |-> IF k = d1 THEN {c1} ELSE {}]

\* One server, and one to be made.
MCServer == [host |-> v, login |-> v, token |-> v, https |-> "yes", enabled |-> TRUE, total |-> 0]
MCFirstServers == [s \in {p1, p2} |-> IF s = p1 THEN MCServer ELSE Absent]

MCKeys == MCUsers \cup {<<"setting", u>> : u \in MCUsers} \cup {d1, d2} \cup MCMenus \cup {p1, p2}
FirstRow(k) ==
    IF k \in Users THEN FirstUsers[k] ELSE IF k \in Servers THEN FirstServers[k]
    ELSE IF k \in Discounts \cup Menus THEN FirstCatalog[k] ELSE Absent

\* The customer may have been promoted or blocked before, the reseller be paid later.
Init ==
    /\ part \in DOMAIN Starts
    /\ \E role \in {PlainUser, Reseller, Admin}, blocked, postpaid \in BOOLEAN :
          /\ part # "accounts" => role = PlainUser /\ ~blocked /\ ~postpaid
          /\ EditsInit([[k \in Keys |-> FirstRow(k)] EXCEPT
                ![buyer].role = role, ![buyer].blocked = blocked, ![seller].postpaid = postpaid])
    /\ AccountsInit /\ CatalogInit /\ ServersInit

Next ==
    /\ UNCHANGED part
    /\ \/ part = "accounts" /\ AccountsNext /\ UNCHANGED <<catalogVars, serverVars>>
       \/ part = "catalog" /\ CatalogNext /\ UNCHANGED <<accountVars, serverVars>>
       \/ part = "servers" /\ ServersNext /\ UNCHANGED <<accountVars, catalogVars>>
    /\ starts' =< Starts[part]

deskVars == <<rowVars, accountVars, catalogVars, serverVars, part>>
Spec == Init /\ [][Next]_deskVars
MCSymmetry == Permutations({h1, h2})
=============================================================================
