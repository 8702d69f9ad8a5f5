------------------------------ MODULE Services ------------------------------
(***************************************************************************)
(* The services on sale, as super users edit them.  In the bot a form        *)
(* collects values in the super user's conversation until they are saved,    *)
(* and a switch is one press; the panel changes fields at once.  All of them *)
(* load a row and write it back whole, except for the network of a service,  *)
(* whose column is written by itself.                                        *)
(***************************************************************************)
EXTENDS Naturals, FiniteSets

CONSTANTS
    Ids,        \* the services
    FirstServer,\* FirstServer[s]: the server of a service, NoServer when it is not there yet
    NoServer,
    Guardino,   \* the servers of that panel, which sells whole days and has nodes
    Marzban,    \* the servers that have inbounds
    Admins,     \* super users in the bot
    Web,        \* the panel
    Budgets     \* presses and messages of each, the bounds that are tried

Unset == "unset"
Nobody == "nobody"
New == "new"    \* the service that is being added

ASSUME ServicesAssumption ==
    /\ Web \notin Admins /\ Ids \cap {Nobody, New} = {}
    /\ {NoServer, Unset} \cap (Guardino \cup Marzban) = {} /\ Guardino \cap Marzban = {}
    /\ FirstServer \in [Ids -> Guardino \cup Marzban \cup {NoServer}]
    /\ Budgets \subseteq [Admins \cup {Web} -> Nat]

Servers == Guardino \cup Marzban
Audiences == {"users", "resellers", "filter"}   \* users_only, resellers_only, user_filter
Free == {"once", "test"}                        \* one_time_only, is_test_service
Some == {"none", "some"}
\* expire stands for the fields of a form (name, price, traffic ...); nodes are in panel_config.
Values == [expire |-> {"hours", "days"}, nodes |-> Some, inbounds |-> Some, server |-> Servers]
FormFields == DOMAIN Values
Columns == FormFields \ {"nodes"}
EditStates == {"form", "net", "expire"}              \* of EditServiceForm; form is its id
AddStates == {"new name", "new server", "new net"}   \* of AddServiceForm

Rows == [expire : Values.expire, nodes : Some, inbounds : Some, server : Servers,
         audience : SUBSET Audiences, free : SUBSET Free, renewable : BOOLEAN]

VARIABLES
    service,   \* the table of services
    conv,      \* per admin: [state, id, data, apply], the conversation's data
    hand,      \* per actor: a row loaded and changed, not saved yet
    taps,      \* what is left of the presses of each
    \* Only for the properties.
    shownFor,  \* per admin and field: the service they were editing when it was entered
    unsaved,   \* per admin: services whose form holds values they have not saved
    from,      \* per service and field: the service its value was entered for
    added,     \* services made with the bot's form
    crossed,   \* services saved with another one's form open, or from its older message
    byHand,    \* services whose renewals a super user switched
    byWeb      \* services the panel changed

servicesGhosts == <<shownFor, unsaved, from, added, crossed, byHand, byWeb>>
servicesVars == <<service, conv, hand, taps, servicesGhosts>>

Actors == Admins \cup {Web}
Absent == [absent |-> TRUE]
Gone == [gone |-> TRUE]
Exists(s) == service[s] \notin {Absent, Gone}
NoData == [f \in FormFields |-> Unset]
Closed == [state |-> "none", id |-> Nobody, data |-> NoData, apply |-> {}]
Empty == [to |-> Nobody, row |-> <<>>, what |-> "nothing"]
IsGuardino(s) == service[s].server \in Guardino
Net(server) == IF server \in Guardino THEN "nodes" ELSE "inbounds"
Siblings(s) == {t \in Ids \ {s} : Exists(t) /\ service[t].server = service[s].server}

ServicesTypeOK ==
    /\ \A s \in Ids : service[s] \in Rows \cup {Absent, Gone}
    /\ \A a \in Admins :
          /\ conv[a].state \in EditStates \cup AddStates \cup {"none"}
          /\ conv[a].id \in Ids \cup {Nobody}
          /\ \A f \in FormFields : conv[a].data[f] \in Values[f] \cup {Unset}
          /\ conv[a].apply \subseteq Ids
    /\ \A x \in Actors : hand[x].to \in Ids => hand[x].row \in Rows

Plain(server) == [expire |-> "days", nodes |-> "some", inbounds |-> "some", server |-> server,
                  audience |-> {}, free |-> {}, renewable |-> TRUE]

ServicesInit ==
    /\ service = [s \in Ids |-> IF FirstServer[s] = NoServer THEN Absent ELSE Plain(FirstServer[s])]
    /\ conv = [a \in Admins |-> Closed]
    /\ hand = [x \in Actors |-> Empty] /\ taps \in Budgets
    /\ shownFor = [a \in Admins |-> [f \in FormFields |-> Nobody]]
    /\ unsaved = [a \in Admins |-> {}]
    /\ from = [s \in Ids |-> [f \in FormFields |-> Nobody]]
    /\ added = {} /\ crossed = {} /\ byHand = {} /\ byWeb = {}

-----------------------------------------------------------------------------
Tap(x) ==
    /\ hand[x] = Empty /\ taps[x] > 0
    /\ taps' = [taps EXCEPT ![x] = @ - 1]
Converse(a, c) == conv' = [conv EXCEPT ![a] = c]

\* Broken variant for ServicesFaithful: a finished form leaves its values behind.
Clear_OnlyState(c) == [c EXCEPT !.state = "none"]
Clear(c) == Closed

Enter(a, f, s) ==
    /\ shownFor' = [shownFor EXCEPT ![a][f] = s]
    /\ unsaved' = [unsaved EXCEPT ![a] = @ \cup {s}]

\* A service's page, from the list: whatever was being edited is dropped.
Show(a) ==
    /\ Tap(a) /\ conv[a].state # "none"
    /\ Converse(a, Clear(conv[a]))
    /\ unsaved' = [unsaved EXCEPT ![a] = {}]
    /\ UNCHANGED <<service, hand, shownFor, from, added, crossed, byHand, byWeb>>

\* The form of a service, from a page that may be an older message: values that are there stay.
EditService(a, s) ==
    /\ Tap(a) /\ Exists(s)
    /\ Converse(a, [conv[a] EXCEPT !.state = "form", !.id = s])
    /\ UNCHANGED <<service, hand, servicesGhosts>>

\* A field of the form; the message's service is only looked up.
Ask(a) ==
    /\ Tap(a)
    /\ Converse(a, [conv[a] EXCEPT !.state = "expire"])
    /\ UNCHANGED <<service, hand, servicesGhosts>>

\* The value typed is for the service the form was opened for.
Refused(s, v) == service[s].expire = v \/ (IsGuardino(s) /\ v = "hours")
TypeValue(a, v) ==
    LET c == conv[a]
    IN  /\ Tap(a) /\ c.state = "expire" /\ c.id # Nobody
        /\ \/ /\ ~Exists(c.id) /\ Converse(a, Clear(c))
              /\ unsaved' = [unsaved EXCEPT ![a] = {}] /\ UNCHANGED shownFor
           \/ Exists(c.id) /\ Refused(c.id, v) /\ UNCHANGED <<conv, shownFor, unsaved>>
           \/ /\ Exists(c.id) /\ ~Refused(c.id, v)
              /\ Converse(a, [c EXCEPT !.state = "form", !.data.expire = v])
              /\ Enter(a, "expire", c.id)
        /\ UNCHANGED <<service, hand, from, added, crossed, byHand, byWeb>>

\* The network of a service - its nodes or inbounds - and each change of the selection.
OpenNet(a, s) ==
    /\ Tap(a) /\ Exists(s)
    /\ LET f == Net(service[s].server)
       IN  /\ Converse(a, [conv[a] EXCEPT !.state = "net", !.data[f] = service[s][f]])
           /\ Enter(a, f, s)
    /\ UNCHANGED <<service, hand, from, added, crossed, byHand, byWeb>>

Pick(a, f, s) ==
    \E v \in Values[f] \ {conv[a].data[f]} :
       /\ Converse(a, [conv[a] EXCEPT !.data[f] = v])
       /\ Enter(a, f, s)
PickNet(a, s) ==
    /\ Tap(a) /\ conv[a].state = "net" /\ Exists(s) /\ Pick(a, Net(service[s].server), s)
    /\ UNCHANGED <<service, hand, from, added, crossed, byHand, byWeb>>

\* The services of the same server that get the network too.
Toggle(S, x) == IF x \in S THEN S \ {x} ELSE S \cup {x}
PickApply(a, s) ==
    /\ Tap(a) /\ conv[a].state \in EditStates /\ Exists(s)
    /\ \E chosen \in {Siblings(s), {}} \cup {Toggle(conv[a].apply, t) : t \in Siblings(s)} :
          /\ Converse(a, [conv[a] EXCEPT !.apply = chosen])
          /\ chosen # conv[a].apply
    /\ unsaved' = [unsaved EXCEPT ![a] = @ \cup {s}]
    /\ UNCHANGED <<service, hand, shownFor, from, added, crossed, byHand, byWeb>>

Nothing(c) == c.data = NoData /\ c.apply = {}
Given(c) == {f \in Columns : c.data[f] # Unset}
Onto(r, c) == [f \in DOMAIN r |-> IF f \in Given(c) THEN c.data[f] ELSE r[f]]

\* The fields of a form or a selection are stored, from service s's message.
Stored(a, s, to, fields) ==
    /\ from' = [t \in Ids |-> [f \in FormFields |->
                   IF t \notin to \/ f \notin fields THEN from[t][f]
                   ELSE IF conv[a].data[f] = Unset THEN Nobody ELSE shownFor[a][f]]]
    /\ crossed' = crossed \cup (IF unsaved[a] \subseteq {s} THEN {} ELSE to)
    /\ unsaved' = [unsaved EXCEPT ![a] = {}]

TakeRow(x, s, r, what) == hand' = [hand EXCEPT ![x] = [to |-> s, row |-> r, what |-> what]]

\* Save the form, into the service of the button: its row is loaded, changed and written.
\* The columns of Service are taken from the conversation, the server's too.
SaveForm(a, s) ==
    LET c == conv[a]
        inbounds == IF c.data.inbounds = "some" THEN "some" ELSE service[s].inbounds
    IN  /\ Tap(a) /\ Exists(s) /\ c.state \in EditStates /\ c.id # Nobody
        /\ IF Nothing(c) \/ (~IsGuardino(s) /\ inbounds = "none") THEN UNCHANGED hand
           ELSE TakeRow(a, s, Onto(service[s], c), "form")
        /\ UNCHANGED <<service, conv, servicesGhosts>>

\* Save the network, into the service of the button and those chosen with it.
SaveNet(a, s) ==
    LET c == conv[a]
        f == Net(service[s].server)
        to == {t \in {s} \cup c.apply : Exists(t)}
        net == IF c.data[f] = Unset THEN "none" ELSE c.data[f]
    IN  /\ Tap(a) /\ Exists(s) /\ c.state \in EditStates /\ ~Nothing(c)
        /\ IF ~IsGuardino(s) /\ net = "none"
           THEN UNCHANGED <<service, conv, unsaved, crossed, from>>
           ELSE /\ service' = [t \in Ids |->
                        IF t \in to THEN [service[t] EXCEPT ![f] = net] ELSE service[t]]
                /\ Converse(a, Clear(c))
                /\ Stored(a, s, to, {f})
        /\ UNCHANGED <<hand, shownFor, added, byHand, byWeb>>

-----------------------------------------------------------------------------
(* The form of a new service; what an unfinished form left in the conversation stays there. *)

AddService(a) ==
    /\ Tap(a) /\ Converse(a, [conv[a] EXCEPT !.state = "new name"])
    /\ UNCHANGED <<service, hand, servicesGhosts>>

\* Name, traffic, duration and price, one message each.
NewValue(a, v) ==
    /\ Tap(a) /\ conv[a].state = "new name"
    /\ Converse(a, [conv[a] EXCEPT !.state = "new server", !.data.expire = v])
    /\ Enter(a, "expire", New)
    /\ UNCHANGED <<service, hand, from, added, crossed, byHand, byWeb>>

\* The server: less than a day is asked again for Guardino, whose nodes start with none; the
\* inbounds of a Marzban server are shown with none selected, whatever the conversation holds.
ChooseServer(a, server) ==
    LET c == [conv[a] EXCEPT !.state = "new net", !.data.server = server]
        shown == [shownFor[a] EXCEPT !.server = New]
    IN  /\ Tap(a) /\ conv[a].state = "new server"
        /\ unsaved' = [unsaved EXCEPT ![a] = @ \cup {New}]
        /\ \/ /\ server \in Guardino /\ c.data.expire = "hours"
              /\ Converse(a, [c EXCEPT !.state = "new name"])
              /\ shownFor' = [shownFor EXCEPT ![a] = shown]
           \/ /\ server \in Guardino /\ c.data.expire # "hours"
              /\ Converse(a, [c EXCEPT !.data.nodes = "none"])
              /\ shownFor' = [shownFor EXCEPT ![a] = [shown EXCEPT !.nodes = New]]
           \/ /\ server \in Marzban /\ Converse(a, c)
              /\ shownFor' = [shownFor EXCEPT ![a] = shown]
        /\ UNCHANGED <<service, hand, from, added, crossed, byHand, byWeb>>

NewNet(a) ==
    /\ Tap(a) /\ conv[a].state = "new net" /\ Pick(a, Net(conv[a].data.server), New)
    /\ UNCHANGED <<service, hand, from, added, crossed, byHand, byWeb>>

\* The row of a new service from the conversation's data.
NewRow(data) == [Plain(data.server) EXCEPT
    !.expire = data.expire,
    !.nodes = IF data.server \in Guardino THEN data.nodes ELSE "none",
    !.inbounds = IF data.server \in Guardino THEN "none" ELSE data.inbounds]

SaveNew(a, s) ==
    LET c == conv[a]
    IN  /\ Tap(a) /\ c.state = "new net" /\ service[s] = Absent
        /\ c.data.server \in Marzban => c.data.inbounds = "some"
        /\ service' = [service EXCEPT ![s] = NewRow(c.data)]
        /\ Converse(a, Clear(c)) /\ Stored(a, New, {s}, FormFields)
        /\ added' = added \cup {s}
        /\ UNCHANGED <<hand, shownFor, byHand, byWeb>>

\* Deleted, with a confirmation in the bot; the panel only deletes what nobody has bought.
RemoveRow(x, s) ==
    /\ Tap(x) /\ Exists(s) /\ service' = [service EXCEPT ![s] = Gone]
    /\ UNCHANGED <<conv, hand, servicesGhosts>>
RemoveService(a, s) == RemoveRow(a, s)
DeleteService(s) == RemoveRow(Web, s)

\* Made in the panel: from nothing, where neither the days nor the audience is checked, or as
\* a copy.
Appear(s, r) ==
    /\ Tap(Web) /\ service[s] = Absent /\ service' = [service EXCEPT ![s] = r]
    /\ byWeb' = byWeb \cup {s}
    /\ UNCHANGED <<conv, hand, shownFor, unsaved, from, added, crossed, byHand>>
CreateService(s) ==
    \E e \in Values.expire, server \in Servers, set \in SUBSET {"users", "resellers"} :
       Appear(s, [Plain(server) EXCEPT !.expire = e, !.audience = set])
DuplicateService(s) == \E t \in Ids : Exists(t) /\ Appear(s, service[t])

-----------------------------------------------------------------------------
\* A switch of a service: one audience excludes the others, a free service is not renewed.
Turn(r, flag) == [r EXCEPT !.audience = IF flag \in @ THEN {} ELSE {flag}]
TurnFree(r, flag) ==
    [r EXCEPT !.free = IF flag \in @ THEN @ \ {flag} ELSE @ \cup {flag},
              !.renewable = IF flag \in r.free THEN @ ELSE FALSE]
TurnRenewable(r) == [r EXCEPT !.renewable = ~@]
\* The flow, the sale, the on-hold, reset and carry-over switches: columns of their own.
TurnOther(r) == r

Flip(a, s) ==
    /\ Tap(a) /\ Exists(s)
    /\ \/ \E flag \in Audiences : TakeRow(a, s, Turn(service[s], flag), "audience")
       \/ \E flag \in Free : TakeRow(a, s, TurnFree(service[s], flag), "free")
       \/ TakeRow(a, s, TurnRenewable(service[s]), "renewable")
       \/ TakeRow(a, s, TurnOther(service[s]), "other")
    /\ UNCHANGED <<service, conv, servicesGhosts>>

\* The panel: any fields, only their signs are looked at.
Patch(s) ==
    /\ Tap(Web) /\ Exists(s)
    /\ \/ \E e \in Values.expire : TakeRow(Web, s, [service[s] EXCEPT !.expire = e], "patch")
       \/ \E set \in SUBSET Audiences :
             TakeRow(Web, s, [service[s] EXCEPT !.audience = set], "patch")
    /\ UNCHANGED <<service, conv, servicesGhosts>>

\* The row in hand is written, every column of it, unless it was deleted meanwhile.
Write(x) ==
    LET s == hand[x].to
    IN  /\ s \in Ids
        /\ service' = IF Exists(s) THEN [service EXCEPT ![s] = hand[x].row] ELSE service
        /\ hand' = [hand EXCEPT ![x] = Empty]
        /\ IF hand[x].what = "form"
           THEN Converse(x, Clear(conv[x])) /\ Stored(x, s, {s}, Given(conv[x]))
           ELSE UNCHANGED <<conv, unsaved, crossed, from>>
        /\ byHand' = IF hand[x].what = "renewable" THEN byHand \cup {s} ELSE byHand
        /\ byWeb' = IF x = Web THEN byWeb \cup {s} ELSE byWeb
        /\ UNCHANGED <<taps, shownFor, added>>

ServicesNext ==
    \/ \E a \in Admins :
          \/ Show(a) \/ Ask(a) \/ AddService(a) \/ NewNet(a)
          \/ \E v \in Values.expire : TypeValue(a, v) \/ NewValue(a, v)
          \/ \E server \in Servers : ChooseServer(a, server)
    \/ \E a \in Admins, s \in Ids :
          \/ EditService(a, s) \/ OpenNet(a, s) \/ PickNet(a, s) \/ PickApply(a, s)
          \/ SaveForm(a, s) \/ SaveNet(a, s) \/ Flip(a, s)
          \/ SaveNew(a, s) \/ RemoveService(a, s)
    \/ \E s \in Ids : Patch(s) \/ DeleteService(s) \/ CreateService(s) \/ DuplicateService(s)
    \/ \E x \in Actors : Write(x)

-----------------------------------------------------------------------------
(* Properties. *)

\* What a form or a selection stored in a service - its server too - was entered for that
\* service, or chosen for it as well; except by someone who had another service's values
\* unsaved, which edit_service and add_service keep, or pressed an older message's save button,
\* and except what was entered for a service that such a save had moved to another server.
LandsWhereTyped ==
    \A s \in Ids \ crossed, f \in FormFields : Exists(s) =>
       \/ from[s][f] \in {s, Nobody} \cup crossed \cup (IF s \in added THEN {New} ELSE {})
       \/ f = Net(service[s].server)
             /\ from[s][f] \in Siblings(s) \cup {t \in Ids : service[t] = Gone}

\* A service has one audience at most, although three switches and whole-row saves of
\* several super users set it; only the panel can give it two (edit_service_users_only).
AudienceExclusive ==
    \A s \in Ids \ byWeb : Exists(s) => Cardinality(service[s].audience) =< 1

\* A one-time or test service is not renewable, unless a super user switched that back.
FreeNotRenewed ==
    \A s \in Ids \ (byWeb \cup byHand) : Exists(s) /\ service[s].free # {} => ~service[s].renewable

\* A service on a Guardino panel lasts whole days (get_service_expire_duration and
\* get_service_server_id refuse less), but for the panel and for values or a server that
\* were entered for another service.
WholeDays ==
    \A s \in Ids \ (byWeb \cup crossed) :
       Exists(s) /\ IsGuardino(s) => service[s].expire # "hours"

\* The table after any edits of several super users.
ServicesFaithful ==
    ServicesTypeOK /\ LandsWhereTyped /\ AudienceExclusive /\ FreeNotRenewed /\ WholeDays

ServicesSpec == ServicesInit /\ [][ServicesNext]_servicesVars
=============================================================================
