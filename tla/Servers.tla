------------------------------ MODULE Servers ------------------------------
(***************************************************************************)
(* The servers: rows that super users edit in conversations of the bot and    *)
(* in the panel, and the adapters (PanelRegistry) that the bot's process has  *)
(* built from them.  All calls to a server go through its adapter.            *)
(***************************************************************************)
EXTENDS RowEdits

CONSTANTS
    Servers,
    Operators,     \* super users who talk to the bot
    FirstServers,  \* the rows at the start
    Values,        \* hosts, logins and tokens somebody may type
    MaxRetry       \* names a purchase tries again with, at most

\* host stands for host, port, name and type; login for username and password.
Access == {"host", "login", "token"}
Unset == "unset"
YesNo == {"yes", "no"}
ServerRows == [host : Values, login : Values \cup {Unset}, token : Values,
               https : YesNo, enabled : BOOLEAN, total : Nat]
NoAdapter == [adapter |-> FALSE]
NoTalk == [at |-> "none", of |-> "nobody", data |-> [f \in Access |-> Unset],
           https |-> Unset, bulk |-> FALSE]

ASSUME ServersAssumption ==
    /\ Servers \subseteq Keys /\ FirstServers \in [Servers -> ServerRows \cup {Absent}]
    /\ MaxRetry \in Nat

VARIABLES
    talk,      \* per operator: the conversation; bulk is TRUE with data of a bulk change in it
    adapters,  \* the adapters of the bot's process
    sold,      \* subscriptions of each server
    \* Only for the properties.
    made,      \* subscriptions of a server ever made, by whatever handler
    refused,   \* names for them that its panel refused, being taken there
    outdated,  \* servers changed since by a handler that does not refresh the adapters
    overlap    \* two refreshes were made at once

serverGhosts == <<made, refused, outdated, overlap>>
serverVars == <<talk, adapters, sold, serverGhosts>>

\* What an adapter takes from its row.
Adapter(r) == [host |-> r.host, login |-> r.login, token |-> r.token, https |-> r.https]
Adapters(rows) ==
    [s \in Servers |-> IF rows[s] \in {Absent, Gone} THEN NoAdapter ELSE Adapter(rows[s])]

ServersTypeOK ==
    /\ \A s \in Servers : row[s] \in ServerRows \cup {Absent, Gone}
    /\ \A s \in Servers : adapters[s] = NoAdapter \/ DOMAIN adapters[s] = Access \cup {"https"}
    /\ sold \in [Servers -> Nat] /\ made \in [Servers -> Nat] /\ refused \in [Servers -> Nat]
    /\ outdated \subseteq Servers

ServersInit ==
    /\ talk = [a \in Operators |-> NoTalk]
    /\ adapters = Adapters(row)
    /\ sold = [s \in Servers |-> 0]
    /\ made = [s \in Servers |-> IF Exists(s) THEN row[s].total ELSE 0]
    /\ refused = [s \in Servers |-> 0]
    /\ outdated = {} /\ overlap = FALSE

-----------------------------------------------------------------------------
(* The adapters are built anew: the rows are read, then all of them replaced. *)

Refreshing(h) == "rows" \in DOMAIN hand[h]
ReadServers(h) ==
    /\ "refresh" \in DOMAIN hand[h]
    /\ hand' = [hand EXCEPT ![h] = [rows |-> [s \in Servers |-> row[s]]]]
    /\ adapters' = [s \in Servers |-> NoAdapter]
    /\ outdated' = {}
    /\ overlap' = (overlap \/ \E g \in Hands \ {h} : Refreshing(g))
    /\ RowsKept /\ UNCHANGED <<starts, talk, sold, made, refused>>
BuildAdapters(h) ==
    /\ Refreshing(h) /\ LetGo(h) /\ adapters' = Adapters(hand[h].rows)
    /\ RowsKept /\ UNCHANGED <<talk, sold, serverGhosts>>

\* The bot starts again: what its handlers were doing is lost, conversations are in Redis.
Restart ==
    /\ Begin /\ hand' = [h \in Hands |-> Idle] /\ adapters' = Adapters(row) /\ outdated' = {}
    /\ RowsKept /\ UNCHANGED <<talk, sold, made, refused, overlap>>

-----------------------------------------------------------------------------
(* Conversations. *)

Chat(a, c) ==
    /\ Begin /\ talk' = [talk EXCEPT ![a] = c]
    /\ RowsKept /\ UNCHANGED <<hand, adapters, sold, serverGhosts>>

\* The list, a server's page and the cancel button end a conversation.
LeaveTalk(a) == talk[a].at # "none" /\ Chat(a, NoTalk)

\* The panels of bulk changes leave their choices in any conversation; the question for a
\* value begins a new one.
BulkPanel(a) == Chat(a, [talk[a] EXCEPT !.bulk = TRUE])
EnterBulkValue(a) == Chat(a, [NoTalk EXCEPT !.at = "value", !.bulk = TRUE])

\* The new server's form; what an unfinished one left in the conversation stays there.
AddServer(a) == Chat(a, [talk[a] EXCEPT !.at = "host"])
GetServerHost(a) ==
    \E v \in Values, b \in YesNo :
        /\ talk[a].at = "host"
        /\ Chat(a, [talk[a] EXCEPT !.at = "token", !.data.host = v, !.https = b])

\* A token by itself, or a login and the token the panel gives for it.  When the panel then
\* refuses the token, the login stays in the conversation.
Typed(a, at) ==
    \E v \in Values :
        \/ Chat(a, [talk[a] EXCEPT !.at = at, !.data.token = v])
        \/ Chat(a, [talk[a] EXCEPT !.at = at, !.data.token = v, !.data.login = v])
        \/ Chat(a, [talk[a] EXCEPT !.data.login = v])
GetServerToken(a) == talk[a].at = "token" /\ Typed(a, "confirm")
ConfirmNo(a) == talk[a].at = "confirm" /\ Chat(a, [talk[a] EXCEPT !.at = "host"])

FromForm(c) == [host |-> c.data.host, login |-> c.data.login, token |-> c.data.token,
                https |-> c.https, enabled |-> TRUE, total |-> 0]

\* The conversation is ended first, so that a second yes makes nothing.  With the id of an
\* unfinished edit in it, the row cannot be made.
ConfirmYes(h, a) ==
    /\ talk[a].at = "confirm"
    /\ talk' = [talk EXCEPT ![a] = NoTalk]
    /\ IF talk[a].of # "nobody" THEN Begin /\ UNCHANGED <<row, said, hand, outdated>>
       ELSE \E s \in Servers :
               /\ row[s] = Absent
               /\ row' = [row EXCEPT ![s] = FromForm(talk[a])]
               /\ said' = [said EXCEPT ![s] = FromForm(talk[a])]
               /\ Hold(h, [refresh |-> TRUE])
               /\ UNCHANGED outdated
    /\ UNCHANGED <<raced, adapters, sold, made, refused, overlap>>

EditServer(a, s) == Exists(s) /\ Chat(a, [talk[a] EXCEPT !.at = "edit", !.of = s])
AskFor(a, q) == talk[a].at = "edit" /\ Chat(a, [talk[a] EXCEPT !.at = q])
AskHost(a) == AskFor(a, "new host")
AskToken(a) == AskFor(a, "new token")
EditServerHost(a) ==
    /\ talk[a].at = "new host" /\ Exists(talk[a].of)
    /\ \E v \in Values \ {row[talk[a].of].host} :
          Chat(a, [talk[a] EXCEPT !.at = "edit", !.data.host = v])
EditServerToken(a) == talk[a].at = "new token" /\ Exists(talk[a].of) /\ Typed(a, "edit")

\* https is turned over, but what the row says wins over an unsaved "no".
ToggleHttps(a) ==
    /\ talk[a].at = "edit" /\ Exists(talk[a].of)
    /\ Chat(a, [talk[a] EXCEPT !.https =
               IF "yes" \in {talk[a].https, row[talk[a].of].https} THEN "no" ELSE "yes"])

\* The columns that the conversation holds, whichever server's form they were typed in; an
\* update with the choices of a bulk change raises, and the button does nothing.
Given(c) == {f \in Access : c.data[f] # Unset} \cup (IF c.https = Unset THEN {} ELSE {"https"})
SaveEdit(h, a, s) ==
    LET c == talk[a]
        new == [f \in DOMAIN row[s] |-> IF f \notin Given(c) THEN row[s][f]
                                        ELSE IF f = "https" THEN c.https ELSE c.data[f]]
    IN  /\ c.at \in {"edit", "new host", "new token"} /\ c.of # "nobody" /\ Given(c) # {}
        /\ ~c.bulk
        /\ Exists(s) /\ Update(s, new, Given(c))
        /\ Hold(h, [refresh |-> TRUE]) /\ talk' = [talk EXCEPT ![a] = NoTalk]
        /\ UNCHANGED <<raced, adapters, sold, serverGhosts>>

-----------------------------------------------------------------------------
(* Buttons of a server, and the panel. *)

EnableOrDisable(h, s) ==
    /\ Exists(s) /\ Save(h, "bot", s, [row[s] EXCEPT !.enabled = ~@]) /\ UNCHANGED serverVars

\* A server deleted with its subscriptions; its adapter stays.
Drop(s) ==
    /\ Delete({s}) /\ sold' = [sold EXCEPT ![s] = 0]
    /\ outdated' = outdated \cup {s}
    /\ UNCHANGED <<raced, talk, adapters, made, refused, overlap>>
RemoveServer(s) == Exists(s) /\ Begin /\ Drop(s) /\ UNCHANGED hand

\* The panel counts the subscriptions and deletes later.
PanelDelete(h, s) ==
    /\ Exists(s) /\ sold[s] = 0 /\ Hold(h, [drop |-> s])
    /\ RowsKept /\ UNCHANGED serverVars
PanelDeletes(h) ==
    /\ "drop" \in DOMAIN hand[h] /\ LetGo(h)
    /\ IF Exists(hand[h].drop) THEN Drop(hand[h].drop) ELSE RowsKept /\ UNCHANGED serverVars

PanelAdds(s) ==
    /\ row[s] = Absent /\ Begin
    /\ \E v \in Values :
          LET new == [host |-> v, login |-> v, token |-> v, https |-> "yes",
                      enabled |-> TRUE, total |-> 0]
          IN  row' = [row EXCEPT ![s] = new] /\ said' = [said EXCEPT ![s] = new]
    /\ outdated' = outdated \cup {s}
    /\ UNCHANGED <<hand, raced, talk, adapters, sold, made, refused, overlap>>

\* New access, checked with the panel over HTTP between the read and the save, or another
\* field; and the switch, one column.
PanelUpdates(h, s) ==
    /\ Exists(s)
    /\ \/ \E v \in Values : Save(h, "panel", s, [row[s] EXCEPT !.host = v, !.token = v])
       \/ \E v \in Values : Save(h, "panel", s, [row[s] EXCEPT !.login = v, !.token = v])
       \/ \E b \in BOOLEAN : SaveFields(h, "panel", s, [row[s] EXCEPT !.enabled = b], {"enabled"})
    /\ UNCHANGED serverVars

\* A call refused with 401: a new token for the stored login, saved with the whole row; the
\* legacy clients are refreshed, the adapters are not.
RenewToken(h, s) ==
    /\ Exists(s) /\ row[s].login # Unset
    /\ \E v \in Values : v # row[s].token /\ Save(h, "errors", s, [row[s] EXCEPT !.token = v])
    /\ UNCHANGED serverVars

\* Broken variant for ServersSound: the object's count is written, not the column's.
OneMore_Fixed(r, clashes) == [r EXCEPT !.total = clashes + 1]
\* The column goes up by one, and by one for each name that was taken.
OneMore(r, clashes) == [r EXCEPT !.total = @ + clashes + 1]

\* A subscription made over the adapter.  When the panel has the name already, as often as the
\* retries allow, the count alone is raised and gives another name; with one clash more the
\* purchase is undone, its counts too.
Sell(s) ==
    /\ Exists(s) /\ row[s].enabled /\ adapters[s] # NoAdapter /\ Begin
    /\ \E clashes \in 0..MaxRetry :
          /\ row' = [row EXCEPT ![s] = OneMore(@, clashes)]
          /\ said' = [said EXCEPT ![s] = OneMore(@, clashes)]
          /\ refused' = [refused EXCEPT ![s] = @ + clashes]
    /\ sold' = [sold EXCEPT ![s] = @ + 1] /\ made' = [made EXCEPT ![s] = @ + 1]
    /\ UNCHANGED <<hand, raced, talk, adapters, outdated, overlap>>

\* The write of a handler; one that does not refresh the adapters leaves them behind.
WriteServer(h) ==
    LET e == hand[h]
    IN  /\ Write(h)
        /\ outdated' = IF Adapters(row')[e.to] # Adapters(row)[e.to]
                       THEN outdated \cup {e.to} ELSE outdated
        /\ UNCHANGED <<talk, adapters, sold, made, refused, overlap>>

ServersNext ==
    \/ Restart
    \/ \E h \in Hands : ReadServers(h) \/ BuildAdapters(h) \/ PanelDeletes(h) \/ WriteServer(h)
    \/ \E a \in Operators :
          \/ LeaveTalk(a) \/ BulkPanel(a) \/ EnterBulkValue(a) \/ AddServer(a)
          \/ GetServerHost(a) \/ GetServerToken(a) \/ ConfirmNo(a) \/ AskToken(a)
          \/ EditServerHost(a) \/ EditServerToken(a) \/ ToggleHttps(a)
          \/ \E h \in Hands : ConfirmYes(h, a)
          \/ \E s \in Servers : EditServer(a, s) \/ \E h \in Hands : SaveEdit(h, a, s)
    \/ \E s \in Servers : RemoveServer(s) \/ PanelAdds(s) \/ Sell(s)
    \/ \E h \in Hands, s \in Servers :
          EnableOrDisable(h, s) \/ PanelDelete(h, s) \/ PanelUpdates(h, s) \/ RenewToken(h, s)

\* The servers by themselves.
ServersSpec ==
    /\ EditsInit([k \in Keys |-> IF k \in Servers THEN FirstServers[k] ELSE Absent])
    /\ ServersInit
    /\ [][ServersNext]_<<rowVars, serverVars>>

-----------------------------------------------------------------------------
(* Properties. *)

\* When nobody is at work on them, the adapters of the bot are those of the rows, except of a
\* server that was changed by a handler which does not refresh them: edit_server_save and
\* get_server_confirm_yes write first and refresh then, whoever else writes meanwhile.
AdaptersFresh ==
    (~overlap /\ \A h \in Hands : "refresh" \notin DOMAIN hand[h] /\ ~Refreshing(h)) =>
       \A s \in Servers \ outdated : adapters[s] = Adapters(row)[s]

\* The count of a server, from which the names of its next subscriptions are made, counts every
\* subscription it ever had and every name that was refused as taken (signal_post_save,
\* create_user_on_server), whoever edits the row meanwhile, unless an old copy of it was
\* written back.
TotalsKept ==
    \A s \in Servers \ raced : Exists(s) => row[s].total = made[s] + refused[s]

\* The servers after any edits at the same time.
ServersSound == ServersTypeOK /\ DecisionsKept /\ AdaptersFresh /\ TotalsKept
=============================================================================
