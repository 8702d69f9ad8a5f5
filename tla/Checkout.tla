------------------------------ MODULE Checkout ------------------------------
(***************************************************************************)
(* From the charge panel to a created payment: a customer tops up, or pays   *)
(* the price of a service directly; the panel offers the gateways that are   *)
(* on, one of them drawn by the automatic choice; amount and gift travel in  *)
(* the buttons, which outlive the settings they were made from.              *)
(***************************************************************************)
EXTENDS Integers, Sequences, FiniteSets

CONSTANTS
    Shops,         \* sets of gateways an installation may have set up; offline has its own
                   \* flow, in OfflineReview
    Rial,          \* gateways the automatic choice may list
    MenuAmounts,   \* charge_amount_list
    Typed,         \* amounts a customer types
    Prices,        \* what a direct payment has to cover
    DirectModes,   \* ways to pay a service directly
    Mins,          \* values of min_pay_amount
    FirstMin,      \* per method: the one it starts with
    MaxEdits       \* super users' edits, a bound

Methods == UNION Shops
Voucher == "perfect_money"
Keyed == {"zarinpal", "plisio", "tronado", "perfect_money"}   \* need a key besides being on
Card == "card_to_card"
Asked == {"nowpayments", "swapino"}    \* their servers are asked before the amounts are shown
Rated == Asked \cup {"tronado", "perfect_money"}  \* and these show a rate they call for
Whole == {"plisio"}               \* takes the whole part of a typed amount's gift
Mute == {"nowpayments", "swapino", "tronado"}   \* the menu's refusal raises instead of answering
Catching == {"plisio", "nowpayments"}     \* answer whatever error their calls end with
Percent == 50
Modes == {"topup"} \cup DirectModes
None == "none"

ASSUME CheckoutAssumption ==
    /\ Rial \cap {Voucher, Card} = {} /\ None \notin Methods
    /\ MenuAmounts \cup Typed \cup Prices \cup Mins \subseteq Nat \ {0}
    /\ DirectModes \subseteq {"purchase", "renew", "reserve"} /\ FirstMin \in [Methods -> Mins]
    /\ MaxEdits \in Nat

VARIABLES
    shop,     \* the gateways set up, a member of Shops
    cfg,      \* per method [enabled, key, min, after]; card_to_card's key is an active card,
              \* that of the ones in Asked that their server takes requests
    gate,     \* verify_before_show_card is on and the customer is not verified
    auto,     \* [enabled, random, list, saved]: the list of the cache and of the database
    screen,   \* the buttons of the bot's message, made from the settings of their time
    form,     \* the method whose amount the customer is typing, or None
    created,  \* the payment that the last step created, if it did
    answer,   \* what the last press brought: a handler that raised because its call to a
              \* server failed is "broken", one that raised by itself "none"
    was,      \* per method: every setting it has had
    chosen,   \* the methods a super user wants listed
    drawn,    \* methods the automatic choice met while they were off
    edits

checkoutVars == <<shop, cfg, gate, auto, screen, form, created, answer, was, chosen, drawn, edits>>
settings == <<cfg, gate, auto, was, chosen, drawn, edits>>

Configs == [enabled : BOOLEAN, key : BOOLEAN, min : Mins, after : {0, 3}]
Buttons == [kind : {"method", "amount"}, method : Methods, amount : Nat, free : Nat,
            mode : Modes, proxy : BOOLEAN, price : Nat]

CheckoutTypeOK ==
    /\ shop \in Shops /\ cfg \in [shop -> Configs] /\ gate \in BOOLEAN
    /\ auto.list \subseteq auto.saved /\ auto.saved \subseteq Rial
    /\ screen \subseteq Buttons
    /\ form \in Methods \cup {None}
    /\ created \subseteq Buttons /\ Cardinality(created) =< 1
    /\ \A p \in created : p.kind = "amount" /\ p.amount > 0

CheckoutInit ==
    /\ shop \in Shops
    /\ \E after \in {0, 3} :
          cfg = [m \in shop |->
                   [enabled |-> TRUE, key |-> TRUE, min |-> FirstMin[m], after |-> after]]
    /\ gate = FALSE
    /\ \E on, rand \in BOOLEAN :
          auto = [enabled |-> on, random |-> rand,
                  list |-> Rial \cap shop, saved |-> Rial \cap shop]
    /\ screen = {} /\ form = None /\ created = {} /\ answer = ""
    /\ was = [m \in shop |-> {cfg[m]}] /\ chosen = auto.saved /\ drawn = {} /\ edits = 0

-----------------------------------------------------------------------------
\* Broken variant for CheckoutFaithful: the threshold is not looked at.
Gift_AnyAmount(c, amount) == (amount * Percent) \div 100

\* The gift a button promises, in whole tomans.
Gift(c, amount) == IF c.after = 0 \/ amount < c.after THEN 0 ELSE (amount * Percent) \div 100

\* A typed amount's gift is a float, which the button's data takes only when it is whole.
Fractional(c, amount) == c.after # 0 /\ amount >= c.after /\ (amount * Percent) % 100 # 0

On(m) == cfg[m].enabled
Usable(m) == On(m) /\ (m \in Keyed \cup {Card} => cfg[m].key)
Opens(m) == Usable(m) /\ (m \in Asked => cfg[m].key)

\* The outcomes of the automatic choice.  The random one takes methods that are off out
\* of the cached list until it meets one that is on; the others take a gateway from the
\* statistics of the last days, or the one they took a while ago, listed and on or not.
Draw(pick, list) == [pick |-> pick, list |-> list]
\* Broken variant for Answered: it gives up at the first method that is off.
RandomDraws_OneTry(a) ==
    IF a.list = {} THEN {Draw(None, {})}
    ELSE {Draw(IF On(m) THEN m ELSE None, a.list) : m \in a.list}
RandomDraws(a) ==
    LET off == {m \in a.list : ~On(m)}
    IN  IF a.list = off THEN {Draw(None, {})}
        ELSE {d \in [pick : a.list \ off, list : SUBSET a.list] : a.list \ d.list \subseteq off}
Draws(a) ==
    CASE ~a.enabled -> {Draw(None, a.list)}
      [] a.enabled /\ a.random -> RandomDraws(a)
      [] OTHER -> {Draw(p, a.list) : p \in Rial \cap shop} \cup RandomDraws(a)

Drawn(a, d) == [a EXCEPT !.list = d.list]
Drew(d) ==
    /\ auto' = Drawn(auto, d)
    /\ drawn' = drawn \cup (auto.list \ d.list)
    /\ UNCHANGED <<cfg, gate, was, chosen, edits>>

\* The panel replaces the listed methods by the one drawn; without one it raises.
Offered(a, d) ==
    {m \in shop : On(m) /\ ~(a.enabled /\ m \in d.list)}
       \cup (IF a.enabled THEN {d.pick} ELSE {})
Fails(a, d) == a.enabled /\ d.pick = None

Button(kind, m, amount, free, mode, proxy, price) ==
    [kind |-> kind, method |-> m, amount |-> amount, free |-> free, mode |-> mode,
     proxy |-> proxy, price |-> price]
MethodButtons(methods) == {Button("method", m, 0, 0, "topup", FALSE, 0) : m \in methods}

Taking(methods, amount) == {m \in methods \ {Voucher} : cfg[m].min =< amount}
PayButtons(methods, amount, mode, proxy, price) ==
    {Button("amount", m, amount, Gift(cfg[m], amount), mode, proxy, price)
        : m \in Taking(methods, amount)}

\* The amounts a method offers, and the one that asks for another (amount 0).
AmountButtons(m) ==
    {Button("amount", m, a, Gift(cfg[m], a), "topup", FALSE, 0)
        : a \in {a \in MenuAmounts : a >= cfg[m].min}}
      \cup {Button("amount", m, 0, 0, "topup", FALSE, 0)}

ShowButtons(buttons) == answer' = "shown" /\ screen' = buttons
Say(what) == answer' = what /\ UNCHANGED screen
Died == Say("none")

\* What is said of a call that failed.  Most handlers catch the errors that their client names
\* and let those of the connection through; a typed amount of swapino stumbles over any, as
\* the text to be said was never set.
Failed(m, typed) ==
    IF m \in Catching THEN {"unavailable"}
    ELSE IF typed /\ m = "swapino" THEN {"broken"} ELSE {"unavailable", "broken"}

-----------------------------------------------------------------------------
\* The charge button of a message, or of the menu; a half-filled form is dropped.
Charge ==
    /\ form' = None /\ created' = {}
    /\ \E d \in Draws(auto) :
          /\ Drew(d)
          /\ \/ Fails(auto, d) /\ Died
             \/ ~Fails(auto, d) /\ ShowButtons(MethodButtons(Offered(auto, d)))

\* Pay a price directly.  When it is below the minimum of every gateway the panel is
\* built again for the smallest of them, with a draw of its own, and names no proxy.
PayForService ==
    \E price \in Prices, mode \in DirectModes, d \in Draws(auto) :
       LET a == Drawn(auto, d)
           renews == mode # "purchase"
           offered == Offered(auto, d)
           mins == {cfg[m].min : m \in offered \ {Voucher}}
       IN  /\ UNCHANGED form /\ created' = {}
           /\ \/ /\ Fails(auto, d)
                 /\ Drew(d) /\ Died
              \/ /\ ~Fails(auto, d)
                 /\ Taking(offered, price) # {} \/ mins = {}
                 /\ Drew(d)
                 /\ ShowButtons(PayButtons(offered, price, mode, renews, price))
              \/ /\ ~Fails(auto, d)
                 /\ Taking(offered, price) = {} /\ mins # {}
                 /\ \E again \in Draws(a) :
                       LET least == CHOOSE x \in mins : \A y \in mins : x =< y
                           raised == Offered(a, again)
                       IN  /\ auto' = Drawn(a, again)
                           /\ drawn' = drawn \cup (auto.list \ again.list)
                           /\ UNCHANGED <<cfg, gate, was, chosen, edits>>
                           /\ IF Fails(a, again) \/ Taking(raised, least) = {} THEN Died
                              ELSE ShowButtons(PayButtons(raised, least, mode, FALSE, price))

\* A method of the panel; a half-filled form is dropped.
Select(m) ==
    \E b \in screen :
       /\ b.kind = "method" /\ b.method = m
       /\ form' = None /\ created' = {}
       /\ UNCHANGED settings
       /\ \/ ~Opens(m) /\ Say(IF m \in Mute THEN "none" ELSE "off")
          \/ Opens(m) /\ m = Voucher /\ Say("voucher")
          \/ Opens(m) /\ m = Card /\ gate /\ ShowButtons({})
          \/ Opens(m) /\ m \in Rated /\ \E what \in Failed(m, FALSE) : Say(what)
          \/ Opens(m) /\ m # Voucher /\ ~(m = Card /\ gate) /\ ShowButtons(AmountButtons(m))

\* The button of another amount.
CustomAmount(m) ==
    \E b \in screen :
       /\ b.kind = "amount" /\ b.amount = 0 /\ b.method = m
       /\ form' = b.method /\ created' = {} /\ Say("asked")
       /\ UNCHANGED settings

\* Pay a button's amount: only whether the method is on is looked at again.  The payment
\* and its draft invoice are one transaction around the calls to the gateway, one of which may
\* fail; a card needs none.  A message that finds the card off ends in an unset variable, and an
\* unverified customer's way back from a plain top-up is a button that cannot be made.  The
\* buttons are still there for a press that was on its way.
Pay(b, typed) ==
    /\ UNCHANGED screen
    /\ \/ /\ ~Usable(b.method) /\ created' = {}
          /\ answer' = (IF typed /\ b.method = Card THEN "none" ELSE "off")
       \/ /\ Usable(b.method) /\ b.method = Card /\ gate /\ created' = {}
          /\ answer' = (IF b.mode = "topup" THEN "none" ELSE "unverified")
       \/ /\ Opens(b.method) /\ ~(b.method = Card /\ gate)
          /\ created' = {b} /\ answer' = "invoice"
       \/ /\ Usable(b.method) /\ b.method # Card
          /\ created' = {} /\ answer' \in Failed(b.method, typed)

SelectAmount(m) ==
    \E b \in screen :
       /\ b.kind = "amount" /\ b.amount > 0 /\ b.method = m
       /\ Pay(b, FALSE)
       /\ UNCHANGED <<form, settings>>

TooSmall(m, amount) == amount < cfg[m].min

\* An amount the form refuses leaves it open.
Refuse == UNCHANGED form /\ Say("again")

\* An amount was typed.
GetCustomAmount(m) ==
    /\ form = m
    /\ UNCHANGED settings
    /\ \E amount \in Typed :
          LET c == cfg[form]
              b == Button("amount", form, amount, Gift(c, amount), "topup", FALSE, 0)
          IN  \/ TooSmall(form, amount) /\ created' = {} /\ Refuse
              \/ /\ ~TooSmall(form, amount) /\ form' = None
                 /\ IF Fractional(c, amount) /\ form \notin Whole
                    THEN created' = {} /\ Died
                    ELSE Pay(b, TRUE)

\* The handlers of each gateway: its page with the amounts, and its invoice.
Menu(m) == m \in shop /\ (Select(m) \/ CustomAmount(m) \/ GetCustomAmount(m))
Invoice(m) == m \in shop /\ SelectAmount(m)

PaypingMenu == Menu("payping")
PaypingInvoice == Invoice("payping")
ZarinpalMenu == Menu("zarinpal")
ZarinpalInvoice == Invoice("zarinpal")
ZibalMenu == Menu("zibal")
ZibalInvoice == Invoice("zibal")
AqayeMenu == Menu("aqaye")
AqayeInvoice == Invoice("aqaye")
RialStep ==
    \/ PaypingMenu \/ PaypingInvoice \/ ZarinpalMenu \/ ZarinpalInvoice
    \/ ZibalMenu \/ ZibalInvoice \/ AqayeMenu \/ AqayeInvoice

PlisioMenu == Menu("plisio")
PlisioInvoice == Invoice("plisio")
NowpaymentsMenu == Menu("nowpayments")
NowpaymentsInvoice == Invoice("nowpayments")
SwapinoMenu == Menu("swapino")
SwapinoInvoice == Invoice("swapino")
CryptoStep ==
    \/ PlisioMenu \/ PlisioInvoice \/ NowpaymentsMenu \/ NowpaymentsInvoice
    \/ SwapinoMenu \/ SwapinoInvoice

TronadoMenu == Menu("tronado")
TronadoInvoice == Invoice("tronado")
VoucherMenu == Menu(Voucher)
CardMenu == Menu(Card)
CardInvoice == Invoice(Card)
OtherStep == TronadoMenu \/ TronadoInvoice \/ VoucherMenu \/ CardMenu \/ CardInvoice

-----------------------------------------------------------------------------
\* A super user's edit.
EditedWith(a) ==
    /\ edits < MaxEdits /\ edits' = edits + 1
    /\ auto' = a
    /\ answer' = ""
    /\ created' = {}
    /\ UNCHANGED <<screen, form, drawn>>

\* The settings are read again after an edit, which makes new objects.
Reloaded(a) == [a EXCEPT !.list = a.saved]

\* One field of a gateway; whether a card is active or a server up is no setting, and
\* nothing is read again.
EditMethod ==
    \E m \in shop, c \in Configs :
       /\ c.key # cfg[m].key => m \in Keyed \cup Asked \cup {Card}
       /\ Cardinality({f \in DOMAIN c : c[f] # cfg[m][f]}) = 1
       /\ cfg' = [cfg EXCEPT ![m] = c]
       /\ was' = [was EXCEPT ![m] = @ \cup {c}]
       /\ EditedWith(IF m \in Asked \cup {Card} /\ c.key # cfg[m].key THEN auto ELSE Reloaded(auto))
       /\ UNCHANGED <<gate, chosen>>

EditGate == gate' = ~gate /\ EditedWith(Reloaded(auto)) /\ UNCHANGED <<cfg, was, chosen>>

\* The automatic choice's row is written whole, from the cached list.
StoreAuto(a) == [a EXCEPT !.saved = a.list]
EditAuto ==
    /\ UNCHANGED <<cfg, gate, was>>
    /\ \/ EditedWith(StoreAuto([auto EXCEPT !.enabled = ~@])) /\ UNCHANGED chosen
       \/ EditedWith(StoreAuto([auto EXCEPT !.random = ~@])) /\ UNCHANGED chosen
       \/ \E m \in Rial \cap shop :
             IF m \in auto.list
             THEN chosen' = chosen \ {m} /\ EditedWith(StoreAuto([auto EXCEPT !.list = @ \ {m}]))
             ELSE /\ chosen' = chosen \cup {m}
                  /\ EditedWith(StoreAuto([auto EXCEPT !.list = @ \cup {m}]))

CheckoutNext ==
    /\ \/ Charge \/ PayForService
       \/ RialStep \/ CryptoStep \/ OtherStep
       \/ EditMethod \/ EditGate \/ EditAuto
    /\ UNCHANGED shop

-----------------------------------------------------------------------------
(* Properties. *)

\* A created payment is what some moment's settings of its gateway promised, although
\* amount and gift came from a button that may be older than the settings: the gift is
\* that moment's gift for the amount, and the amount reaches that moment's minimum.  A
\* typed amount is no way around either (SelectPayAmount, get_custom_amount).
PaymentPromised(p) ==
    \E c \in was[p.method] :
       /\ p.amount >= c.min
       /\ IF c.after \in 1 .. p.amount
          THEN p.free * 100 =< p.amount * Percent /\ p.amount * Percent < (p.free + 1) * 100
          ELSE p.free = 0

\* A direct payment covers the price it was opened for, exceeds it only to reach a
\* gateway's minimum, and the draft of a renewal names its subscription - except after
\* that raise, where pay_for_service drops the proxy and the activation job cannot find
\* what to renew.
DraftComplete(p) ==
    /\ p.amount >= p.price
    /\ p.amount > p.price => \E m \in shop : \E c \in was[m] : p.amount = c.min
    /\ p.mode \in {"renew", "reserve"} /\ p.amount = p.price => p.proxy

\* A gateway is missing from the stored list of the automatic choice only because a super
\* user took it out, or because a draw met it while it was off: the draw shortens the
\* cached list, and the next edit of the automatic choice stores that list.
MethodsKept == chosen \ auto.saved \subseteq drawn

\* What a created payment carries, and what the list of gateways keeps.
CheckoutFaithful ==
    /\ \A p \in created : PaymentPromised(p) /\ (p.mode # "topup" => DraftComplete(p))
    /\ MethodsKept

\* Buttons name methods that exist, and what a created payment carries was promised.
CheckoutSound == CheckoutTypeOK /\ CheckoutFaithful

\* The settings under which the handlers' own code cannot fail: the automatic choice finds
\* a stored method that is on, drawing twice meets the same minimum, no typed amount has
\* a gift that is not whole, cards are shown to everybody, and what refuses can say so.
PlainSettings ==
    /\ auto.enabled => auto.random /\ \E m \in auto.saved : On(m)
    /\ auto.enabled => \A m, k \in auto.saved : cfg[m].min = cfg[k].min
    /\ \A m \in shop \ Whole, a \in Typed : ~Fractional(cfg[m], a)
    /\ ~gate
    /\ \A m \in shop \cap (Mute \cup {Card}) : Opens(m)

\* Under such settings no press raises by itself, however old the button is: it brings the
\* panel, an invoice or a refusal (handlers/user/payment.py and select, get_custom_amount and
\* select_amount of the gateways).  Excepted are the calls to other servers that fail with an
\* error the handler does not catch, and for a typed amount of swapino with any ("broken"):
\* then, as after every exception, the customer gets the general error of
\* unhandled_error_handler alone.
Answered == PlainSettings => answer # "none"

CheckoutSpec == CheckoutInit /\ [][CheckoutNext]_checkoutVars
=============================================================================
