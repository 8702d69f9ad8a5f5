----------------------------- MODULE ShopProofs -----------------------------
(***************************************************************************)
(* What the checkout and the services on sale keep, for every set of       *)
(* gateways, amounts, services and super users and any number of edits: a  *)
(* created payment is what some moment's settings promised and every press *)
(* is answered under plain settings; what a form stores in a service was   *)
(* entered for it, and a service stays consistent.                         *)
(***************************************************************************)
EXTENDS Checkout, Services, FiniteSetTheorems, WellFoundedInduction, TLAPS

-----------------------------------------------------------------------------
(* Checkout *)

Autos == [enabled : BOOLEAN, random : BOOLEAN, list : SUBSET Rial, saved : SUBSET Rial]

\* The settings, with their history.
MethodsOK ==
    /\ shop \in Shops /\ gate \in BOOLEAN
    /\ cfg \in [shop -> Configs] /\ was \in [shop -> SUBSET Configs]
    /\ \A m \in shop : cfg[m] \in was[m]

\* The automatic choice's cached list misses only methods that are off, each of which a draw met.
AutoOK ==
    /\ auto \in Autos
    /\ auto.list \subseteq auto.saved /\ auto.saved \subseteq shop
    /\ \A m \in auto.saved \ auto.list : ~On(m)
    /\ chosen \ auto.list \subseteq drawn

\* A button that pays carries what was promised when it was made.
ButtonOK(b) ==
    /\ b \in Buttons /\ b.method \in shop
    /\ b.kind = "amount" /\ b.amount > 0 =>
          PaymentPromised(b) /\ (b.mode # "topup" => DraftComplete(b))
ScreenOK == \A b \in screen : ButtonOK(b)

FormOK == form \in shop \cup {None}

CreatedOK ==
    \/ created = {}
    \/ \E p \in created : created = {p} /\ ButtonOK(p) /\ p.kind = "amount" /\ p.amount > 0

CheckoutInv == MethodsOK /\ AutoOK /\ ScreenOK /\ FormOK /\ CreatedOK /\ Answered

\* A button, field by field.
LEMMA ButtonIs ==
    ASSUME NEW kind \in {"method", "amount"}, NEW m \in Methods, NEW amount \in Nat,
           NEW free \in Nat,
           NEW mode \in Modes, NEW proxy \in BOOLEAN, NEW price \in Nat,
           NEW b, b = Button(kind, m, amount, free, mode, proxy, price)
    PROVE  /\ b \in Buttons /\ b.kind = kind /\ b.method = m /\ b.amount = amount
           /\ b.free = free /\ b.mode = mode /\ b.proxy = proxy /\ b.price = price
  BY DEF Button, Buttons

\* Methods set up, and their settings.
LEMMA MethodIs ==
    ASSUME MethodsOK, NEW m \in shop
    PROVE  /\ m \in Methods /\ m # None
           /\ cfg[m].enabled \in BOOLEAN /\ cfg[m].key \in BOOLEAN
           /\ cfg[m].min \in Nat \ {0} /\ cfg[m].after \in {0, 3}
  BY CheckoutAssumption DEF MethodsOK, Configs, Methods

\* The gift for an amount that reaches the minimum is as promised.
LEMMA GiftIs ==
    ASSUME NEW c \in Configs, NEW amount \in Nat
    PROVE  /\ Gift(c, amount) \in Nat
           /\ IF c.after \in 1 .. amount
              THEN /\ Gift(c, amount) * 100 =< amount * Percent
                   /\ amount * Percent < (Gift(c, amount) + 1) * 100
              ELSE Gift(c, amount) = 0
<1> DEFINE n == amount * Percent
<1>1. n \in Nat /\ c.after \in {0, 3}
  BY DEF Percent, Configs
<1> HIDE DEF n
<1>2. /\ n \div 100 \in Nat
      /\ (n \div 100) * 100 =< n /\ n < (n \div 100 + 1) * 100
  BY <1>1
<1>3. Gift(c, amount) = IF c.after = 0 \/ amount < c.after THEN 0 ELSE n \div 100
  BY DEF Gift, n
<1>4. c.after \in 1 .. amount <=> ~(c.after = 0 \/ amount < c.after)
  BY <1>1
<1>5. QED
  BY <1>2, <1>3, <1>4 DEF n

\* A button that pays what some method takes now is as promised.
LEMMA PromisedNow ==
    ASSUME MethodsOK, NEW m \in shop, NEW amount \in Nat \ {0}, amount >= cfg[m].min,
           NEW mode \in Modes, NEW proxy \in BOOLEAN, NEW price \in Nat,
           NEW b, b = Button("amount", m, amount, Gift(cfg[m], amount), mode, proxy, price),
           mode # "topup" => DraftComplete(b)
    PROVE  ButtonOK(b)
<1>1. cfg[m] \in Configs /\ cfg[m] \in was[m] /\ m \in Methods
  BY MethodIs DEF MethodsOK
<1>2. Gift(cfg[m], amount) \in Nat
  BY <1>1, GiftIs
<1>3. /\ b \in Buttons /\ b.method = m /\ b.amount = amount /\ b.free = Gift(cfg[m], amount)
      /\ b.mode = mode
  BY <1>1, <1>2, ButtonIs
<1>4. PaymentPromised(b)
  BY <1>1, <1>3, GiftIs DEF PaymentPromised
<1>5. QED
  BY <1>3, <1>4 DEF ButtonOK

\* A button stays as good as it was while settings are only added to the history.
LEMMA ButtonStays ==
    ASSUME shop' = shop, \A m \in shop : was[m] \subseteq was'[m],
           NEW b, ButtonOK(b)
    PROVE  ButtonOK(b)'
<1>1. CASE b.kind = "amount" /\ b.amount > 0
  <2>1. b.method \in shop
    BY DEF ButtonOK
  <2>2. PaymentPromised(b)'
    BY <1>1, <2>1 DEF ButtonOK, PaymentPromised
  <2>3. DraftComplete(b) => DraftComplete(b)'
    BY DEF DraftComplete
  <2>4. QED
    BY <2>2, <2>3 DEF ButtonOK
<1>2. CASE ~(b.kind = "amount" /\ b.amount > 0)
  BY <1>2 DEF ButtonOK
<1>3. QED
  BY <1>1, <1>2

\* What a draw can be.
DrawOK(a, d) ==
    /\ d.list \subseteq a.list /\ \A m \in a.list \ d.list : ~On(m)
    /\ d.pick = None \/ d.pick \in Rial \cap shop
    /\ ~a.enabled => d.pick = None /\ d.list = a.list
    /\ a.enabled /\ a.random => IF d.pick = None THEN \A m \in a.list : ~On(m)
                                ELSE d.pick \in a.list
LEMMA DrawIs ==
    ASSUME MethodsOK, NEW a \in Autos, a.list \subseteq shop, NEW d \in Draws(a)
    PROVE  DrawOK(a, d)
<1>1. a.list \subseteq Rial /\ a.enabled \in BOOLEAN /\ a.random \in BOOLEAN
  BY DEF Autos
<1>2. ASSUME NEW e \in RandomDraws(a)
      PROVE  /\ e.list \subseteq a.list /\ \A m \in a.list \ e.list : ~On(m)
             /\ e.pick = None \/ e.pick \in Rial \cap shop
             /\ IF e.pick = None THEN \A m \in a.list : ~On(m) ELSE e.pick \in a.list
  <2> DEFINE off == {m \in a.list : ~On(m)}
             kept == [pick : a.list \ off, list : SUBSET a.list]
  <2>1. CASE a.list = off
    BY <1>2, <2>1 DEF RandomDraws, Draw
  <2>2. CASE a.list # off
    <3>1. e \in kept /\ a.list \ e.list \subseteq off
      BY <1>2, <2>2 DEF RandomDraws
    <3>2. e.pick \in shop /\ e.pick # None
      BY <3>1, MethodIs
    <3>3. QED
      BY <1>1, <3>1, <3>2
  <2>3. QED
    BY <2>1, <2>2
<1>3. CASE ~a.enabled
  BY <1>3 DEF Draws, Draw, DrawOK
<1>4. CASE a.enabled /\ a.random
  BY <1>2, <1>4 DEF Draws, DrawOK
<1>5. CASE a.enabled /\ ~a.random
  <2>1. d \in RandomDraws(a) \/ \E p \in Rial \cap shop : d = Draw(p, a.list)
    BY <1>5 DEF Draws
  <2>2. QED
    BY <1>2, <1>5, <2>1 DEF DrawOK, Draw
<1>6. QED
  BY <1>1, <1>3, <1>4, <1>5

\* The offered methods are set up.
LEMMA OfferedIs ==
    ASSUME NEW a, NEW d, d.pick = None \/ d.pick \in Rial \cap shop, ~Fails(a, d)
    PROVE  Offered(a, d) \subseteq shop
  BY DEF Offered, Fails

\* A draw shortens the cached list by methods that are off.
LEMMA Shortened ==
    ASSUME MethodsOK, AutoOK, NEW l, l \subseteq auto.list, \A m \in auto.list \ l : ~On(m),
           auto' = [auto EXCEPT !.list = l], drawn' = drawn \cup (auto.list \ l),
           UNCHANGED <<shop, cfg, chosen>>
    PROVE  /\ AutoOK'
           /\ auto'.enabled = auto.enabled /\ auto'.random = auto.random
           /\ auto'.saved = auto.saved /\ auto'.list = l
<1>1. /\ auto' \in Autos /\ auto'.enabled = auto.enabled /\ auto'.random = auto.random
      /\ auto'.saved = auto.saved /\ auto'.list = l
  BY DEF AutoOK, Autos
<1>2. \A m : On(m)' = On(m)
  BY DEF On
<1>3. QED
  BY <1>1, <1>2 DEF AutoOK

\* A press leaves the settings alone but for the cached list, and is answered when they are plain.
LEMMA Pressed ==
    ASSUME CheckoutInv, UNCHANGED <<shop, cfg, gate, was>>,
           AutoOK', auto'.enabled = auto.enabled, auto'.random = auto.random,
           auto'.saved = auto.saved, FormOK', \A b \in screen' : ButtonOK(b),
           \/ created' = {}
           \/ \E p \in created' :
                 created' = {p} /\ ButtonOK(p) /\ p.kind = "amount" /\ p.amount > 0,
           PlainSettings => answer' # "none"
    PROVE  CheckoutInv'
<1>1. MethodsOK'
  BY DEF CheckoutInv, MethodsOK
<1>2. \A b : ButtonOK(b) => ButtonOK(b)'
  BY ButtonStays
<1>3. ScreenOK' /\ CreatedOK'
  BY <1>2 DEF ScreenOK, CreatedOK
<1>4. PlainSettings' => PlainSettings
  BY DEF PlainSettings, On, Opens, Usable, Fractional
<1>5. Answered'
  BY <1>4 DEF Answered
<1>6. QED
  BY <1>1, <1>3, <1>5 DEF CheckoutInv

\* The same when the automatic choice is left alone, too.
LEMMA PressedPlainly ==
    ASSUME CheckoutInv, UNCHANGED <<shop, settings>>, FormOK', \A b \in screen' : ButtonOK(b),
           \/ created' = {}
           \/ \E p \in created' :
                 created' = {p} /\ ButtonOK(p) /\ p.kind = "amount" /\ p.amount > 0,
           PlainSettings => answer' # "none"
    PROVE  CheckoutInv'
<1>1. UNCHANGED <<shop, cfg, gate, was, auto, chosen, drawn>>
  BY DEF settings
<1>2. AutoOK'
  BY <1>1 DEF CheckoutInv, AutoOK, On
<1>3. QED
  BY <1>1, <1>2, Pressed

\* Under plain settings a draw takes a stored method that is on.
LEMMA PlainDraw ==
    ASSUME AutoOK, PlainSettings, NEW a, a.enabled = auto.enabled, a.random = auto.random,
           a.saved = auto.saved, \A m \in auto.saved \ a.list : ~On(m), a.list \subseteq auto.saved,
           NEW d, DrawOK(a, d)
    PROVE  /\ ~Fails(a, d)
           /\ a.enabled => d.pick \in auto.saved
           /\ \A m \in auto.saved \ d.list : ~On(m)
           /\ ~a.enabled => d.pick = None
<1>1. a.enabled => a.random /\ \E m \in auto.saved : On(m)
  BY DEF PlainSettings
<1>2. a.enabled => \E m \in a.list : On(m)
  BY <1>1
<1>3. a.enabled => d.pick # None /\ d.pick \in a.list
  BY <1>1, <1>2 DEF DrawOK
<1>4. QED
  BY <1>3 DEF DrawOK, Fails

LEMMA ChargeOK ==
    ASSUME CheckoutInv, Charge, UNCHANGED shop
    PROVE  CheckoutInv'
<1>1. PICK d \in Draws(auto) :
         /\ Drew(d)
         /\ \/ Fails(auto, d) /\ Died
            \/ ~Fails(auto, d) /\ ShowButtons(MethodButtons(Offered(auto, d)))
  BY DEF Charge
<1>2. MethodsOK /\ AutoOK /\ auto \in Autos /\ auto.list \subseteq shop
  BY DEF CheckoutInv, AutoOK
<1>3. DrawOK(auto, d)
  BY <1>2, DrawIs
<1>4. UNCHANGED <<shop, cfg, gate, was, chosen>>
  BY <1>1 DEF Drew
<1>5. /\ AutoOK'
      /\ auto'.enabled = auto.enabled /\ auto'.random = auto.random /\ auto'.saved = auto.saved
  BY <1>1, <1>2, <1>3, <1>4, Shortened DEF Drew, Drawn, DrawOK
<1>6. \A b \in screen' : ButtonOK(b)
  <2>1. CASE screen' = screen
    BY <2>1 DEF CheckoutInv, ScreenOK
  <2>2. CASE ~Fails(auto, d) /\ screen' = MethodButtons(Offered(auto, d))
    <3>1. ASSUME NEW m \in shop, NEW b, b = Button("method", m, 0, 0, "topup", FALSE, 0)
          PROVE  ButtonOK(b)
      <4>1. m \in Methods /\ "topup" \in Modes
        BY <1>2, MethodIs DEF Modes
      <4>2. b \in Buttons /\ b.method = m /\ b.amount = 0
        BY <3>1, <4>1 DEF Button, Buttons
      <4>3. QED
        BY <4>2 DEF ButtonOK
    <3>2. Offered(auto, d) \subseteq shop
      BY <1>3, <2>2, OfferedIs DEF DrawOK
    <3>3. QED
      BY <2>2, <3>1, <3>2 DEF MethodButtons
  <2>3. QED
    BY <1>1, <2>1, <2>2 DEF Died, Say, ShowButtons
<1>7. PlainSettings => answer' # "none"
  <2>1. PlainSettings => ~Fails(auto, d)
    BY <1>2, <1>3, PlainDraw DEF AutoOK
  <2>2. QED
    BY <1>1, <2>1 DEF ShowButtons
<1>8. FormOK' /\ created' = {}
  BY DEF Charge, FormOK
<1>9. QED
  BY <1>4, <1>5, <1>6, <1>7, <1>8, Pressed

\* The buttons that pay a price directly.
LEMMA PayButtonsOK ==
    ASSUME MethodsOK, NEW offered \in SUBSET shop, NEW amount \in Nat \ {0},
           NEW mode \in DirectModes,
           NEW proxy \in BOOLEAN, NEW price \in Nat, amount >= price,
           amount > price => \E m \in shop : \E c \in was[m] : amount = c.min,
           mode \in {"renew", "reserve"} /\ amount = price => proxy,
           NEW b \in PayButtons(offered, amount, mode, proxy, price)
    PROVE  ButtonOK(b)
<1>1. PICK m \in Taking(offered, amount) :
         b = Button("amount", m, amount, Gift(cfg[m], amount), mode, proxy, price)
  BY DEF PayButtons
<1>2. m \in shop /\ m \in Methods /\ cfg[m].min =< amount /\ cfg[m] \in Configs
  BY <1>1, MethodIs DEF Taking, MethodsOK
<1>3. Gift(cfg[m], amount) \in Nat
  BY <1>2, GiftIs
<1>4. mode \in Modes
  BY DEF Modes
<1>5. b.amount = amount /\ b.mode = mode /\ b.proxy = proxy /\ b.price = price
  BY <1>1, <1>2, <1>3, <1>4, ButtonIs
<1>6. DraftComplete(b)
  BY <1>5 DEF DraftComplete
<1>7. amount >= cfg[m].min
  BY <1>2, MethodIs
<1>8. QED
  BY <1>1, <1>2, <1>4, <1>6, <1>7, PromisedNow

\* The amounts a method offers.
LEMMA AmountButtonsOK ==
    ASSUME MethodsOK, NEW m \in shop, NEW b \in AmountButtons(m)
    PROVE  ButtonOK(b)
<1>1. m \in Methods /\ "topup" \in Modes
  BY MethodIs DEF Modes
<1>2. CASE \E a \in MenuAmounts :
             a >= cfg[m].min /\ b = Button("amount", m, a, Gift(cfg[m], a), "topup", FALSE, 0)
  <2>1. PICK a \in MenuAmounts :
             a >= cfg[m].min /\ b = Button("amount", m, a, Gift(cfg[m], a), "topup", FALSE, 0)
    BY <1>2
  <2>2. a \in Nat \ {0}
    BY CheckoutAssumption
  <2>3. FALSE \in BOOLEAN /\ 0 \in Nat
    OBVIOUS
  <2>4. ASSUME NEW proxy \in BOOLEAN, b = Button("amount", m, a, Gift(cfg[m], a), "topup", proxy, 0)
        PROVE  ButtonOK(b)
    BY <1>1, <2>1, <2>2, <2>4, PromisedNow
  <2>5. QED
    BY <2>1, <2>3, <2>4
<1>3. CASE b = Button("amount", m, 0, 0, "topup", FALSE, 0)
  <2>1. b \in Buttons /\ b.method = m /\ b.amount = 0
    BY <1>1, <1>3 DEF Button, Buttons
  <2>2. QED
    BY <2>1 DEF ButtonOK
<1>4. QED
  BY <1>2, <1>3 DEF AmountButtons

\* A set of numbers has a least one.
LEMMA LeastOf ==
    ASSUME NEW S \in SUBSET Nat, S # {}
    PROVE  LET least == CHOOSE x \in S : \A y \in S : x =< y
           IN  least \in S /\ \A y \in S : least =< y
<1>1. PICK x \in S : \A y \in S : ~(<<y, x>> \in OpToRel(<, Nat))
  BY NatLessThanWellFounded, WFMin
<1>2. ASSUME NEW y \in S PROVE x =< y
  <2>1. <<y, x>> \in Nat \X Nat
    OBVIOUS
  <2>2. ~(<<y, x>>[1] < <<y, x>>[2])
    BY <1>1, <2>1, Zenon DEF OpToRel
  <2>3. QED
    BY <2>1, <2>2
<1>3. QED
  BY <1>2

LEMMA PayForServiceOK ==
    ASSUME CheckoutInv, PayForService, UNCHANGED shop
    PROVE  CheckoutInv'
<1>1. PICK price \in Prices, mode \in DirectModes, d \in Draws(auto) :
       LET a == Drawn(auto, d)
           renews == mode # "purchase"
           offered == Offered(auto, d)
           mins == {cfg[m].min : m \in offered \ {Voucher}}
       IN  /\ UNCHANGED form /\ created' = {}
           /\ \/ /\ Fails(auto, d)
                 /\ Drew(d) /\ Died
              \/ /\ ~Fails(auto, d)
                 /\ Taking(offered, price) # {} \/ mins = {}
                 /\ Drew(d)
                 /\ ShowButtons(PayButtons(offered, price, mode, renews, price))
              \/ /\ ~Fails(auto, d)
                 /\ Taking(offered, price) = {} /\ mins # {}
                 /\ \E again \in Draws(a) :
                       LET least == CHOOSE x \in mins : \A y \in mins : x =< y
                           raised == Offered(a, again)
                       IN  /\ auto' = Drawn(a, again)
                           /\ drawn' = drawn \cup (auto.list \ again.list)
                           /\ UNCHANGED <<cfg, gate, was, chosen, edits>>
                           /\ IF Fails(a, again) \/ Taking(raised, least) = {} THEN Died
                              ELSE ShowButtons(PayButtons(raised, least, mode, FALSE, price))
  BY DEF PayForService
<1> DEFINE a == Drawn(auto, d)
           renews == mode # "purchase"
           offered == Offered(auto, d)
           mins == {cfg[m].min : m \in offered \ {Voucher}}
           least == CHOOSE x \in mins : \A y \in mins : x =< y
<1>2. MethodsOK /\ AutoOK /\ auto \in Autos /\ auto.list \subseteq shop
  BY DEF CheckoutInv, AutoOK
<1>3. DrawOK(auto, d)
  BY <1>2, DrawIs
<1>4. FormOK' /\ created' = {}
  BY <1>1 DEF CheckoutInv, FormOK
<1>5. price \in Nat \ {0} /\ renews \in BOOLEAN
  BY CheckoutAssumption
<1>6. \A b \in screen : ButtonOK(b)
  BY DEF CheckoutInv, ScreenOK
<1>7. PlainSettings => ~Fails(auto, d)
  BY <1>2, <1>3, PlainDraw DEF AutoOK
<1>8. ~Fails(auto, d) => offered \subseteq shop
  BY <1>3, OfferedIs DEF DrawOK
<1>9. \/ Fails(auto, d) /\ Drew(d) /\ Died
      \/ ~Fails(auto, d) /\ Drew(d) /\ ShowButtons(PayButtons(offered, price, mode, renews, price))
      \/ /\ ~Fails(auto, d) /\ Taking(offered, price) = {} /\ mins # {}
         /\ \E again \in Draws(a) :
               /\ auto' = Drawn(a, again)
               /\ drawn' = drawn \cup (auto.list \ again.list)
               /\ UNCHANGED <<cfg, gate, was, chosen, edits>>
               /\ IF Fails(a, again) \/ Taking(Offered(a, again), least) = {} THEN Died
                  ELSE ShowButtons(PayButtons(Offered(a, again), least, mode, FALSE, price))
  BY <1>1, Zenon
<1> HIDE DEF renews
<1>10. ASSUME Drew(d)
       PROVE  /\ AutoOK' /\ UNCHANGED <<shop, cfg, gate, was>>
              /\ auto'.enabled = auto.enabled /\ auto'.random = auto.random
              /\ auto'.saved = auto.saved
  BY <1>2, <1>3, <1>10, Shortened DEF Drew, Drawn, DrawOK
<1>11. CASE Fails(auto, d) /\ Drew(d) /\ Died
  BY <1>4, <1>6, <1>7, <1>10, <1>11, Pressed DEF Died, Say
<1>12. CASE ~Fails(auto, d) /\ Drew(d)
              /\ ShowButtons(PayButtons(offered, price, mode, renews, price))
  <2>1. mode \in {"renew", "reserve"} => renews
    BY DEF renews
  <2>2. \A b \in PayButtons(offered, price, mode, renews, price) : ButtonOK(b)
    <3>1. price \in Nat \ {0} /\ price \in Nat /\ price >= price /\ ~(price > price)
      BY <1>5
    <3>2. offered \in SUBSET shop
      BY <1>8, <1>12
    <3>3. QED
      BY <1>2, <1>5, <2>1, <3>1, <3>2, PayButtonsOK
  <2>3. QED
    BY <1>4, <1>10, <1>12, <2>2, Pressed DEF ShowButtons
<1>13. ASSUME ~Fails(auto, d), Taking(offered, price) = {}, mins # {}, NEW again \in Draws(a),
              auto' = Drawn(a, again), drawn' = drawn \cup (auto.list \ again.list),
              UNCHANGED <<cfg, gate, was, chosen, edits>>,
              IF Fails(a, again) \/ Taking(Offered(a, again), least) = {} THEN Died
              ELSE ShowButtons(PayButtons(Offered(a, again), least, mode, FALSE, price))
       PROVE  CheckoutInv'
  <2>1. /\ a \in Autos /\ a.list = d.list /\ a.enabled = auto.enabled
        /\ a.random = auto.random /\ a.saved = auto.saved
    BY <1>2, <1>3 DEF Drawn, Autos, DrawOK
  <2>2. auto' = [auto EXCEPT !.list = again.list]
    BY <1>2, <1>13 DEF Drawn, Autos
  <2> HIDE DEF a
  <2>3. DrawOK(a, again)
    BY <1>2, <1>3, <2>1, DrawIs DEF DrawOK
  <2>4. again.list \subseteq auto.list /\ \A m \in auto.list \ again.list : ~On(m)
    BY <1>3, <2>1, <2>3 DEF DrawOK
  <2>5. /\ AutoOK'
        /\ auto'.enabled = auto.enabled /\ auto'.random = auto.random
        /\ auto'.saved = auto.saved
    BY <1>2, <1>13, <2>2, <2>4, Shortened
  <2>6. \A m \in offered \ {Voucher} : m \in shop /\ cfg[m].min \in Nat \ {0}
    BY <1>2, <1>8, <1>13, MethodIs
  <2>7. mins \in SUBSET Nat
    BY <2>6
  <2>8. least \in mins
    BY <1>13, <2>7, LeastOf
  <2>9. PICK first \in offered \ {Voucher} : least = cfg[first].min
    BY <2>8
  <2> HIDE DEF least, mins
  <2>10. least \in Nat \ {0} /\ first \in shop /\ cfg[first] \in was[first]
    BY <1>2, <2>6, <2>9 DEF MethodsOK
  <2>11. least > price
    BY <1>5, <1>13, <2>9, <2>10 DEF Taking
  <2>12. ASSUME ~Fails(a, again), NEW b \in PayButtons(Offered(a, again), least, mode, FALSE, price)
         PROVE  ButtonOK(b)
    <3>1. Offered(a, again) \subseteq shop
      BY <2>3, <2>12, OfferedIs DEF DrawOK
    <3>2. \E m \in shop : \E c \in was[m] : least = c.min
      BY <2>9, <2>10
    <3>3. price \in Nat /\ least >= price /\ least # price /\ FALSE \in BOOLEAN
      BY <1>5, <2>10, <2>11
    <3>4. QED
      BY <1>2, <2>10, <2>12, <3>1, <3>2, <3>3, PayButtonsOK
  <2>13. ASSUME PlainSettings PROVE ~Fails(a, again) /\ Taking(Offered(a, again), least) # {}
    <3>1. /\ ~Fails(a, again) /\ (~a.enabled => again.pick = None)
          /\ a.enabled => again.pick \in auto.saved
      <4>1. \A m \in auto.saved \ a.list : ~On(m)
        BY <1>2, <1>3, <2>1 DEF AutoOK, DrawOK
      <4>2. a.list \subseteq auto.saved
        BY <1>2, <1>3, <2>1 DEF AutoOK, DrawOK
      <4>3. QED
        BY <1>2, <2>1, <2>3, <2>13, <4>1, <4>2, PlainDraw
    <3>2. auto.enabled => d.pick \in auto.saved
      BY <1>2, <1>3, <2>13, PlainDraw DEF AutoOK
    <3>3. CASE first \in Offered(a, again)
      BY <2>9, <2>10, <3>1, <3>3 DEF Taking
    <3>4. CASE first \notin Offered(a, again)
      <4>1. a.enabled /\ first = d.pick
        BY <2>1, <2>3, <2>9, <3>4, <1>3 DEF offered, Offered, DrawOK
      <4>2. again.pick \in auto.saved /\ first \in auto.saved
        BY <2>1, <3>1, <3>2, <4>1
      <4>3. cfg[again.pick].min = least
        BY <2>1, <2>9, <2>13, <4>1, <4>2 DEF PlainSettings
      <4>4. again.pick # Voucher /\ again.pick \in Offered(a, again)
        BY <1>2, <4>1, <4>2, CheckoutAssumption DEF Offered, Autos
      <4>5. QED
        BY <2>10, <3>1, <4>3, <4>4 DEF Taking
    <3>5. QED
      BY <3>1, <3>3, <3>4
  <2>14. \A b \in screen' : ButtonOK(b)
    BY <1>6, <1>13, <2>12 DEF Died, Say, ShowButtons
  <2>15. PlainSettings => answer' # "none"
    BY <1>13, <2>13 DEF ShowButtons
  <2>16. QED
    BY <1>4, <1>13, <2>5, <2>14, <2>15, Pressed
<1>14. QED
  BY <1>9, <1>11, <1>12, <1>13

\* A method's page.
LEMMA SelectOK ==
    ASSUME CheckoutInv, NEW m \in shop, Select(m), UNCHANGED shop
    PROVE  CheckoutInv'
<1>1. /\ form' = None /\ created' = {} /\ UNCHANGED settings
      /\ \/ ~Opens(m) /\ Say(IF m \in Mute THEN "none" ELSE "off")
         \/ Say("voucher") \/ Say("unavailable") \/ Say("broken") \/ ShowButtons({})
         \/ ShowButtons(AmountButtons(m))
  BY DEF Select, Failed
<1>2. MethodsOK /\ \A b \in screen : ButtonOK(b)
  BY DEF CheckoutInv, ScreenOK
<1>3. FormOK'
  BY <1>1 DEF FormOK
<1>4. CASE ~Opens(m) /\ Say(IF m \in Mute THEN "none" ELSE "off")
  <2>1. PlainSettings => m \notin Mute
    BY <1>4 DEF PlainSettings
  <2>2. PlainSettings => answer' # "none"
    BY <1>4, <2>1 DEF Say
  <2>3. QED
    BY <1>1, <1>2, <1>3, <1>4, <2>2, PressedPlainly DEF Say
<1>5. CASE Say("voucher") \/ Say("unavailable") \/ Say("broken")
  BY <1>1, <1>2, <1>3, <1>5, PressedPlainly DEF Say
<1>6. CASE ShowButtons({})
  BY <1>1, <1>2, <1>3, <1>6, PressedPlainly DEF ShowButtons
<1>7. CASE ShowButtons(AmountButtons(m))
  <2>1. \A b \in AmountButtons(m) : ButtonOK(b)
    BY <1>2, AmountButtonsOK
  <2>2. QED
    BY <1>1, <1>2, <1>3, <1>7, <2>1, PressedPlainly DEF ShowButtons
<1>8. QED
  BY <1>1, <1>4, <1>5, <1>6, <1>7

\* A button that pays, or a typed amount.
LEMMA PayOK ==
    ASSUME CheckoutInv, NEW b, ButtonOK(b), b.kind = "amount", b.amount > 0,
           NEW typed \in BOOLEAN, Pay(b, typed), FormOK', UNCHANGED <<shop, settings>>
    PROVE  CheckoutInv'
<1>1. \A c \in screen' : ButtonOK(c)
  BY DEF Pay, CheckoutInv, ScreenOK
<1>2. created' = {} \/ created' = {b}
  BY DEF Pay
<1>3. ASSUME PlainSettings PROVE answer' # "none"
  <2>1. b.method \in shop
    BY DEF ButtonOK
  <2>2. ~gate /\ (b.method \in Mute \cup {Card} => Opens(b.method))
    BY <1>3, <2>1 DEF PlainSettings
  <2>3. b.method \in Mute \cup {Card} => Usable(b.method)
    BY <2>2 DEF Opens
  <2>4. \A what \in Failed(b.method, typed) : what # "none"
    BY DEF Failed
  <2>5. b.method = Card => Usable(b.method)
    BY <2>3
  <2>6. QED
    BY <2>2, <2>4, <2>5 DEF Pay
<1>4. QED
  BY <1>1, <1>2, <1>3, PressedPlainly

LEMMA SelectAmountOK ==
    ASSUME CheckoutInv, NEW m \in shop, SelectAmount(m), UNCHANGED shop
    PROVE  CheckoutInv'
<1>1. PICK b \in screen : /\ b.kind = "amount" /\ b.amount > 0 /\ b.method = m
                          /\ Pay(b, FALSE) /\ UNCHANGED <<form, settings>>
  BY DEF SelectAmount
<1>2. ButtonOK(b) /\ FormOK'
  BY <1>1 DEF CheckoutInv, ScreenOK, FormOK
<1>3. FALSE \in BOOLEAN
  OBVIOUS
<1>4. QED
  BY <1>1, <1>2, <1>3, PayOK

LEMMA CustomAmountOK ==
    ASSUME CheckoutInv, NEW m \in shop, CustomAmount(m), UNCHANGED shop
    PROVE  CheckoutInv'
<1>1. /\ form' = m /\ created' = {} /\ UNCHANGED <<screen, settings>> /\ answer' = "asked"
  BY DEF CustomAmount, Say
<1>2. FormOK' /\ \A b \in screen' : ButtonOK(b)
  BY <1>1 DEF FormOK, CheckoutInv, ScreenOK
<1>3. QED
  BY <1>1, <1>2, PressedPlainly

LEMMA GetCustomAmountOK ==
    ASSUME CheckoutInv, NEW m \in shop, GetCustomAmount(m), UNCHANGED shop
    PROVE  CheckoutInv'
<1>1. form = m /\ UNCHANGED settings
  BY DEF GetCustomAmount
<1>2. PICK amount \in Typed :
          LET c == cfg[m]
              b == Button("amount", m, amount, Gift(c, amount), "topup", FALSE, 0)
          IN  \/ TooSmall(m, amount) /\ created' = {} /\ Refuse
              \/ /\ ~TooSmall(m, amount) /\ form' = None
                 /\ IF Fractional(c, amount) /\ m \notin Whole
                    THEN created' = {} /\ Died
                    ELSE Pay(b, TRUE)
  BY <1>1 DEF GetCustomAmount
<1> DEFINE b == Button("amount", m, amount, Gift(cfg[m], amount), "topup", FALSE, 0)
<1>3. MethodsOK /\ \A k \in screen : ButtonOK(k)
  BY DEF CheckoutInv, ScreenOK
<1>4. CASE TooSmall(m, amount) /\ created' = {} /\ Refuse
  <2>1. FormOK' /\ UNCHANGED screen /\ answer' = "again"
    BY <1>4 DEF Refuse, Say, FormOK, CheckoutInv
  <2>2. QED
    BY <1>1, <1>3, <1>4, <2>1, PressedPlainly
<1>5. ASSUME ~TooSmall(m, amount), form' = None PROVE FormOK'
  BY <1>5 DEF FormOK
<1>6. CASE ~TooSmall(m, amount) /\ form' = None /\ Pay(b, TRUE)
  <2>1. amount \in Nat \ {0} /\ m \in Methods /\ "topup" \in Modes
    BY <1>3, MethodIs, CheckoutAssumption DEF Modes
  <2>2. amount >= cfg[m].min
    BY <1>3, <1>6, <2>1, MethodIs DEF TooSmall
  <2>3. FALSE \in BOOLEAN /\ TRUE \in BOOLEAN
    OBVIOUS
  <2>4. ButtonOK(b)
    BY <1>3, <2>1, <2>2, <2>3, PromisedNow
  <2>5. b.kind = "amount" /\ b.amount = amount
    BY DEF Button
  <2>6. Pay(b, TRUE) /\ amount > 0 /\ FormOK' /\ UNCHANGED <<shop, settings>>
    <3>1. Pay(b, TRUE)
      BY <1>6, Zenon
    <3>2. amount > 0
      BY <2>1
    <3>3. FormOK' /\ UNCHANGED <<shop, settings>>
      BY <1>1, <1>5, <1>6
    <3>4. QED
      BY <3>1, <3>2, <3>3
  <2> HIDE DEF b
  <2>7. QED
    BY <2>3, <2>4, <2>5, <2>6, PayOK
<1>7. CASE /\ ~TooSmall(m, amount) /\ form' = None /\ created' = {} /\ Died
           /\ Fractional(cfg[m], amount) /\ m \notin Whole
  <2>1. ~PlainSettings
    BY <1>7 DEF PlainSettings
  <2>2. UNCHANGED screen
    BY <1>7 DEF Died, Say
  <2>3. QED
    BY <1>1, <1>3, <1>5, <1>7, <2>1, <2>2, PressedPlainly
<1>8. QED
  BY <1>2, <1>4, <1>6, <1>7

\* A method, whichever handler it is.
LEMMA HandlerOK ==
    ASSUME CheckoutInv, NEW m, Menu(m) \/ Invoice(m), UNCHANGED shop
    PROVE  CheckoutInv'
  BY SelectOK, CustomAmountOK, GetCustomAmountOK, SelectAmountOK DEF Menu, Invoice

\* A super user's edit creates nothing and leaves the buttons, whose promises the history
\* keeps, and the form.
LEMMA EditedOK ==
    ASSUME CheckoutInv, NEW a, EditedWith(a), shop' = shop, MethodsOK', AutoOK',
           \A m \in shop : was[m] \subseteq was'[m]
    PROVE  CheckoutInv'
<1>1. created' = {} /\ answer' = "" /\ UNCHANGED <<screen, form>>
  BY DEF EditedWith
<1>2. ScreenOK'
  BY <1>1, ButtonStays DEF CheckoutInv, ScreenOK
<1>3. FormOK' /\ CreatedOK' /\ Answered'
  BY <1>1 DEF CheckoutInv, FormOK, CreatedOK, Answered
<1>4. QED
  BY <1>2, <1>3 DEF CheckoutInv

\* After the settings are read again the cached list is the stored one.
LEMMA ReloadedOK ==
    ASSUME AutoOK, auto' = Reloaded(auto), UNCHANGED <<shop, chosen, drawn>>
    PROVE  AutoOK'
<1>1. /\ auto' \in Autos /\ auto'.list = auto.saved /\ auto'.saved = auto.saved
  BY DEF AutoOK, Autos, Reloaded
<1>2. QED
  BY <1>1 DEF AutoOK

LEMMA EditMethodOK ==
    ASSUME CheckoutInv, EditMethod, UNCHANGED shop
    PROVE  CheckoutInv'
<1>1. PICK m \in shop, c \in Configs :
       /\ c.key # cfg[m].key => m \in Keyed \cup Asked \cup {Card}
       /\ Cardinality({f \in DOMAIN c : c[f] # cfg[m][f]}) = 1
       /\ cfg' = [cfg EXCEPT ![m] = c]
       /\ was' = [was EXCEPT ![m] = @ \cup {c}]
       /\ EditedWith(IF m \in Asked \cup {Card} /\ c.key # cfg[m].key THEN auto ELSE Reloaded(auto))
       /\ UNCHANGED <<gate, chosen>>
  BY DEF EditMethod
<1>2. MethodsOK /\ AutoOK /\ drawn' = drawn
  BY <1>1 DEF CheckoutInv, EditedWith
<1>3. /\ cfg' = [k \in shop |-> IF k = m THEN c ELSE cfg[k]]
      /\ was' = [k \in shop |-> IF k = m THEN was[m] \cup {c} ELSE was[k]]
  BY <1>1, <1>2 DEF MethodsOK
<1>4. MethodsOK'
  BY <1>1, <1>2, <1>3 DEF MethodsOK
<1>5. \A k \in shop : was[k] \subseteq was'[k]
  BY <1>3
<1>6. AutoOK'
  <2>1. CASE m \in Asked \cup {Card} /\ c.key # cfg[m].key
    <3>1. auto' = auto
      BY <1>1, <2>1 DEF EditedWith
    <3>2. c.enabled = cfg[m].enabled
      <4> DEFINE changed == {f \in DOMAIN c : c[f] # cfg[m][f]}
      <4>1. DOMAIN c = {"enabled", "key", "min", "after"}
        BY DEF Configs
      <4>2. changed \subseteq {"enabled", "key", "min", "after"} /\ "key" \in changed
        BY <2>1, <4>1
      <4>3. IsFiniteSet(changed)
        <5>1. IsFiniteSet({"enabled", "key", "min", "after"})
          <6>1. IsFiniteSet({} \cup {"enabled"})
            BY FS_EmptySet, FS_AddElement
          <6>2. IsFiniteSet(({} \cup {"enabled"}) \cup {"key"})
            BY <6>1, FS_AddElement
          <6>3. IsFiniteSet((({} \cup {"enabled"}) \cup {"key"}) \cup {"min"})
            BY <6>2, FS_AddElement
          <6>4. IsFiniteSet(((({} \cup {"enabled"}) \cup {"key"}) \cup {"min"}) \cup {"after"})
            BY <6>3, FS_AddElement
          <6>5. {"enabled", "key", "min", "after"}
                  = ((({} \cup {"enabled"}) \cup {"key"}) \cup {"min"}) \cup {"after"}
            OBVIOUS
          <6>6. QED
            BY <6>4, <6>5
        <5>2. QED
          BY <4>2, <5>1, FS_Subset
      <4>4. Cardinality(changed) = 1
        BY <1>1
      <4> HIDE DEF changed
      <4>5. PICK x : changed = {x}
        BY <4>3, <4>4, FS_Singleton
      <4>6. "enabled" \notin changed
        BY <4>2, <4>5
      <4>7. QED
        BY <4>1, <4>6 DEF changed
    <3>3. \A k \in shop : On(k)' = On(k)
      BY <1>2, <1>3, <3>2 DEF On, MethodsOK
    <3>4. QED
      BY <1>1, <1>2, <3>1, <3>3 DEF AutoOK
  <2>2. CASE ~(m \in Asked \cup {Card} /\ c.key # cfg[m].key)
    <3>1. auto' = Reloaded(auto)
      BY <1>1, <2>2 DEF EditedWith
    <3>2. QED
      BY <1>1, <1>2, <3>1, ReloadedOK
  <2>3. QED
    BY <2>1, <2>2
<1>7. QED
  BY <1>1, <1>4, <1>5, <1>6, EditedOK

LEMMA EditGateOK ==
    ASSUME CheckoutInv, EditGate, UNCHANGED shop
    PROVE  CheckoutInv'
<1>1. /\ gate' = ~gate /\ auto' = Reloaded(auto) /\ EditedWith(Reloaded(auto))
      /\ UNCHANGED <<shop, cfg, was, chosen, drawn>>
  BY DEF EditGate, EditedWith
<1>2. MethodsOK /\ AutoOK
  BY DEF CheckoutInv
<1>3. gate' \in BOOLEAN
  BY <1>1, <1>2, Zenon DEF MethodsOK
<1>4. MethodsOK'
  BY <1>1, <1>2, <1>3 DEF MethodsOK
<1>5. AutoOK'
  BY <1>1, <1>2, ReloadedOK
<1>6. QED
  BY <1>1, <1>4, <1>5, EditedOK

\* The row is written whole, from the cached list.
LEMMA StoredOK ==
    ASSUME CheckoutInv, NEW a, a \in Autos, EditedWith(StoreAuto(a)), a.list \subseteq shop,
           UNCHANGED <<shop, cfg, gate, was>>, chosen' \ a.list \subseteq drawn
    PROVE  CheckoutInv'
<1>1. /\ auto' = StoreAuto(a) /\ drawn' = drawn
  BY DEF EditedWith
<1>2. /\ auto' \in Autos /\ auto'.list = a.list /\ auto'.saved = a.list
  BY <1>1 DEF StoreAuto, Autos
<1>3. AutoOK'
  BY <1>1, <1>2 DEF AutoOK
<1>4. MethodsOK' /\ \A m \in shop : was[m] \subseteq was'[m]
  BY DEF CheckoutInv, MethodsOK
<1>5. QED
  BY <1>3, <1>4, EditedOK

LEMMA EditAutoOK ==
    ASSUME CheckoutInv, EditAuto, UNCHANGED shop
    PROVE  CheckoutInv'
<1>1. /\ auto \in Autos /\ auto.list \subseteq shop /\ chosen \ auto.list \subseteq drawn
      /\ UNCHANGED <<shop, cfg, gate, was>>
  BY DEF CheckoutInv, AutoOK, EditAuto
<1>2. CASE EditedWith(StoreAuto([auto EXCEPT !.enabled = ~@])) /\ UNCHANGED chosen
  <2> DEFINE a == [auto EXCEPT !.enabled = ~@]
  <2>1. (~auto.enabled) \in BOOLEAN
    BY <1>1, Zenon
  <2>2. ASSUME NEW e \in BOOLEAN
        PROVE [auto EXCEPT !.enabled = e] \in Autos /\ [auto EXCEPT !.enabled = e].list = auto.list
    BY <1>1 DEF Autos
  <2>3. a \in Autos /\ a.list = auto.list
    BY <2>1, <2>2, Zenon
  <2>4. EditedWith(StoreAuto(a)) /\ UNCHANGED chosen
    BY <1>2, Zenon
  <2> HIDE DEF a
  <2>5. QED
    BY <1>1, <2>3, <2>4, StoredOK
<1>3. CASE EditedWith(StoreAuto([auto EXCEPT !.random = ~@])) /\ UNCHANGED chosen
  <2> DEFINE a == [auto EXCEPT !.random = ~@]
  <2>1. (~auto.random) \in BOOLEAN
    BY <1>1, Zenon
  <2>2. ASSUME NEW e \in BOOLEAN
        PROVE [auto EXCEPT !.random = e] \in Autos /\ [auto EXCEPT !.random = e].list = auto.list
    BY <1>1 DEF Autos
  <2>3. a \in Autos /\ a.list = auto.list
    BY <2>1, <2>2, Zenon
  <2>4. EditedWith(StoreAuto(a)) /\ UNCHANGED chosen
    BY <1>3, Zenon
  <2> HIDE DEF a
  <2>5. QED
    BY <1>1, <2>3, <2>4, StoredOK
<1>4. ASSUME NEW l, l \subseteq Rial \cap shop, chosen' \ l \subseteq drawn,
             EditedWith(StoreAuto([auto EXCEPT !.list = l]))
      PROVE  CheckoutInv'
  <2> DEFINE a == [auto EXCEPT !.list = l]
  <2>1. a \in Autos /\ a.list = l
    BY <1>1, <1>4 DEF Autos
  <2>2. l \subseteq shop /\ chosen' \ l \subseteq drawn
    BY <1>4
  <2>3. EditedWith(StoreAuto(a))
    BY <1>4
  <2> HIDE DEF a
  <2>4. QED
    BY <1>1, <2>1, <2>2, <2>3, StoredOK
<1>5. CASE \E m \in Rial \cap shop :
             IF m \in auto.list
             THEN chosen' = chosen \ {m} /\ EditedWith(StoreAuto([auto EXCEPT !.list = @ \ {m}]))
             ELSE /\ chosen' = chosen \cup {m}
                  /\ EditedWith(StoreAuto([auto EXCEPT !.list = @ \cup {m}]))
  <2>1. PICK m \in Rial \cap shop :
             IF m \in auto.list
             THEN /\ chosen' = chosen \ {m}
                  /\ EditedWith(StoreAuto([auto EXCEPT !.list = auto.list \ {m}]))
             ELSE /\ chosen' = chosen \cup {m}
                  /\ EditedWith(StoreAuto([auto EXCEPT !.list = auto.list \cup {m}]))
    BY <1>5, Zenon
  <2>2. CASE m \in auto.list
    <3> DEFINE l == auto.list \ {m}
    <3>1. chosen' = chosen \ {m} /\ EditedWith(StoreAuto([auto EXCEPT !.list = l]))
      BY <2>1, <2>2, Zenon
    <3>2. l \subseteq Rial \cap shop /\ chosen' \ l \subseteq drawn
      BY <1>1, <3>1 DEF Autos
    <3> HIDE DEF l
    <3>3. QED
      BY <1>4, <3>1, <3>2
  <2>3. CASE m \notin auto.list
    <3> DEFINE l == auto.list \cup {m}
    <3>1. chosen' = chosen \cup {m} /\ EditedWith(StoreAuto([auto EXCEPT !.list = l]))
      BY <2>1, <2>3, Zenon
    <3>2. l \subseteq Rial \cap shop /\ chosen' \ l \subseteq drawn
      BY <1>1, <3>1 DEF Autos
    <3> HIDE DEF l
    <3>3. QED
      BY <1>4, <3>1, <3>2
  <2>4. QED
    BY <2>2, <2>3
<1>6. QED
  BY <1>2, <1>3, <1>5 DEF EditAuto

\* The invariant holds at first.
LEMMA CheckoutStarts == CheckoutInit => CheckoutInv
<1> SUFFICES ASSUME CheckoutInit PROVE CheckoutInv
  OBVIOUS
<1>1. PICK after \in {0, 3} :
         cfg = [m \in shop |->
                    [enabled |-> TRUE, key |-> TRUE, min |-> FirstMin[m], after |-> after]]
  BY DEF CheckoutInit
<1>2. shop \in Shops /\ was = [m \in shop |-> {cfg[m]}] /\ gate = FALSE
  BY DEF CheckoutInit
<1>3. \A m \in shop : FirstMin[m] \in Mins /\ cfg[m] \in Configs
  BY <1>1, <1>2, CheckoutAssumption DEF Configs, Methods
<1>4. cfg \in [shop -> Configs] /\ was \in [shop -> SUBSET Configs]
  BY <1>1, <1>2, <1>3
<1>5. MethodsOK
  BY <1>2, <1>4 DEF MethodsOK
<1>6. AutoOK
  <2>1. PICK on \in BOOLEAN, rand \in BOOLEAN :
          auto = [enabled |-> on, random |-> rand,
                  list |-> Rial \cap shop, saved |-> Rial \cap shop]
    BY DEF CheckoutInit
  <2>2. auto \in Autos /\ auto.list = Rial \cap shop /\ auto.saved = Rial \cap shop
    BY <2>1 DEF Autos
  <2>3. chosen = auto.saved
    BY DEF CheckoutInit
  <2>4. QED
    BY <2>2, <2>3 DEF AutoOK
<1>7. ScreenOK /\ FormOK /\ CreatedOK /\ Answered
  BY DEF CheckoutInit, ScreenOK, FormOK, CreatedOK, Answered
<1>8. QED
  BY <1>5, <1>6, <1>7 DEF CheckoutInv

\* Every step keeps it.
LEMMA CheckoutKeeps == CheckoutInv /\ [CheckoutNext]_checkoutVars => CheckoutInv'
<1> SUFFICES ASSUME CheckoutInv, [CheckoutNext]_checkoutVars PROVE CheckoutInv'
  OBVIOUS
<1>1. CASE UNCHANGED checkoutVars
  <2>1. UNCHANGED <<shop, settings>> /\ UNCHANGED <<screen, form, created, answer>>
    BY <1>1 DEF checkoutVars, settings
  <2>2. FormOK' /\ \A b \in screen' : ButtonOK(b)
    BY <2>1 DEF CheckoutInv, ScreenOK, FormOK
  <2>3. PlainSettings => answer' # "none"
    BY <2>1 DEF CheckoutInv, Answered
  <2>4. \/ created' = {}
        \/ \E p \in created' : created' = {p} /\ ButtonOK(p) /\ p.kind = "amount" /\ p.amount > 0
    BY <2>1 DEF CheckoutInv, CreatedOK
  <2>5. QED
    BY <2>1, <2>2, <2>3, <2>4, PressedPlainly
<1>2. CASE RialStep /\ UNCHANGED shop
  BY <1>2, HandlerOK DEF RialStep, PaypingMenu, PaypingInvoice, ZarinpalMenu, ZarinpalInvoice,
        ZibalMenu, ZibalInvoice, AqayeMenu, AqayeInvoice
<1>3. CASE CryptoStep /\ UNCHANGED shop
  BY <1>3, HandlerOK DEF CryptoStep, PlisioMenu, PlisioInvoice, NowpaymentsMenu,
        NowpaymentsInvoice, SwapinoMenu, SwapinoInvoice
<1>4. CASE OtherStep /\ UNCHANGED shop
  BY <1>4, HandlerOK DEF OtherStep, TronadoMenu, TronadoInvoice, VoucherMenu, CardMenu, CardInvoice
<1>5. CASE (Charge \/ PayForService) /\ UNCHANGED shop
  BY <1>5, ChargeOK, PayForServiceOK
<1>6. CASE (EditMethod \/ EditGate \/ EditAuto) /\ UNCHANGED shop
  BY <1>6, EditMethodOK, EditGateOK, EditAutoOK
<1>7. QED
  BY <1>1, <1>2, <1>3, <1>4, <1>5, <1>6 DEF CheckoutNext

\* It says what the run checks.
LEMMA CheckoutShows == CheckoutInv => CheckoutSound /\ Answered
<1> SUFFICES ASSUME CheckoutInv PROVE CheckoutSound
  BY DEF CheckoutInv
<1>1. /\ created \subseteq Buttons /\ IsFiniteSet(created) /\ Cardinality(created) =< 1
      /\ \A p \in created : ButtonOK(p) /\ p.kind = "amount" /\ p.amount > 0
  <2>1. CASE created = {}
    BY <2>1, FS_EmptySet
  <2>2. ASSUME NEW p, created = {p}, ButtonOK(p), p.kind = "amount", p.amount > 0
        PROVE  <1>1!1
    <3>1. Cardinality(created) = 1 /\ IsFiniteSet(created)
      BY <2>2, FS_Singleton
    <3>2. QED
      BY <2>2, <3>1 DEF ButtonOK
  <2>3. QED
    BY <2>1, <2>2 DEF CheckoutInv, CreatedOK
<1>2. MethodsOK /\ AutoOK /\ FormOK
  BY DEF CheckoutInv
<1>3. auto.list \subseteq auto.saved /\ auto.saved \subseteq Rial
  BY <1>2 DEF AutoOK, Autos
<1>4. form \in Methods \cup {None}
  BY <1>2, MethodIs DEF FormOK
<1>5. screen \subseteq Buttons
  BY DEF CheckoutInv, ScreenOK, ButtonOK
<1>6. CheckoutTypeOK
  BY <1>1, <1>2, <1>3, <1>4, <1>5 DEF CheckoutTypeOK, MethodsOK
<1>7. MethodsKept
  BY <1>2 DEF MethodsKept, AutoOK
<1>8. CheckoutFaithful
  BY <1>1, <1>7 DEF CheckoutFaithful, ButtonOK
<1>9. QED
  BY <1>6, <1>8 DEF CheckoutSound

\* What a customer pays is what his button promised under the settings of some moment, a paid
\* draft can be activated, and a method is not lost (keyboards/user/payment.py).
THEOREM AlwaysCheckoutSound == CheckoutSpec => []CheckoutSound
<1>1. QED
  BY CheckoutStarts, CheckoutKeeps, CheckoutShows, PTL DEF CheckoutSpec

\* Under plain settings no press on the way to a payment raises by itself (select,
\* get_custom_amount and select_amount of the gateways): only the failing call to another
\* server leaves a customer without panel, invoice or refusal.
THEOREM AlwaysAnswered == CheckoutSpec => []Answered
<1>1. QED
  BY CheckoutStarts, CheckoutKeeps, CheckoutShows, PTL DEF CheckoutSpec

-----------------------------------------------------------------------------
(* Services *)

Datas == [expire : Values.expire \cup {Unset}, nodes : Some \cup {Unset},
          inbounds : Some \cup {Unset}, server : Servers \cup {Unset}]
Conversations == [state : EditStates \cup AddStates \cup {"none"}, id : Ids \cup {Nobody},
                  data : Datas, apply : SUBSET Ids]
Presses == {"form", "audience", "free", "renewable", "other", "patch"}
Hands == [to : Ids, row : Rows, what : Presses]

TablesOK ==
    /\ service \in [Ids -> Rows \cup {Absent, Gone}]
    /\ conv \in [Admins -> Conversations]
    /\ hand \in [Actors -> Hands \cup {Empty}]
    /\ shownFor \in [Admins -> [FormFields -> Ids \cup {Nobody, New}]]
    /\ unsaved \in [Admins -> SUBSET (Ids \cup {New})]
    /\ from \in [Ids -> [FormFields -> Ids \cup {Nobody, New}]]

\* What a conversation holds was entered for a service whose values are not saved yet, and
\* the form of a new one is complete when its network is asked.
DataOK(a) ==
    LET c == conv[a]
    IN  /\ \A f \in FormFields : c.data[f] # Unset => shownFor[a][f] \in unsaved[a]
        /\ c.data.server # Unset => New \in unsaved[a]
        /\ c.state \in {"new server", "new net"} => c.data.expire # Unset
        /\ c.state = "new net" =>
              /\ c.data.server # Unset
              /\ c.data.server \in Guardino => c.data.expire # "hours" /\ c.data.nodes # Unset

\* Two services of one server, unless one is deleted or was saved with another one's form.
SameServer(s, t) ==
    \/ s \in crossed \/ t \in crossed \/ service[s] = Gone \/ service[t] = Gone
    \/ Exists(s) /\ Exists(t) /\ service[s].server = service[t].server

\* What it was entered for: less than a day for a service of no Guardino server, and the
\* services that get the network too share the server of one whose values are unsaved.
EnteredOK(a) ==
    /\ \A s \in Ids : conv[a].data.expire = "hours" /\ shownFor[a]["expire"] = s =>
          \/ s \in crossed \/ service[s] = Gone
          \/ Exists(s) /\ ~IsGuardino(s)
    /\ \A t \in conv[a].apply : \E s \in unsaved[a] : s \in Ids \ {t} /\ SameServer(s, t)

OneAtMost(S) == \E g \in Audiences : S \subseteq {g}
RightRenewal(r) == r.free # {} => ~r.renewable
WholeRow(r) == r.server \in Guardino => r.expire # "hours"

\* A row in hand: a form that is saved crossed is known by what is unsaved.
Crosses(x) == hand[x].what = "form" /\ ~(unsaved[x] \subseteq {hand[x].to})
HandOK(x) ==
    LET h == hand[x]
        s == hand[x].to
    IN  h # Empty =>
          /\ service[s] # Absent
          /\ h.what = "form" => x \in Admins
          /\ Crosses(x) \/ s \in crossed \/ ~Exists(s) \/ h.row.server = service[s].server
          /\ x \in Admins /\ s \notin byWeb =>
                /\ OneAtMost(h.row.audience)
                /\ s \in byHand \/ h.what = "renewable" \/ RightRenewal(h.row)
                /\ s \in crossed \/ Crosses(x) \/ WholeRow(h.row)

RowOK(s) ==
    /\ Exists(s) /\ s \notin byWeb =>
          /\ OneAtMost(service[s].audience)
          /\ s \in byHand \/ RightRenewal(service[s])
          /\ s \in crossed \/ WholeRow(service[s])
    /\ service[s] = Absent => \A f \in FormFields : from[s][f] = Nobody

ServicesInv ==
    /\ TablesOK
    /\ \A a \in Admins : DataOK(a) /\ EnteredOK(a)
    /\ \A x \in Actors : HandOK(x)
    /\ \A s \in Ids : RowOK(s)
    /\ LandsWhereTyped

\* The fields of a form, and of a row.
LEMMA FieldsAre ==
    /\ FormFields = {"expire", "nodes", "inbounds", "server"}
    /\ Columns = {"expire", "inbounds", "server"}
    /\ Values.expire = {"hours", "days"} /\ Values.nodes = Some /\ Values.inbounds = Some
    /\ Values.server = Servers
  BY DEF FormFields, Columns, Values

LEMMA Settled ==
    /\ Absent # Gone /\ Absent \notin Rows /\ Gone \notin Rows
    /\ \A h \in Hands : h # Empty
<1>1. DOMAIN Absent = {"absent"} /\ DOMAIN Gone = {"gone"}
  BY DEF Absent, Gone
<1>2. \A r \in Rows :
         DOMAIN r = {"expire", "nodes", "inbounds", "server", "audience", "free", "renewable"}
  BY DEF Rows
<1>3. Nobody \notin Ids
  BY ServicesAssumption
<1>4. \A h \in Hands : h # Empty
  BY <1>3 DEF Hands, Empty
<1>5. QED
  BY <1>1, <1>2, <1>4

LEMMA FirstRow ==
    ASSUME NEW server \in Servers
    PROVE  /\ Plain(server) \in Rows /\ Plain(server).server = server
           /\ Plain(server).audience = {} /\ Plain(server).free = {}
           /\ Plain(server).expire = "days"
  BY FieldsAre DEF Plain, Rows, Some

LEMMA ServicesStart == ServicesInit => ServicesInv
<1> SUFFICES ASSUME ServicesInit PROVE ServicesInv
  OBVIOUS
<1>1. service = [s \in Ids |-> IF FirstServer[s] = NoServer THEN Absent ELSE Plain(FirstServer[s])]
  BY DEF ServicesInit
<1>2. \A s \in Ids : FirstServer[s] # NoServer => FirstServer[s] \in Servers
  BY ServicesAssumption DEF Servers
<1>3. \A s \in Ids :
         /\ \/ service[s] = Absent
            \/ FirstServer[s] \in Servers /\ service[s] = Plain(FirstServer[s])
         /\ service[s] \in Rows \cup {Absent}
  BY <1>1, <1>2, FirstRow
<1>4. /\ conv = [a \in Admins |-> Closed] /\ hand = [x \in Actors |-> Empty]
      /\ shownFor = [a \in Admins |-> [f \in FormFields |-> Nobody]]
      /\ unsaved = [a \in Admins |-> {}]
      /\ from = [s \in Ids |-> [f \in FormFields |-> Nobody]]
  BY DEF ServicesInit
<1>5. Closed \in Conversations /\ Closed.data = NoData /\ Closed.apply = {} /\ Closed.state = "none"
  BY FieldsAre DEF Closed, Conversations, NoData, Datas
<1>6. TablesOK
  BY <1>1, <1>3, <1>4, <1>5 DEF TablesOK
<1>7. \A a \in Admins : DataOK(a) /\ EnteredOK(a)
  <2> TAKE a \in Admins
  <2>1. /\ conv[a].data = NoData /\ conv[a].apply = {} /\ conv[a].state = "none"
        /\ \A f \in FormFields : conv[a].data[f] = Unset
    BY <1>4, <1>5 DEF NoData
  <2>2. /\ conv[a].data["server"] = Unset /\ conv[a].data["expire"] = Unset /\ Unset # "hours"
    BY <2>1, FieldsAre DEF Unset
  <2> HIDE DEF Unset
  <2>3. QED
    BY <2>1, <2>2 DEF DataOK, EnteredOK
<1>8. \A x \in Actors : HandOK(x)
  BY <1>4 DEF HandOK
<1>9. \A s \in Ids : RowOK(s)
  BY <1>3, <1>4, FirstRow DEF RowOK, Exists, OneAtMost, Audiences, RightRenewal, WholeRow
<1>10. LandsWhereTyped
  BY <1>4 DEF LandsWhereTyped
<1>11. QED
  BY <1>6, <1>7, <1>8, <1>9, <1>10 DEF ServicesInv

\* What a step may do to the services.
Kept ==
    /\ \A s \in Ids :
          /\ service[s] = Gone => service'[s] = Gone
          /\ Exists(s) => \/ s \in crossed' \/ service'[s] = Gone
                          \/ Exists(s)' /\ service'[s].server = service[s].server
          /\ service[s] # Absent => service'[s] # Absent
    /\ crossed \subseteq crossed' /\ byHand \subseteq byHand' /\ byWeb \subseteq byWeb'

LEMMA NothingHappened ==
    ASSUME UNCHANGED <<service, crossed, byHand, byWeb>>
    PROVE  Kept
  BY DEF Kept, Exists

\* An admin whose conversation is left alone.
LEMMA ConversationStays ==
    ASSUME Kept, NEW a, conv'[a] = conv[a], shownFor'[a] = shownFor[a], unsaved'[a] = unsaved[a],
           DataOK(a), EnteredOK(a), conv[a] \in Conversations
    PROVE  DataOK(a)' /\ EnteredOK(a)'
<1>1. DataOK(a)'
  BY DEF DataOK
<1>2. \A s \in Ids : s \in crossed \/ service[s] = Gone \/ (Exists(s) /\ ~IsGuardino(s))
                     => s \in crossed' \/ service'[s] = Gone \/ (Exists(s) /\ ~IsGuardino(s))'
  BY DEF Kept, IsGuardino
<1>3. conv[a].apply \subseteq Ids
  BY DEF Conversations
<1>4. \A s, t \in Ids : SameServer(s, t) => SameServer(s, t)'
  BY DEF Kept, SameServer
<1>5. EnteredOK(a)'
  BY <1>2, <1>3, <1>4 DEF EnteredOK
<1>6. QED
  BY <1>1, <1>5

\* A row that stays in hand.
LEMMA HandStays ==
    ASSUME Kept, NEW x, hand'[x] = hand[x], x \in Admins => unsaved'[x] = unsaved[x], HandOK(x),
           hand[x] \in Hands \cup {Empty}
    PROVE  HandOK(x)'
<1>1. CASE hand[x] = Empty
  BY <1>1 DEF HandOK
<1>2. CASE hand[x] # Empty
  <2> DEFINE s == hand[x].to
  <2>1. hand[x] \in Hands /\ s \in Ids /\ hand'[x].to = s
    BY <1>2 DEF Hands
  <2>2. Crosses(x) => Crosses(x)'
    BY <1>2 DEF Crosses, HandOK
  <2>3. service[s] # Absent /\ (hand[x].what = "form" => x \in Admins) /\ service'[s] # Absent
    BY <1>2, <2>1 DEF HandOK, Kept
  <2>4. Crosses(x)' \/ s \in crossed' \/ ~Exists(s)' \/ hand[x].row.server = service'[s].server
    <3>1. Crosses(x) \/ s \in crossed \/ ~Exists(s) \/ hand[x].row.server = service[s].server
      BY <1>2 DEF HandOK
    <3>2. ~Exists(s) => service[s] = Gone
      BY <2>3 DEF Exists
    <3>3. service'[s] = Gone => ~Exists(s)'
      BY DEF Exists
    <3>4. QED
      BY <2>1, <2>2, <3>1, <3>2, <3>3 DEF Kept
  <2>5. x \in Admins /\ s \notin byWeb' =>
          /\ OneAtMost(hand[x].row.audience)
          /\ s \in byHand' \/ hand[x].what = "renewable" \/ RightRenewal(hand[x].row)
          /\ s \in crossed' \/ Crosses(x)' \/ WholeRow(hand[x].row)
    BY <1>2, <2>2 DEF HandOK, Kept
  <2>6. HandOK(x)' <=>
          /\ service'[s] # Absent
          /\ hand[x].what = "form" => x \in Admins
          /\ Crosses(x)' \/ s \in crossed' \/ ~Exists(s)' \/ hand[x].row.server = service'[s].server
          /\ x \in Admins /\ s \notin byWeb' =>
                /\ OneAtMost(hand[x].row.audience)
                /\ s \in byHand' \/ hand[x].what = "renewable" \/ RightRenewal(hand[x].row)
                /\ s \in crossed' \/ Crosses(x)' \/ WholeRow(hand[x].row)
    BY <1>2 DEF HandOK
  <2>7. QED
    BY <2>3, <2>4, <2>5, <2>6
<1>3. QED
  BY <1>1, <1>2

\* Where a value landed stays all right.
LandsOK(s, f) ==
    \/ from[s][f] \in {s, Nobody} \cup crossed \cup (IF s \in added THEN {New} ELSE {})
    \/ f = Net(service[s].server)
          /\ from[s][f] \in Siblings(s) \cup {t \in Ids : service[t] = Gone}
LEMMA LandsStays ==
    ASSUME Kept, NEW s \in Ids, NEW f, from'[s][f] = from[s][f], added \subseteq added',
           Exists(s), s \notin crossed', Exists(s)', LandsOK(s, f)
    PROVE  LandsOK(s, f)'
<1>1. service'[s].server = service[s].server
  BY DEF Kept, Exists
<1>2. \A t \in Siblings(s) : t \in Siblings(s)' \cup crossed' \cup {u \in Ids : service'[u] = Gone}
  BY <1>1 DEF Siblings, Kept
<1>3. {t \in Ids : service[t] = Gone} \subseteq {t \in Ids : service'[t] = Gone}
  BY DEF Kept
<1>4. {s, Nobody} \cup crossed \cup (IF s \in added THEN {New} ELSE {})
        \subseteq {s, Nobody} \cup crossed' \cup (IF s \in added' THEN {New} ELSE {})
  BY DEF Kept
<1>5. QED
  BY <1>1, <1>2, <1>3, <1>4 DEF LandsOK

\* A step in an admin's conversation alone.
LEMMA Conversed ==
    ASSUME ServicesInv, UNCHANGED <<service, hand, from, added, crossed, byHand, byWeb>>,
           NEW a \in Admins, hand[a] = Empty,
           NEW c \in Conversations, conv' = [conv EXCEPT ![a] = c],
           NEW n \in [FormFields -> Ids \cup {Nobody, New}], shownFor' = [shownFor EXCEPT ![a] = n],
           NEW u \in SUBSET (Ids \cup {New}), unsaved' = [unsaved EXCEPT ![a] = u],
           DataOK(a)', EnteredOK(a)'
    PROVE  ServicesInv'
<1>1. /\ conv' \in [Admins -> Conversations] /\ conv'[a] = c
      /\ shownFor' \in [Admins -> [FormFields -> Ids \cup {Nobody, New}]] /\ shownFor'[a] = n
      /\ unsaved' \in [Admins -> SUBSET (Ids \cup {New})] /\ unsaved'[a] = u
      /\ \A b \in Admins \ {a} :
            conv'[b] = conv[b] /\ shownFor'[b] = shownFor[b] /\ unsaved'[b] = unsaved[b]
  BY DEF ServicesInv, TablesOK
<1>2. TablesOK'
  BY <1>1 DEF ServicesInv, TablesOK
<1>3. Kept
  BY NothingHappened
<1>4. ASSUME NEW b \in Admins PROVE DataOK(b)' /\ EnteredOK(b)'
  <2>1. CASE b = a
    BY <2>1
  <2>2. CASE b # a
    BY <1>1, <1>3, <2>2, ConversationStays DEF ServicesInv, TablesOK
  <2>3. QED
    BY <2>1, <2>2
<1>5. ASSUME NEW x \in Actors PROVE HandOK(x)'
  <2>1. CASE x = a
    BY <2>1 DEF HandOK
  <2>2. CASE x # a
    BY <1>1, <1>3, <2>2, HandStays DEF ServicesInv, TablesOK
  <2>3. QED
    BY <2>1, <2>2
<1>6. (\A s \in Ids : RowOK(s))' /\ LandsWhereTyped'
  BY DEF ServicesInv, RowOK, Exists, LandsWhereTyped, Siblings
<1>7. QED
  BY <1>2, <1>4, <1>5, <1>6 DEF ServicesInv

\* What an admin's conversation is like.
LEMMA ConversationIs ==
    ASSUME TablesOK, NEW a \in Admins
    PROVE  /\ conv[a] \in Conversations
           /\ conv[a].state \in EditStates \cup AddStates \cup {"none"}
           /\ conv[a].id \in Ids \cup {Nobody} /\ conv[a].data \in Datas
           /\ conv[a].apply \subseteq Ids
           /\ shownFor[a] \in [FormFields -> Ids \cup {Nobody, New}]
           /\ unsaved[a] \in SUBSET (Ids \cup {New})
           /\ hand[a] \in Hands \cup {Empty}
  BY DEF TablesOK, Conversations, Actors

\* A conversation that is dropped.
LEMMA Cleared ==
    ASSUME NEW a, conv'[a] = Closed
    PROVE  DataOK(a)' /\ EnteredOK(a)'
<1>1. /\ conv'[a].data = NoData /\ conv'[a].apply = {} /\ conv'[a].state = "none"
      /\ \A f \in FormFields : conv'[a].data[f] = Unset
  BY DEF Closed, NoData
<1>2. conv'[a].data["server"] = Unset /\ conv'[a].data["expire"] = Unset /\ Unset # "hours"
  BY <1>1, FieldsAre DEF Unset
<1> HIDE DEF Unset
<1>3. QED
  BY <1>1, <1>2 DEF DataOK, EnteredOK

LEMMA ClosedIs == Closed \in Conversations
  BY FieldsAre DEF Closed, Conversations, NoData, Datas

LEMMA Dropped ==
    ASSUME ServicesInv, UNCHANGED <<service, hand, shownFor, from, added, crossed, byHand, byWeb>>,
           NEW a \in Admins, hand[a] = Empty, conv' = [conv EXCEPT ![a] = Closed],
           unsaved' = [unsaved EXCEPT ![a] = {}]
    PROVE  ServicesInv'
<1>1. TablesOK
  BY DEF ServicesInv
<1>2. shownFor' = [shownFor EXCEPT ![a] = shownFor[a]]
  BY <1>1 DEF TablesOK
<1>3. conv'[a] = Closed
  BY <1>1 DEF TablesOK
<1>4. DataOK(a)' /\ EnteredOK(a)'
  BY <1>3, Cleared
<1>5. QED
  BY <1>1, <1>2, <1>4, ClosedIs, ConversationIs, Conversed

LEMMA ShowOK ==
    ASSUME ServicesInv, NEW a \in Admins, Show(a)
    PROVE  ServicesInv'
  BY Dropped DEF Show, Tap, Converse, Clear

\* A step that changes nothing of it.
LEMMA Unmoved ==
    ASSUME ServicesInv, UNCHANGED <<service, conv, hand, servicesGhosts>>
    PROVE  ServicesInv'
<1>1. UNCHANGED <<service, conv, hand, shownFor, unsaved, from, added, crossed, byHand, byWeb>>
  BY DEF servicesGhosts
<1>2. TablesOK' /\ LandsWhereTyped' /\ (\A s \in Ids : RowOK(s))'
  BY <1>1 DEF ServicesInv, TablesOK, LandsWhereTyped, RowOK, Exists, Siblings
<1>3. Kept
  BY <1>1, NothingHappened
<1>4. \A a \in Admins : DataOK(a)' /\ EnteredOK(a)'
  BY <1>1, <1>3, ConversationStays DEF ServicesInv, TablesOK
<1>5. \A x \in Actors : HandOK(x)'
  BY <1>1, <1>3, HandStays DEF ServicesInv, TablesOK
<1>6. QED
  BY <1>2, <1>4, <1>5 DEF ServicesInv

\* A step that changes the state of a conversation and whose it is, to one that needs no more.
LEMMA StateOK ==
    ASSUME ServicesInv, UNCHANGED <<service, hand, servicesGhosts>>,
           NEW a \in Admins, hand[a] = Empty,
           NEW c \in Conversations, conv' = [conv EXCEPT ![a] = c],
           c.data = conv[a].data, c.apply = conv[a].apply, c.state \notin {"new server", "new net"}
    PROVE  ServicesInv'
<1>1. TablesOK /\ DataOK(a) /\ EnteredOK(a)
  BY DEF ServicesInv
<1>2. /\ shownFor' = [shownFor EXCEPT ![a] = shownFor[a]]
      /\ unsaved' = [unsaved EXCEPT ![a] = unsaved[a]]
      /\ UNCHANGED <<service, hand, shownFor, unsaved, from, added, crossed, byHand, byWeb>>
  BY <1>1 DEF TablesOK, servicesGhosts
<1>3. conv'[a] = c
  BY <1>1 DEF TablesOK
<1>4. DataOK(a)' /\ EnteredOK(a)'
  <2>1. DataOK(a)'
    BY <1>1, <1>2, <1>3 DEF DataOK
  <2>2. /\ \A s, t \in Ids : SameServer(s, t)' <=> SameServer(s, t)
        /\ \A s \in Ids : (Exists(s) /\ ~IsGuardino(s))' <=> (Exists(s) /\ ~IsGuardino(s))
    BY <1>2 DEF SameServer, Exists, IsGuardino
  <2>3. c.apply \subseteq Ids
    BY DEF Conversations
  <2>4. EnteredOK(a)'
    BY <1>1, <1>2, <1>3, <2>2, <2>3 DEF EnteredOK
  <2>5. QED
    BY <2>1, <2>4
<1>5. QED
  BY <1>1, <1>2, <1>4, ConversationIs, Conversed

LEMMA EditServiceOK ==
    ASSUME ServicesInv, NEW a \in Admins, NEW s \in Ids, EditService(a, s)
    PROVE  ServicesInv'
<1> DEFINE c == [conv[a] EXCEPT !.state = "form", !.id = s]
<1>1. TablesOK /\ hand[a] = Empty /\ UNCHANGED <<service, hand, servicesGhosts>>
      /\ conv' = [conv EXCEPT ![a] = c]
  BY DEF ServicesInv, EditService, Tap, Converse
<1>2. c \in Conversations /\ c.data = conv[a].data /\ c.apply = conv[a].apply /\ c.state = "form"
  BY <1>1, ConversationIs DEF Conversations, EditStates
<1> HIDE DEF c
<1>3. QED
  BY <1>1, <1>2, StateOK

LEMMA AskOK ==
    ASSUME ServicesInv, NEW a \in Admins, Ask(a) \/ AddService(a)
    PROVE  ServicesInv'
<1>1. PICK state \in {"expire", "new name"} :
         TablesOK /\ hand[a] = Empty /\ UNCHANGED <<service, hand, servicesGhosts>>
         /\ conv' = [conv EXCEPT ![a] = [conv[a] EXCEPT !.state = state]]
  BY DEF ServicesInv, Ask, AddService, Tap, Converse
<1> DEFINE c == [conv[a] EXCEPT !.state = state]
<1>2. c \in Conversations /\ c.data = conv[a].data /\ c.apply = conv[a].apply /\ c.state = state
  BY <1>1, ConversationIs DEF Conversations, EditStates, AddStates
<1>3. conv' = [conv EXCEPT ![a] = c]
  BY <1>1
<1> HIDE DEF c
<1>4. QED
  BY <1>1, <1>2, <1>3, StateOK

\* A value entered for a service, or for the new one.
Entering(a, f, v, s, state, c) ==
    /\ a \in Admins /\ hand[a] = Empty
    /\ f \in {"expire", "nodes", "inbounds"} /\ v \in Values[f] \cup {Unset}
    /\ s \in Ids \cup {New} /\ Enter(a, f, s)
    /\ state \in EditStates \cup AddStates \cup {"none"}
    /\ c = [conv[a] EXCEPT !.state = state, !.data = [conv[a].data EXCEPT ![f] = v]]
    /\ conv' = [conv EXCEPT ![a] = c]
    /\ f = "expire" /\ v = "hours" /\ s # New => Exists(s) /\ ~IsGuardino(s)
    /\ state = "new server" => f = "expire" /\ v # Unset
    /\ state = "new net" => conv[a].state = "new net" /\ f \in {"nodes", "inbounds"} /\ v # Unset
LEMMA Entered ==
    ASSUME ServicesInv, UNCHANGED <<service, hand, from, added, crossed, byHand, byWeb>>,
           NEW a, NEW f, NEW v, NEW s, NEW state, NEW c, Entering(a, f, v, s, state, c)
    PROVE  ServicesInv'
<1>0. /\ a \in Admins /\ hand[a] = Empty
      /\ f \in {"expire", "nodes", "inbounds"} /\ v \in Values[f] \cup {Unset}
      /\ s \in Ids \cup {New} /\ Enter(a, f, s)
      /\ state \in EditStates \cup AddStates \cup {"none"}
      /\ c = [conv[a] EXCEPT !.state = state, !.data = [conv[a].data EXCEPT ![f] = v]]
      /\ conv' = [conv EXCEPT ![a] = c]
      /\ f = "expire" /\ v = "hours" /\ s # New => Exists(s) /\ ~IsGuardino(s)
      /\ state = "new server" => f = "expire" /\ v # Unset
      /\ state = "new net" => conv[a].state = "new net" /\ f \in {"nodes", "inbounds"} /\ v # Unset
  BY DEF Entering
<1> USE <1>0
<1>1. TablesOK /\ DataOK(a) /\ EnteredOK(a)
  BY DEF ServicesInv
<1> DEFINE n == [shownFor[a] EXCEPT ![f] = s]
           u == unsaved[a] \cup {s}
<1>2. /\ shownFor' = [shownFor EXCEPT ![a] = n] /\ unsaved' = [unsaved EXCEPT ![a] = u]
  BY <1>1 DEF TablesOK, Enter
<1>3. f \in FormFields
  BY FieldsAre
<1>4. /\ n \in [FormFields -> Ids \cup {Nobody, New}] /\ n[f] = s
      /\ \A g \in FormFields \ {f} : n[g] = shownFor[a][g]
  BY <1>1, <1>3, ConversationIs
<1>5. u \in SUBSET (Ids \cup {New})
  BY <1>1, ConversationIs
<1>6. /\ c.data \in Datas /\ c.data[f] = v
         /\ \A g \in FormFields \ {f} : c.data[g] = conv[a].data[g]
      /\ c.state = state /\ c.apply = conv[a].apply /\ c.id = conv[a].id /\ c \in Conversations
  <2> DEFINE d == [conv[a].data EXCEPT ![f] = v]
  <2>1. conv[a].data \in Datas
    BY <1>1, ConversationIs
  <2>2. ASSUME f = "expire"
        PROVE  d \in Datas /\ d[f] = v /\ \A g \in FormFields \ {f} : d[g] = conv[a].data[g]
    <3>1. d = [conv[a].data EXCEPT !["expire"] = v] /\ v \in Values.expire \cup {Unset}
      BY <2>2
    <3>2. /\ d \in Datas /\ d["expire"] = v
          /\ \A g \in {"nodes", "inbounds", "server"} : d[g] = conv[a].data[g]
      BY <2>1, <3>1 DEF Datas
    <3>3. QED
      BY <2>2, <3>2, FieldsAre
  <2>3. ASSUME f = "nodes"
        PROVE  d \in Datas /\ d[f] = v /\ \A g \in FormFields \ {f} : d[g] = conv[a].data[g]
    <3>1. d = [conv[a].data EXCEPT !["nodes"] = v] /\ v \in Some \cup {Unset}
      BY <2>3, FieldsAre
    <3>2. /\ d \in Datas /\ d["nodes"] = v
          /\ \A g \in {"expire", "inbounds", "server"} : d[g] = conv[a].data[g]
      BY <2>1, <3>1 DEF Datas
    <3>3. QED
      BY <2>3, <3>2, FieldsAre
  <2>4. ASSUME f = "inbounds"
        PROVE  d \in Datas /\ d[f] = v /\ \A g \in FormFields \ {f} : d[g] = conv[a].data[g]
    <3>1. d = [conv[a].data EXCEPT !["inbounds"] = v] /\ v \in Some \cup {Unset}
      BY <2>4, FieldsAre
    <3>2. /\ d \in Datas /\ d["inbounds"] = v
          /\ \A g \in {"expire", "nodes", "server"} : d[g] = conv[a].data[g]
      BY <2>1, <3>1 DEF Datas
    <3>3. QED
      BY <2>4, <3>2, FieldsAre
  <2>5. d \in Datas /\ d[f] = v /\ \A g \in FormFields \ {f} : d[g] = conv[a].data[g]
    BY <2>2, <2>3, <2>4, FieldsAre
  <2> HIDE DEF d
  <2>6. c = [conv[a] EXCEPT !.state = state, !.data = d]
    BY DEF d
  <2>7. QED
    BY <1>1, <2>5, <2>6, ConversationIs DEF Conversations
<1>7. conv'[a] = c /\ shownFor'[a] = n /\ unsaved'[a] = u
  BY <1>1, <1>2 DEF TablesOK
<1> HIDE DEF n, u
<1>8. \A g \in FormFields : c.data[g] # Unset => n[g] \in u
  BY <1>1, <1>4, <1>6 DEF DataOK, u
<1>9. "expire" \in FormFields /\ "server" \in FormFields /\ "nodes" \in FormFields
      /\ "inbounds" \in FormFields
  BY FieldsAre
<1>10. c.data.server # Unset => New \in u
  BY <1>1, <1>6, <1>9 DEF DataOK, u
<1>11. c.state \in {"new server", "new net"} => c.data.expire # Unset
  BY <1>1, <1>6, <1>9 DEF DataOK
<1>12. c.state = "new net" =>
              /\ c.data.server # Unset
              /\ c.data.server \in Guardino => c.data.expire # "hours" /\ c.data.nodes # Unset
  BY <1>1, <1>6, <1>9 DEF DataOK
<1>13. DataOK(a)'
  BY <1>7, <1>8, <1>10, <1>11, <1>12 DEF DataOK
<1>14. ASSUME NEW t \in Ids, c.data.expire = "hours", n["expire"] = t
       PROVE  t \in crossed \/ service[t] = Gone \/ (Exists(t) /\ ~IsGuardino(t))
  <2>1. CASE f = "expire"
    <3>1. t = s /\ v = "hours" /\ s # New
      BY <1>4, <1>6, <1>14, <2>1, ServicesAssumption
    <3>2. QED
      BY <2>1, <3>1
  <2>2. CASE f # "expire"
    BY <1>1, <1>4, <1>6, <1>9, <1>14, <2>2 DEF EnteredOK
  <2>3. QED
    BY <2>1, <2>2
<1>15. \A t \in c.apply : \E r \in u : r \in Ids \ {t} /\ SameServer(r, t)
  BY <1>1, <1>6 DEF EnteredOK, u
<1>16. EnteredOK(a)'
  BY <1>7, <1>14, <1>15 DEF EnteredOK, SameServer, Exists, IsGuardino
<1>17. QED
  BY <1>2, <1>4, <1>5, <1>6, <1>13, <1>16, Conversed

\* A row of the table.
LEMMA RowIs ==
    ASSUME TablesOK, NEW s \in Ids, Exists(s)
    PROVE  /\ service[s] \in Rows /\ service[s].server \in Servers
           /\ service[s].nodes \in Some /\ service[s].inbounds \in Some
           /\ service[s].expire \in {"hours", "days"}
  BY FieldsAre DEF TablesOK, Exists, Rows

LEMMA NetIs ==
    ASSUME NEW server
    PROVE  /\ Net(server) \in {"nodes", "inbounds"} /\ Net(server) \in FormFields
           /\ Values[Net(server)] = Some
  BY FieldsAre DEF Net

LEMMA TypeValueOK ==
    ASSUME ServicesInv, NEW a \in Admins, NEW v \in Values.expire, TypeValue(a, v)
    PROVE  ServicesInv'
<1> DEFINE c == conv[a]
<1>1. /\ TablesOK /\ hand[a] = Empty /\ c.id # Nobody
      /\ UNCHANGED <<service, hand, from, added, crossed, byHand, byWeb>>
  BY DEF ServicesInv, TypeValue, Tap
<1>2. CASE ~Exists(c.id) /\ Converse(a, Clear(c)) /\ unsaved' = [unsaved EXCEPT ![a] = {}]
           /\ UNCHANGED shownFor
  BY <1>1, <1>2, Dropped DEF Converse, Clear
<1>3. CASE UNCHANGED <<conv, shownFor, unsaved>>
  BY <1>1, <1>3, Unmoved DEF servicesGhosts
<1>4. CASE /\ Exists(c.id) /\ ~Refused(c.id, v)
           /\ Converse(a, [c EXCEPT !.state = "form", !.data.expire = v])
           /\ Enter(a, "expire", c.id)
  <2>1. c.id \in Ids
    BY <1>1, ConversationIs
  <2> DEFINE k == [conv[a] EXCEPT !.state = "form", !.data = [conv[a].data EXCEPT !["expire"] = v]]
  <2>2. conv' = [conv EXCEPT ![a] = k]
    BY <1>1, <1>4, ConversationIs DEF Converse, Conversations
  <2>3. v = "hours" => Exists(c.id) /\ ~IsGuardino(c.id)
    BY <1>4 DEF Refused
  <2>4. v \in Values["expire"] \cup {Unset} /\ "form" \in EditStates
    BY DEF EditStates
  <2>5. k = [conv[a] EXCEPT !.state = "form", !.data = [conv[a].data EXCEPT !["expire"] = v]]
    OBVIOUS
  <2> HIDE DEF k, c
  <2>6. conv' = [conv EXCEPT ![a] = k] /\ Enter(a, "expire", c.id)
    BY <1>4, <2>2
  <2>7. QED
    <3>1. Entering(a, "expire", v, c.id, "form", k)
      BY <1>1, <2>1, <2>3, <2>4, <2>5, <2>6 DEF Entering
    <3>2. QED
      BY <1>1, <3>1, Entered
<1>5. QED
  BY <1>2, <1>3, <1>4 DEF TypeValue

LEMMA NewValueOK ==
    ASSUME ServicesInv, NEW a \in Admins, NEW v \in Values.expire, NewValue(a, v)
    PROVE  ServicesInv'
<1> DEFINE k == [conv[a] EXCEPT !.state = "new server",
           !.data = [conv[a].data EXCEPT !["expire"] = v]]
<1>1. /\ TablesOK /\ hand[a] = Empty /\ Enter(a, "expire", New)
      /\ UNCHANGED <<service, hand, from, added, crossed, byHand, byWeb>>
  BY DEF ServicesInv, NewValue, Tap
<1>2. conv' = [conv EXCEPT ![a] = k]
  BY <1>1, ConversationIs DEF NewValue, Converse, Conversations
<1>3. v \in Values["expire"] \cup {Unset} /\ "new server" \in AddStates /\ v # Unset
  BY FieldsAre DEF AddStates, Unset
<1>4. k = [conv[a] EXCEPT !.state = "new server", !.data = [conv[a].data EXCEPT !["expire"] = v]]
  OBVIOUS
<1> HIDE DEF k
<1>5. QED
  <2>1. Entering(a, "expire", v, New, "new server", k)
    BY <1>1, <1>2, <1>3, <1>4 DEF Entering
  <2>2. QED
    BY <1>1, <2>1, Entered

LEMMA OpenNetOK ==
    ASSUME ServicesInv, NEW a \in Admins, NEW s \in Ids, OpenNet(a, s)
    PROVE  ServicesInv'
<1> DEFINE f == Net(service[s].server)
           v == service[s][f]
           k == [conv[a] EXCEPT !.state = "net", !.data = [conv[a].data EXCEPT ![f] = v]]
<1>1. /\ TablesOK /\ hand[a] = Empty /\ Enter(a, f, s) /\ Exists(s)
      /\ UNCHANGED <<service, hand, from, added, crossed, byHand, byWeb>>
  BY DEF ServicesInv, OpenNet, Tap
<1>2. conv' = [conv EXCEPT ![a] = k]
  BY <1>1, ConversationIs DEF OpenNet, Converse, Conversations
<1>3. f \in {"nodes", "inbounds"} /\ Values[f] = Some
  BY NetIs
<1>4. v \in Values[f] \cup {Unset} /\ "net" \in EditStates
  BY <1>1, <1>3, RowIs DEF EditStates
<1>5. k = [conv[a] EXCEPT !.state = "net", !.data = [conv[a].data EXCEPT ![f] = v]]
  OBVIOUS
<1> HIDE DEF k, v, f
<1>6. QED
  <2>1. Entering(a, f, v, s, "net", k)
    BY <1>1, <1>2, <1>3, <1>4, <1>5 DEF Entering
  <2>2. QED
    BY <1>1, <2>1, Entered

\* A change of the selection, for a service or the new one.
LEMMA PickOK ==
    ASSUME ServicesInv, UNCHANGED <<service, hand, from, added, crossed, byHand, byWeb>>,
           NEW a \in Admins, hand[a] = Empty, NEW f \in {"nodes", "inbounds"},
           NEW s \in Ids \cup {New}, Pick(a, f, s), conv[a].state \in {"net", "new net"}
    PROVE  ServicesInv'
<1>1. PICK v \in Values[f] \ {conv[a].data[f]} :
         /\ Converse(a, [conv[a] EXCEPT !.data[f] = v])
         /\ Enter(a, f, s)
  BY DEF Pick
<1>2. conv[a] \in Conversations /\ v # Unset
  BY ConversationIs, FieldsAre DEF ServicesInv, Some, Unset
<1> DEFINE state == conv[a].state
           k == [conv[a] EXCEPT !.state = state, !.data = [conv[a].data EXCEPT ![f] = v]]
<1>3. conv' = [conv EXCEPT ![a] = k]
  BY <1>1, <1>2 DEF Converse, Conversations
<1>4. k = [conv[a] EXCEPT !.state = state, !.data = [conv[a].data EXCEPT ![f] = v]]
  OBVIOUS
<1>5. state \in EditStates \cup AddStates \cup {"none"}
  BY <1>2 DEF Conversations
<1>6. state # "new server" /\ (state = "new net" => conv[a].state = "new net")
  OBVIOUS
<1> HIDE DEF k, state
<1>7. QED
  <2>1. Entering(a, f, v, s, state, k)
    BY <1>1, <1>2, <1>3, <1>4, <1>5, <1>6 DEF Entering
  <2>2. QED
    BY <2>1, Entered

LEMMA PickNetOK ==
    ASSUME ServicesInv, NEW a \in Admins, NEW s \in Ids, PickNet(a, s)
    PROVE  ServicesInv'
  BY NetIs, PickOK DEF PickNet, Tap

LEMMA NewNetOK ==
    ASSUME ServicesInv, NEW a \in Admins, NewNet(a)
    PROVE  ServicesInv'
  BY NetIs, PickOK DEF NewNet, Tap

LEMMA PickApplyOK ==
    ASSUME ServicesInv, NEW a \in Admins, NEW s \in Ids, PickApply(a, s)
    PROVE  ServicesInv'
<1>1. PICK picked \in {Siblings(s), {}} \cup {Toggle(conv[a].apply, t) : t \in Siblings(s)} :
          /\ Converse(a, [conv[a] EXCEPT !.apply = picked])
          /\ picked # conv[a].apply
  BY DEF PickApply
<1>2. /\ TablesOK /\ DataOK(a) /\ EnteredOK(a) /\ hand[a] = Empty /\ Exists(s)
      /\ conv[a] \in Conversations
      /\ UNCHANGED <<service, hand, shownFor, from, added, crossed, byHand, byWeb>>
      /\ unsaved' = [unsaved EXCEPT ![a] = unsaved[a] \cup {s}]
  BY ConversationIs DEF ServicesInv, PickApply, Tap
<1>3. picked \subseteq conv[a].apply \cup Siblings(s)
  BY <1>1 DEF Toggle
<1>4. Siblings(s) \subseteq Ids /\ conv[a].apply \subseteq Ids
  BY <1>2 DEF Siblings, Conversations
<1> DEFINE c == [conv[a] EXCEPT !.apply = picked]
           u == unsaved[a] \cup {s}
<1>5. /\ c \in Conversations /\ c.data = conv[a].data /\ c.state = conv[a].state /\ c.apply = picked
      /\ conv' = [conv EXCEPT ![a] = c] /\ conv'[a] = c
  BY <1>1, <1>2, <1>3, <1>4 DEF Converse, Conversations, TablesOK
<1>6. u \in SUBSET (Ids \cup {New}) /\ unsaved' = [unsaved EXCEPT ![a] = u] /\ unsaved'[a] = u
  BY <1>2 DEF TablesOK
<1>7. shownFor' = [shownFor EXCEPT ![a] = shownFor[a]]
  BY <1>2 DEF TablesOK
<1> HIDE DEF c
<1>8. DataOK(a)'
  BY <1>2, <1>5, <1>6 DEF DataOK
<1>9. \A t \in picked : \E r \in u : r \in Ids \ {t} /\ SameServer(r, t)
  <2> SUFFICES ASSUME NEW t \in picked PROVE \E r \in u : r \in Ids \ {t} /\ SameServer(r, t)
    OBVIOUS
  <2>1. CASE t \in Siblings(s)
    BY <1>2, <2>1 DEF Siblings, SameServer
  <2>2. CASE t \in conv[a].apply
    BY <1>2, <2>2 DEF EnteredOK
  <2>3. QED
    BY <1>3, <2>1, <2>2
<1>10. EnteredOK(a)'
  <2>1. /\ \A r, t \in Ids : SameServer(r, t)' <=> SameServer(r, t)
        /\ \A t \in Ids : (Exists(t) /\ ~IsGuardino(t))' <=> (Exists(t) /\ ~IsGuardino(t))
    BY <1>2 DEF SameServer, Exists, IsGuardino
  <2>2. picked \subseteq Ids
    BY <1>3, <1>4
  <2> HIDE DEF u
  <2>3. /\ conv'[a].apply = picked /\ conv'[a].data = conv[a].data
        /\ unsaved'[a] = u /\ shownFor' = shownFor
    BY <1>2, <1>5, <1>6
  <2>4. QED
    BY <1>2, <1>9, <2>1, <2>2, <2>3 DEF EnteredOK
<1> HIDE DEF u
<1>11. QED
  BY <1>2, <1>5, <1>6, <1>7, <1>8, <1>10, ConversationIs, Conversed

LEMMA ChooseServerOK ==
    ASSUME ServicesInv, NEW a \in Admins, NEW server \in Servers, ChooseServer(a, server)
    PROVE  ServicesInv'
<1>1. /\ TablesOK /\ DataOK(a) /\ EnteredOK(a) /\ hand[a] = Empty /\ conv[a].state = "new server"
      /\ conv[a] \in Conversations /\ conv[a].data \in Datas
      /\ shownFor[a] \in [FormFields -> Ids \cup {Nobody, New}]
      /\ UNCHANGED <<service, hand, from, added, crossed, byHand, byWeb>>
      /\ unsaved' = [unsaved EXCEPT ![a] = unsaved[a] \cup {New}]
  BY ConversationIs DEF ServicesInv, ChooseServer, Tap
<1> DEFINE u == unsaved[a] \cup {New}
<1>2. u \in SUBSET (Ids \cup {New}) /\ unsaved' = [unsaved EXCEPT ![a] = u] /\ unsaved'[a] = u
  BY <1>1 DEF TablesOK
<1>3. PICK d \in Datas, state \in AddStates, n \in [FormFields -> Ids \cup {Nobody, New}] :
         /\ conv' = [conv EXCEPT ![a] = [conv[a] EXCEPT !.state = state, !.data = d]]
         /\ shownFor' = [shownFor EXCEPT ![a] = n]
         /\ state # "new server"
         /\ d.server = server /\ n["server"] = New
         /\ d.expire = conv[a].data.expire /\ n["expire"] = shownFor[a]["expire"]
         /\ d.inbounds = conv[a].data.inbounds /\ n["inbounds"] = shownFor[a]["inbounds"]
         /\ \/ d.nodes = conv[a].data.nodes /\ n["nodes"] = shownFor[a]["nodes"]
            \/ d.nodes = "none" /\ n["nodes"] = New
         /\ state = "new net" /\ server \in Guardino => d.expire # "hours" /\ d.nodes = "none"
  <2> DEFINE d1 == [conv[a].data EXCEPT !.server = server]
             d2 == [d1 EXCEPT !.nodes = "none"]
             n1 == [shownFor[a] EXCEPT !["server"] = New]
             n2 == [n1 EXCEPT !["nodes"] = New]
  <2>1. /\ d1 \in Datas /\ d1.server = server /\ d1.expire = conv[a].data.expire
        /\ d1.inbounds = conv[a].data.inbounds /\ d1.nodes = conv[a].data.nodes
        /\ d2 \in Datas /\ d2.server = server /\ d2.expire = conv[a].data.expire
        /\ d2.inbounds = conv[a].data.inbounds /\ d2.nodes = "none"
    BY <1>1 DEF Datas, Some
  <2>2. /\ n1 \in [FormFields -> Ids \cup {Nobody, New}] /\ n1["server"] = New
        /\ n1["expire"] = shownFor[a]["expire"] /\ n1["inbounds"] = shownFor[a]["inbounds"]
        /\ n1["nodes"] = shownFor[a]["nodes"]
        /\ n2 \in [FormFields -> Ids \cup {Nobody, New}] /\ n2["server"] = New
        /\ n2["expire"] = shownFor[a]["expire"] /\ n2["inbounds"] = shownFor[a]["inbounds"]
        /\ n2["nodes"] = New
    BY <1>1, FieldsAre
  <2>3. /\ "new name" \in AddStates /\ "new net" \in AddStates
        /\ "new name" # "new server" /\ "new net" # "new server" /\ "new name" # "new net"
    BY DEF AddStates
  <2>4. CASE /\ server \in Guardino /\ conv[a].data.expire = "hours"
             /\ conv' = [conv EXCEPT ![a] = [conv[a] EXCEPT !.state = "new name", !.data = d1]]
             /\ shownFor' = [shownFor EXCEPT ![a] = n1]
    <3> HIDE DEF d1, d2, n1, n2
    <3> USE <2>1, <2>2, <2>3
    <3> WITNESS d1 \in Datas, "new name" \in AddStates,
                n1 \in [FormFields -> Ids \cup {Nobody, New}]
    <3>1. QED
      BY <2>1, <2>2, <2>3, <2>4
  <2>5. CASE /\ server \in Guardino /\ conv[a].data.expire # "hours"
             /\ conv' = [conv EXCEPT ![a] = [conv[a] EXCEPT !.state = "new net", !.data = d2]]
             /\ shownFor' = [shownFor EXCEPT ![a] = n2]
    <3> HIDE DEF d1, d2, n1, n2
    <3> USE <2>1, <2>2, <2>3
    <3> WITNESS d2 \in Datas, "new net" \in AddStates, n2 \in [FormFields -> Ids \cup {Nobody, New}]
    <3>1. QED
      BY <2>1, <2>2, <2>3, <2>5
  <2>6. CASE /\ server \in Marzban
             /\ conv' = [conv EXCEPT ![a] = [conv[a] EXCEPT !.state = "new net", !.data = d1]]
             /\ shownFor' = [shownFor EXCEPT ![a] = n1]
    <3> HIDE DEF d1, d2, n1, n2
    <3> USE <2>1, <2>2, <2>3
    <3> WITNESS d1 \in Datas, "new net" \in AddStates, n1 \in [FormFields -> Ids \cup {Nobody, New}]
    <3>1. QED
      BY <2>1, <2>2, <2>3, <2>6, ServicesAssumption
  <2>7. QED
    BY <1>1, <2>4, <2>5, <2>6 DEF ChooseServer, Converse, Conversations, Datas
<1> DEFINE c == [conv[a] EXCEPT !.state = state, !.data = d]
<1>4. /\ c \in Conversations /\ c.data = d /\ c.state = state /\ c.apply = conv[a].apply
      /\ conv' = [conv EXCEPT ![a] = c] /\ conv'[a] = c /\ shownFor'[a] = n
  BY <1>1, <1>3 DEF Conversations, TablesOK
<1> HIDE DEF c, u
<1>5. DataOK(a)'
  <2>1. \A f \in FormFields : d[f] # Unset => n[f] \in u
    BY <1>1, <1>3, FieldsAre DEF DataOK, u
  <2>2. server # Unset
    BY ServicesAssumption DEF Servers
  <2>3. "none" # Unset
    BY DEF Unset
  <2>4. New \in u
    BY DEF u
  <2>5. QED
    BY <1>1, <1>2, <1>3, <1>4, <2>1, <2>2, <2>3, <2>4 DEF DataOK
<1>6. EnteredOK(a)'
  <2>1. /\ \A r, t \in Ids : SameServer(r, t)' <=> SameServer(r, t)
        /\ \A t \in Ids : (Exists(t) /\ ~IsGuardino(t))' <=> (Exists(t) /\ ~IsGuardino(t))
    BY <1>1 DEF SameServer, Exists, IsGuardino
  <2>2. unsaved[a] \subseteq u /\ conv[a].apply \subseteq Ids
    BY <1>1 DEF u, Conversations
  <2>3. QED
    BY <1>1, <1>2, <1>3, <1>4, <2>1, <2>2 DEF EnteredOK
<1>7. QED
  BY <1>1, <1>2, <1>3, <1>4, <1>5, <1>6, Conversed

\* A row is taken in hand.
LEMMA Taken ==
    ASSUME ServicesInv, UNCHANGED <<service, conv, servicesGhosts>>,
           NEW x \in Actors, NEW h \in Hands, hand' = [hand EXCEPT ![x] = h],
           Exists(h.to), h.what = "form" => x \in Admins,
           \/ h.what = "form" /\ ~(unsaved[x] \subseteq {h.to})
           \/ h.to \in crossed
           \/ /\ h.row.server = service[h.to].server
              /\ x \in Admins /\ h.to \notin byWeb => WholeRow(h.row),
           x \in Admins /\ h.to \notin byWeb =>
              /\ OneAtMost(h.row.audience)
              /\ h.to \in byHand \/ h.what = "renewable" \/ RightRenewal(h.row)
    PROVE  ServicesInv'
<1>1. UNCHANGED <<service, conv, shownFor, unsaved, from, added, crossed, byHand, byWeb>>
      /\ TablesOK
  BY DEF ServicesInv, servicesGhosts
<1>2. /\ hand' \in [Actors -> Hands \cup {Empty}] /\ hand'[x] = h
      /\ \A y \in Actors \ {x} : hand'[y] = hand[y]
  BY <1>1 DEF TablesOK
<1>3. TablesOK' /\ LandsWhereTyped' /\ (\A s \in Ids : RowOK(s))'
  BY <1>1, <1>2 DEF ServicesInv, TablesOK, LandsWhereTyped, RowOK, Exists, Siblings
<1>4. Kept
  BY <1>1, NothingHappened
<1>5. \A a \in Admins : DataOK(a)' /\ EnteredOK(a)'
  BY <1>1, <1>4, ConversationStays DEF ServicesInv, TablesOK
<1>6. HandOK(x)'
  <2>1. Crosses(x)' <=> h.what = "form" /\ ~(unsaved[x] \subseteq {h.to})
    BY <1>1, <1>2 DEF Crosses
  <2>2. service[h.to] # Absent
    BY DEF Exists
  <2>3. HandOK(x)' <=>
          /\ service[h.to] # Absent
          /\ h.what = "form" => x \in Admins
          /\ Crosses(x)' \/ h.to \in crossed \/ ~Exists(h.to) \/ h.row.server = service[h.to].server
          /\ x \in Admins /\ h.to \notin byWeb =>
                /\ OneAtMost(h.row.audience)
                /\ h.to \in byHand \/ h.what = "renewable" \/ RightRenewal(h.row)
                /\ h.to \in crossed \/ Crosses(x)' \/ WholeRow(h.row)
    BY <1>1, <1>2, Settled DEF HandOK, Exists
  <2>4. QED
    BY <2>1, <2>2, <2>3
<1>7. \A y \in Actors : HandOK(y)'
  BY <1>1, <1>2, <1>4, <1>6, HandStays DEF ServicesInv, TablesOK
<1>8. QED
  BY <1>3, <1>5, <1>7 DEF ServicesInv

\* The values of a form on a row.
LEMMA OntoIs ==
    ASSUME NEW r \in Rows, NEW c \in Conversations
    PROVE  /\ Onto(r, c) \in Rows
           /\ Onto(r, c).audience = r.audience /\ Onto(r, c).free = r.free
           /\ Onto(r, c).renewable = r.renewable
           /\ Onto(r, c).expire = IF c.data.expire # Unset THEN c.data.expire ELSE r.expire
           /\ Onto(r, c).server = IF c.data.server # Unset THEN c.data.server ELSE r.server
<1>1. DOMAIN r = {"expire", "nodes", "inbounds", "server", "audience", "free", "renewable"}
  BY DEF Rows
<1>2. Given(c) = {f \in {"expire", "inbounds", "server"} : c.data[f] # Unset}
  BY FieldsAre DEF Given
<1>3. c.data \in Datas
  BY DEF Conversations
<1> DEFINE o == Onto(r, c)
<1>4. o = [f \in {"expire", "nodes", "inbounds", "server", "audience", "free", "renewable"} |->
             IF f \in Given(c) THEN c.data[f] ELSE r[f]]
  BY <1>1 DEF Onto
<1>5. o = [expire |-> IF c.data.expire # Unset THEN c.data.expire ELSE r.expire,
           nodes |-> r.nodes,
           inbounds |-> IF c.data.inbounds # Unset THEN c.data.inbounds ELSE r.inbounds,
           server |-> IF c.data.server # Unset THEN c.data.server ELSE r.server,
           audience |-> r.audience, free |-> r.free, renewable |-> r.renewable]
  BY <1>2, <1>4
<1> HIDE DEF o
<1>6. o \in Rows
  BY <1>3, <1>5 DEF Datas, Rows
<1>7. QED
  BY <1>5, <1>6 DEF o

LEMMA SaveFormOK ==
    ASSUME ServicesInv, NEW a \in Admins, NEW s \in Ids, SaveForm(a, s)
    PROVE  ServicesInv'
<1>1. /\ TablesOK /\ DataOK(a) /\ EnteredOK(a) /\ RowOK(s) /\ hand[a] = Empty /\ Exists(s)
      /\ a \in Actors
      /\ conv[a] \in Conversations /\ conv[a].data \in Datas
      /\ UNCHANGED <<service, conv, servicesGhosts>>
  BY ConversationIs DEF ServicesInv, SaveForm, Tap, Actors
<1>2. CASE UNCHANGED hand
  BY <1>1, <1>2, Unmoved
<1>3. CASE TakeRow(a, s, Onto(service[s], conv[a]), "form")
  <2> DEFINE o == Onto(service[s], conv[a])
             h == [to |-> s, row |-> o, what |-> "form"]
  <2>1. /\ o \in Rows /\ o.audience = service[s].audience /\ o.free = service[s].free
        /\ o.renewable = service[s].renewable
        /\ o.expire = IF conv[a].data.expire # Unset THEN conv[a].data.expire ELSE service[s].expire
        /\ o.server = IF conv[a].data.server # Unset THEN conv[a].data.server ELSE service[s].server
    BY <1>1, RowIs, OntoIs
  <2> HIDE DEF o
  <2>2. h \in Hands /\ h.to = s /\ h.row = o /\ h.what = "form" /\ hand' = [hand EXCEPT ![a] = h]
    BY <1>3, <2>1 DEF Hands, Presses, TakeRow, o
  <2>3. ASSUME unsaved[a] \subseteq {s}, s \notin crossed
        PROVE  o.server = service[s].server /\ (s \notin byWeb => WholeRow(o))
    <3>1. conv[a].data.server = Unset
      BY <1>1, <2>3, ServicesAssumption DEF DataOK
    <3>2. o.server = service[s].server
      BY <2>1, <3>1
    <3>3. conv[a].data.expire # Unset => shownFor[a]["expire"] = s
      BY <1>1, <2>3, FieldsAre DEF DataOK
    <3>4. conv[a].data.expire = "hours" => service[s].server \notin Guardino
      <4>1. "hours" # Unset
        BY DEF Unset
      <4>2. QED
        BY <1>1, <2>3, <3>3, <4>1 DEF EnteredOK, Exists, IsGuardino
    <3>5. s \notin byWeb => WholeRow(service[s])
      BY <1>1, <2>3 DEF RowOK
    <3>6. s \notin byWeb => WholeRow(o)
      BY <2>1, <3>2, <3>4, <3>5 DEF WholeRow
    <3>7. QED
      BY <3>2, <3>6
  <2>4. s \notin byWeb => OneAtMost(o.audience) /\ (s \in byHand \/ RightRenewal(o))
    BY <1>1, <2>1 DEF RowOK, RightRenewal
  <2> HIDE DEF h
  <2>5. QED
    BY <1>1, <2>2, <2>3, <2>4, Taken
<1>4. QED
  BY <1>2, <1>3 DEF SaveForm

\* A switch of a row, or a change of the panel's.
LEMMA Turned ==
    ASSUME ServicesInv, UNCHANGED <<service, conv, servicesGhosts>>, NEW x \in Actors,
           NEW s \in Ids, Exists(s), NEW r \in Rows,
           NEW what \in Presses \ {"form"}, TakeRow(x, s, r, what),
           r.server = service[s].server,
           x \in Admins => /\ r.expire = service[s].expire
                           /\ OneAtMost(service[s].audience) => OneAtMost(r.audience)
                           /\ RightRenewal(service[s]) => what = "renewable" \/ RightRenewal(r)
    PROVE  ServicesInv'
<1> DEFINE h == [to |-> s, row |-> r, what |-> what]
<1>1. h \in Hands /\ h.to = s /\ h.row = r /\ h.what = what /\ hand' = [hand EXCEPT ![x] = h]
  BY DEF Hands, TakeRow
<1>2. RowOK(s)
  BY DEF ServicesInv
<1>3. s \in crossed \/ (x \in Admins /\ s \notin byWeb => WholeRow(r))
  <2>1. ASSUME x \in Admins, s \notin byWeb, s \notin crossed PROVE WholeRow(r)
    <3>1. WholeRow(service[s])
      BY <1>2, <2>1, Zenon DEF RowOK
    <3>2. r.expire = service[s].expire
      BY <2>1
    <3>3. QED
      BY <3>1, <3>2 DEF WholeRow
  <2>2. QED
    BY <2>1, Zenon
<1>4. x \in Admins /\ s \notin byWeb => /\ OneAtMost(r.audience)
                                        /\ s \in byHand \/ what = "renewable" \/ RightRenewal(r)
  BY <1>2, Zenon DEF RowOK
<1> HIDE DEF h
<1>5. h.what # "form" /\ Exists(h.to)
  BY <1>1
<1>6. \/ h.to \in crossed
      \/ /\ h.row.server = service[h.to].server
         /\ x \in Admins /\ h.to \notin byWeb => WholeRow(h.row)
  BY <1>1, <1>3, Zenon
<1>7. x \in Admins /\ h.to \notin byWeb =>
              /\ OneAtMost(h.row.audience)
              /\ h.to \in byHand \/ h.what = "renewable" \/ RightRenewal(h.row)
  BY <1>1, <1>4, Zenon
<1>8. QED
  BY <1>1, <1>5, <1>6, <1>7, Taken

LEMMA FlipOK ==
    ASSUME ServicesInv, NEW a \in Admins, NEW s \in Ids, Flip(a, s)
    PROVE  ServicesInv'
<1>1. /\ a \in Actors /\ Exists(s) /\ UNCHANGED <<service, conv, servicesGhosts>>
      /\ service[s] \in Rows
  BY RowIs DEF ServicesInv, Flip, Actors
<1>2. {"audience", "free", "renewable", "other"} \subseteq Presses \ {"form"}
  BY DEF Presses
<1>3. ASSUME NEW flag \in Audiences, TakeRow(a, s, Turn(service[s], flag), "audience")
      PROVE  ServicesInv'
  <2> DEFINE r == Turn(service[s], flag)
  <2>1. /\ r \in Rows /\ r.server = service[s].server /\ r.expire = service[s].expire
        /\ r.audience \subseteq {flag} /\ r.free = service[s].free
        /\ r.renewable = service[s].renewable
    BY <1>1 DEF Turn, Rows
  <2>2. OneAtMost(r.audience) /\ (RightRenewal(service[s]) => RightRenewal(r))
    BY <2>1 DEF OneAtMost, RightRenewal
  <2> HIDE DEF r
  <2>3. TakeRow(a, s, r, "audience")
    BY <1>3 DEF r
  <2>4. QED
    BY <1>1, <1>2, <2>1, <2>2, <2>3, Turned
<1>4. ASSUME NEW flag \in Free, TakeRow(a, s, TurnFree(service[s], flag), "free")
      PROVE  ServicesInv'
  <2> DEFINE r == TurnFree(service[s], flag)
  <2>1. /\ r \in Rows /\ r.server = service[s].server /\ r.expire = service[s].expire
        /\ r.audience = service[s].audience
        /\ flag \in service[s].free => r.free \subseteq service[s].free
           /\ r.renewable = service[s].renewable
        /\ flag \notin service[s].free => r.renewable = FALSE
    BY <1>1 DEF TurnFree, Rows
  <2>2. RightRenewal(service[s]) => RightRenewal(r)
    BY <2>1 DEF RightRenewal
  <2> HIDE DEF r
  <2>3. TakeRow(a, s, r, "free")
    BY <1>4 DEF r
  <2>4. QED
    BY <1>1, <1>2, <2>1, <2>2, <2>3, Turned
<1>5. CASE TakeRow(a, s, TurnRenewable(service[s]), "renewable")
  <2> DEFINE r == TurnRenewable(service[s])
  <2>1. ASSUME NEW e \in BOOLEAN
        PROVE  LET k == [service[s] EXCEPT !.renewable = e]
               IN  /\ k \in Rows /\ k.server = service[s].server /\ k.expire = service[s].expire
                   /\ k.audience = service[s].audience
    BY <1>1 DEF Rows
  <2>2. (~service[s].renewable) \in BOOLEAN
    BY Zenon
  <2>3. /\ r \in Rows /\ r.server = service[s].server /\ r.expire = service[s].expire
        /\ r.audience = service[s].audience
    BY <2>1, <2>2, Zenon DEF TurnRenewable
  <2> HIDE DEF r
  <2>4. TakeRow(a, s, r, "renewable")
    BY <1>5 DEF r
  <2>5. QED
    BY <1>1, <1>2, <2>3, <2>4, Turned
<1>6. CASE TakeRow(a, s, TurnOther(service[s]), "other")
  <2>1. TakeRow(a, s, service[s], "other")
    BY <1>6 DEF TurnOther
  <2>2. QED
    BY <1>1, <1>2, <2>1, Turned
<1>7. QED
  BY <1>3, <1>4, <1>5, <1>6 DEF Flip

LEMMA PatchOK ==
    ASSUME ServicesInv, NEW s \in Ids, Patch(s)
    PROVE  ServicesInv'
<1>1. /\ Web \in Actors /\ Web \notin Admins /\ Exists(s)
      /\ UNCHANGED <<service, conv, servicesGhosts>>
      /\ service[s] \in Rows
  BY RowIs, ServicesAssumption DEF ServicesInv, Patch, Actors
<1>2. PICK r \in Rows : r.server = service[s].server /\ TakeRow(Web, s, r, "patch")
  <2>1. ASSUME NEW e \in Values.expire, TakeRow(Web, s, [service[s] EXCEPT !.expire = e], "patch")
        PROVE  \E r \in Rows : r.server = service[s].server /\ TakeRow(Web, s, r, "patch")
    <3>1. [service[s] EXCEPT !.expire = e] \in Rows
          /\ [service[s] EXCEPT !.expire = e].server = service[s].server
      BY <1>1 DEF Rows
    <3>2. QED
      BY <2>1, <3>1
  <2>2. ASSUME NEW set \in SUBSET Audiences, TakeRow(Web, s, [service[s] EXCEPT !.audience = set],
               "patch")
        PROVE  \E r \in Rows : r.server = service[s].server /\ TakeRow(Web, s, r, "patch")
    <3>1. [service[s] EXCEPT !.audience = set] \in Rows
          /\ [service[s] EXCEPT !.audience = set].server = service[s].server
      BY <1>1 DEF Rows
    <3>2. QED
      BY <2>2, <3>1
  <2>3. QED
    BY <2>1, <2>2 DEF Patch
<1>3. "patch" \in Presses \ {"form"}
  BY DEF Presses
<1>4. QED
  BY <1>1, <1>2, <1>3, Turned

\* A step that writes the table: the conversations and the rows in hand stay, or are dropped.
LEMMA Wrote ==
    ASSUME ServicesInv, Kept, TablesOK', UNCHANGED shownFor, added \subseteq added',
           \A b \in Admins : \/ conv'[b] = Closed /\ hand'[b] = Empty
                             \/ conv'[b] = conv[b] /\ unsaved'[b] = unsaved[b],
           \A y \in Actors : hand'[y] = hand[y] \/ hand'[y] = Empty,
           \A s \in Ids : RowOK(s)',
           \A s \in Ids, f \in FormFields :
              \/ s \in crossed' \/ ~Exists(s)' \/ LandsOK(s, f)'
              \/ from'[s][f] = from[s][f] /\ Exists(s)
    PROVE  ServicesInv'
<1>1. ASSUME NEW a \in Admins PROVE DataOK(a)' /\ EnteredOK(a)'
  <2>1. CASE conv'[a] = Closed
    BY <2>1, Cleared
  <2>2. CASE conv'[a] = conv[a] /\ unsaved'[a] = unsaved[a]
    BY <2>2, ConversationStays DEF ServicesInv, TablesOK
  <2>3. QED
    BY <2>1, <2>2
<1>2. ASSUME NEW x \in Actors PROVE HandOK(x)'
  <2>1. CASE hand'[x] = Empty
    BY <2>1 DEF HandOK
  <2>2. CASE hand'[x] = hand[x] /\ hand'[x] # Empty
    BY <2>2, HandStays DEF ServicesInv, TablesOK
  <2>3. QED
    BY <2>1, <2>2
<1>3. ASSUME NEW s \in Ids, NEW f \in FormFields, s \notin crossed', Exists(s)'
      PROVE  LandsOK(s, f)'
  <2>1. CASE from'[s][f] = from[s][f] /\ Exists(s)
    <3>1. LandsOK(s, f)
      BY <1>3, <2>1 DEF ServicesInv, LandsWhereTyped, LandsOK, Kept
    <3>2. QED
      BY <1>3, <2>1, <3>1, LandsStays
  <2>2. QED
    BY <1>3, <2>1
<1>4. LandsWhereTyped'
  BY <1>3 DEF LandsWhereTyped, LandsOK
<1>5. QED
  BY <1>1, <1>2, <1>4 DEF ServicesInv

\* Rows that are there are neither absent nor gone.
LEMMA ThereIs ==
    ASSUME NEW s, service'[s] \in Rows
    PROVE  Exists(s)' /\ service'[s] # Absent /\ service'[s] # Gone
  BY Settled DEF Exists

LEMMA RemoveOK ==
    ASSUME ServicesInv, NEW x, NEW s \in Ids, RemoveRow(x, s)
    PROVE  ServicesInv'
<1>1. /\ TablesOK /\ Exists(s) /\ service' = [service EXCEPT ![s] = Gone]
      /\ UNCHANGED <<conv, hand, shownFor, unsaved, from, added, crossed, byHand, byWeb>>
  BY DEF ServicesInv, RemoveRow, servicesGhosts
<1>2. service'[s] = Gone /\ \A t \in Ids \ {s} : service'[t] = service[t]
  BY <1>1 DEF TablesOK
<1>3. Kept
  BY <1>1, <1>2, Settled DEF Kept, Exists
<1>4. TablesOK'
  BY <1>1 DEF TablesOK
<1>5. \A t \in Ids : RowOK(t)'
  BY <1>1, <1>2, Settled DEF ServicesInv, RowOK, Exists
<1>6. \A t \in Ids, f \in FormFields : ~Exists(t)' \/ (from'[t][f] = from[t][f] /\ Exists(t))
  BY <1>1, <1>2 DEF Exists
<1>7. QED
  BY <1>1, <1>3, <1>4, <1>5, <1>6, Wrote

LEMMA AppearOK ==
    ASSUME ServicesInv, NEW s \in Ids, NEW r \in Rows, Appear(s, r)
    PROVE  ServicesInv'
<1>1. /\ TablesOK /\ service[s] = Absent /\ service' = [service EXCEPT ![s] = r]
      /\ byWeb' = byWeb \cup {s}
      /\ UNCHANGED <<conv, hand, shownFor, unsaved, from, added, crossed, byHand>>
  BY DEF ServicesInv, Appear
<1>2. service'[s] = r /\ \A t \in Ids \ {s} : service'[t] = service[t]
  BY <1>1 DEF TablesOK
<1>3. Kept
  BY <1>1, <1>2, Settled DEF Kept, Exists
<1>4. TablesOK'
  BY <1>1 DEF TablesOK
<1>5. \A t \in Ids : RowOK(t)'
  BY <1>1, <1>2, Settled DEF ServicesInv, RowOK, Exists
<1>6. \A f \in FormFields : LandsOK(s, f)'
  BY <1>1 DEF ServicesInv, RowOK, LandsOK
<1>7. \A t \in Ids, f \in FormFields :
         LandsOK(t, f)' \/ ~Exists(t)' \/ (from'[t][f] = from[t][f] /\ Exists(t))
  BY <1>1, <1>2, <1>6 DEF Exists
<1>8. QED
  BY <1>1, <1>3, <1>4, <1>5, <1>7, Wrote

LEMMA PanelMakesOK ==
    ASSUME ServicesInv, NEW s \in Ids, CreateService(s) \/ DuplicateService(s)
    PROVE  ServicesInv'
<1>1. ASSUME NEW e \in Values.expire, NEW server \in Servers,
             NEW set \in SUBSET {"users", "resellers"}
      PROVE  [Plain(server) EXCEPT !.expire = e, !.audience = set] \in Rows
  <2> DEFINE p == Plain(server)
             r == [p EXCEPT !.expire = e]
  <2>1. p \in Rows
    BY FirstRow
  <2> HIDE DEF p
  <2>2. r \in Rows
    BY <2>1, FieldsAre DEF Rows
  <2> HIDE DEF r
  <2>3. [r EXCEPT !.audience = set] \in Rows
    BY <2>2 DEF Rows, Audiences
  <2>4. QED
    BY <2>3 DEF r, p
<1>2. QED
  BY <1>1, RowIs, AppearOK DEF CreateService, DuplicateService, ServicesInv

\* A row with another network.
LEMMA NetRow ==
    ASSUME NEW r \in Rows, NEW f \in {"nodes", "inbounds"}, NEW v \in Some,
           NEW k, k = [r EXCEPT ![f] = v]
    PROVE  /\ k \in Rows /\ k.server = r.server /\ k.expire = r.expire
           /\ k.audience = r.audience /\ k.free = r.free /\ k.renewable = r.renewable
<1>1. CASE f = "nodes"
  BY <1>1 DEF Rows
<1>2. CASE f = "inbounds"
  BY <1>2 DEF Rows
<1>3. QED
  BY <1>1, <1>2

\* Stored values come from what was entered; crossed ones are marked.
StoredWell(a, s, to, fields) ==
    /\ from' \in [Ids -> [FormFields -> Ids \cup {Nobody, New}]]
    /\ \A t \in Ids, f \in FormFields :
          IF t \in to /\ f \in fields
          THEN from'[t][f] \in {Nobody, s} \/ t \in crossed'
          ELSE from'[t][f] = from[t][f]
    /\ ~(unsaved[a] \subseteq {s}) => to \subseteq crossed'
    /\ crossed \subseteq crossed' /\ crossed' \subseteq crossed \cup to
    /\ unsaved' = [unsaved EXCEPT ![a] = {}]
LEMMA StoredIs ==
    ASSUME TablesOK, NEW a \in Admins, DataOK(a), NEW s, NEW to,
           NEW fields, Stored(a, s, to, fields)
    PROVE  StoredWell(a, s, to, fields)
<1>1. /\ unsaved' = [unsaved EXCEPT ![a] = {}]
      /\ crossed' = crossed \cup (IF unsaved[a] \subseteq {s} THEN {} ELSE to)
  BY DEF Stored
<1>2. \A t \in Ids, f \in FormFields :
         from'[t][f] = IF t \notin to \/ f \notin fields THEN from[t][f]
                       ELSE IF conv[a].data[f] = Unset THEN Nobody ELSE shownFor[a][f]
  BY DEF Stored
<1>3. /\ shownFor[a] \in [FormFields -> Ids \cup {Nobody, New}]
      /\ from \in [Ids -> [FormFields -> Ids \cup {Nobody, New}]]
  BY DEF TablesOK
<1>4. from' = [t \in Ids |-> [f \in FormFields |->
                 IF t \notin to \/ f \notin fields THEN from[t][f]
                 ELSE IF conv[a].data[f] = Unset THEN Nobody ELSE shownFor[a][f]]]
  BY DEF Stored
<1>5. \A t \in Ids, f \in FormFields :
         (IF t \notin to \/ f \notin fields THEN from[t][f]
          ELSE IF conv[a].data[f] = Unset THEN Nobody ELSE shownFor[a][f])
                \in Ids \cup {Nobody, New}
  BY <1>3
<1>6. from' \in [Ids -> [FormFields -> Ids \cup {Nobody, New}]]
  BY <1>4, <1>5
<1>7. ASSUME NEW t \in Ids, NEW f \in FormFields
      PROVE  IF t \in to /\ f \in fields
             THEN from'[t][f] \in {Nobody, s} \/ t \in crossed'
             ELSE from'[t][f] = from[t][f]
  <2>1. CASE t \in to /\ f \in fields
    BY <1>1, <1>2, <2>1 DEF DataOK
  <2>2. CASE ~(t \in to /\ f \in fields)
    BY <1>2, <2>2
  <2>3. QED
    BY <2>1, <2>2
<1>8. QED
  BY <1>1, <1>6, <1>7 DEF StoredWell

LEMMA SaveNetOK ==
    ASSUME ServicesInv, NEW a \in Admins, NEW s \in Ids, SaveNet(a, s)
    PROVE  ServicesInv'
<1> DEFINE c == conv[a]
           f == Net(service[s].server)
           to == {t \in {s} \cup c.apply : Exists(t)}
           net == IF c.data[f] = Unset THEN "none" ELSE c.data[f]
<1>1. /\ TablesOK /\ DataOK(a) /\ EnteredOK(a) /\ hand[a] = Empty /\ Exists(s)
      /\ UNCHANGED <<hand, shownFor, added, byHand, byWeb>>
      /\ c \in Conversations /\ c.data \in Datas /\ c.apply \subseteq Ids
  BY ConversationIs DEF ServicesInv, SaveNet, Tap
<1>2. CASE UNCHANGED <<service, conv, unsaved, crossed, from>>
  BY <1>1, <1>2, Unmoved DEF servicesGhosts
<1>3. CASE /\ service' = [t \in Ids |->
                 IF t \in to THEN [service[t] EXCEPT ![f] = net] ELSE service[t]]
           /\ Converse(a, Clear(c)) /\ Stored(a, s, to, {f})
  <2>1. f \in {"nodes", "inbounds"} /\ f \in FormFields
    BY NetIs
  <2>2. c.data[f] \in Some \cup {Unset}
    BY <1>1, <2>1 DEF Datas
  <2>3. net \in Some
    BY <2>2 DEF Some
  <2> HIDE DEF net
  <2>4. to \subseteq Ids /\ s \in to
    BY <1>1
  <2>5. ASSUME NEW t \in to
        PROVE  /\ service[t] \in Rows /\ service'[t] \in Rows
               /\ service'[t].server = service[t].server /\ service'[t].expire = service[t].expire
               /\ service'[t].audience = service[t].audience /\ service'[t].free = service[t].free
               /\ service'[t].renewable = service[t].renewable
    <3>1. service'[t] = [service[t] EXCEPT ![f] = net]
      BY <1>3, <2>4
    <3>2. service[t] \in Rows
      BY <1>1, <2>4, RowIs
    <3> HIDE DEF f, to
    <3>3. QED
      BY <2>1, <2>3, <3>1, <3>2, NetRow
  <2>6. \A t \in Ids \ to : service'[t] = service[t]
    BY <1>3
  <2>7. /\ from' \in [Ids -> [FormFields -> Ids \cup {Nobody, New}]]
        /\ \A t \in Ids, g \in FormFields :
                 IF t \in to /\ g \in {f}
                 THEN from'[t][g] \in {Nobody, s} \/ t \in crossed'
                 ELSE from'[t][g] = from[t][g]
        /\ ~(unsaved[a] \subseteq {s}) => to \subseteq crossed'
        /\ crossed \subseteq crossed' /\ unsaved' = [unsaved EXCEPT ![a] = {}]
    <3>1. Stored(a, s, to, {f})
      BY <1>3
    <3> HIDE DEF f, to
    <3>2. QED
      <4>1. StoredWell(a, s, to, {f})
        BY <1>1, <3>1, StoredIs
      <4>2. QED
        BY <4>1 DEF StoredWell
  <2>8. \A t \in to : Exists(t) /\ Exists(t)' /\ service'[t] # Absent /\ service'[t] # Gone
    BY <2>5, ThereIs
  <2>9. Kept
    BY <1>1, <2>5, <2>6, <2>7, <2>8 DEF Kept, Exists
  <2>10. conv' = [conv EXCEPT ![a] = Closed]
    BY <1>3 DEF Converse, Clear
  <2>11. TablesOK'
    <3>1. service' \in [Ids -> Rows \cup {Absent, Gone}]
      <4>1. \A t \in Ids : service'[t] \in Rows \cup {Absent, Gone}
        BY <1>1, <2>5, <2>6 DEF TablesOK
      <4>2. service' = [t \in Ids |-> service'[t]]
        BY <1>3
      <4>3. QED
        BY <4>1, <4>2
    <3>2. conv' \in [Admins -> Conversations]
      BY <1>1, <2>10, ClosedIs DEF TablesOK
    <3>3. QED
      BY <1>1, <2>7, <3>1, <3>2 DEF TablesOK
  <2>12. \A t \in Ids : RowOK(t)'
    <3> SUFFICES ASSUME NEW t \in Ids PROVE RowOK(t)'
      OBVIOUS
    <3>1. RowOK(t)
      BY DEF ServicesInv
    <3>2. CASE t \in to
      <4>1. Exists(t) /\ service'[t] # Absent
        BY <2>8, <3>2
      <4>2. QED
        BY <1>1, <2>5, <2>7, <3>1, <3>2, <4>1 DEF RowOK, RightRenewal, WholeRow
    <3>3. CASE t \notin to
      <4>1. \A g \in FormFields : from'[t][g] = from[t][g]
        BY <2>7, <3>3
      <4>2. service'[t] = service[t] /\ crossed \subseteq crossed'
        BY <2>6, <2>7, <3>3
      <4>3. QED
        BY <1>1, <3>1, <4>1, <4>2 DEF RowOK, Exists
    <3>4. QED
      BY <3>2, <3>3
  <2>13. ASSUME NEW t \in Ids, NEW g \in FormFields, t \notin crossed', Exists(t)'
         PROVE  LandsOK(t, g)' \/ (from'[t][g] = from[t][g] /\ Exists(t))
    <3>1. CASE t \notin to \/ g # f
      <4>1. Exists(t)
        BY <2>6, <2>8, <2>13 DEF Exists
      <4>2. QED
        BY <2>7, <3>1, <4>1
    <3>2. CASE t \in to /\ g = f
      <4>1. from'[t][g] \in {Nobody, s} /\ unsaved[a] \subseteq {s}
        BY <2>7, <2>13, <3>2
      <4>2. CASE t = s \/ from'[t][g] = Nobody
        BY <4>1, <4>2 DEF LandsOK
      <4>3. CASE t # s /\ from'[t][g] = s
        <5>1. SameServer(s, t)
          BY <1>1, <3>2, <4>1, <4>3 DEF EnteredOK
        <5>2. s \in crossed' \/ service[s].server = service[t].server
          BY <1>1, <2>7, <2>8, <2>13, <3>2, <5>1 DEF SameServer, Exists
        <5>3. CASE s \in crossed'
          BY <4>3, <5>3 DEF LandsOK
        <5>4. CASE service[s].server = service[t].server
          <6>1. /\ service'[s].server = service[s].server /\ service'[t].server = service[t].server
                /\ Exists(s)'
            BY <2>4, <2>5, <2>8, <3>2
          <6>2. s \in Siblings(t)'
            BY <4>3, <5>4, <6>1 DEF Siblings
          <6>3. g = Net(service'[t].server)
            BY <3>2, <5>4, <6>1
          <6>4. QED
            BY <4>3, <6>2, <6>3 DEF LandsOK
        <5>5. QED
          BY <5>2, <5>3, <5>4
      <4>4. QED
        BY <4>1, <4>2, <4>3
    <3>3. QED
      BY <3>1, <3>2
  <2>14. \A b \in Admins : \/ conv'[b] = Closed /\ hand'[b] = Empty
                           \/ conv'[b] = conv[b] /\ unsaved'[b] = unsaved[b]
    BY <1>1, <2>7, <2>10 DEF TablesOK
  <2>15. QED
    BY <1>1, <2>9, <2>11, <2>12, <2>13, <2>14, Wrote
<1>4. QED
  BY <1>2, <1>3 DEF SaveNet

LEMMA SaveNewOK ==
    ASSUME ServicesInv, NEW a \in Admins, NEW s \in Ids, SaveNew(a, s)
    PROVE  ServicesInv'
<1> DEFINE r == NewRow(conv[a].data)
<1>1. /\ TablesOK /\ DataOK(a) /\ hand[a] = Empty /\ service[s] = Absent
      /\ conv[a].state = "new net"
      /\ conv[a].data \in Datas
      /\ conv[a].data.server \in Marzban => conv[a].data.inbounds = "some"
      /\ service' = [service EXCEPT ![s] = r] /\ conv' = [conv EXCEPT ![a] = Closed]
      /\ Stored(a, New, {s}, FormFields) /\ added' = added \cup {s}
      /\ UNCHANGED <<hand, shownFor, byHand, byWeb>>
  BY ConversationIs DEF ServicesInv, SaveNew, Tap, Converse, Clear
<1>2. /\ r \in Rows /\ r.audience = {} /\ r.free = {} /\ WholeRow(r)
  <2> DEFINE d == conv[a].data
             p == Plain(d.server)
             nodes == IF d.server \in Guardino THEN d.nodes ELSE "none"
             inbounds == IF d.server \in Guardino THEN "none" ELSE d.inbounds
  <2>1. /\ d.server # Unset /\ d.expire # Unset /\ d.server \in Servers
        /\ d.expire \in {"hours", "days"}
        /\ d.server \in Guardino => d.expire # "hours" /\ d.nodes # Unset
    BY <1>1, FieldsAre DEF DataOK, Datas
  <2>2. nodes \in Some /\ inbounds \in Some
    BY <1>1, <2>1 DEF Datas, Some, Servers
  <2>3. p \in Rows /\ p.server = d.server /\ p.audience = {} /\ p.free = {}
    BY <2>1, FirstRow
  <2>4. r = [[[p EXCEPT !.expire = d.expire] EXCEPT !.nodes = nodes] EXCEPT !.inbounds = inbounds]
    BY DEF NewRow
  <2> HIDE DEF r, p, nodes, inbounds
  <2>5. r \in Rows /\ r.server = d.server /\ r.audience = {} /\ r.free = {} /\ r.expire = d.expire
    <3> DEFINE p1 == [p EXCEPT !.expire = d.expire]
               p2 == [p1 EXCEPT !.nodes = nodes]
    <3>1. p1 \in Rows /\ p1.server = d.server /\ p1.audience = {} /\ p1.free = {}
          /\ p1.expire = d.expire
      BY <2>1, <2>3, FieldsAre DEF Rows
    <3> HIDE DEF p1
    <3>2. p2 \in Rows /\ p2.server = d.server /\ p2.audience = {} /\ p2.free = {}
          /\ p2.expire = d.expire
      BY <2>2, <3>1 DEF Rows
    <3> HIDE DEF p2
    <3>3. r = [p2 EXCEPT !.inbounds = inbounds]
      BY <2>4 DEF p1, p2
    <3>4. QED
      BY <2>2, <3>2, <3>3 DEF Rows
  <2>6. QED
    BY <2>1, <2>5 DEF WholeRow
<1> HIDE DEF r
<1>3. service'[s] = r /\ \A t \in Ids \ {s} : service'[t] = service[t]
  BY <1>1 DEF TablesOK
<1>4. /\ from' \in [Ids -> [FormFields -> Ids \cup {Nobody, New}]]
      /\ \A t \in Ids, f \in FormFields :
            IF t \in {s} /\ f \in FormFields
            THEN from'[t][f] \in {Nobody, New} \/ t \in crossed'
            ELSE from'[t][f] = from[t][f]
      /\ crossed \subseteq crossed' /\ crossed' \subseteq crossed \cup {s}
      /\ unsaved' = [unsaved EXCEPT ![a] = {}]
  <2>1. StoredWell(a, New, {s}, FormFields)
    BY <1>1, StoredIs
  <2>2. QED
    BY <2>1 DEF StoredWell
<1>5. Exists(s)' /\ service'[s] # Absent
  BY <1>2, <1>3, ThereIs
<1>6. Kept
  BY <1>1, <1>3, <1>4, <1>5, Settled DEF Kept, Exists
<1>7. TablesOK'
  BY <1>1, <1>2, <1>4, ClosedIs DEF TablesOK
<1>8. \A t \in Ids : RowOK(t)'
  <2> SUFFICES ASSUME NEW t \in Ids PROVE RowOK(t)'
    OBVIOUS
  <2>1. CASE t = s
    <3>1. OneAtMost({})
      BY DEF OneAtMost, Audiences
    <3>2. QED
      BY <1>2, <1>3, <1>5, <2>1, <3>1 DEF RowOK, RightRenewal
  <2>2. CASE t # s
    <3>1. \A f \in FormFields : from'[t][f] = from[t][f]
      BY <1>4, <2>2
    <3>2. service'[t] = service[t] /\ crossed \subseteq crossed' /\ RowOK(t)
      BY <1>3, <1>4, <2>2 DEF ServicesInv
    <3>3. QED
      BY <1>1, <3>1, <3>2 DEF RowOK, Exists
  <2>3. QED
    BY <2>1, <2>2
<1>9. \A t \in Ids, f \in FormFields :
         \/ t \in crossed' \/ ~Exists(t)' \/ LandsOK(t, f)'
         \/ from'[t][f] = from[t][f] /\ Exists(t)
  BY <1>1, <1>3, <1>4 DEF LandsOK, Exists
<1>10. \A b \in Admins : \/ conv'[b] = Closed /\ hand'[b] = Empty
                         \/ conv'[b] = conv[b] /\ unsaved'[b] = unsaved[b]
  BY <1>1, <1>4 DEF TablesOK
<1>11. QED
  BY <1>1, <1>6, <1>7, <1>8, <1>9, <1>10, Wrote

LEMMA WriteOK ==
    ASSUME ServicesInv, NEW x \in Actors, Write(x)
    PROVE  ServicesInv'
<1> DEFINE s == hand[x].to
           r == hand[x].row
<1>1. /\ TablesOK /\ s \in Ids /\ hand' = [hand EXCEPT ![x] = Empty]
      /\ service' = IF Exists(s) THEN [service EXCEPT ![s] = r] ELSE service
      /\ byHand' = IF hand[x].what = "renewable" THEN byHand \cup {s} ELSE byHand
      /\ byWeb' = IF x = Web THEN byWeb \cup {s} ELSE byWeb
      /\ UNCHANGED <<shownFor, added>>
  BY DEF ServicesInv, Write
<1>2. hand[x] # Empty /\ hand[x] \in Hands /\ r \in Rows
  BY <1>1, ServicesAssumption DEF TablesOK, Hands, Empty
<1>3. /\ service[s] # Absent
      /\ hand[x].what = "form" => x \in Admins
      /\ Crosses(x) \/ s \in crossed \/ ~Exists(s) \/ r.server = service[s].server
      /\ x \in Admins /\ s \notin byWeb =>
            /\ OneAtMost(r.audience)
            /\ s \in byHand \/ hand[x].what = "renewable" \/ RightRenewal(r)
            /\ s \in crossed \/ Crosses(x) \/ WholeRow(r)
  BY <1>2 DEF ServicesInv, HandOK
<1>4. /\ hand'[x] = Empty /\ \A y \in Actors \ {x} : hand'[y] = hand[y]
  BY <1>1 DEF TablesOK
<1>5. /\ conv' \in [Admins -> Conversations]
      /\ unsaved' \in [Admins -> SUBSET (Ids \cup {New})]
      /\ from' \in [Ids -> [FormFields -> Ids \cup {Nobody, New}]]
      /\ \A b \in Admins : \/ conv'[b] = Closed /\ hand'[b] = Empty
                           \/ conv'[b] = conv[b] /\ unsaved'[b] = unsaved[b]
      /\ \A t \in Ids, f \in FormFields :
            \/ from'[t][f] = from[t][f]
            \/ t = s /\ (from'[t][f] \in {Nobody, s} \/ s \in crossed')
      /\ Crosses(x) => s \in crossed'
      /\ crossed \subseteq crossed'
  <2>1. CASE hand[x].what = "form"
    <3>1. /\ x \in Admins /\ conv' = [conv EXCEPT ![x] = Closed]
          /\ Stored(x, s, {s}, Given(conv[x]))
      BY <1>1, <1>3, <2>1 DEF Write, Converse, Clear
    <3>2. DataOK(x)
      BY <3>1 DEF ServicesInv
    <3> HIDE DEF s
    <3>4. /\ from' \in [Ids -> [FormFields -> Ids \cup {Nobody, New}]]
          /\ \A t \in Ids, f \in FormFields :
                 IF t \in {s} /\ f \in Given(conv[x])
                 THEN from'[t][f] \in {Nobody, s} \/ t \in crossed'
                 ELSE from'[t][f] = from[t][f]
          /\ ~(unsaved[x] \subseteq {s}) => {s} \subseteq crossed'
          /\ crossed \subseteq crossed'
          /\ unsaved' = [unsaved EXCEPT ![x] = {}]
      <4>1. StoredWell(x, s, {s}, Given(conv[x]))
        BY <1>1, <3>1, <3>2, StoredIs
      <4>2. QED
        BY <4>1 DEF StoredWell
    <3>5. Crosses(x) => s \in crossed'
      BY <3>4 DEF Crosses, s
    <3>6. \A b \in Admins : \/ conv'[b] = Closed /\ hand'[b] = Empty
                            \/ conv'[b] = conv[b] /\ unsaved'[b] = unsaved[b]
      BY <1>1, <1>4, <3>1, <3>4 DEF TablesOK
    <3>7. QED
      BY <1>1, <3>1, <3>4, <3>5, <3>6, ClosedIs DEF TablesOK
  <2>2. CASE hand[x].what # "form"
    <3>1. UNCHANGED <<conv, unsaved, crossed, from>> /\ ~Crosses(x)
      BY <1>1, <2>2 DEF Write, Crosses
    <3>2. QED
      BY <1>1, <3>1 DEF TablesOK
  <2>3. QED
    BY <2>1, <2>2
<1> HIDE DEF s, r
<1>6. /\ \A t \in Ids \ {s} : service'[t] = service[t]
      /\ Exists(s) => service'[s] = r
      /\ ~Exists(s) => service' = service
  BY <1>1 DEF TablesOK
<1>7. Exists(s) => service'[s] # Absent /\ service'[s] # Gone
  BY <1>2, <1>6, Settled
<1>8. Kept
  BY <1>1, <1>3, <1>5, <1>6, <1>7 DEF Kept, Exists
<1>9. TablesOK'
  <2>1. service' \in [Ids -> Rows \cup {Absent, Gone}]
    BY <1>1, <1>2 DEF TablesOK
  <2>2. hand' \in [Actors -> Hands \cup {Empty}]
    BY <1>1 DEF TablesOK
  <2>3. QED
    BY <1>1, <1>5, <2>1, <2>2 DEF TablesOK
<1>10. \A t \in Ids : RowOK(t)'
  <2> SUFFICES ASSUME NEW t \in Ids PROVE RowOK(t)'
    OBVIOUS
  <2>1. CASE t = s
    <3>1. CASE Exists(s)
      <4>1. service'[s] = r /\ service'[s] # Absent
        BY <1>6, <1>7, <3>1
      <4>2. s \notin byWeb' => x \in Admins /\ s \notin byWeb
        BY <1>1 DEF Actors
      <4>3. s \notin byWeb' =>
               /\ OneAtMost(r.audience)
               /\ s \in byHand' \/ RightRenewal(r)
               /\ s \in crossed' \/ WholeRow(r)
        BY <1>1, <1>3, <1>5, <4>2
      <4>4. QED
        BY <2>1, <4>1, <4>3 DEF RowOK
    <3>2. CASE ~Exists(s)
      <4>1. service'[s] = Gone /\ Gone # Absent
        BY <1>3, <1>6, <3>2, Settled DEF Exists
      <4>2. QED
        BY <2>1, <4>1 DEF RowOK, Exists
    <3>3. QED
      BY <3>1, <3>2
  <2>2. CASE t # s
    <3>1. /\ \A f \in FormFields : from'[t][f] = from[t][f]
          /\ service'[t] = service[t] /\ RowOK(t)
          /\ crossed \subseteq crossed' /\ byHand \subseteq byHand' /\ byWeb \subseteq byWeb'
      BY <1>1, <1>5, <1>6, <2>2 DEF ServicesInv
    <3>2. QED
      BY <3>1 DEF RowOK, Exists
  <2>3. QED
    BY <2>1, <2>2
<1>11. \A t \in Ids, f \in FormFields :
         \/ t \in crossed' \/ ~Exists(t)' \/ LandsOK(t, f)'
         \/ from'[t][f] = from[t][f] /\ Exists(t)
  <2> SUFFICES ASSUME NEW t \in Ids, NEW f \in FormFields, t \notin crossed', Exists(t)'
               PROVE  LandsOK(t, f)' \/ (from'[t][f] = from[t][f] /\ Exists(t))
    OBVIOUS
  <2>1. Exists(t)
    BY <1>6 DEF Exists
  <2>2. QED
    BY <1>5, <2>1 DEF LandsOK
<1>12. \A y \in Actors : hand'[y] = hand[y] \/ hand'[y] = Empty
  BY <1>4
<1>13. QED
  BY <1>1, <1>5, <1>8, <1>9, <1>10, <1>11, <1>12, Wrote

\* Every step keeps the invariant.
LEMMA ServicesKeep == ServicesInv /\ [ServicesNext]_servicesVars => ServicesInv'
<1> SUFFICES ASSUME ServicesInv, [ServicesNext]_servicesVars PROVE ServicesInv'
  OBVIOUS
<1>1. CASE UNCHANGED servicesVars
  BY <1>1, Unmoved DEF servicesVars
<1>2. ASSUME NEW a \in Admins,
             \/ Show(a) \/ Ask(a) \/ AddService(a) \/ NewNet(a)
             \/ \E v \in Values.expire : TypeValue(a, v) \/ NewValue(a, v)
             \/ \E server \in Servers : ChooseServer(a, server)
      PROVE  ServicesInv'
  BY <1>2, ShowOK, AskOK, NewNetOK, TypeValueOK, NewValueOK, ChooseServerOK
<1>3. ASSUME NEW a \in Admins, NEW s \in Ids,
             \/ EditService(a, s) \/ OpenNet(a, s) \/ PickNet(a, s) \/ PickApply(a, s)
             \/ SaveForm(a, s) \/ SaveNet(a, s) \/ Flip(a, s)
             \/ SaveNew(a, s) \/ RemoveService(a, s)
      PROVE  ServicesInv'
  BY <1>3, EditServiceOK, OpenNetOK, PickNetOK, PickApplyOK, SaveFormOK, SaveNetOK, FlipOK,
     SaveNewOK, RemoveOK DEF RemoveService
<1>4. ASSUME NEW s \in Ids, Patch(s) \/ DeleteService(s) \/ CreateService(s) \/ DuplicateService(s)
      PROVE  ServicesInv'
  BY <1>4, PatchOK, RemoveOK, PanelMakesOK DEF DeleteService
<1>5. ASSUME NEW x \in Actors, Write(x) PROVE ServicesInv'
  BY <1>5, WriteOK
<1>6. QED
  BY <1>1, <1>2, <1>3, <1>4, <1>5 DEF ServicesNext

LEMMA ServicesShow == ServicesInv => ServicesFaithful
<1> SUFFICES ASSUME ServicesInv PROVE ServicesFaithful
  OBVIOUS
<1>1. TablesOK /\ LandsWhereTyped
  BY DEF ServicesInv
<1>2. ServicesTypeOK
  <2>1. \A a \in Admins :
          /\ conv[a].state \in EditStates \cup AddStates \cup {"none"}
          /\ conv[a].id \in Ids \cup {Nobody}
          /\ \A f \in FormFields : conv[a].data[f] \in Values[f] \cup {Unset}
          /\ conv[a].apply \subseteq Ids
    <3> SUFFICES ASSUME NEW a \in Admins
                 PROVE  \A f \in FormFields : conv[a].data[f] \in Values[f] \cup {Unset}
      BY <1>1, ConversationIs
    <3>1. conv[a].data \in Datas
      BY <1>1, ConversationIs
    <3>2. QED
      BY <3>1, FieldsAre DEF Datas
  <2>2. \A x \in Actors : hand[x].to \in Ids => hand[x].row \in Rows
    BY <1>1, ServicesAssumption DEF TablesOK, Hands, Empty
  <2>3. QED
    BY <1>1, <2>1, <2>2 DEF ServicesTypeOK, TablesOK
<1>3. AudienceExclusive
  <2> SUFFICES ASSUME NEW s \in Ids \ byWeb, Exists(s) PROVE Cardinality(service[s].audience) =< 1
    BY DEF AudienceExclusive
  <2>1. PICK g \in Audiences : service[s].audience \subseteq {g}
    BY DEF ServicesInv, RowOK, OneAtMost
  <2>2. service[s].audience = {} \/ service[s].audience = {g}
    BY <2>1
  <2>3. Cardinality({}) = 0 /\ Cardinality({g}) = 1
    BY FS_EmptySet, FS_Singleton
  <2>4. QED
    BY <2>2, <2>3
<1>4. FreeNotRenewed
  BY DEF ServicesInv, RowOK, FreeNotRenewed, RightRenewal
<1>5. WholeDays
  BY DEF ServicesInv, RowOK, WholeDays, WholeRow, IsGuardino
<1>6. QED
  BY <1>1, <1>2, <1>3, <1>4, <1>5 DEF ServicesFaithful

\* What the forms, switches and requests store in a service was meant for it, and the flags
\* of a service agree (handlers/admin/service.py, api/routers/services.py).
THEOREM AlwaysServicesFaithful == ServicesSpec => []ServicesFaithful
<1>1. QED
  BY ServicesStart, ServicesKeep, ServicesShow, PTL DEF ServicesSpec

=============================================================================
