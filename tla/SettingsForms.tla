---------------------------- MODULE SettingsForms ----------------------------
(***************************************************************************)
(* The forms in which a super user changes the bot's settings: for every    *)
(* page of the bot, what may be edited and of which class the value is; for *)
(* every class, which answers the bot keeps and which the web panel keeps.  *)
(* A refused answer changes nothing and leaves the form open.               *)
(***************************************************************************)
EXTENDS Naturals, Sequences, SequencesExt

\* Classes of values:
\*   flag       a button that flips it       choice     a button for the next one
\*   role       the same, in the bot only    hours      0 to 24
\*   dialog     a flip behind "are you sure" text       a message of the bot
\*   title      any words                    secret     a key, 0 for none
\*   probed     a key tried out first        amount     any whole number
\*   threshold  at least 0                   percent    0 to 100, behind a threshold
\*   share      a part of 100                floor      at least 1 or 100,000
\*   list       a list, parsed
\* Values: an amount is "negative", "zero", "small" or "large" (a percentage
\* above 100); any other value is "old", "new" or "empty", a flag "off" or "on".

RialSettings == [enabled |-> "flag", api_key |-> "secret", menu_title |-> "title",
                 min_pay_amount |-> "amount", free_after |-> "threshold",
                 free_after_percent |-> "percent"]

PaypingForms == RialSettings
ZarinpalForms == RialSettings
ZibalForms == RialSettings
AqayeForms == RialSettings

SwapinoForms == [enabled |-> "flag", menu_title |-> "title", min_pay_amount |-> "amount",
                 free_after |-> "threshold", free_after_percent |-> "percent"]

TronadoForms == [enabled |-> "flag", api_key |-> "secret", api_base_url |-> "title",
                 wallet_address |-> "secret", menu_title |-> "title",
                 wage_from_business_percentage |-> "share", min_pay_amount |-> "amount",
                 free_after |-> "threshold", free_after_percent |-> "percent"]

NowpaymentsForms == [enabled |-> "flag", api_key |-> "probed", ipn_secret_key |-> "secret",
                     menu_title |-> "title", min_pay_amount |-> "amount",
                     free_after |-> "threshold", free_after_percent |-> "percent"]

PerfectMoneyForms == [enabled |-> "flag", account_id |-> "amount", payee_account |-> "secret",
                      passphrase |-> "secret", menu_title |-> "title", free_after |-> "threshold",
                      free_after_percent |-> "percent"]

CardForms == [enabled |-> "flag", verify_before_show_card |-> "flag", menu_title |-> "title",
              min_pay_amount |-> "amount", free_after |-> "threshold",
              free_after_percent |-> "percent"]

AutoSelectForms == [enabled |-> "flag", selection_algorithm |-> "choice", methods |-> "flag",
                    menu_title |-> "title", duration |-> "floor"]

OfflineForms == [enabled |-> "flag"]
PlisioForms == [enabled |-> "flag"]

GatewayTexts == [choose_amount |-> "text", show_invoice |-> "text"]
NowpaymentsTextForms == [choose_amount |-> "text"]
PerfectMoneyTextForms == [show_info |-> "text"]
CardTextForms == [choose_amount |-> "text", show_invoice |-> "text",
                  not_verified_for_show |-> "text"]

\* setting.py: every setting is a row of its own.
AccessForms == [access_only |-> "dialog", referral_system |-> "dialog"]
SwitchForms == [phone_number_verify |-> "dialog", reset_password_button |-> "dialog",
                show_connect_links_button |-> "dialog", show_test_service_in_menu |-> "dialog"]
CycleForms == [disable_users_role |-> "role", username_generator |-> "choice"]

UserForms == [default_username_prefix |-> "title", default_daily_test_services |-> "amount",
              on_hold_timeout_seconds |-> "threshold", delete_expired_users_after_days |-> "amount"]
LogForms == [transaction_logs |-> "probed", orders_logs |-> "probed"]
PaybackForms == [referral_discount_percent |-> "share", cancel_payback_fee |-> "threshold",
                 cancel_payback_days |-> "threshold", marzban_webhook_secret |-> "secret"]
ReminderForms == [force_join_chats |-> "probed", remind_invoices_each_n_days |-> "threshold",
                  remind_invoices_after_amount |-> "floor"]

GreetingTexts == [start |-> "text", main_menu |-> "text", force_join |-> "text",
                  purchase |-> "text"]
HelpTexts == [support |-> "text", help |-> "text", command_not_found |-> "text",
              proxy_help |-> "text"]
OtherTexts == [referral_banner_text |-> "text", charge |-> "text", verify_phone_number |-> "text"]

PayButtonForms == [amounts |-> "list", reset |-> "list"]
ReportForms == [group |-> "list", disconnect |-> "list", topic |-> "flag",
                nightly_report_enabled |-> "flag", backup_interval_hours |-> "hours"]

Gateways == {"payping", "zarinpal", "zibal", "aqaye", "swapino", "tronado", "nowpayments",
             "perfect_money", "card_to_card", "auto_select", "offline", "plisio"}
TextPages == {"payping texts", "zarinpal texts", "zibal texts", "aqaye texts",
              "swapino texts", "tronado texts", "nowpayments texts", "perfect_money texts",
              "card_to_card texts"}
BotTexts == {"greetings", "help texts", "other texts"}
RowPages == {"access", "switches", "cycles", "users", "logs", "payback", "reminders",
             "pay buttons", "reports"} \cup BotTexts
Pages == Gateways \cup TextPages \cup RowPages

\* The pages whose fields are one JSON value in one row.
OneRow(page) == page \in Gateways \cup TextPages

Forms(page) ==
    CASE page = "payping" -> PaypingForms
      [] page = "zarinpal" -> ZarinpalForms
      [] page = "zibal" -> ZibalForms
      [] page = "aqaye" -> AqayeForms
      [] page = "swapino" -> SwapinoForms
      [] page = "tronado" -> TronadoForms
      [] page = "nowpayments" -> NowpaymentsForms
      [] page = "perfect_money" -> PerfectMoneyForms
      [] page = "card_to_card" -> CardForms
      [] page = "auto_select" -> AutoSelectForms
      [] page = "offline" -> OfflineForms
      [] page = "plisio" -> PlisioForms
      [] page = "nowpayments texts" -> NowpaymentsTextForms
      [] page = "perfect_money texts" -> PerfectMoneyTextForms
      [] page = "card_to_card texts" -> CardTextForms
      [] page \in TextPages \ {"nowpayments texts", "perfect_money texts", "card_to_card texts"} ->
             GatewayTexts
      [] page = "access" -> AccessForms
      [] page = "switches" -> SwitchForms
      [] page = "cycles" -> CycleForms
      [] page = "users" -> UserForms
      [] page = "logs" -> LogForms
      [] page = "payback" -> PaybackForms
      [] page = "reminders" -> ReminderForms
      [] page = "greetings" -> GreetingTexts
      [] page = "help texts" -> HelpTexts
      [] page = "other texts" -> OtherTexts
      [] page = "pay buttons" -> PayButtonForms
      [] page = "reports" -> ReportForms

Class(page, form) == Forms(page)[form]

-----------------------------------------------------------------------------
\* The fields that the handler of a form assigns; most assign the one they are
\* named for.  The second text of four gateways is stored over the first.
PaypingTexts(form) == <<form>>
ZibalTexts(form) == <<form>>
ZarinpalTexts(form) == <<"choose_amount">>
AqayeTexts(form) == <<"choose_amount">>
SwapinoTexts(form) == <<"choose_amount">>
TronadoTexts(form) == <<"choose_amount">>

PayButtonRows == <<"charge_amount_list", "charge_amount_orders">>

ReportRows(form) ==
    CASE form = "group" -> <<"reports_group_id", "reports_topics", "reports_disabled_topics">>
      [] form = "disconnect" -> <<"reports_group_id", "reports_topics">>
      [] form = "topic" -> <<"reports_disabled_topics">>
      [] OTHER -> <<form>>

Assigned(page, form) ==
    CASE page = "payping texts" -> PaypingTexts(form)
      [] page = "zibal texts" -> ZibalTexts(form)
      [] page = "zarinpal texts" -> ZarinpalTexts(form)
      [] page = "aqaye texts" -> AqayeTexts(form)
      [] page = "swapino texts" -> SwapinoTexts(form)
      [] page = "tronado texts" -> TronadoTexts(form)
      [] page = "pay buttons" -> PayButtonRows
      [] page = "reports" -> ReportRows(form)
      [] OTHER -> <<form>>

\* What a form is for; closing the bot to strangers ends the referrals, too.
Purpose(page, form) ==
    CASE page \in {"pay buttons", "reports"} -> Assigned(page, form)
      [] form = "access_only" -> <<"access_only", "referral_system">>
      [] OTHER -> <<form>>

Fields(page) == UNION {ToSet(Purpose(page, form)) : form \in DOMAIN Forms(page)}

-----------------------------------------------------------------------------
\* The values that the bot keeps from an answer, by class.
BotKeeps(class) ==
    CASE class \in {"flag", "dialog", "choice", "role"} -> {}
      [] class \in {"text", "title", "list"} -> {"new"}
      [] class \in {"secret", "probed"} -> {"new", "empty"}
      [] class = "amount" -> {"negative", "small"}
      [] class \in {"threshold", "percent", "hours"} -> {"zero", "small"}
      [] class \in {"share", "floor"} -> {"small"}

\* The web panel has three of the gateways, whose numbers it raises to zero and whose
\* secrets it never empties; the other settings it takes as they come.
WebPages == {"nowpayments", "plisio", "card_to_card"} \cup RowPages

WebKeepsGateway(class) ==
    CASE class = "flag" -> {"off", "on"}
      [] class \in {"amount", "threshold", "percent"} -> {"zero", "large"}
      [] OTHER -> {"new"}

WebKeepsRow(class) ==
    CASE class \in {"flag", "dialog"} -> {"off", "on"}
      [] class \in {"amount", "threshold", "share", "floor"} -> {"negative", "large"}
      [] class = "hours" -> {"zero"}
      [] class \in {"text", "probed"} -> {"new", "empty"}
      [] class \in {"title", "list", "choice"} -> {"new"}
      [] OTHER -> {}

WebKeeps(page, form) ==
    IF page \notin WebPages THEN {}
    ELSE IF OneRow(page) THEN WebKeepsGateway(Class(page, form))
    ELSE WebKeepsRow(Class(page, form))

Initially(class) ==
    CASE class \in {"flag", "dialog"} -> "off"
      [] class \in {"amount", "threshold", "percent", "share", "floor", "hours"} -> "small"
      [] OTHER -> "old"

InitialRow(page) ==
    [f \in Fields(page) |->
        IF f \in DOMAIN Forms(page) THEN Initially(Class(page, f)) ELSE "old"]

\* What a super user's choice of this value writes, field by field.
Changes(page, form, value) ==
    IF form = "access_only" /\ value = "on"
    THEN [access_only |-> "on", referral_system |-> "off"]
    ELSE [f \in ToSet(Assigned(page, form)) |-> value]

\* Their order: of the keyword arguments.
Order(page, form, value) ==
    IF form = "access_only" /\ value = "on" THEN Purpose(page, form) ELSE Assigned(page, form)

Flipped(value) == IF value = "on" THEN "off" ELSE "on"

\* What the bot's forms admit and its settings are used for: percentages up to 100,
\* hours up to 24, no negative thresholds and fees.
InRange(class, value) ==
    /\ class \in {"threshold", "percent", "share", "floor", "hours"} => value # "negative"
    /\ class \in {"percent", "share", "hours"} => value # "large"
=============================================================================
