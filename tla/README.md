# GuardinoBot: TLA+ models, model checks and proofs

GuardinoBot is a Telegram bot, with a web panel beside it, that sells VPN
subscriptions ("proxies", accounts on a Marzban or similar panel) for a credit
that customers top up by card, gateway or crypto payment. This directory holds
TLA+ models of the parts where money and subscriptions meet concurrency,
failure and restarts, the TLC runs that check them, and TLAPS proofs of the most
important facts for every size of the system.

Paths are relative to the repository. Claims about the program are about the
code; the places where code and documentation disagree are under
[Findings](#findings).

## 1. Inventory

Two processes share a MySQL/MariaDB database and a Redis:

- the **bot** (`app/main.py`): one asyncio loop that runs Telegram handlers,
  gateway callbacks and panel webhooks (aiohttp views), in-process background
  tasks (`utils/bg.py`) and APScheduler jobs (the date jobs are stored in Redis
  and survive a restart);
- the **web panel API** (`app/api`): FastAPI, reads and writes the same database
  and Redis, and leaves work for the bot in Redis lists and hashes.

Handlers of one process interleave at every `await`; nothing holds a lock across
processes. Only the conditional `UPDATE ... WHERE status ...` statements and the
Redis commands are atomic between them.

| Component | State | Operations | What makes it correct |
|---|---|---|---|
| Wallet (`handlers/user/purchase.py`, `handlers/user/proxy.py`, `utils/rate_limit.py`, `models/user.py`) | transactions, invoices, proxies, `TRANSACTION_LOCKS`, `gift_given_to_referrer`, accounts on the panel | `activate_service`, `renew_proxy_now`, `renew_proxy_reserve`, whole-row saves of `users` | the lock is exclusive and always released; purchases are covered by credit; nothing is sold that the panel did not make; the referral flag means a gift |
| Activation and revocation jobs (`plugins/payment/jobs.py`, `utils/bg.py`) | in-memory background tasks, draft invoices | `activate_service` (job), `revoke_activated_transaction` | a paid draft buys at most once; a revocation takes back what was activated |
| Card-to-card receipts (`plugins/payment/card_to_card/`, `handlers/admin/payment.py`) | `Transaction.status` | accept, reject, automatic accept, overrule, reject after accept | a receipt is credited and activated at most once, whoever judges it |
| Crypto payments (`plugins/payment/crypto/`) | `Transaction.status`, the review queue in Redis | callback, check, cancel, sync job, approval by hand, deletion after two weeks | racing reports finish a row once; nothing unpaid is credited; a lost callback is made up for |
| Broadcast (`utils/broadcast.py`) | one Redis hash: id, status, cursor | start, cancel, worker loop, crash, resume | nobody skipped, a restart repeats at most one message, a job ends, a cancel stops it |
| Reserves (`jobs/check_reserves.py`, `views/notifications.py`, the reserve handlers of `proxy.py`) | the Reserve row, its invoice, the scheduler's job, a cooldown key | queue by job, button, webhook; activate; cancel; back off | a paid plan is kept until it is used and used once; a due plan is settled |
| Scheduler and process start (`main.py`, `jobs/`) | jobs in Redis and memory | ticks, missed jobs, resume hooks | no job is lost for good |
| Rial gateways, Tronado, Perfect Money (`plugins/payment/rial_gateway/`, `tronseller/`, `perfect_money/`) | `Transaction.status`, a rate limit in Redis, the gateway's own record | callback, verify, update, activate | activated once; nobody is told without ground that he paid already; a lost answer is made up for |
| Offline crypto (`plugins/payment/offline/`) | the conversation's proof, two rows per payment, the web panel's queue | proof in several messages, approve, reject, reverse | one payment per proof; both rows agree; no reversal unasked |
| Charge panel and checkout (`handlers/user/payment.py`, `keyboards/user/payment.py`, the gateways' menus) | amount, gift, mode and proxy in the buttons; the list of the automatic choice | open, choose, type an amount, create a payment | a payment is what was promised; no press raises by itself under plain settings |
| Settings and texts in two processes (`handlers/admin/setting.py`, `utils/settings.py`, `utils/texts.py`, `jobs/sync_settings.py`, `api/routers/settings.py`, `texts.py`, `payment_gateways.py`) | the rows, the bot's cached objects, dirty flags in Redis | forms, switches, confirm dialogs, web writes, reloads | edits are not lost, land on their field, stay in range; the processes agree in the end |
| Services (`handlers/admin/service.py`, `api/routers/services.py`) | rows, and values of unfinished forms in the conversations | add, edit, switch, delete, duplicate, patch | values land in the service they were typed for; flags exclude each other |
| Accounts and resellers (`handlers/admin/user.py`, `handlers/user/account.py`, `middlewares/acl.py`, `api/routers/users.py`) | rows of users and of their settings, transactions and invoices by hand | greet, verify, block, promote, post-paid, charge, undo, transfer | no decision is undone by an old copy; transfers are covered |
| Discounts and menus (`handlers/admin/discount.py`, `service_menu.py`, `api/routers/discounts.py`, `menus.py`) | codes, counters, links to services, a tree | make, switch, delete, redeem, apply, count, move | a code is used as often as allowed and for its services; every menu can be reached |
| Servers and panel registry (`handlers/admin/server.py`, `panels/registry.py`, `api/routers/servers.py`, `handlers/errors.py`) | rows, adapters in the bot's process | add, edit, switch, delete, refresh, renew a token | the adapters are those of the rows; the total from which names are made counts every sale and every refused name |
| Subscriptions (`handlers/user/proxy.py`, `jobs/refresh_proxies.py`, `utils/proxy_management.py`, `api/routers/proxies.py`, the revocation in `plugins/payment/jobs.py`) | a row, its account on the panel, its invoices | show, switch, renew in three ways, refund, remove, revoke, bulk change, nightly refresh | no account without a row but where the code says so; the paid term is kept; a refund is bounded; the status settles |
| Alerts, reports, reminders (`jobs/`) | "sent" markers | periodic jobs | a message is sent once |
| Panel adapters and the generated Marzban client | none | HTTP | external to the models |
| Rest of the web API, keyboards, web front end, migrations, installer | sessions, layout | requests | not about money or ordering |

`PROJECT.json` lists every component with its files and status, and under
`hazards` each place where one of the behaviours below bites.

### The hard behaviours

- **Rows loaded before an await and used after it.** The access middleware loads
  the `users` row at the start of every update; payments, drafts and reserves are
  loaded, several HTTP calls are made, then the loaded object is saved or decided
  upon.
- **The panel inside or before the transaction.** An account is created or
  extended on a panel while a database transaction is open; an error or a
  restart rolls back one side only.
- **Concurrent judges of one payment.** Two admins, the automatic acceptance, a
  super user, gateway callbacks (late, duplicated, reordered), the customer's
  check and cancel buttons, the web queue and the sync job.
- **Jobs lost or repeated by a restart.** In-process tasks vanish; scheduled jobs
  in Redis survive; the broadcast cursor is resumed.
- **Singletons in Redis changed in several calls.** Broadcast start and cancel.
- **Rows saved whole.** Most handlers load a row, change one field and save every
  column after an await; the bot and the panel do so on the same rows.
- **Conversations that outlive their purpose.** Forms keep what an unfinished
  form left, several forms share names of fields and of states, and the buttons
  of old messages work for ever.
- **Copies in the bot's process.** Settings, texts and panel adapters are cached
  there and changed by another process.
- **Retry loops** with cooldowns, missed ticks and rows the loop cannot settle.

## 2. Modules

| Module | Role |
|---|---|
| `Wallet` | the operations that spend a wallet, one section per user |
| `WalletProofs` | proofs about `Wallet`, the ledger and `ReceiptReview`, which implements it |
| `PaymentLedger` | abstract: what every payment method promises |
| `ReceiptReview` | extends `Wallet`; card-to-card review, activation job and revocation |
| `CryptoPayment` | Plisio and NowPayments |
| `CryptoProofs` | proofs about it, and how it keeps the ledger |
| `GatewayPayment` | the gateways that have to be asked: four rial gateways, Tronado, Perfect Money |
| `GatewayProofs` | proofs about it, and how it keeps the ledger |
| `OfflineReview` | offline crypto: the proof and its review |
| `Checkout` | from the charge panel to a created payment |
| `SettingsForms`, `SettingsStore` | the forms of all settings pages as functions; their two processes |
| `PanelProofs` | proofs about `OfflineReview` and `SettingsStore` |
| `Broadcast` | the broadcast worker |
| `BroadcastProofs` | proofs about it |
| `Reserves` | one proxy's reserved plan |
| `ReserveProofs` | proofs about it |
| `Services` | the services on sale, forms and switches |
| `ShopProofs` | proofs about `Checkout` and `Services` |
| `RowEdits` | how any handler edits a row: load, save whole, save fields, create, delete |
| `Accounts`, `Catalog`, `Servers`, `Subscriptions` | extend `RowEdits`: users, discounts and menus, servers and adapters, one subscription |
| `EditProofs` | proofs about `RowEdits` and the four that extend it |
| `MC*` | instances for TLC; `MCDesk` puts `Accounts`, `Catalog` and `Servers` together |

`ReceiptReview` composes two components: the review desk launches the activation
jobs, the jobs are tasks of `Wallet`, and the receipts that the desk accepts are
the credit that the tasks spend. `Accounts`, `Catalog`, `Servers` and `Subscriptions`
share the edits of `RowEdits`, with one property, `DecisionsKept`, for all of them.

In every model a step is the code between two awaits that another handler can
observe. Money is a small number, a message or a name is a member of a small set,
and a panel call succeeds, fails, or fails after it took effect.

### Wallet

Each task is one run of a handler or of the activation job. `BeginPurchase`,
`BeginRenewNow`, `BeginRenewReserve` are the confirm buttons; `RunDraft` is the
job, which reads the draft when it starts. A purchase goes `loaded` (the
`users` row and the draft are loaded), `entered` (`is_locked` was false and the
lock is taken in the same synchronous stretch), `funded` (the balance check under
the lock), `created` (account on the panel) and then commits. `CommitPurchase`
is the whole end of the transaction: proxy, invoice, draft marked paid, gift.
An immediate renewal reads the credit *before* the lock (`ReadCredit`,
`RenewRefused`) as the code does; a reserved one never takes the lock, and its
three ends are `ReserveOpen` with `CommitReserve`, `ReserveInactive` (the early
return that commits) and `ReserveRollback`. `ProfileLoad` and `ProfileSave` are
the middleware's whole-row saves. `Restart` ends every task.

`billed` is kept per type of invoice; `credit` is the sum of finished
transactions with the gifts, as `models/user.py` computes the balance.

### PaymentLedger

Each payment is pending, credited or closed. `Credit` is the one step from
pending to credited, `Launch` starts the paid service once for a credit, `Close`
ends a payment without credit or takes one back, `Overrule` is a super user's
acceptance, which closes the door to a later automatic credit. `AtMostOnce` says
that a payment is credited at most once and activated at most as often. Card-to-card
review implements it, as a property of the run `receipts` and as a theorem. Crypto
payments and the gateways that have to be asked keep it in every step but the ones that
their theorems name (section 5). Offline crypto payments are not put against it: a
rejected one may be approved again, which the ledger does not know.

### ReceiptReview

A review handler is a process with a receipt on its `desk`: opening loads the
row, `FinishWaiting` and `RejectWaiting` are the conditional updates
`_finish_waiting_transaction` and `_reject_waiting_transaction`, `Notify` sends
the message and launches the job, `NotifyFails` loses the launch. Rejecting an
accepted receipt runs `revoke_activated_transaction` as four steps: `RevokeRead`,
`RevokeRemove` (panel), `RevokeVoid` (database), `RevokeMark`. `Overrule` is the
super user's unconditional save. `StartJob` and `JobReturns` tie the launched job to a
task of `Wallet`. `removed` and `raced` are history variables.

### CryptoPayment

`gateway` and `sent` are the external provider: its state moves, and any report
it ever sent may arrive at any time, again and in any order (`Callback`). The
buttons, the web queue and the sync job ask for the present state (`Answered`,
`Unanswered`). The finalizer then works on the row it loaded: `AlreadyFinished`,
`Claim` (the conditional update, followed by `Notify`), `Record` (every other
report, an unconditional update) and `Cancel`. `DeleteUnpaid` is the clean-up of
old rows, `Restart` drops all that is in flight. The two providers differ in
`StatusFor`, `Terminal` and `AutoChecked`.

### Broadcast

The hash is one record; `start` is three steps (`StartAsks`, `StartClears`,
`StartCreates`), `cancel` two with the id on the button compared in between, and
the worker's loop is a step per Redis, database or Telegram call: `Load`,
`Check`, `Page`, `SendOne`, `Save`, `Close`, `Finalize`, with `Crash` for its
`except` block. The id is a time in whole seconds, so two starts can share it.
`WebCancel` is the web panel's. `Restart` and `Resume` are the process's end and
`resume_pending`. `late`, `canceled`, `overlapped` are history variables.

### Reserves

One proxy, plans bought one after the other. `CheckFinds` and `CheckAdds` are the
two halves of `check_reserves` around the cooldown query; `ActivateButton` and
`WebhookLimited` add the same job. `RunJob` (or `JobMissed`, a misfire) starts a
task, which goes `Load`, `Park` (the service is gone), `Provision`, `NotFound` or
`ProvisionFails` (backoff), `Commit` or `Rollback`. `CancelLoads` and
`CancelCommits` are the cancel button. `Restart` keeps what is in Redis.
`absent`, `doubtful`, `crossed` name the exceptions of the properties.

### GatewayPayment

One payment, requests for it and the gateway's own record. A request goes
through `Load` (with one action per gateway's entry: `PaypingReturn`, `JsonReport`,
`TronadoReport`, `VoucherCode`, ...), `CheckLimit` and `SetLimit` (the key in Redis is
asked for and set in two calls), the gateway's answer (`Verified`, `Refused`,
`AlreadyPaid`, `AnswerLost`), `Commit` (an update of the loaded row, without a
condition) and `Notify`, which launches the activation. `Answers` holds what each
gateway answers in each state of its record, a second verification above all.
`LimitExpires` is the key's time to live, `Restart` drops all requests. `lapsed`,
`slipped` and `cut` are the exceptions of the properties: a limit that ended while
a request of its time was under way, two requests past the check together, a
verification that took effect and was not used.

### OfflineReview

One conversation and the payments it makes. `ReadProof`, `KeepProof`,
`CloseSession`, `CreatePayment` are the awaits of `offline_proof`: two messages of
an album are two handlers on the same conversation data. `EditCoins` is what a
super user's edits do to a running session. A review takes a loaded row to its
end: `Tap` (with the confirmation that only a tap has), `QueueReview` and `PopReview`
(the web panel), then `Approve` and `Launch`, or `Revoke` and `Mark`. `Restart` loses
popped reviews and cuts rejections in two.

### SettingsForms and SettingsStore

`SettingsForms` is data: for every settings page of the bot, the fields it edits and
the class of each value, and for every class what the bot keeps and what the web
panel keeps of an answer. The many handlers of `setting.py` and of the gateways'
settings differ in nothing else, so `SettingsStore` has one set of actions for all.
It keeps the rows, the objects the bot made of them (a handler may still hold an old
one) and the dirty flag. An editor opens a page (`Press`, `OpenForm`, `Answer`, `Try`,
`Confirm`, `ResetText`, or `WebEdit` and `WebMerge` in the panel), changes the cached
object, writes the row and raises the flag; writing several rows is one step per row,
and `Torn` is a write that fails after the object was changed. `SyncSettings`
deletes the flag and reloads by `ReadRows`, `FillTexts`, `Assign`. `BotRestarts` is the
start of the bot's process. A reload of one object is atomic, as its assignment is. `risky` and `missed` are history variables.

### Checkout

The panel from which a customer pays: `Charge`, `PayForService`, then one action
per gateway for its menu, typed amount and invoice. What the customer can press is
the set of buttons that were ever shown, as old messages keep theirs; each carries
method, amount, gift, mode, and whether the proxy is named. `Draws` is the automatic
choice with its change of the cached list. `was` remembers the settings each gateway
ever had. The gift's percentage is fixed at 50, which makes whole gifts and fractions;
rates and servers that gateways ask answer or do not. `Failed` is what the customer then
reads, per method: a refusal ("unavailable"), where the handler catches what its client
raises, or the general error of `handlers/errors.py` ("broken"), where the error is one of
the connection that the client does not wrap (`rial_gateway/clients.py:183-215`,
`tronseller/clients.py`, `plugins/payment/clients.py`), or where the refusal itself raises:
for a typed amount of Swapino its text was never set (`swapino.py:813`, `:819`, `:826`). A
handler that raises with no server failing answers "none"; the customer reads the same
general error then. `Fails` is an automatic choice that finds no method.

### Services

Rows of services, per super user the conversation's state and data (which survive
from one form to the next), and per actor the row in hand between its load and its
whole-row save. The forms are `AddService` to `SaveNew`, `EditService` to `SaveForm`,
`OpenNet` to `SaveNet` (nodes or inbounds, with `PickApply` for the other services of
the server), the switches `Flip`, the panel `Patch`, `CreateService`, `DeleteService`,
`DuplicateService`. `expire` stands for all scalar fields; what distinguishes it is that a
Guardino server sells whole days. `from` records for which service a value was entered.

### RowEdits

What a handler that edits a row does: `Load` it and hold the changed object; `Save`
writes every column, `SaveFields` the named ones, `Update` changes fields in the
database without loading, `Delete`. Between load and write other handlers run. `said`
is the row with the last value somebody decided for each field, and `DecisionsKept`
says that the row is that one, for every row on which no whole-row write was
overtaken (`raced`).

### Accounts

Extends `RowEdits` with the rows of users and of their settings, the ledger (`book`,
entries by charges, undone ones and transfers), the forms and the transfer buttons in
the chats. `Credit` adds the entries of a user up, as `get_balance` lets the database
do; `squeezed` names who may be in debt, from the start or since. `Greet` is the access
middleware's save, `ShareContact`, `CheckForceJoin` and the two referred starts are the
customer's; `Press` holds what a super user does to a user; `AdminAsks`, `ResellerAsks`,
`AnswerSetting`, `AnswerColumn` are the forms; `ChargeByParent` reads a reseller's
credit and `CommitTransfer` creates the two entries; `SetUserBlocked`, `UpdateUser`,
`PromoteReseller`, `UpdateSetting`, `AdjustBalance` are the web panel's.

### Catalog

Discounts and menus with their links to services. The switches, `RedeemCode`,
`GetDiscount` (the purchase looks for a discount) and `UseDiscount` (the count after it),
the forms of new discounts and menus with the services selected in the
conversation, the replacement of a menu's services in two steps (`ClearServices`,
`AddServices`), and the panel's create, edit and delete. `Above` is the walk to the top
that both the list and `_would_cycle` take, in one step. Titles' uniqueness is the
database's and left out.

### Servers

Rows of servers and `adapters`, the registry of the bot's process. The add and edit
forms share one conversation (`talk`), whose left-overs matter. `ReadServers` and
`BuildAdapters` are the two halves of a refresh, `Restart` builds it anew; the panel
(`PanelAdds`, `PanelUpdates`, `PanelDelete`) changes rows only. `RenewToken` is the
error handler's. `Sell` is a purchase: each name that the panel refuses as taken raises the
total by one, which gives another name, and the subscription made raises it once more
(`purchase.py:366-397`, the signal of `models/proxy.py`); with one refusal too many the
transaction is undone. `refused` counts those names. A press on an old form whose data is
gone raises before any change and is left out.

### MCDesk

`Accounts`, `Catalog` and `Servers` over the same `RowEdits`: one table of rows and one
set of handlers. They edit different rows, so a behaviour picks one `part` and has
only its edits; the combinations would multiply states and add no case.

### Subscriptions

One row, its account on the panel, its invoices, and a clock. Handlers are steps
between HTTP calls: `Ask` starts a button and `Continue` takes it on (`ShowProxy`,
`EnableProxy`, `RemoveProxy`, `DeleteWithPayback`, `RenewProxyNow` with `CreateInvoice`, ...).
`scheme` is how the server's services are renewed: "plain" is `ResetUsage` and `ModifyUser`;
"appends" (`append_available_data_renew`) reads what is left of a data plan before
(`ReadLeft`) and adds it to the new limit, so that an account may have more than its plan
gives; "hub" (Guardino) is one call, `RenewUser`, and a look at the account
(`GetRecharged`). The flag, which services have one by one, is one for all here, and a hub
ignores it. Two renewals at a time may both add the same rest, as in the code. `GiveUp` ends
a renewal or a refund between the panel and the commit. `RevokePurchase` and
`RevokeRenewal` are what `revoke_activated_transaction` does to a subscription whose payment
is rejected after all: it deletes a purchase with its row even when the panel does not
answer, and of a renewal the invoice alone. `ServerRemoved` is the cascade of a server's
deletion. `orphan` remembers that the row went in one of the ways that do not wait for the
account's removal. `Billing` is the row lock that an uncommitted
invoice holds on the proxy's row (InnoDB), `Deadlocked` two of them. `StartBulk` and
`BulkUpdate` are a bulk change, `NightReads` to `NightDeletes` the nightly job,
`AddFromLink` the import, `PanelSets` and `PanelRemoves` the web panel. `Tick`, `UseData`,
`OperatorRemoves`, `Outage` and `PanelBack` are the world. An account
that was left behind and is imported again by its link is left out.

## 3. Runs

Each run has the `.cfg` of the module it names. A property whose name ends in
`Sound`, `Kept` or `Faithful` is the conjunction of the parts in brackets.

| Run | Module | Properties | Distinct states |
|---|---|---|---|
| `wallet` | `MCWallet` | `TypeOK`, `LockExact`, `PurchasesCovered`, `ProvisionedFirst`, `FlagMeansGift`, `LockReleased` | 110,948 |
| `receipts` | `MCReceiptReview` | `ReviewSound` (`ReviewTypeOK`, `OneActivation`), `RevokeCleans`, `RefinesLedger` | 2,757,266 |
| `crypto` | `MCCryptoPayment` | `CryptoSound` (`CryptoTypeOK`, `ClaimsAccounted`), `LaunchedByClaim`, `PaidFirst`, `PaymentSettles` | 342,787 |
| `broadcast` | `MCBroadcast` | `BroadcastSound` (`BroadcastTypeOK`, `NobodySkipped`), `RestartRepeatsOne`, `JobEnds` | 936,648 |
| `reserves` | `MCReserves` | `ReservesSound` (`ReservesTypeOK`, `PlanKept`), `RenewedOnce`, `DueSettles` | 269,565 |
| `gateways` | `MCGatewayPayment` | `GatewaySound` (`GatewayTypeOK`, `LaunchedOnce`), `NoFalseAlready`, `PaidIsCredited` | 8,956 |
| `offline` | `MCOfflineReview` | `OfflineSound` (`OfflineTypeOK`, `ProofBecomesPayment`), `StatusesAgree`, `ReversalAskedFor` | 537,000 |
| `settings` | `MCSettingsStore` | `SettingsSound` (`SettingsTypeOK`, `NoLostEdit`), `StoredInRange`, `EditLands`, `Converges` | 580,776 |
| `checkout` | `MCCheckout` | `CheckoutSound` (`CheckoutTypeOK`, `PaymentPromised`, `DraftComplete`, `MethodsKept`), `Answered` | 1,246,592 |
| `services` | `MCServices` | `ServicesFaithful` (`ServicesTypeOK`, `LandsWhereTyped`, `AudienceExclusive`, `FreeNotRenewed`, `WholeDays`) | 1,888,486 |
| `desk` | `MCDesk` | `AccountsKept` (`AccountsTypeOK`, `DecisionsKept`, `SuperNotBlocked`, `SuperGranted`), `TransfersCovered`, `MenusReachable`, `CatalogSound` (`CatalogTypeOK`, `DecisionsKept`, `UsesCounted`, `MadeForIt`, `MenuExclusive`, `ListedAsChosen`), `ServersSound` (`ServersTypeOK`, `DecisionsKept`, `AdaptersFresh`, `TotalsKept`) | 440,841 |
| `subscriptions` | `MCSubscriptions` | `SubscriptionSound` (`SubscriptionTypeOK`, `DecisionsKept`, `NoOrphan`, `TermKept`), `RefundBounded`, `StatusSettles` | 1,391,556 |

The bounds, and why they are enough for the cases that matter:

- `wallet`: 2 users (a prepaid invitee, a post-paid referrer with limit 2), 2 tasks, 2
  drafts (a purchase and a reserved renewal), price 2, top-up 2, credit to 4 by
  top-ups, gift 50 %. Two tasks of one user are the smallest race for the lock, the
  balance and the gift; the second user lets a gift land in a wallet that is itself
  being spent. The price equals the top-up, so one payment covers exactly one of two
  purchases.
- `receipts`: 1 customer, a receipt that pays a purchase and a plain one, 2 reviewers,
  2 tasks. That gives every pair of handlers on the same row and one handler that
  interferes with another's credit; accept, reject and accept again fits into three
  handler runs, as a reviewer is reused.
- `crypto`: 1 invoice of either provider, 2 outside requests and the sync job, a queue
  of 1. Three callers on one invoice make a claim, a stale report that reopens, and a
  second claim. Invoices share nothing but the limit of ten (section 4).
- `broadcast`: 3 users, one of whom has blocked the bot, in pages of 2, which gives a full
  page, a partial one and an empty one; 2 starts, 1 cancel, 2 workers, 1 restart, 2
  distinct seconds: the second start covers the singleton being taken over.
- `reserves`: 2 plans, 2 tasks, 1 cancel, 1 restart. An operation that loaded one plan can
  act on the row of another, and an activation can last longer than the interval of
  30 seconds.
- `gateways`: each of the six providers, 2 requests, each reused without end. Two
  requests are a callback and a refresh of the page; a third would be one more of
  either.
- `offline`: one session, 2 messages, 3 reviews. Two messages are an album of which each
  half may hold the whole or a part of the proof; three reviews are approve, a late
  reversal and one that overlaps them.
- `settings`: every page and form, 2 editors with one edit each, in the bot or the panel,
  reloads and restarts at any time. Loss needs two edits and a reload between them.
- `checkout`: three installations, which share the ten gateways among them so that each
  set has a gateway of each kind of code; menu amounts 2 and 4, typed 1 and 3, prices 1
  and 3, minimum 1 or 2, paying for a purchase or a renewal, 2 edits of settings. The
  amounts lie below, at and above minimum and threshold, and an odd one has a gift
  with a fraction.
- `services`: 2 Guardino services, one Marzban service and one not made yet; two super
  users and the panel with budgets of presses (1, 1, 1), (3, 1, 0), (3, 0, 1) and
  (5, 0, 0). Five presses are a form left open, another opened, a value and a save; the
  mixed budgets let another actor save between a load and a write.
- `desk`: two handlers at a time. Accounts: a super user of `.env`, a reseller and his
  customer (plain, reseller or admin, blocked or not), 2 edits. Catalog: two
  discounts, three menus, two services, two customers, 3 edits. Servers: one there, one to
  make, 4 edits, and at most one refused name per purchase (the code retries five times, each
  time in the same way). Two edits are a lost update; a menus' cycle needs two moves, and a
  refresh of adapters overtaken by another change needs three.
- `subscriptions`: three schemes, two handlers and the nightly job at once, two customers, a
  plan for 2 days and one for 1 unit of data, price 4, fee 1, a clock to 3, use to 2 units
  (more than a plan's limit, which only a carried-over rest or a bulk change allows), accounts
  deleted on the day after their end, bulk steps of 1, two things begun (`MaxStarts`). The
  two invariants were also checked with plans of 2 units, use to 3, accounts kept one day and a clock to 4
  (1,923,003 states up to the order of the handlers).

Symmetry is used in `offline` (messages, reviews), `services` (the two Guardino services) and `desk`
(the handlers): in each the permuted values differ in nothing. `offline` has action
properties only and the others invariants only, which symmetry does not weaken;
the runs with liveness use none.

Deadlock is checked in `gateways` and `checkout`. In the others tasks, requests and
presses are used once (a bound), so the model comes to rest.

Every property of a run has a mutant in `PROJECT.json`: a change of one definition of
the kind a programming error would make, under which TLC finds the property
violated.

### Findings

Where the code does not do what its documentation, comments or answers say, the
models are faithful to the code and the properties are stated so that they hold in
spite of it: each exception is a history variable set at the one step of the code
that causes it, or a condition on settings, so anything else that broke the property
would still be found. Six statements that the code breaks are kept as definitions
and are in no run; each is seen to fail when its name is added to the `.cfg` of its
module: `GiftOnce` and `ReserveBacked` of `Wallet`, `NoFreeSubscription` of
`ReceiptReview`, `ClaimOnce` of `CryptoPayment`, `CancelStops` of `Broadcast`,
`RetryGoesOn` of `Reserves`. `PROJECT.json` has every finding with its line and the
text it disagrees with.

Payments and wallets:

1. `GiftOnce`: the one-time referral gift is decided on a `users` row loaded before the
   lock (`handlers/user/purchase.py:440`); two purchases of an invitee that were both
   loaded before the first commit each give it.
2. `ReserveBacked`: when the account is not active, `renew_proxy_reserve` answers that
   reserving is impossible and returns from inside the transaction block, which commits
   the invoice (`handlers/user/proxy.py:1937`).
3. `NoFreeSubscription`: an activation job past its balance check commits after
   `revoke_activated_transaction` has read the invoices (`plugins/payment/jobs.py:138`).
   `RevokeCleans` excepts receipts in `raced`.
4. `ClaimOnce`: only the claim is conditional; every other report and the cancel button
   update a row loaded earlier and can reopen a finished one
   (`plugins/payment/crypto/plisio_service.py:204`). `ClaimsAccounted` counts reopenings.
5. `NoFalseAlready`: Zarinpal's "verified before" is told to the customer without looking
   at the own row (`rial_gateway/views.py:338`); after a lost answer or a restart he has
   paid and gets nothing (`cut`).
6. `ReversalAskedFor`: a rejection queued by the panel reverses an approval made in between
   without the confirmation a tap needs (`offline/handlers.py:448`).
7. `DraftComplete`: when the price is raised to a gateway's minimum, `pay_for_service` drops
   the proxy (`handlers/user/payment.py:58`) and the renewal cannot be activated.
8. `Answered`: gifts with a fraction and some refusals raise instead of answering
   (`zarinpal.py:735`, `nowpayments.py:719` and siblings), and the customer reads the general
   error instead of the reason. Stated for `PlainSettings`. When a server fails, typed amounts
   of Swapino raise under any settings (`swapino.py:813`, `:819`, `:826`), and so do
   connections that the clients do not wrap: this is the answer "broken".
9. `MethodsKept`: the automatic choice removes gateways that are off from the cached
   settings' own list (`keyboards/user/payment.py:52`), and the next edit stores it (`drawn`).

Jobs:

10. `CancelStops`: a worker compares the status and not the id (`utils/broadcast.py:244`), so
    a start right after a cancel keeps the canceled broadcast going. `NobodySkipped` and
    `RestartRepeatsOne` hold as long as two workers never overlapped.
11. `RetryGoesOn`: a reserve without an end date is activated by the webhook or the button
    alone; after a failure nothing tries again, though the alert says so
    (`jobs/check_reserves.py:187` and `:41`). `PlanKept` and `RenewedOnce` except plans in
    `doubtful` and rows in `crossed`.
12. `RefundBounded`: `delete_with_payback` charges or refunds by the first invoice without a
    bound (`handlers/user/proxy.py:1116`); after the end it costs more than was paid plus the
    fee, and after a renewal that carried data over (`:1693-1705`) more than the limit of the
    plan is charged (`resized`). A renewal that fails after the panel's part leaves it done and
    unpaid (`:1727`).
13. `refresh_servers` moves an offset over a table from which it deletes
    (`jobs/refresh_proxies.py:22`) and decides on a list read earlier; `bulk_update_users`
    writes what it read before, and a difference of 0 means unlimited
    (`utils/proxy_management.py:52`). `StatusSettles` and `TermKept` (`undone`) hold in spite
    of these.

Settings, services and staff:

14. `EditLands`: the form for the invoice's text of four gateways stores another text
    (`rial_gateway/zarinpal.py:422` and siblings, `Misplaced`).
15. `StoredInRange`: bot and panel accept different ranges (`handlers/admin/setting.py:612`);
    a value of the panel may come back from the copy of a gateway that a bot's form held.
16. `LandsWhereTyped`, `WholeDays`: forms keep what an unfinished form of another service
    left and store it, its server included (`handlers/admin/service.py:1606`, `:1675`), and
    the conversations of new discounts and menus do the same. `crossed` has the services
    that met it.
17. `TransfersCovered`: a negative transfer takes from the receiver
    (`handlers/user/account.py:627`, `squeezed`); two transfers at a time can overdraw, and
    who was in debt at the start may stay so.
18. `MadeForIt`: a discount applies to all services until it is linked to its own
    (`handlers/admin/discount.py:296`, `widened`).
19. `MenusReachable`: two moves at a time make a cycle (`api/routers/menus.py:61`, `crossed`).
20. `AdaptersFresh`: the panel never tells the bot of changed servers
    (`api/routers/servers.py:133`, `outdated`).
21. Forms that give the super user or reseller no answer or the general error, or cannot do what their
    prompt says: `service.py:212`, `:763`, `user.py:984`, `account.py:682`, `:890`,
    `server.py:876`.

## 4. Fairness

- `Wallet`: weak fairness of each task's next step. Every await in the section is
  a database call or an HTTP call with a timeout, and a failed call is a step too
  (`CreateFails`, `PurchaseRollback`). Nothing is assumed of customers.
- `CryptoPayment`: the sync job runs for ever and for each open payment asks the
  gateway again (strong fairness, because other requests and restarts come in
  between), and the gateway answers eventually. `auto_check` takes the ten oldest
  open payments: the model assumes that there are no more. One sync job is
  modelled; the scheduler may overlap two slow ticks, which would add a caller
  like the other two.
- `Broadcast`: weak fairness of the worker and of `resume_pending`. `JobEnds`
  needs the write of "crashed" in the `except` block to succeed.
- `Reserves`: time passes, cooldowns end, `check_reserves` ticks; the scheduler
  does not drop every job, the panel and the database do not fail for ever (strong
  fairness of the steps they can refuse).
- `GatewayPayment`: the key in Redis expires and a request goes on (weak); the customer
  refreshes the page or the gateway repeats its call, and gateway, database and rate
  limit let a request through at some time (strong, as failures and restarts come in
  between). Without the repeated call there is nobody who would ask again, so
  `PaidIsCredited` says it for Zibal and Tronado alone, where a repetition helps.
- `SettingsStore`: `sync_settings` runs every fifteen seconds, and a reload or a write that
  has begun goes on. Nothing is assumed of editors who have a form open.
- `Subscriptions`: a handler goes on with its next call, the nightly job runs night after
  night and goes on, and a panel comes back from an outage. Nothing is assumed of
  customers.
- `ReceiptReview`, `OfflineReview`, `Checkout`, `Services` and `MCDesk` have safety
  properties only: there a lost message or a restart may lose a step for good, and no
  fairness would help, or nothing happens by itself.

## 5. Proofs

All theorems hold for every set of users, tasks, drafts, receipts, reviewers, requests,
payments and plans and for all prices and bounds, from the named assumptions of the
modules: `WalletAssumption`, `ReceiptAssumption`, `GatewayAssumption`, `CryptoAssumption`,
`ReserveAssumption`, `BroadcastAssumption`, `AccountsAssumption`, `CatalogAssumption`,
`ServersAssumption`, `SubscriptionsAssumption`, `CheckoutAssumption`, `ServicesAssumption`,
`SettingsAssumption` (constants have their types; the sentinels are not members; requests
and users are finitely many; the invoice of a receipt is for the receipt's payer; a row of
the start is one that the code can have stored; the menus of the start are a forest).

- `WalletProofs!Typing` and `LockCorrect`: `Spec => []TypeOK`, `Spec => []LockExact`.
  `LockInv == TypeOK /\ PhaseKind /\ LockExact`: `LockExact` alone is not inductive,
  because which phases lie in the section depends on the kind of task, and
  `PhaseKind` says which phases a kind can be in. One step per action.
- `WalletProofs!PurchasesAlwaysCovered`: with `Funded` (a task past the balance
  check still has the money it is about to spend) the property is inductive: other
  steps are *quiet* (they take nothing from a wallet's purchases) or spend for a
  task inside the section, and by `LockExact` there is one such task per user.
  This is the argument for the lock: without it `Funded` fails at once.
- `WalletProofs!FlagAlwaysMeansGift`: both the row and a loaded copy are covered, so
  a whole-row save can only write back what once was true.
- `WalletProofs!AlwaysProvisionedFirst`: with `Ahead` (a task that did its panel call
  and has not committed has a surplus on the panel), again from the lock.
- `WalletProofs!LedgerAtMostOnce`: the promise of the abstract ledger, for whatever
  implements it: a pending payment was never credited.
- `WalletProofs!ReceiptsImplementLedger`: `ReviewSpec => Ledger!Spec`. Each step of
  the desk maps to a step of the ledger or a stutter; tasks and customers stutter.
  The invariant (`LedgerType`, `WaitingIsNew`, `OneNotifier`, `CreditedOnce`) says
  that a waiting receipt was never credited, that at most one handler is between
  the claim and the launch, and that it is the one that claimed.
- `WalletProofs!ReceiptsAtMostOnce`: the two together.
- `WalletProofs!AlwaysOneActivation`: `OneRun` says that what was launched waits, runs or
  is over, and never two of these; with one launch per receipt (`CreditedOnce`) no new job
  can meet an old one. It needs of the wallet only what its steps do to tasks and drafts.
- `WalletProofs!AlwaysRevokeCleans`: `Revoked` says that a revocation no activation races
  works on a draft nothing will activate any more, from its first step to its last.
- `WalletProofs!AlwaysReviewSound`: `ReviewSpec => []ReviewSound`. That credit and the sums of
  invoices, proxies and panel accounts stay natural numbers is a matter of what each receipt,
  task and draft still stands for: the invariant says that a sum is at least the
  cardinality of the pieces that may yet be taken from it (`Covers`), so a rejection
  or a revocation takes away one piece and what it stood for.
- `WalletProofs!ReviewLockCorrect`: the same invariant has `LockInv`, so the lock is exact under
  reviews and revocations, too.
- `GatewayProofs!LaunchedOnceAlways`: `Spec => []GatewaySound`. The row is written without a
  condition, so the count of launches alone is not inductive: `GatewayInv` adds that one
  request at most is past the check while the rate limit covers the requests
  (`OneActive`, `LimitCovers`), that a request that read a finished row stops
  (`FinishedStops`), that a launch follows the write (`WrittenFirst`), and for Zarinpal
  that its own record lets one request through (`ConfirmedOnce`).
- `GatewayProofs!AlwaysNoFalseAlready`: only Zarinpal's 101 and a spent voucher say "already",
  and only after a verification took effect; `Answerable` says that this one was written,
  is being written, or was cut off.
- `CryptoProofs!CryptoKeepsLedger`, `GatewayProofs!GatewaysKeepLedger`: each step maps to a step
  of `PaymentLedger` or a stutter, or is one of those that are named. `Reopens`: a report or
  a cancellation that loaded the row earlier sets a finished one back, so that it can be
  credited again. `LaunchesDeleted`: the row was deleted while the request that asks about
  it was under way. `LaunchesAgain`: a second activation, only after the rate limit
  expired or let two requests in, and never with Zarinpal or a voucher.
- `EditProofs` begins with the edits that all four components share. `WriteKeeps`: writing
  a row, whole or by field, keeps `DecisionsKept`, because a row that is
  written whole from a copy that is no longer what it says is put among `raced`, and any
  other write changes in the row just what was decided. So `DecisionsKept` is proved once, for
  any rows and any hands; a component adds what its handlers may have in hand, and what its
  own properties need.
- `EditProofs!AlwaysAccountsKept`: `AccountHands` traces every copy in a hand: a super user in
  it is one of .env or was made one, a blocked super user is among `excused`, and a new
  super user is not blocked by the write that makes him one.
- `EditProofs!AlwaysTransfersCovered`: the credit of a user who is not `squeezed` is at least
  minus his allowance (`Room`), and a transfer between its check and its entries is the only
  one of its reseller and still has the room that it found (`TransferOK`). What a new entry
  or a changed one adds to `Credit` is proved from its recursion (`CreditAppended`,
  `CreditChanged`).
- `EditProofs!AlwaysMenusReachable`: `Forest` says that in every set of menus some menu has its
  parent outside the set, `MovesOK` that one menu at most is being moved, and not to
  a place below itself; `NoOrphans` that every menu is in one that is there or was.
  `AboveClosed` is what `Above` computes: the menu, and with each menu its parent.
- The two recursive functions, `Credit` and `Above`, are unfolded to the equations that they
  satisfy, step by step up to their last index, and `StepsUp` takes a fact from each number
  to the next. It speaks of a set of numbers, and follows from any set of them having a
  least member (`WFMin`), which takes no operator as a parameter.
- `EditProofs!AlwaysCatalogSound`: `UsesOK`: a discount that is not `overused` has at most one
  purchase on its way, and that one found a use left; `LinksOK`: a discount is linked to
  what was chosen for it, to nothing only before that or when all of it was deleted; `MenusOK`:
  a menu whose services one handler is replacing has none meanwhile.
- `EditProofs!AlwaysServersSound`: `RefreshOK`: without overlapping refreshes the rows that one
  has read are still current when it builds the adapters; for an answer in a new server's
  form, that the questions before it were answered (`FormFilled`). A purchase raises `total`,
  `made` and `refused` together, whatever number of names was refused, so `TotalsKept` follows
  as long as no whole-row write was overtaken.
- `EditProofs!AlwaysSubscriptionSound`, `AlwaysRefundBounded`: one invariant, `SubscriptionInv`,
  for the row, its account and its invoices. `Fits` says of every handler what it may still
  rely on after its last look at the panel: who deletes the row has removed the account
  first, or is one who goes on without (`Cleared`); the amount in his hands gives back no more
  than was paid while no bulk change moved the account (`Still`), and costs no more than the
  price and the fee while also its first period lasts and no renewal changed its limit
  (`Calm`). `Ages` is the direction in which these change: a step clears no less and calms no
  more, so that a handler who is not at work keeps what he has. `AcctOK` bounds the used share
  of a period, from which the bound of the refund is arithmetic: without bulk changes a period
  that has begun is not longer than the plan's, and while no renewal changed the limit the
  account has the one it was bought with (`FirstLimit`) and no more used. Where that is not
  the limit of a data plan, no row and no renewal in anybody's hands is of one yet
  (`Plain`, `Dataless`), so that the refund does not reckon with data. `LimitFor` follows the
  limit with its carried-over rest from the reading to the change.
- `ShopProofs!AlwaysCheckoutSound`, `AlwaysAnswered`: one invariant, `CheckoutInv`. `Answered`
  looks at each handler's exits, those of failed calls among them (`Failed`). The rest is about
  buttons, because an invoice is only what a button of some earlier moment says: `ScreenOK`,
  that every button that pays carries what was promised when it was made; `AutoOK`, that the
  cached list of the automatic choice lost only methods that a draw met while they were off.
  `DrawIs` bounds what a draw, with all its repetitions, can return.
- `ShopProofs!AlwaysServicesFaithful`: `ServicesInv` follows a value from the question that
  asked for it to the row: `DataOK`, what a conversation holds was entered for a service that
  is among its unsaved ones; `EnteredOK`, what it was entered for; `HandOK`, what a row on its
  way to the table may be. The proof needed one repair of the property. What is chosen for the
  other services of a server can have been entered for a service that an old form had moved to
  another server before; two super users and two servers are enough, but not the presses of
  the run. `LandsWhereTyped` excepts it, as it excepts that service.
- `CryptoProofs!ClaimsAlwaysAccounted`, `AlwaysLaunchedByClaim`, `AlwaysPaidFirst`: one
  invariant for the three. `ClaimersCounted` counts the callers between claim and launch as
  a set: each has a credit of its own, which one caller alone (`LaunchedByClaim`) cannot
  say when two are under way. `Grounds` traces each report of "paid" in anybody's hands
  to the gateway, and `ReportsKnown` says that the finalizer has a branch for it.
- `PanelProofs!ProofAlwaysBecomesPayment`, `RowsAlwaysAgree`, `ReversalsAlwaysAskedFor`:
  one invariant for the three. `OneProof` says that one message at most may still become
  the payment; `OneReview` that one review of a payment is under way, on the status it
  judged; `RowsAgree` that the rows differ only between the two saves of a rejection;
  `QueueWaits` that what waits in the queue of the panel has not begun. The exceptions are
  those the properties name, and nothing is assumed of the constants.
- `PanelProofs!AlwaysSettingsSound`, `AlwaysStoredInRange`, `EditsAlwaysLand`: for every page
  and any number of editors, one invariant, `SettingsInv`. `Agreed` is why an edit is not
  lost: unless the history is risky one editor at most sends values (`Sends`), the row is
  what was meant but for the fields he still has to write (`FieldsAgree`), and a page of one
  row agrees with the database outside the edited field (`WholeAgrees`). `SheetLands` says
  of every form which fields it writes, page by page. The proof found one repair of
  `StoredInRange`: with three editors, a form that still holds an old object of a gateway
  stores the panel's large percentage once more after the bot had corrected it; the run has
  two editors, so it never met it.
- `ReserveProofs!PlanAlwaysKept`, `AlwaysRenewedOnce`: `PanelDone` (past the panel means
  renewed) lets the last delete go; `NotAgain` says that a renewed plan has no other
  activation before the panel, and that its row is gone or about to be deleted;
  `PlansApart` that two activations of a plan are among the doubtful ones.
- `BroadcastProofs!NobodyEverSkipped`, `RestartsRepeatOne`: without overlap one task is alive
  (`OneTask`), it has covered everybody up to its cursor, and the users who would get the
  message twice if the job were resumed now (`Extra`) are no more than the restarts, or one
  more while a cursor is not saved (`Resumable`). `PageAhead`, that a page leaves out
  nobody between the cursor and its last user, is what carries coverage over a message;
  `Fresh`, that a new job has sent nothing, starts it. TLC checked this invariant too, on
  the instance of `MCBroadcast` with one and with two restarts.

Only model-checked: all liveness (`LockReleased`, `PaymentSettles`, `JobEnds`,
`DueSettles`, `PaidIsCredited`, `Converges`, `StatusSettles`), which needs fairness and
ENABLED and is outside the prover's reach. Every invariant of the runs is the subject of a
theorem. The models declare no RECURSIVE operator.

## 6. Not modelled

Whole components, listed in `PROJECT.json` with their reasons:

- **Alerts, reports and reminders** (`jobs/`): messages; at most a marker that one was
  sent. The markers of `proxy_alerts.py` are the next thing to model (section 7).
- **Panel adapters, the generated client**: external; their outcomes are choices of
  the callers' actions.
- **Web panel API** apart from the routers that change what a module models: dashboards
  and lists read, and login codes are a protocol of their own.
- **Keyboards and menus of the bot, front end, migrations, installer**: no state that
  the properties are about. The models let a button of any age be pressed.

Parts of the modelled components:

- **Signatures** of callbacks and the HTML pages of gateways; exchange rates.
- **Identifiers in a gateway's callback**: `ZibalVerify`, `ZarinpalVerify` and `PaypingVerify`
  verify the payment's own record. The code passes on the track id, Authority or refid of the
  request without comparing it with the stored one (`rial_gateway/views.py:240`, `:338`,
  `:147`); a request that names another one is not modelled.
- **Deleted payments**: `Commit` of `GatewayPayment` goes on when the row was deleted under
  way. In the code `refresh_from_db` raises then and the launch is lost, so the model has
  behaviours more than the code.
- **Unreadable amounts**: a NowPayments report without a `price_amount`, or with one that is no
  number, counts as no mismatch (`nowpayments_service.py:138`). `Claims` has readable amounts,
  so `PaidFirst` says nothing of the others.
- **The list of cards** and the forms for coins, but for what a payment and a session see
  of them.
- **Draft invoices deleted after two weeks** by `del_unpaid_payments.py` apart from
  their payment; the deletion of payments is modelled.
- **The `user_deleted` webhook**, which deletes the proxy with its rows, and the
  reset of failure counters, which decides only how long a cooldown lasts.
- **Overlapping runs** of `sync_settings` and of the job that checks payments: the
  scheduler may start a tick while a slow one runs.
- **Settings**: a reload of one object is one step; at the start empty texts are filled. The
  forms of a gateway's page are one table here, so the entries of `SettingsForms` in
  `PROJECT.json` name windows of handlers and not single lines.
- **Services**: names and their order, PasarGuard's groups, "all inbounds", the users a
  service is limited to, and the bulk jobs over a service's accounts. The panel refuses
  to delete a service that was sold; whether it was is a free choice.
- **Menus**: the walk of `_would_cycle` is one read, the save buttons of old messages and
  the titles are left out. The panel's patch touches one field at a time. A move below a menu that is
  just being deleted is written and counted as reachable; the database's foreign key would
  refuse it.
- **Servers**: the older registry of Marzban clients and the bulk change of prices.
- **Subscriptions**: credentials, links and QR codes change nothing in the database;
  reserved plans are in `Reserves`. The deletion of a service, which unlinks it from its
  subscriptions, and an admin's deletion of an invoice by hand are left out. An error of the
  connection that no client wraps ends `refresh_servers` for the night; the model lets every
  night reach the subscription in the end.
- **Accounts**: searches, pages and messages to users.

## 7. Plan

Done, in this order: `Wallet` first, because every paid service passes through it;
`PaymentLedger` and `ReceiptReview`, the payment method with the most concurrent
judges; `CryptoPayment`; `Broadcast`; `Reserves`; the proofs of section 5; then
`GatewayPayment`, `OfflineReview` and `Checkout`, which complete the payments; `SettingsForms`
and `SettingsStore`; `Services`; `RowEdits` with `Accounts`, `Catalog`, `Servers` and
`Subscriptions`; then the proofs of `GatewayPayment`, `CryptoPayment`, `Reserves`,
`Broadcast` and `OfflineReview`, those of activations and revocations, those of the
four modules over `RowEdits`, those of `Checkout`, `Services` and `SettingsStore`, the two
sums (`ReviewSound`, `TransfersCovered`), the forest of menus, and the ledger for
`CryptoPayment` and `GatewayPayment`.

Next:

1. Models of the markers of `proxy_alerts.py`, of the bulk jobs over a service's accounts
   with their lock in Redis, of login codes, and of the list of cards.
2. An abstract specification of `OfflineReview` that knows of approvals after a rejection.

## 8. Running

    tlc -workers 2 -config MCWallet.cfg MCWallet
    tlapm WalletProofs.tla

Each `.cfg` names the constants and the properties; every
run takes less than three minutes with two workers.
