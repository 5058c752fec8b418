# A formal model of marzbot

marzbot sells VPN configurations over Telegram. This directory holds TLA+
modules that model its core, TLC configurations that check them on small
instances, and TLAPS proofs of what holds for every instance. Every definition
is translated from the Python source; `PROJECT.json` names, definition by
definition, the lines it stands for.

## The system

Three processes share one PostgreSQL database (READ COMMITTED, SQLAlchemy's
async sessions) and talk to two outside services.

| Part | Source | State | Operations |
|---|---|---|---|
| Wallet | `services/wallet`, `repositories/wallet.py` | `wallets`, `wallet_transactions` | credit, debit with a credit limit |
| Payments (api) | `apps/api/routes/webhooks/nowpayments.py`, `services/payment.py` | `payments`, `orders` | IPN: find, credit, order, provision |
| Payments (worker) | `apps/worker/jobs/payments.py` | the same rows | poll NOWPayments for open payments |
| Purchase (bot) | `apps/bot/handlers/user/purchase.py` | FSM dialogue in memory, `orders` | choose a plan, a name, a discount code; pay |
| Top-up (bot) | `apps/bot/handlers/user/topup.py` | `payments` | open an invoice |
| Provisioning | `services/provisioning/manager.py` | `subscriptions`, `xui_clients`, the panel | capacity check, add a client, record it |
| X-UI client | `services/xui` | none | HTTP calls with retries; the panel itself is external |
| Discounts | `repositories/discount.py` | `discount_codes` | validate, use |
| Subscriptions (worker) | `apps/worker/jobs/subscriptions.py` | `subscriptions`, `xui_clients`, the panel | sweep: usage, activation, expiry |
| My configs, renewal (bot) | `my_configs.py`, `renewal.py`, `admin/subs.py` | the same rows, `orders`, the panel | view, refresh, new link, on/off, refund, delete, revoke, renew |
| Servers (bot) | `admin/servers.py` | `xui_servers`, `xui_inbounds` | add, switch, archive or delete, synchronise the inbounds |
| Support (bot) | `repositories/ticket.py`, `support.py` (twice) | `tickets` | message, alert, reply, close |
| Mailings (worker) | broadcast, retargeting, expiry notifications | `broadcast_jobs`, `users` | send to many users, mark who has blocked the bot |
| Users (bot) | `repositories/user.py`, `start.py`, `admin/users.py` | `users`, `wallets` | get or create on /start, ban, role |
| Other administration | `apps/bot/handlers/admin` | plans, settings | single writes |

How they interact: handlers call the managers directly; the wallet is reached
from the bot (purchases, renewals, refunds, administration) and from the api
(payments); the panel is changed by purchases, payments, the worker's sync and
the customer's own actions; api and worker share the rows of `payments`; bot and
worker share `subscriptions`.

### What is hard in it

* **Sessions.** A session is one transaction per update or request, and an
  identity map that hands out what it loaded first. `SELECT ... FOR UPDATE` waits
  for the row and then returns the old object.
* **Concurrency.** aiogram runs every update as a task of its own, FastAPI every
  request, the scheduler its jobs. Nothing but row locks and unique indexes
  orders them.
* **The panel is outside the transaction.** Calls time out after they took
  effect, are sent again, fail; the process may stop between the panel's answer
  and the commit.
* **Errors are swallowed** in several layers, and a swallowed error is followed
  by a commit.
* **IPNs** come twice, late, in any order, in parallel, or before the row, and the
  webhook also handles requests that NOWPayments did not send: it only logs a
  missing or wrong signature.

`PROJECT.json` lists these hazards at their lines, with the properties aimed at
them. What makes each part correct: the ledger is a chain and the balance its
end (Wallet); a payment is credited exactly once, after it was confirmed, and in
the end (Payments); an order is either served and paid, or paid back, or
findable (Purchase); a subscription's row, its money and its client on the panel
agree, and it ends (Subscriptions); a server that is off has no active inbound, and
a live subscription keeps its server (Servers); a message nobody has seen to shows
in the list of open tickets (Support); a broadcast ends, reaches everybody it was
for and nobody twice (Mailing).

## The modules

`Wallet.tla` models one wallet row. A *session* is a webhook request or a bot
update. `open`, `call`, `cached` and `staged` are the session's handler, the
`process_transaction` call it waits in, its identity map and its flushed rows;
`holder` is the row lock; `balance` and `ledger` are what is committed. `Apply` and
`Refuse` are one call of `process_transaction` in its savepoint; the savepoint's
rollback releases the lock only if it took it. Sessions in `Preloading` load the
wallet before their handler runs (`UserAccessMiddleware` loads the user with the
wallet). `seen` is history: how many rows the cached balance reflects.

`WalletLedger.tla` is what the docstring of `process_transaction` promises: batches
of rows posted in one step. `Wallet` refines it when `Preloading` is empty.

`Payments.tla` models one row of `payments`: the bot handler that stores it, the
webhook requests (`hook`), the polling job (`job`) and NOWPayments (`remote`,
`unanswered`, `answered`; external). A request loads the row (`snap`), decides on
what it loaded, stages its writes and commits only the columns that changed.
`rowLock` is the lock its first UPDATE takes. A request has been sent by NOWPayments
(`own`) or not (`Unverified`, with any status); the handler treats both alike, and
`unverified` is history: how many deposits were made by requests of the second
kind. `replyFirst` covers the two orders
in which FastAPI versions allowed by `pyproject.toml` commit and answer.
`nameTaken` says that another purchase has taken the config name, which makes the
flush of the new client fail and the whole request roll back.

`Purchase.tla` models the bot's wallet purchase: the dialogue of each user (`fsm`,
the text being looked up in `asked`, the `buttons` that stay in the chat), the
pay-with-wallet handlers (`hdl`, one step between two suspensions), the discount
code with its row lock (`code`, `codeLock`), the committed `orders` and the clients on
the `panel`. Prices and balances are left out: whether the wallet can pay is
nondeterministic, and each order records whether it was debited and refunded.
All orders are for one server, the one of `max_clients`. `activity` is
`xui_clients.is_active` of a sold order: the capacity check counts the active ones
(`Active`), a config that is switched off (`SwitchOff`; also by its expiry, deletion or
revocation) gives its place away, and `SwitchOn` takes one without a check. `activity`
also remembers whether a config was ever off (`"back"`), which only the properties read.

`Sale.tla` is the purchase as the customer and the shop see it: a plan is selected, an
order appears in one step with its money settled (served, given back, not paid, or
`processing`, which an administrator has to look at), and a client appears on the panel,
never for an order that was given back or not paid. `Purchase` refines it; the plans
selected and not yet bought are those a committed order is missing for (`Unbought`).

`Servers.tla` models the rows of the X-UI servers and their inbounds. `server` folds
`is_active` and `health_status` into one, since they always change together; `sync` is
a synchronisation that has loaded the inbounds and waits for the panel. It has no
specification of its own: `Subscriptions` extends it and says how many active
clients a server has, which decides whether `DeleteServer` archives or deletes.

`Subscriptions.tla` models the subscriptions of one customer on one server (`Home`):
the rows in `db`, their clients on the `panel`, the panel's `traffic`, the time `now`.
A `task` is an update of the bot (customer or administrator), `sweep` the worker's
session. Each loads a row (`old`), calls the panel, and writes the columns in which
`new` differs from `old` (`Merge`). `lock` is the customer's `users` row, which the first
flush of every customer's update takes and a renewal holds over its panel call. A
panel call is `Answered`, `Refused`, or performed with its answer lost (`AnswerLost`).
Asked for the traffic, the panel tells it, or that it has no such client, or gives an
empty answer, which `get_client_traffic` takes for a count of zero, the client being
there or gone (`SweepEmpty`, and the same in `Answered`).
`offered` are the configs whose "delete" button has been on a screen. `renewals`,
`refunds` and `doubt` are history; `unpaid` counts orders of renewals whose debit was refused.

`Support.tla` models users and tickets: `row` and `ticket` are what is committed, `task`
the bot's sessions, `lock` the row locks that a session holds from its first flush
to its commit, `asked` the ticket an administrator's reply dialogue is for. `startFailed`,
`replied` and `waiting` are history. `Mailing.tla` extends it with the queue of
broadcasts (`job`) and the worker's `run`: whom it loaded, whom it found to have
blocked the bot (`marks`), what it still has to send. Both write the `users` rows, so
they wait for each other and can deadlock: `DeadlockFails` is PostgreSQL ending one of
the sessions of a cycle.

The `MC*.tla` modules only declare the model values of the `.cfg` files.
`WalletProofs.tla`, `PaymentsProofs.tla`, `PurchaseProofs.tla`, `SubscriptionsProofs.tla`,
`SupportProofs.tla` and `MailingProofs.tla` hold the proofs, `Extremes.tla` the lemmas about the newest
of some rows that two of them use. A definition named after another with a suffix
(`Queued_Begun` of `Queued`; "Seeded fault" in the older modules) is the variant that a
mistake in the code would produce; each property is known to notice one of them.

## What the runs check

| Run | Instance | Checks |
|---|---|---|
| `wallet` | 1 webhook, 2 bot sessions; amounts 1 and 2; 3 ledger rows, 2 calls a session | `TypeOK`, `SnapshotReads`, `FreshRowsChain`, `BalanceIsLastRow`, `CreditFloor`, `OneWriter` |
| `wallet_atomic` | 2 webhooks, nobody loads early; 4 ledger rows; balance and credit limit 0 | `LedgerChain`, `ImplementsLedger` |
| `wallet_lost_update` | 2 bot sessions | violates `LedgerChain` |
| `payments` | 1 request at a time, 2 crashes, 1 repeated IPN or request NOWPayments did not send, 2 panel clients | `TypeOK`, `CreditedOnce`, `PaidMeansDeposited`, `CreditedWhenConfirmed`, `OrdersArePaidFor`, `SubscribedIsOnPanel`, `ConfirmedIsCredited` |
| `payments_parallel` | 2 requests at a time | violates `CreditedOnce` |
| `payments_failed_order` | 1 request | violates `FailedOrderKeepsNoMoney` |
| `payments_polling` | 1 request and the job | violates `FinalIsCredited` |
| `purchase` | 2 customers, 2 names, 2 handlers, 2 plan selections and orders, 2 panel attempts, 1 restart, `max_clients` 1, `max_uses` 1 | `TypeOK`, `OneOrderPerDialog`, `ServedIsOnPanel`, `RefundedHasNoClient`, `OvershootIsBounded`, `UsesHaveOrders`, `EveryClickEnds`, `ImplementsSale` |
| `purchase_capacity` | the same without a restart | violates `SoldWithinMaxClients` |
| `subscriptions` | 1 subscription, 2 updates at a time; 2 clicks, 2 operations on 2 servers, 1 restart, 3 of these together | `TypeOK`, `OneRefundPerDeletion`, `RefundedHasNoClient`, `IdAgrees`, `NoFreeVolume`, `LiveKeepsServer`, `OffServerHasNoInbound`, `UsedUpExpires`, `GoneIsNoticed` |
| `subscriptions_archived` | 1 subscription, its server archived | violates `ArchivedExpire` |
| `desk` | the owner and a customer, 2 tickets, 2 broadcasts, 2 updates at a time; 3 events, 1 of them a restart | `TypeOK`, `StartNeverFails`, `AnsweredWasDelivered`, `WaitingIsOpen`, `SentOncePerRun`, `FinishedTriedAll`, `BannedGetsNoMail`, `BroadcastEnds` |

What they show, read together:

* The wallet never mixes balances, never falls below its limit, and its balance is
  always the last row's, but the chain of the ledger is only unbroken between
  sessions that do not load the wallet before they lock it. Two bot updates of one
  customer lose an update.
* A payment is credited exactly once as long as one request works on it at a
  time, and the IPNs of NOWPayments credit it only when it is confirmed, also next to
  requests that NOWPayments did not send: `CreditedWhenConfirmed` says that every
  deposit before the confirmation is one that such a request asked for. That there
  can be one is what the handler says of itself ("processing anyway"). Two parallel
  IPNs credit it twice. Repetition, reordering, lost answers
  and crashes are harmless, except where the response leaves before the commit
  or the config name is gone: then the payment may never be credited, which is
  why `ConfirmedIsCredited` assumes neither. A final status that the polling job
  sees first is stored without a credit. An error of the panel keeps the price
  of a direct purchase.
* A wallet purchase is one sale from outside, made once per dialogue whatever is clicked; no config is sold
  without existing and no refund is paid for a client that exists; money that
  bought nothing is found under `processing`. The clients of a server that were never switched off exceed its
  capacity by at most one purchase of every other customer, because a customer's own
  purchases wait for the lock of the wallet. Clients that were switched off and on
  again come on top (see below).
* A subscription ends although every session writes over what it loaded minutes
  before: changed columns only, and a sweep that comes again, are enough. Refunds
  do not multiply as long as the panel is asked, because the second deletion is
  refused. The link in the database is the one the panel serves unless an answer
  was lost. A client that is gone from the panel is noticed only if the panel says so:
  to `GoneIsNoticed` that is a premise, because a panel that answers with nothing keeps
  the subscription live with a usage of zero, until its time is up. A subscription on an archived server never ends, against what the
  administrator is told.
* Tickets stay visible and broadcasts reach everybody through overlapping
  sessions, restarts and deadlocks; the price is that an interrupted run sends
  everything again.

### What else the models show of the code

These are reachable in the models and not ruled out by any property, because the
code does so and no document says otherwise:

* one customer alone fills a server beyond `max_clients`: a config that is switched off
  gives its place to the next purchase, and is switched on again without a look at
  the capacity (`SwitchOn`);
* a refund while the server is off leaves the client on the panel, and two clicks
  on it are both paid (`refunds.skipped`, kept apart from `refunds.asked`);
* two renewals that overlap are both debited and one of them is lost; a renewal by time of
  a subscription that has not begun adds nothing; a refused debit leaves an order
  with the status `completed` (`unpaid`); a renewal enables a config its owner had
  switched off;
* a renewal whose panel update fails is not repaired, and neither is an expiry
  whose call fails: the row is expired, the client still runs;
* the "new uuid" of an expiry is never sent, because the payload takes the old id
  (`SweptId`);
* a deletion or a revocation acts on any status, and a deletion whose call failed
  leaves a client that nothing looks for;
* a server that has inbounds cannot be deleted (the ORM sets their NOT NULL
  `server_id` to NULL); a server that is switched on again has all its inbounds off;
* one customer can have two open tickets; an alert that Telegram refuses marks the
  administrator as having blocked the bot;
* a broadcast passes over a user on a rate limit; a campaign that fails once loses
  all its marks.

### Bounds, and why they are enough

The bounds count things that could go on for ever: ledger rows (`MaxRows`),
calls of one session (`MaxOps`), crashes, repeated IPNs and requests that
NOWPayments did not send (`MaxExtra`, together), panel clients, plan
selections, orders. Three ledger rows let one session post between the read and
the write of another and a third build on the result; two calls of a session make
order-debit-refund and its partial rollback possible. A payment's interesting
events are one credit and one repetition of it after a crash; two crashes let the
repetition die as well; one extra request comes before, between or after them, and
makes the deposit or changes the status. Configs are switched off and on without a bound. Two handlers are the least that interleave, and two
orders the least that compete for a name, a place on the server and the discount
code; `max_clients` and `max_uses` are one so that the second purchase meets the
limit. When `MaxPanel` is reached the panel can still refuse or
fail, so no request is stuck by the bound. Handlers are
interchangeable, so `Click` always takes the same idle one (`NextTask`).

In `subscriptions`, time passes once and the plan's volume is one unit, so one use or
one tick ends a subscription; two clicks are two refunds, a refund against a
renewal, or two resets, each next to a running sweep; three events allow both of
them and one restart or one operation on the server. `N` may be larger; one
subscription is enough for every property here, none of which relates two of
them. Two servers let one be added next to the old one. In `desk`, one person on each
side of the desk and two sessions are the least that compete for a row, two
tickets the least that a message can choose between, two broadcasts the least
that one run can finish in order. Three events are a ban, a broadcast and a
message, or a message, a reply and a restart.

Deadlock is not checked: every instance may come to rest, when its bounds are
used up and nothing is in flight.

### Fairness

`Payments` assumes that a running request goes on (asyncio runs every ready task;
the HTTP clients have timeouts), that the bot handler which stores the row
returns, and, with strong fairness, that NOWPayments goes on repeating an IPN it
got no 200 for. Nothing is assumed of crashes, of the polling job, or of
NOWPayments moving a payment on. `Purchase` assumes that a handler that can go on
does. Waiting for a row lock is not an assumption: the lock is a guard, and
`EveryClickEnds` shows that it is always released.

`Subscriptions` assumes that a panel call returns (timeouts), that a session whose
call has returned writes, that the scheduler starts the sweep again, and, with
strong fairness, that a panel asked for the traffic again and again answers now
and then, and now and then with the traffic of a client it has: without it a
subscription whose panel is down for ever is never swept. Nothing is assumed of how
the panel answers for a client it does not have. `GoneIsNoticed` therefore
carries its own premise, strong fairness of `GoneTold`, that such a panel does not for
ever give empty answers only.
`Mailing` assumes that a handler goes on, that a run goes on and the scheduler
starts it, and that PostgreSQL ends deadlocks. Neither assumes anything of
customers, administrators, restarts or errors.

### Assumptions of the newer modules

What the modules take for granted, besides what their comments say:

* an operation that loads, changes and flushes with no wait in between (a ban, a
  role, a ticket closed, a server switched) is one step; what it writes is
  committed with it;
* sessions do not flush before a query (`autoflush=False`, `core/database.py`), so the
  first flush, and with it the first lock, is where the code says `flush`;
* when the panel says that it does not have a client, it does so with an error that
  the sweep recognises ("No traffic stats found" or 404); it may also say nothing of
  the kind, or answer with nothing;
* the two calls by which the sweep blocks a client have the same effect on the
  panel and are one step;
* one run of the mailings at a time (each job has `max_instances=1`; different jobs
  could overlap), whom a campaign and the expiry notices load is any set the
  guards allow, the expiry notices' two loops are rounds over users the session
  keeps as it first loaded them;
* a row that becomes free goes to a waiting session of the bot before the run
  (`Granted`), and the victim of a deadlock is any session of the cycle;
* user and wallet of a first /start are inserted in one savepoint and are one row;
  a /start of a known user, denied updates and handlers that only read are left out.

## What is proved

`WalletProofs.tla`, for every set of sessions, of positive amounts, every initial
balance above the limit and every bound (`SessionsAssumption`, `MoneyAssumption`,
`BoundsAssumption` are the only assumptions):

* `WalletTypeOK`, from `TypeInv`, which adds that a session with uncommitted rows has
  a number in its identity map: the balance its commit writes;
* `WalletInvariant`: `IInv` is inductive. The safety invariants are not inductive by
  themselves. What has to be added is that they hold of every session's view,
  the ledger as it would commit it now (`GoodLedger`); that closed sessions hold
  nothing (`ClosedClean`, `CallsInOpen`); that a cached balance is the one some
  prefix of the view left, and all of it once the session has written
  (`CacheHonest`); and that a session that does not load early has nothing cached
  until it posts its deposit (`FreshClean`);
* from it `WalletSnapshotReads`, `WalletFreshRowsChain`, `WalletBalanceIsLastRow`,
  `WalletCreditFloor`, `WalletOneWriter`;
* `WalletLedgerChain` and `WalletImplementsLedger`: with `Preloading = {}`, the chain
  is unbroken and every step of `Wallet` is a step of `WalletLedger` or leaves it
  alone. The step that matters is `Commit`: `PostStep` shows that the staged rows
  extend the ledger as one atomic batch.

`PaymentsProofs.tla`, for any requests, polling job and bounds (`WebhooksAssumption` and
`BoundsAssumption`):

* `PaymentsTypeOK`, `PaymentsPaidMeansDeposited`, `PaymentsCreditedWhenConfirmed`,
  `PaymentsOrdersArePaidFor`, `PaymentsSubscribedIsOnPanel`, from one invariant. The
  properties speak of committed rows; what keeps them is what a running request may
  hold (`RequestOK`): a message that was really sent if NOWPayments is its sender, the row's
  lock once it has staged a deposit, an order only together with that deposit.
  `SentIsReached` ties the messages of NOWPayments to the payment's real status, so that a
  deposit of theirs (one that `unverified` does not count) comes after the confirmation, and `PanelCovers` counts one more client while
  a request has staged a served order;
* `PaymentsDepositsBounded`: with a finite set of requests, the deposits of a payment
  never outnumber the requests that can be served at once, because every deposit uses
  up a request that loaded the row unpaid (`DepositsLeft`);
* `PaymentsCreditedOnce`: from it, exactly once if at most one request is served at a
  time. This hypothesis is the one of the `payments` run; `payments_parallel` shows what
  happens without it.

`PurchaseProofs.tla`, for any customers, handlers, names, plans, bounds and limits
(`PurchaseAssumption`): all safety properties of the `purchase` run. The invariant
says what a handler holds at each of its steps (`HandlerOK`), that order numbers are used
once (`IdsApart`), that a customer's uncommitted order is alone because of the wallet's
lock (`OneWallet`), and three counts: a selected plan is in the dialogue, in one handler or
in one order (`PlansCounted`, for `PurchaseOneOrderPerDialog`); no handler has read more
uses of the code than committed orders explain (`UsesCounted`); and the handlers that
have passed the capacity check belong to different customers (`Overshoot`, for
`PurchaseOvershootIsBounded`; it counts the kept clients, and whatever is switched
off or on only takes clients away from them, `SwitchStep`). The steps are first reduced to a few forms (`StepForm`), and
the invariant is proved of the forms.

`PurchaseImplementsSale`: from the same invariant, every step of `Purchase` is a step of
`Sale` or leaves it alone, one lemma for each step of `Sale`. A commit sells
(`SellStep`): the order is new (`IdsApart`), its handler has settled it (`GoodOrder`), and
its customer still had a plan to buy (`PlansCounted`). The panel delivers only to an order
that is not committed (`DeliverStep`), so what was decided about the money stays right.

`SubscriptionsProofs.tla`, for any number of subscriptions, updates, servers and bounds
(`SubscriptionsAssumption`, `ServersAssumption`; `Inbounds # {}` is among them because the
client of a subscription has an `inbound_id`): all seven safety properties of the
`subscriptions` run. The invariant says what sessions know:

* every session's row was once committed, so its uuid and its volume are not above
  today's (`SessionsRemember`), and only "reset" and "volume" write something else;
* a refund that has deleted the client and not yet committed is the only one, and
  nothing brings the client back (`RefundsApart`): `OneRefundPerDeletion` and
  `RefundedHasNoClient`;
* of the resets that the panel has performed and that are not committed yet there is
  one, since it answers only the uuid it has (`ResetsApart`): `IdAgrees`;
* a paid renewal holds the customer's row from its debit to its commit
  (`PaidHoldsLock`), so the panel is at most one renewal ahead of the database
  (`VolumeCovered`): `NoFreeVolume`;
* a recorded inbound stays, and with it the server's row (`HomeStays`).

`MailingProofs.tla`, for any people, sessions, tickets, broadcasts and bounds
(`SupportAssumption`, `MailingAssumption`; `NoRowAssumption` says that the mark of an absent
row is not a row): all seven safety properties of the `desk` run. `SupportProofs.tla` holds
what concerns the rows and sessions of `Support`, which has no specification of its own.
The lemmas of its steps are about any set of lock holders, so that the worker is one of
them in `MailingProofs`. The properties speak of committed rows; the sessions act on what
they read before they waited, and the invariant says what of that is still good:

* a row that was found stays, and so does a ticket that is being replied to
  (`SessionOK`, `TicketsKnown`): `MailingStartNeverFails`; a session that will save
  "answered" has had its reply delivered: `MailingAnsweredWasDelivered`;
* the ticket that a message is being written into is open, or will be reopened because
  it was read as answered, or an administrator has acted since (`Unmissed`):
  `MailingWaitingIsOpen`;
* only sessions between their first flush and their commit hold rows (`LocksHeld`), so
  that a /start which finds the row's lock free and the row missing may insert it;
* whoever a run can still send to has got the broadcast at most once from each lost
  run (`Deliveries`): `MailingSentOncePerRun`;
* whoever a broadcast is still for has been tried, is left to be tried, or is marked by
  the run itself, which takes him out of reach when it commits (`Tracked`):
  `MailingFinishedTriedAll`;
* who is banned is marked as blocked (`BannedIsBlocked`), and the users a run of the
  notices has loaded are, in its second loop, as they were in the first (`Spared`):
  `MailingBannedGetsNoMail`.

Every safety property of a passing run is proved, and both refinements. Only model-checked: all liveness (`ConfirmedIsCredited`, `EveryClickEnds`,
`UsedUpExpires`, `GoneIsNoticed`, `BroadcastEnds`), which needs fairness and ENABLED, out of
this prover's reach. The runs that expect a violation are about statements that are not true.

## Plan

Modelled first is what handles money. Done: `Wallet`, `WalletLedger`,
`Payments`, `Purchase`, `Sale`, `Servers`, `Subscriptions`, `Support`, `Mailing`, and the proofs named
above. Left, in order:

1. A refund with two subscriptions of one plan: the refund takes the newest
   provisioned order of the plan (`Newest`), which may be another subscription's.
2. `Payments` as a refinement of a sale: `Sale` settles an order once, while a direct
   purchase whose panel call fails keeps its price, so it needs one more outcome.
3. Plans, the discount that is skipped, prices of orders in `Purchase`.

## What is not modelled

Texts, keyboards, formatting and QR codes; reading handlers (statistics, lists,
the mini-app api, the health check); configuration and start-up; the backup job,
which only runs `pg_dump` and sends files; how a signature is computed (its check
changes nothing but the log); money arithmetic
beyond integers (the code uses `Decimal` quantised to eight places, so that
addition is exact). Of the administration: plans, discount codes, settings and the
campaign's settings are single writes of one row by one administrator and are left
out, as are the name, address, credentials, domains and limit of a server.
`artifacts/scratch` is not part of the program. `PROJECT.json` says, component by
component, what is left out.
