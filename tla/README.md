# PassDock in TLA+

A verification project for PassDock, a shop whose server (Go, `src/apps/server`)
takes orders from a web shop and a Telegram bot, receives payments, has codes
issued by providers and hands them over. Two sidecars stand beside it: a watcher of
TRON transfers (`src/apps/okxwatcher`) and an adapter that makes codes in an
upstream new-api (`src/apps/newapiadapter`). In front of it stands a web client
(React, `src/apps/web`) with three kinds of pages: the storefront, the signed-in
buyer's desk, and the admin console. The modules here translate that code; TLC checks
them on small instances and TLAPS proves the main theorems for every value of the
constants.

Paths below are relative to `src/apps/server/internal/` unless they begin with
`apps/`, those of the web client to `src/apps/web/src/`. `PROJECT.json` maps every definition to the lines it stands for.

To check a run: `tlc -config OneOrder.cfg MCOrderLifecycle`. To check the proofs:
`tlapm Orders_proofs.tla`.

## 1. The system

| Part | State it keeps | Operations | Speaks with |
|---|---|---|---|
| Order review and closing (`service/orders.go`, `lifecycle_sweeper.go`) | `orders` row: status, payment status, delivery status; payment record | confirm, reject, cancel, review timeout, expiry, manual completion | everything below works on its rows |
| Fulfilment and delivery (`service/fulfillment.go`) | fulfilment, code-issue and delivery records; `product.metadata.inventory` | reserve, call provider, succeed or fail and restore, deliver, retry, resend | providers over HTTP; job table |
| Buyer operations (`service/public.go`, `bot_commands.go`) | same order rows | mark paid, cancel | reads outside its transaction |
| Refunds (`service/refunds.go`) | refund records | mark; prepare, call provider, finalize | providers; cancels retry jobs |
| Retry jobs (`service/async_jobs.go`) | `async_jobs` rows, attempt number in the context | schedule, replace, cancel, claim, run | calls fulfilment |
| Payment intake (`service/payment_guards.go`, `payments.go`, `payment_automation.go`) | callback logs, watcher records, references on payment records | callback, on-chain confirmation, operator's confirmation, automation | confirm, fulfil, deliver as separate transactions |
| Watcher sweep and sidecar (`service/okx_watcher.go`, `apps/okxwatcher`) | nothing durable | list orders, scan transfers, match, confirm one after the other | payment intake |
| Idempotency keys (`httpapi/idempotency.go`, `service/idempotency.go`) | `idempotency_records` | acquire, resolve, run, finish | wraps write requests |
| Code adapter (`apps/newapiadapter`) | map of orders to codes, and its file | issue recharge codes, issue subscription keys | upstream new-api |
| Products (`service/products.go`) | product row with its metadata | save the whole form | inventory of fulfilment |
| Storefront orders (web: `hooks/useStorefrontOrder.ts`, `useStorefrontOrdersCenter.ts`, `storefront/orders.ts`) | page state, entries in session storage | create, mark paid, proof, cancel, look up, refresh, show the result | the public API; one storage for two pages |
| Client sessions (web: `hooks/useStorefrontSession.ts`, `useAdminSession.ts`, `App.tsx`) | two browser stores, state of each tab | sign in and out, restore, check with `/me`, redirect | accounts of the server; the other tabs |
| Buyer's desk (web: `hooks/useStorefrontAccountCenter.ts`, `useStorefrontSupport.ts`) | lists, detail, forms | reload, select, read the result, file a ticket | orders and tickets of the server |
| Configuration console (web: `pages/admin/AdminSystemPage.tsx`, `AdminProductsPage.tsx`, `admin/system`, `admin/products`) | rows of a section, editor, drawers, selection | create, edit, switch, delete, batch, test, webhook, runtime settings | the admin API, or a local draft |
| List console (web: the other pages under `pages/admin`, `hooks/useAdmin*Data.ts`) | records, filter, tab, keyword, selection, action panel, detail | read, filter, switch tabs, search, act on one record or on the selection | the admin API, or demo records |
| Authentication of callbacks, tickets, uploads, settings, dashboards | own tables | see section 8 | in front of, or beside, the above |

**What is hard in it.** (1) Every operation is a transaction over whole rows, but
two buyer operations read the row through another connection first and save what
they read. (2) Payments come by three routes, repeated and out of order, and what a
route checks it partly checks before the transaction that confirms. (3) Inventory is
a field of a JSON document that fulfilment and the product form both write. (4) A
fulfilment can be started by automation, an operator and a retry job, fail half-way,
and be retried after everything else has moved on. (5) A refund is two transactions
with a slow call between them. (6) The process can die between any two transactions;
what only memory knew is gone. (7) The sidecars and the idempotency keys do lookup,
work and update in separate steps. (8) A handler of the web client stops at every
`await`; until it goes on the user may have pressed something else, left the page, or
signed out in another tab, and its answer lands on a page that is no longer the one
it was asked from. (9) A batch is many requests in flight, of which some fail. (10) A
field of the console passes through six lists written apart (row type, columns, form,
payload, answer, draft); one that is missing from a list is lost without an error.

**What makes it correct.** Goods: made at most once per order, from inventory that is
there, conserved under failure and retry. Payment: a confirmed payment is not lost,
a transfer pays one order, a later payment does not take the place of an earlier
one. Retries: end, and never outlive the success or refund that made them pointless.
Completion: backed by a payload. Keys: a handler runs once, repeats get its answer.
Codes: what is answered exists upstream, and repeats agree. Web client: an order is
filed under its product and never shown going backwards, no account appears under
another's token, a page shows what belongs to its selection and its filter, a batch
acts on records that match the filter above it, and a success message is true.

## 2. The modules

| Module | Models | Composes |
|---|---|---|
| `OrderLifecycle` | the order's life: buyer, review, fulfilment, delivery, refund, retry worker, product form, crash | |
| `OrderLedger` | abstract specification: what the shop promises about its goods | refined by `OrderLifecycle` |
| `OkxMatching` | the sidecar's matching, and what a list of matches must be | |
| `PaymentIntake` | callbacks, on-chain confirmations, operators, the sweep, automation | `OrderLifecycle` (its abstract specification as well) and `OkxMatching` |
| `IdempotencyKeys` | the idempotency middleware | |
| `CodeAdapter` | the new-api adapter and its store | |
| `StorefrontOrders` | the checkout page, the order centre, and the storage they share | |
| `ClientSessions` | the two session hooks and the redirects, in several tabs | |
| `BuyerDesk` | the account page and the support panel of a signed-in buyer | |
| `SystemSections`, `ProductSections` | the sections of the configuration pages as the fields their code names | |
| `ConfigConsole` | the configuration pages, one section at a time | the two modules of sections |
| `ListPages` | the tables of the list pages as the fields their code names, the guards of their buttons | |
| `ListConsole` | the list pages, one table at a time | `ListPages` |
| `Subsequences` | `filter`: a list with only some of its positions kept | used by `OkxMatching`, `PaymentIntake`, `StorefrontOrders`, `BuyerDesk` |
| `Orders_proofs` | theorems about `PaymentIntake` and the `OrderLifecycle` it extends | |
| other `*_proofs` | theorems about the module of that name | |
| `MC*` | values of constants and symmetries for TLC | |

### OrderLifecycle

A row of `orders` is a record of its three statuses. The latest fulfilment, issue and
delivery record are kept per order, because the code looks only at the latest; of the
older delivery records it matters only whether one is a telegram record, since
`RetryTelegramDelivery` takes any record of that channel. `stock` is
`product.metadata.inventory` of one product. `queued` is the pending retry job of an
order by its attempt number, `running` the claimed one. `req` are buyer requests that
have read and not yet written.

| Action | Code |
|---|---|
| `BuyerRead`, `BuyerMarkPaid`, `BuyerCancel`, `BuyerAbort` | `MarkStorefrontOrderPaid`, `CancelStorefrontOrder` (public.go): `resolveOrderByNo` runs on `s.db`, not on the transaction |
| `ConfirmPayment`, `RejectPayment`, `CancelAdminOrder` | orders.go |
| `ReviewTimeout`, `ExpireOrder` | lifecycle_sweeper.go; each order of the list is read again in its own transaction |
| `Fulfil` = `FulfilSucceeds` or `FulfilFails` | `runFulfillmentForOrderTx` |
| `ClaimJob`, `RunJob`, `RefuseJob`, `LoseJob` | async_jobs.go |
| `Deliver`, `CompleteDelivery`, `RetryTelegramDelivery` | `runDeliveryForOrderTx`, `CompleteAdminOrderDelivery`, bot.go |
| `MarkRefund`, `PrepareRefund`, `FinalizeRefund` | refunds.go |
| `EditProduct` | `UpsertAdminProduct` |
| `Crash` | the process dies and starts again |

Choices a reader should know:

- *A transaction is one action.* The default database is SQLite in WAL mode: a
  transaction that has read a row somebody else has since written fails with
  "database is locked" instead of committing. So a handler that reads and writes
  inside its transaction behaves as if it ran alone, or fails (`BuyerAbort`,
  `LoseJob`, `Abort`). PostgreSQL is another matter: see section 8.
- *"issuing" and "running"* are written and replaced inside one transaction; no
  committed state shows them, so they are not values of the model.
- *Telegram delivery* is switched off by `resolveDeliveryChannelTarget`, and the web
  channel never fails. So a delivery failure, and the retry job for it, cannot
  happen; the model has neither.
- *A batch of jobs is a barrier* (`RunAsyncJobSweep` waits for all goroutines of a
  batch, and only one worker is started). A job of an order is claimed only when the
  previous one has ended; `running[o] = 0` in `ClaimJob` says so.
- *`LoseJob`* stands for a refused transaction, and for jobs claimed in a sweep whose
  next claim fails, which are dropped with their rows left "running".
- *A failed delivery still commits.* Without a payload `Deliver` leaves a pending
  record behind, since `persistDeliveryFailureTx` looks for one in "sending".
- *`live`* in a refund record is not a column: it says that a request of this process
  is waiting for the provider. A crash clears it and leaves the row "processing".
- `paidAt`, amounts, events, tickets, proofs and texts are left out. Whether a
  deadline has passed is a free choice.
- `stockBase` and `sold` are history variables; no action reads them.

### PaymentIntake

A call is a sequence of transactions: `pc` says which comes next. `ReceiveCallback`,
`OnchainRequest` and `ConfirmByHand` begin one; `Confirm`, `AutomaticFulfil` and
`AutomaticDeliver` are its transactions; `Refuse` is a transaction that finds the
order in a state it does not accept, `Abort` one the database refuses. `log` are the
callback logs, `watcher` the watcher records, `payRef` the external reference on the
order's payment record, which the next confirmation overwrites. `Scan` and
`TakeMatch` are the sweep: listing and scanning are one step because the chain may
move (`ChainMoves`) right before or after it. `SelectMatches` is the sidecar's greedy
assignment. Amounts are a relation: which transfer has which order's amount.
Transaction number and hash of a payment are one reference.

The automation flags a callback may ask for are folded into the channel's two flags
(both are constants). Retry jobs are left to `OrderLifecycle`: the runs set
`MaxRetries = 0`, and `Worker` is not part of `IntakeNext`.

`paidBy` is a history variable: by each route, the orders a transfer has confirmed.

### IdempotencyKeys

One action per statement of `handleIdempotency`: insert (`Acquire`), lookup
(`Resolve`), the handler (`Run`, or `Panic`: the recovery middleware stands outside,
so nothing after the handler runs), update or delete (`Finish`, `FinishFails`). What
an answer says is the number of the execution that wrote it, 0 for an empty body. A
fresh record has code 200: `AcquireIdempotencyRecord` passes 0, but gorm leaves a
zero value to the column's default (`model/idempotency.go:7`).

### CodeAdapter

`items` and `file` are the store and its file; `Upsert` changes the memory even if
the file cannot be written. The upstream is external: `Mint` makes codes, and the
answer may be lost. `disturbed` is a history variable: the orders asked for twice at
once, or whose file could not be written; `AnswersAgree` is about the others, because
for these the code keeps no promise (the lock covers one lookup or one update, never
a request).

### The web client: what its modules share

A handler of a page is an entry of `calls`. It runs to its first `await` in the
action of the click (`RefreshSelected`, `SubmitEditor`, `OpenAction`, ...), the
server takes its request in `Serve`, the request or its answer is lost in `Fail`, and
`Land` (or `WriteLanded`, `ListLanded`, ...) runs it on to the next `await` or to its
end. What a handler closed over at the click (an order number, a product, a filter) is
a field of its entry; what it reads after the `await` is read from the state then.
Between these steps every other action may happen. `live` says whether the effect or
the page a handler belongs to still exists; `late` marks the requests of a batch that
are in flight after the batch has failed.

A button the page disables, or covers with a drawer, is a guard; a flag such as
`loading` is a variable and a guard only where the code uses it as one.

`hasty` is a history variable: the user did something while an answer was awaited.
Where the code keeps a promise only to a user who waits, the property says `~hasty`;
where it keeps it always (`FiledUnderItsProduct`, `BuyerIsOwner`, `TypeOK`,
`ToldTicketsStay`, `PricesHaveProducts`, `UnpaidIsNotDelivered`), it does not.

`remote` is `isRemoteApiEnabled()`: with a server, or as a demo on local data. Both
are initial states of the same run.

### StorefrontOrders

| Action | Code |
|---|---|
| `CreateOrder`, `ActOnOrder`, `ActOnDraft`, `ToggleDialog` | the handlers of `ProductCheckoutPage` and `useStorefrontOrder` |
| `SelectOrder`, `RefreshSelected`, `LoadSelectedDelivery`, `LookupInCentre`, `LookupDraftInCentre`, `CatalogReloaded` | `StorefrontOrdersPage` and `useStorefrontOrdersCenter` |
| `LandInCheckout`, `LandInCentre` | what they do with an answer; `Persist` is `persistStorefrontOrder`: newest first, one entry per number, at most `Limit` |
| `GoTo` | leaving a page, and the history buttons that change the product without unmounting the page |
| `OperatorDelivers` | the order moves on at the server |

`store` is what both pages read, and what survives leaving one. `Elsewhere` are orders
placed by Telegram, whose `buyer_ref` names no product: they are filed under the
product of the page that looked them up.

### ClientSessions

`local` is shared by the tabs, `temp` is not; a session is its user and its token.
`Mount` restores what is stored, `StartCheck`, `CheckPassed` and `CheckFailed` are the
effect that asks `/me`, `StartSignOut` and `FinishSignOut` the two halves of
`signOut`, `Redirect` the effects of `App.tsx`. A sign-in is one step: no property is
about the time between the button and the answer, during which its form is disabled.
`kind` says which of the two hooks runs: they differ in `CallToken`, since the admin's
calls name no token and carry whatever is stored when they are made. This is also why
`BuyerIsOwner` is about the storefront: in the admin console the check of one tab
may be answered for the token another tab has stored in between.

### BuyerDesk

`account` is the page of `useStorefrontAccountCenter`, `panel` that of
`useStorefrontSupport`. `Script` lists the requests of each handler. A ticket has been
announced (`told`) once the submission has ended without an error, if no reading of the
list was on its way then (`Reading`): `ToldTicketsStay` is about these, for a buyer who
waits and one who does not. What happens to the others is in section 6.

### ConfigConsole, SystemSections, ProductSections

Each section is a record of sets of fields (`row`, `shown`, `form`, `sent`, `read`,
`kept`) and of the buttons it offers, read off the section's columns, editor, payload,
DTO mapping and draft. `ConfigConsole` is the machine all sections share: a row carries,
for every field, where its value comes from (there at first, typed in the form, lost),
so a field that a list forgets is seen as a value that is not the one typed.
`SubmitEditor`, `ToggleRecord`, `DeleteRecord` and their batch forms start a handler;
`Take` is what the server does with the request; `Merged` is how a reading replaces the
rows. `Upsert`, `Discard` and `Switch` are the local draft's counterparts. The sections
are not alike in what they can do, which `Can` and `Numbered` say.

Price templates are addressed by a product. `PriceRoute` is the client's side (the first
of key, productId, sku and productSku that is there), `PutPrice` the server's
(`UpsertAdminProductPrice`): a template with a number must be one of the route's product,
or the save is refused; no other template of that product may have its identity; one
without a number is inserted, or replaces the one of its identity.

### ListConsole, ListPages

Each table is a record of the fields shown, read, offered as filters, asked of the
server and applied in the browser, and of its actions. `ListPages` also holds the
guards of the buttons (`CanFulfill`, ...) and what the local draft makes of an action.
`ChangeFilter` reads again and drops the answer of the reading before; `Reload` and
every action read with the filter they were started with, and are never dropped.
`OpenAction`, `SubmitAction` and `RetryAtOnce` are one record or the selection.
`SwitchTab` and `SearchRows` are `AdminTabbedWorkbench`: orders and tickets have a second
tab (`Due`) over the same selection, a tab without filters of its own has a keyword.
Both hide rows (`OnScreen`) and leave the selection as it is. A keyword stands for a
value that some field of some record has.
`ServerMoves` is everybody else: the buyer, the workers, other operators.

## 3. The runs

| Run | Instance | Asks |
|---|---|---|
| `OneOrder` | 1 order of 2 units, codes, web, inventory 1 or 3, 1 buyer request, 2 retries, 2 refunds | `TypeOK`, `StockConserved`, `QueuedRetryIsForFailed`, `CompletedIsBacked`, `ResultsSurvive`, `PaymentKept` |
| `TwoOrders` | a telegram order of 2 units and a manual one of 1, inventory 2 or 3, 1 retry, 1 refund, fair worker | `LedgerKept`, `RetriesStop` |
| `Payments` | 2 orders of one amount, one fits the inventory, 1 transfer reported to either, 2 calls and the sweep, automation on | `IntakeTypeOK`, `TransferPaysOneOrder`, `SweepIsSound`, `PaymentRecordKept`, `OrdersKept` |
| `RepeatedRequests` | 1 key, 2 requests, 3 connections, 3 executions | `TypeOK`, `RunsAgainOnlyIfBroken`, `RepliesAreGenuine`, `AnswersAreFinal` |
| `AdapterCodes` | 2 orders, 2 handlers, 4 codes upstream, 1 or 2 codes asked for | `TypeOK`, `AnswersWereMade`, `AnswersAgree` |
| `Storefront` | 2 products, an order placed here and one elsewhere, 1 draft, a storage of 2, 1 handler | `TypeOK`, `FiledUnderItsProduct`, `PatientBuyerSeesItsOwn`, `NeverTurnsBack` |
| `Sessions` | 2 tabs, 2 accounts, 2 tokens, 1 reload, remembered or not, either hook | `TypeOK`, `BuyerIsOwner`, `OnlyOtherTabsDisagree`, `SessionsAreChecked` |
| `Desk` | 2 orders, 1 ticket, 2 handlers | `TypeOK`, `OneOrderAtATime`, `ToldTicketsStay` |
| `Config` | each of 11 sections, 2 rows, 2 clicks, 2 handlers | `TypeOK`, `ToldIsStored`, `ShownIsStored`, `PricesHaveProducts` |
| `List` | each of 15 tables, 2 records, 2 clicks, 2 handlers, 1 change elsewhere | `TypeOK`, `TableIsServed`, `BatchMatchesFilter`, `ToldIsDone`, `UnpaidIsNotDelivered` |
| `RefundedTwice`, `PriceMoved` | the smallest that shows the finding | one property each (section 6) |

Deadlock is checked in every run of the server and in `Desk`: somebody can always do
something. The cfgs of `Storefront`, `Sessions`, `Config` and `List` switch it off,
because there the bounds on clicks, reloads and handlers stop the user, who in the code
never runs out of them.

**Bounds, and why they are enough.** An order's statuses interact with other orders
only through the inventory, so two orders with different units (2 and 1) and an
inventory that fits one, the other or both reach every contention; one order with
every other operation enabled reaches the rest. `Requests` has one element: two
stale saves of one order differ from one only in which comes last. `MaxRetries` of 2
has a first, a middle and a last attempt. `MaxRefunds` of 2 (records of an order, in
the guard of `MayRefund`) has a repeat. `Inventories` includes a value an order fits
in and one it does not. `Payments` has two calls in every pair of routes and
positions, beside the sweep; with one transfer two orders compete for it, and of the
two automations one succeeds and one fails. In `RepeatedRequests` the third execution
(`MaxRuns`) is possible only after two 5xx answers; with three connections one is
inside, one between insert and lookup and one repeats. `MaxCodes` of 4 lets an order
be made codes twice over, or both orders once.

In the web client, `MaxCalls` is the number of handlers that overlap: an overlap of
two is what reorders answers. `Storefront` has one: every
button of both pages is disabled by the page's `loading` flag, and what overlaps a
handler there is the buyer leaving its page, reading the storage on the other one and
coming back. With `MaxCalls = 2` and one order the properties hold as well (4.9 million
states; the run keeps the two orders instead). A `Limit` of 2 evicts an entry
as 24 does. `MaxClicks` of 2 is an action and another one on its result, or beside it;
in `List` a filter, a tab and a keyword count too, ticking a box does not. `Desk` has
also been run with two tickets (47 million states generated, no error).
Two rows or records are the least for a batch of which one part fails, and for a
filter that matches one. One `MaxMoves` makes a page stale. `MaxKeys` of 3 lets the
server number one row more than there are. Two tokens let an account sign in twice or
two accounts once, in two tabs.

`Elsewhere` of `List` names six of the actions others may take: one of each effect on
the statuses that the guards of the buttons look at. `Explored` names every section
and table; a run opens each of them in its own initial states.

**Symmetry.** Calls, connections, request hashes, handlers and adapter orders are
interchangeable: no property, constant or initial state names one. So are the products
of `Storefront`, the orders of `Desk` and the two records of `List`, whose statuses are
the same at first or run through all combinations. Symmetry is used in runs with no
liveness property only. Orders of `Payments` are not symmetric (their age and their
quantities matter), nor those of `Storefront` (one is placed elsewhere).

**What they show.** All of it holds. `PaymentKept` has a clause that admits the one
way a payment is un-confirmed without a refund: the save of a buyer's request that
read the order before it was paid. `CompletedIsBacked` excludes manual orders, which
can be completed without a payload (section 6). `AnswersAgree` excludes disturbed
orders. `ToldIsStored` excludes the product chosen for an existing price template
(finding 2) and the status of an internal client, which the form offers and the client
does not send. `ToldTicketsStay` excludes tickets told of while a reading is on its way.
The web properties that say `~hasty` are promises to a user who waits. These exceptions are what the code
does, and are stated in the properties and not hidden in the model.

## 4. Fairness

`TwoOrders` assumes `WF_vars(Worker(o))` for each order: the worker's loop
(`runAsyncJobWorker`, async_jobs.go:43-62) polls for ever and `RunAsyncJobSweep`
claims until nothing is due and waits for each claimed job, whose HTTP calls have
timeouts. Nothing is assumed of buyers or operators, and the worker may lose a job.
`RetriesStop` is conditional: if from some time on no one asks for a fulfilment of
the order by hand, its jobs come to an end.

`Sessions` assumes that an effect the render owes is run (`WF` of `StartCheck`) and
that a call to `/me` ends, answered or given up by the browser (`WF` of
`CheckPassed \/ CheckFailed`; `CheckFailed` includes a connection that breaks). No
fairness is assumed of the user, and none chooses between the two ends of a call.
`SessionsAreChecked` needs it for every tab.

`StorefrontOrders` states the same of its handlers (`WF` of `Serve \/ Fail` and of
`Land`); its properties are safety and do not depend on it.

## 5. What is proved

TLAPS checks every theorem for any orders, quantities, channels, retry policy, any
transfers and any number of concurrent calls, connections, keys, tabs and handlers. The
assumptions are the ones named in the modules (`QuantityAssumption`, ...). Every
invariant and every action property of the passing runs is the subject of a theorem.

`Orders_proofs`, the life of an order
- `TypeCorrect`: `TypeOK` is inductive as it stands. It is not only typing: retry
  numbers stay within `max_retries` because `ScheduleRetry` counts on.
- `ResultsSurviveAlways`: from `GoodsStep` (only fulfilment attempts and the product
  form touch the goods) and the guard `ful[o] # "success"` of `MayFulfil`.
- `StockIsConserved`: `StockInv` joins `StockConserved` and `SoldIsFulfilled`.
  Neither is inductive alone: a success takes units for an order that must not be
  among the sold already, and that is known because sold orders are fulfilled while
  `MayFulfil` refuses those. The step itself is about the cardinality of a disjoint
  union.
- `LedgerImplemented`: with `made` the fulfilled orders, every step is `Make`,
  `SetStock` or a stutter of `OrderLedger`.
- `QueuedRetryAlwaysForFailed`: inductive given `TypeOK`; one case for each way an
  order is saved.

- `PaymentAlwaysKept`: a review timeout takes a payment back from a row that is under
  review, whatever the row says of its payment, so the proof needs that such a row is
  not paid (`ReviewIsUnpaid`), and that a buyer's request under way has read an unpaid
  one (`RequestsUnpaid`).
- `CompletedIsAlwaysBacked`: a delivery asks whether a payload is ready, which it reads
  from the issue record and only without one from the fulfilment. That is the same as
  a successful fulfilment because the two records are always written together
  (`IssueMatches`); and a record an operator may complete by hand, or send again by
  telegram, belongs to an order of that channel (`ChannelsMatch`).

`Orders_proofs`, payments coming in
- `OrdersAreKept`: the intake implements the order life cycle. The invariant
  `CallsKnown` (a call about to act names a known order, and one about to confirm a
  route and a transfer) is what makes its transactions steps of `Next`.
- `StockConservedWithPayments`, `LedgerKeptWithPayments`,
  `CompletedBackedWithPayments`: from it and the theorems above, so nothing about
  goods is proved twice.
- `TransferPaysOnce`: strengthened to `PaidAsLogged`, which says that a route's
  payments are exactly what the callback logs say. The confirmation looks at the log
  in its own transaction, which is why the early, unprotected reads do no harm.
- `PaymentRecordAlwaysKept`: only an accepted confirmation writes a reference, and
  that of a settled order is a repeat or refused.
- `IntakeIsTyped`: a call is about to do only what its route and its guards let it, and
  what a sweep carries are matches of known orders and transfers.
- `SweepAlwaysSound`: what `SelectMatches` returns is sound (`MatchesAreSound`) for
  candidates and transfers of any number. The function recurses over the candidates. That
  it has the value its body gives at every length is shown by looking at a least length
  where it would not (`WFMin` over the order of the naturals), since an induction rule that
  takes a predicate is out of reach; soundness goes over the candidates in the same way:
  a match made leaves the earlier ones sound, and an order passed by is passed by because
  earlier matches hold every transfer that fits it. `ListsAssumption` says that the lists
  of orders and transfers name nothing twice, as identifiers and hashes do not.

`ClientSessions_proofs`
- `SessionsTyped`, `BuyerIsAlwaysOwner` from `IInv`. `BuyerIsOwner` is not inductive:
  the answer of `/me` is written next to the token that is shown, so the check under
  way must be about that token (`ChecksItsOwn`, which is where the storefront's hook
  and the admin's differ), and a token that is stored anywhere must have been issued,
  or a later sign-in would give it to somebody else (`StoresGenuine`,
  `ChecksIssued`). It holds for any number of tabs, because nothing in it depends on
  which tab wrote the shared store last.
- `OnlyOthersDisagree`: `OwnStepAgrees` goes through the steps of a tab. Each that changes
  what it shows writes the stores with it: both are cleared, or one is written and the
  other, which would be read first or instead, is cleared. So when the two come apart the
  step was another tab's.

`IdempotencyKeys_proofs`
- `KeysTyped`, `RunsAgainOnlyAfterServerError`, `RepliesAlwaysGenuine`, `AnswersStayFinal` from
  `IInv`: the connection inside holds its key alone (`HoldersAlone`), the record is
  its own and fresh (`HoldersOwn`), executions are counted (`RunsCounted`) and every
  answer on its way was written (`AnswersWritten`).

`CodeAdapter_proofs`
- `AdapterTyped`, `AnswersWereAlwaysMade` from `IInv`. What is answered comes from the
  memory or from the request being served, and after a restart the memory comes from
  the file, so all four must hold only codes made for their order (`StoreMade`,
  `CallsMade`, `GivenMade`); and codes once made stay made.
- `AnswersAlwaysAgree` adds `AgreeInv`, about orders asked for once at a time whose
  file could be written: one request at most is under way, file and memory are the
  same, the codes of the request go on from those stored, and every answer begins the
  store. A recharge asks upstream only when nothing is stored.

`ListConsole_proofs`
- `ListIsTyped`, `ListIsServed`, `ListBatchMatchesFilter`, `ListToldIsDone` from `IInv`, for
  any records, filters and handlers in progress, over the fifteen tables as `ListPages`
  gives them. `TableIsServed` compares fields that the table shows, so the lemmas about
  the tables say, one table at a time, that what is shown is read and that the answer
  to a filter asked of the server, narrowed in the browser, is the rows that match it.
  The answer on its way must be the server's rows for the filter it was asked with
  unless the server moved since, and nobody who waits has two handlers in progress. Tab and
  keyword look at fields that are read, so they hide the same rows on either side.
- `BatchMatchesFilter`: what is picked matches the filter (`PickedIsMatched`) because a row
  was on the screen when it was ticked, a change of filter clears the selection, and a
  reading started under another filter has been dropped. The tables whose selection
  outlives a filter have no batch.
- `ToldIsDone`: a record a handler is to act on has been acted on once for each write
  that was served and not at all before, so what is left of a batch and what is done
  of it share no record.
- `DraftIsPaidFirst`: over the statuses of the local draft, a row that is fulfilled or
  delivered is paid; the demo records are, and each action keeps it because its button's
  guard in `ListPages` asks for the payment.

`ConfigConsole_proofs`
- `ConsoleIsTyped`, `ConsoleToldIsStored`, `ConsoleShownIsStored`,
  `DraftPricesHaveProducts` from `IInv`, over the eleven sections. `FieldsAreCarried` is
  what all sections have in common: what the form types is sent and kept, what is shown
  or edited is read. The server and the tables have one row for each key, or for each
  identifier where routes name a row by it (`IsServed`).
- `ToldIsStored` needs what a handler in progress has done so far (`Keeps`): each record
  it promises is still to be written or stands on the server as promised, its records
  are different ones to the server, so that one write does not undo another's, and the
  answer it has is the server as it is. `OneAtATime` says that an operator who waits has
  no second handler that could write in between. A claim about a price template the server
  has is about the template of that number (`Is`), wherever it is filed: that it is filed
  under the product chosen is false, see section 6.
- `HooksAreRemote` (a page over the local draft opens no webhook drawer) is there because
  synchronising a webhook would start a call on a page that has no server.

`StorefrontOrders_proofs`
- `StorefrontIsTyped`, `OrdersAreFiled`, `PatientBuyerAlwaysSeesItsOwn`,
  `StoredOrdersNeverTurnBack` from `IInv`. What a page, an answer or the storage says of an
  order *stands*: the server has the order, for that product, and not at an earlier status
  (`Stands`). The server only goes onward, so what stood goes on standing, and a handler is
  about the order it remembers, whatever page its answer lands on (`HandlerOK`). That is
  enough for the filing, which no impatience disturbs.
- A buyer who waits has one handler, started on the page shown (`OneAtATime`); the checkout
  page then shows the order as it is stored (`CheckoutIsStored`) and the handler's answer is
  not behind the storage (`HandlerIsCurrent`), which is why nothing stored turns back.
- The lemmas about storage.ts: an entry of the same number is replaced and the others keep
  their order (`PersistKeeps`), what is looked up was stored (`EntryIsStored`,
  `LatestIsStored`).

`BuyerDesk_proofs`
- `DeskIsTyped`, `PatientBuyerSeesOneOrder`, `ToldTicketsAreKept` from `IInv`. A handler
  belongs to the page shown and is about an order the server has, and its answer is of the
  call it waits for (`HandlersOK`, `AnswerOK`): without that a list could be taken for a
  detail. A form that waits has the handler that ends it (`FormsWait`).
- For a buyer who waits the one handler is about the order shown, and so is its answer
  (`HandlerShows`).
- `ToldTicketsAreKept` needs no patience. `KInv` says that whatever may replace a list has
  the tickets told of: a reading on its way was asked after them (`ListsHave`), the panel's
  submission that waits for its second answer was filed after them (`FilingHas`) and is the
  only one (`OneFiling`). That holds because nothing is told while a reading is on its way.
  That the panel lists no ticket twice needs the same of the server's list and of every
  answer (`Distinct`), and that a filed ticket is put first only in place of itself.

The lemmas about `Only` (a filtered list has the elements kept, in their order) stand in
each of the three modules that need them, so that each can be checked on its own.

`ConsoleAssumption` and `ListAssumption` say only that constants are of their kinds: the
sections and tables explored are those the pages have, rows there at first have
identifiers and numbers the server can give, the marks for a call's outcome differ.

`StorefrontAssumption` and `DeskAssumption` likewise: demo numbers are not order numbers,
and the marks for no order, no answer and a failed call are none of the values a handler
carries.

Only model-checked are the liveness properties `RetriesStop` and `SessionsAreChecked`: a
proof would need ENABLED, which the installed provers do not handle. The two properties of
the runs that expect a violation are false, so there is nothing to prove. No module
declares a RECURSIVE operator; `SelectMatches` is a recursive function.

## 6. Findings

Each is a run that TLC finds violated, with the sentence it contradicts.

1. `RefundedTwice`: a refund marked by hand while the provider works on another
   request leaves two succeeded refunds (passdock-api-draft.md:633).
2. `PriceMoved`: saving an existing price template posts it to the product that has the
   template's own number (passdock-api-draft.md:341; `resolveProductRouteId`,
   api/adminProducts.ts:279), where the server looks the template up. If that is its
   product, another product chosen in the form is dropped and success reported; if it is
   not, the save is refused (404), and so is switching the template. `AdminProductsPage`
   hands the product's key over under a name that nothing reads.

Met while modelling, kept in the models as the code has them, and not runs:

- An order is completed though nothing was fulfilled (passdock-api-draft.md:632): a
  resend on an order that was never fulfilled leaves a pending manual record, which an
  operator may then complete. Hence the exception in `CompletedIsBacked`.
- An external reference can pay two orders by two routes, once an operator's
  confirmation has emptied it (passdock-api-draft.md:639). `TransferPaysOneOrder` is
  stated per route.
- The record of a match commits before its payment, so a failure between the two
  leaves the order unpaid for good (usage guide, lines 414-415).
- "Request in progress" is never answered by the idempotency middleware, because no
  record ever has status 0: repeats are told 200 with an empty body.
- "Remember me" (i18n/copy.ts:298, 513) lasts until the first check of the session:
  `writeStorefrontSession(nextSession, true)` (hooks/useStorefrontSession.ts:68, and
  the same in useAdminSession.ts) writes it to the persistent store whatever was
  chosen. `CheckPassed` does so.
- The status chosen in the form of an internal client (revoked, say) is not sent:
  `buildInternalClientKeyPayload` (api/adminSystem.ts:826-832) computes it from
  `enabled`, which every row carries; success is reported. `ClientKeySent` has
  `enabled` in its place, and `ToldIsStored` leaves this one field out (`Typed`).
- A batch may act on records the operator does not see: those picked before a tab was
  switched or a keyword typed stay picked (AdminTabbedWorkbench.tsx:136-139,
  `preserveSelectedRowKeys`). No document says they should not; the count of the selection
  is shown. `BatchMatchesFilter` is therefore about the filter.
- On the account page a ticket can be filed while the lists are being read again; the
  older answer takes it off the list (`setTickets`, useStorefrontAccountCenter.ts:104)
  after the page has said it was created. Hence `Reading` in `told`.

## 7. Hazards

`PROJECT.json` lists what is hard to test in this code, each at its line with the
properties that would be violated if it went wrong. One without a property has a note
saying why: the code makes no promise there (orders asked for twice at once, a user who
does not wait), the property would be false of it, or it is outside the model.

## 8. What is not modelled, and why

- *PostgreSQL isolation.* The models take the default SQLite. Under READ COMMITTED
  two transactions can read one inventory and both save it.
- *The job row's own status*, and therefore jobs "running" for ever after a crash:
  the lost retry is modelled, its row is not.
- *Amounts* beyond agreeing or not; in particular a gateway callback's amount
  overwrites the order's.
- *Batch limit and paging* of the sweep and the sidecar; the review flag of an
  ambiguous match is computed and, as in the code, ignored.
- *Signatures, timestamps, nonces* in front of callbacks and sidecars.
- *The integration executor*: a call to a provider succeeds or fails; what the
  provider did before a timeout is outside the order model (in `CodeAdapter` it is
  inside).
- *The server's side of accounts and tickets* beyond what the client is told: tokens
  are issued and may be refused, tickets are filed and listed. Passwords and roles
  are not distinguished.
- *The bot's conversation, uploads, runtime settings as the server applies them,
  readiness and dashboards*: they do not feed back into orders, or only read.
- *Of the web client*: rendering, texts, formatting, translations, paging, the storefront's
  catalogue, the demo data beyond what decides a filter or a guard, the forms of the bots
  page, the copy of a filter in the URL, the tabs of summaries, the result drawer after a
  retry at once, and which of its three messages an original refund answers with. The web
  modules and those of the server are not composed: the server a page sees is the part of
  its contract that the page's properties depend on.

## 9. What could still be done

To model: `AsyncJobs`, the job rows with their status, claims by conditional update and
batches, with `OrderLifecycle`'s `queued` and `running` as its refinement; fulfilment's
issue, query and retry (fulfillment.go:881-1015) composed with `CodeAdapter`;
fulfilment and confirmation as read and write steps under READ COMMITTED; the nonce
window of internal requests (`service/internal_auth.go:162-185`); the batch limit of
the sweep; conversion of amounts against a reference definition.

To prove: the refinement of the jobs once they are modelled, and that a retry sooner or
later exhausts its attempts as a safety statement (a bound on the retries made since an
operator's last action), which is what `RetriesStop` rests on.
