# TawalaKE in TLA+

TawalaKE is a multi-tenant point of sale: a FastAPI backend over PostgreSQL and
Redis (`src/backend/app`) and a Next.js front end (`src/frontend/src`). This
directory holds TLA+ models of the places where steps of several actors meet: the
point of sale and its stock, the billing of organisations, and the screens that
keep a copy of what the server has (the sales terminal, the signed-in session, the
support inbox, the jobs panel, staff management and the stock screens). TLC checks
them on small instances, and TLAPS proves the properties that matter most for any
number of requests, tabs, sales, products and members.

Run everything from this directory:

    tlc -workers 2 -config checkout_one.cfg MCCheckout.tla
    tlc -workers 2 -config billing_rows.cfg MCBilling.tla
    tlc -workers 2 -config terminal.cfg MCTerminal.tla
    tlc -workers 2 -config screens.cfg MCScreens.tla
    for p in Checkout Stock Race Billing Terminal Session Jobs Office
    do tlapm ${p}Proofs.tla; done

## 1. Inventory

Paths are relative to `src/backend/app`, or, when they begin with `@/`, to `src/frontend/src`.

| Component | State it keeps | Operations | What is hard | What makes it correct |
|---|---|---|---|---|
| Stock (`crud/stock.py`) | `products.stock`, `stock_history` | sale deduction and restore, restock, count, adjust | row locks against the session's identity map; two checkouts of the last unit; lock order | stock and history move together; never below zero |
| Service materials (`crud/product_materials.py`) | `product_materials`, the material's stock | check, deduct, restore, edit recipe | the material is read before it is locked | as for stock |
| Checkout (`crud/store.py`, `core/payment_methods.py`, `api/routes/stores.py`) | `sales`, `sale_items`, `payments` | stage, finalize, collect, cancel, void | no handler locks the sale: reads and writes of several requests interleave; finalize commits twice | payments back the status and the money columns; stock is taken once and given back once |
| Analytics (`services/analytics_outbox.py`, `services/analytics_rollup.py`, `tasks/worker.py`) | `analytics_outbox`, rollup tables | enqueue, process, reverse, backfill | a background task against a void; a process that dies between commit and task | each completed sale counts once, and is reversed once |
| Documents (`tasks/document_tasks.py`, `tasks/worker.py`, `core/document_cache.py`) | `financial_documents`, Redis snapshot, `background_jobs` | generate in background or inline, read | finalize uses the document as its "already done" mark, but it is written later | one document per sale, snapshot no older than the document |
| Paywall (`services/paywall.py`) | Redis entitlement cache | resolve, invalidate, snapshot, enforce limits | a stale value cached after an invalidation; a lost invalidation; check-then-create | the cache says what the rows say; limits hold |
| Subscriptions (`crud/subscription.py`) | `subscriptions` | start trial, activate, extend grace, cancel | every handler reads, computes and commits without locks, then drops the cache | one trial per organisation; an ended row stays ended; grace is never shortened |
| Sessions (`core/security.py`, `@/auth.ts`, `@/proxy.ts`, the layouts and `@/lib/auth/require-api-auth.ts`) | the session cookie; the blacklist of refresh tokens in Redis | login, logout, renewal by the proxy and by the pages and route handlers behind it | requests carry a copy of the cookie and set it when they are answered; pages call auth() again with that copy; the blacklist is read before it is written | nobody is logged out without a cause; one new pair for each old one |
| Staff (`crud/staff.py`, `@/features/staff`) | `staff`, store assignments, invite and reset links in Redis; each screen's copy of the member | create, invite, resend, accept, activate, reset password, finish onboarding, assign stores | saves delete the rows they read and insert theirs without a lock; a link is replaced in two steps and redeemed in three | a deactivated member stays out; a member has the stores of the last save |
| Background jobs (`services/background_jobs.py`, `core/celery_app.py`, `@/features/jobs`) | `background_jobs`, the Celery queue, the panel's rows and its event stream | queue, record an event, redeliver, retry, fetch the history, deliver an update | two writers of one row without a unique key; a history overtaken by an update | the row ends with the outcome; the panel agrees with it |
| Support (`services/messaging.py`, `api/routes/ws_support.py`, `@/features/platform/components/PlatformSupportInbox.tsx`) | messages; the thread on the screen, the socket | open a conversation, reply, publish, deliver, reconnect | answers of fetches and replies come in any order; nothing is replayed | the screen shows this conversation and all of it |
| Sales terminal (`@/features/sales`, `@/features/business/components/TerminalCockpit.tsx`) | the cart in each tab and in localStorage, the staged sale in sessionStorage, the page with what it waits for | add, remove, discount, fees, stage, pay, cancel, resume, discard, dismiss, Back, reload, opening a checkout in another tab | tabs share one stored cart; a line keeps the price it was added at; answers come late or never; what follows an `await` runs on any page | one sale for what was rung up; no sale paid twice; the amount shown is the amount asked |
| Stock screens (`@/features/inventory/ProductWorkspace.tsx`) | the number a form was opened with | receive, adjust, count | a call repeated after a lost answer; a count with an old number | the book gives the goods on the shelf |
| Catalogue (`crud/product.py`, `crud/catalog.py`, `crud/business.py`) | `products`, categories, stores | CRUD | PATCH may write a stock number | only that PATCH changes stock without history |
| Customers, expenses | one table each | CRUD | find-or-create at checkout | one customer per phone and store |
| Reports, dashboards (`crud/reporting.py`, `services/dashboard_daily.py`) | read-mostly | aggregate | float formulas | formulas agree |
| Platform, organisations, mail, RBAC, archive | administrative tables | CRUD, one long delete | little concurrency | tenant isolation |
| Legacy checkout (`crud/sale.py`, `crud/checkout.py`) | as checkout | none reachable for finalize | dead code | - |
| Front end: the rest | what is on the screen | fetch and show, post a form | - | - |

How they interact. A route opens one SQLAlchemy session per request
(`api/deps.py`, `get_session`) and calls one CRUD method. A checkout handler reads
the sale, loops over its items, and for each calls the stock component, or the
materials component for a service, in the same transaction. After the commit it
queues background tasks in FastAPI's per-request list: document generation, then
(if it saw the sale COMPLETED) the analytics task. These run in order in the same
process after the response, each with a session of its own; a task that raises
stops those behind it. The analytics task finds its work in the outbox row that
the handler committed. GET `/receipts/{sale_id}` generates a missing document inline.

Billing handlers work on the subscription rows of one organisation and, after
their commit, delete its entry in the entitlement cache, best effort. Routes that
create products, staff or stores ask the paywall first. The paywall answers from
the cache, or resolves from the rows and fills the cache; the route then counts,
compares with the plan's limit, inserts, drops the cache and commits.

The front end talks to the backend through its own route handlers, which forward
a call with the session's access token. A page holds what it fetched and what its
calls returned; between pages of a tab survive the cart store, the markers in
sessionStorage and the session cookie. The terminal stages a cart, opens the
checkout of the sale it got, pays it and shows its summary. The panels follow
publications over WebSockets or an event stream, which Redis relays to whoever is
subscribed at that moment.

## 2. Modules and their correspondence to the code

| Module | Models | 
|---|---|
| `StockLedger` | The abstract promise: quantity and movement history change by the same amount in one step, no recorded movement ends below zero, and only an explicit overwrite (PATCH) bypasses the history. |
| `Inventory` | Stock rows as request handlers see them: row locks, the identity map of a session, unit-of-work commit and rollback; the stock-room requests. |
| `Checkout` | Extends `Inventory` with the sale life cycle, payments, documents and the analytics outbox. The specification `Spec`, with fairness `FairSpec`. |
| `MCCheckout` | Catalogues, baskets and symmetry for TLC. |
| `SaleBook` | The abstract promise of `Checkout`: a sale is staged, finalized, collected, cancelled or voided in one step. |
| `CheckoutProofs` | TLAPS: type correctness and the money invariants. |
| `StockProofs` | TLAPS: stock safety and the refinement of `StockLedger`. |
| `RaceProofs` | TLAPS: what holds of a sale as long as nothing overlaps on it, and the refinement of `SaleBook`. |
| `Subscriptions` | Pure functions of an organisation's subscription rows and the day: phase, entitlements, and what each billing operation writes. |
| `Billing` | Extends `Subscriptions` with the concurrent handlers, the entitlement cache and product creation. |
| `MCBilling` | Plans, limits and symmetry for TLC. |
| `BillingProofs` | TLAPS: types, finality of inactive rows, one trial, grace, the cache and the limits. |
| `Counter` | The cashier's tabs: cart, staged sale, pages and the calls in flight, over the server's side of staging, paying and cancelling. |
| `CartStore` | What is in the cart, whose it is, the prices its lines were added at, and its totals as screen and server compute them while prices are edited. |
| `MCTerminal` | `Counter` and `CartStore` for TLC. |
| `TerminalProofs` | TLAPS: types of both and of their composition, the three properties of `Counter`, the cart's scope, and the quoted total. |
| `Session` | The session cookie, its renewal by the proxy and by the pages behind it, and the rotation of refresh tokens. |
| `SessionProofs` | TLAPS: types and both properties. |
| `SupportChat` | A page with a conversation, its socket, its fetches and replies. |
| `LiveJobs` | A task's runs, the events its two writers record, and the panel. |
| `JobsProofs` | TLAPS: types and both properties. |
| `Staffing` | Members on several screens, their stores, and their invite and reset links. |
| `StockDesk` | A product's stock entered and counted from several desks. |
| `MCScreens` | `Session`, `SupportChat`, `LiveJobs`, `Staffing` and `StockDesk` for TLC. |
| `OfficeProofs` | TLAPS: types and properties of `SupportChat`, `Staffing` and `StockDesk`, and the types of the composition `MCScreens`. |

State. `stock` and `ledger` are the committed `products.stock` and the sum of
committed `stock_history.quantity` per product; `lock` is PostgreSQL's row lock.
`loaded`, `copy`, `pend` are one session: which product rows its identity map
holds, their values including the session's own changes, and the sum of its
uncommitted history rows. `sale` is the committed sales row (with the items'
`quantity_refunded` as one flag), `payments` the sum of the sale's payment rows,
`doc` and `outbox` the existence of its document and the status of its outbox
row, `rolled` its net contribution to the rollup tables. `pc` and `txn` are a
request's place in its handler and what it holds in memory. `cuts`, `restores`
and `raced` are history variables for the properties: how often stock was taken
and given back by committed requests, and whether requests for the sale (or
rollup tasks) have overlapped. No guard reads them.

Steps. A handler is: load and check the sale (`BeginFinalize`, `BeginCollect`,
`BeginCancel`, `BeginVoid`); one step per item under its row lock (`MoveProduct`,
`MoveService`, `MoveMaterial`); commit (`FinalizeCommit`, `CollectCommit`,
`CancelCommit`, `VoidCommit`); for finalize, a second transaction
(`FinalizeSync`); then the background tasks (`GenerateDocument`, `ReadOutbox`,
`ApplyRollup`). A handler may answer 409 (`OutOfStock`, `CollectNothingDue`), be
the victim of deadlock detection (`DeadlockVictim`), find its sale deleted
(`SaleGone`), or fail anywhere (`Fail`: an exception, or the death of the process).

Decisions a reader should know:

- **The sale row is never locked**, so reads and commits are separate steps and
  the commit works on what the read returned. What the commit writes is what
  SQLAlchemy writes: the columns whose value in memory differs from the value
  loaded (`Flush`). The others keep what another request committed.
- **Flush and commit are one step.** An early flush (a new customer in finalize)
  holds the sale row a little sooner; the deadlock this can cause is in `Fail`.
- **The identity map matters.** A direct product is first read by its locking
  SELECT, so its copy is fresh. A material is first read by the unlocked join in
  `list_materials` and then locked; the locking SELECT returns the copy already
  in the session. `LockService` and `View` model this.
- **Items are taken in any order**, a superset of the orders a query without
  ORDER BY returns. Two lines of the same product are one item.
- **Stock room** requests lock, move and commit in one step: they touch one row,
  so nobody can see them half done. As in the code they look at neither
  `track_stock` nor `item_type`.
- **Cancel deletes by cascade.** Payments, document and outbox row that commit
  after the handler's last look go with the sale.
- **The rollup task decides on what it read.** `ReadOutbox` loads sale and outbox
  row; `ApplyRollup` works on those copies. `ApplyRollup` may also record FAILED.
- **A void may fail to reverse.** The exception of the reversal is caught and logged
  (`crud/store.py:803`), and the void commits without it; `VoidCommit` allows both.
- **Money is in whole units.** The code rounds to cents and treats 0.001 as
  settled; nothing here depends on the unit.
- Left out as data the properties do not tell apart: taxes, discounts, service
  line totals, customers, popularity scores, audit rows, caches, e-mails,
  organisations and permissions. Recipes and item types do not change during a
  behaviour, and a service uses at most one material, which `replace_materials`
  enforces.

Billing. `subs` is the sequence of the organisation's subscription rows as
committed, `products` the number of its product rows, `cache` the entitlement
entry in Redis, `today` a clock in days, `pc` and `txn` as in `Checkout`; `raced`
is the history variable that tells what has overlapped or which invalidation was
lost. A billing handler is a read (`BeginTrial`, `BeginActivate`, `BeginExtend`,
`BeginCancel`), a commit (`TrialCommit`, `ActivateCommit`, `ExtendCommit`,
`CancelCommit`) and `Invalidate`. A creation is `Ask`, on a miss `ReadRows` and
`Store`, then `Count` and `Create`; `BeginSnapshot` enters at `ReadRows` because
usage_snapshot resolves with force_db. `Fail` ends a request anywhere, which covers
the invalidation that Redis did not get; `Expire` is the time to live, of any length.

- **Dates are computed with the read.** Handlers take the time right after their
  query; `txn` carries the new row or grace end to the commit.
- **An UPDATE names changed columns only.** extend_grace_period assigns
  `active = True` to a row it loaded as active, so the commit does not write that
  column. `Extended` does not touch it; its mutant `ExtendedWhole` does.
- **`trial_consumed_at` is not a variable**: it is set in the commit that adds the
  trial row, so `HasConsumedTrial` needs only the rows.
- **`resolve_from_db` is one read.** It runs a second query only when the first
  found no row with access, and either way answers that there is none.
- **`Create` is one step.** bump_usage drops the cache just before the commit;
  what the cache holds does not depend on the number of products. The increment of
  monthly counters is left out: bump_usage is only called with live-count keys.
- Rows are in commit order, which is start_date order except for requests that
  overlap by milliseconds. Products are not deleted, plans always have a limit
  and the stock feature, and mark_expired_subscriptions has no caller.

The screens have these things in common. A call is a record in flight: it is
sent by a handler of the page, served by the server in one or more steps, and
answered or not; each of these is an action, so calls overlap and answers
overtake each other. What a handler does after its `await` is the action that
receives the answer, and it acts on whatever the page has become. A history
variable names each way in which the user or the network may spoil a promise
(a tab left during a call, a lost answer, a copy out of date); no guard reads
these, and the properties say that there is no other way.

Terminal. `cart`, `saved` and `marker` are a tab's memory of the cart, the cart
in localStorage and the staged sale in sessionStorage; `page` is what the tab
shows, with the buttons it has disabled (`busy`) and the checkouts Back can
reach; `calls` and `sale` are the calls in flight and the sales on the server.
`Load` is a reload of the terminal, after which an answer is no longer awaited, and
`OpenCheckout` loads a checkout by its address: a reload of it, or the link "Resume"
or the page itself opened in another tab, which notes the sale in `opened` unless
the tab staged it. `Checkout` is handleCheckoutRedirect, which opens the remembered
sale before it stages another; `Receive` is what each page does with an answer.

In `CartStore` a line has a quantity and the price it was added at, which the cart
keeps in localStorage. That price comes from the tab's copy of the product list
(`list`), which is fetched (`FetchList`) from the backend's cached answer
(`catalogue`), which is read from the database (`tag`) at a time of its own
(`ReadCatalogue`). `EditPrice` changes `tag` and tells no cart. The server computes
the total of the staged sale from `tag`. The two formulas for the total, and the
labels the checkout page derives from the staged sale, are written as the screen and
the server have them. `old` names the lines whose price was edited since the list
they were added from was read, `cut` that goods were taken out after the discount
was typed.

Session. The unit is a call of auth(), which works with the cookie its request was
sent with. `part` says where it is made. The proxy's call ends in `Respond`, which
sets the cookie whatever it has become meanwhile. Once the proxy lets the request
pass, the layouts, the page and the route handler behind it make calls of their own
(`CallAgain`) with the cookie the request was sent with, which is the old one also
when the proxy has just renewed it (`part` is "echo"); so does a page that the proxy
does not match (`SendRequest`). What these calls end with sets no cookie (`Return`):
an error makes the page redirect to `/login` or the route answer 401, and a new pair
is lost. `Verify`, `Blacklist`, `Issue` are rotate_refresh_token's read, write and
new pair. `Expire` puts an access token within a minute of its end, at any time.
`failedPairs`, `crossedPairs` and `thrownPairs` name the pairs whose exchange failed,
met another call that carried the pair, or was made by a call whose outcome is lost.

Support. `loads` are fetches, which the server reads in `ServeThread`. The answer
replaces whatever is on the screen, also when another conversation was clicked since
(`ShowThread`); the page does not check. The socket follows in an effect of its own
(`SwitchSocket`): `joined` is the conversation it is for, and until the effect has
run, what the former conversation's socket brings is added to the new thread
(`DeliverMessage`). `wire` is what was published to the socket and not delivered.
Messages are shown as a set because the page adds them by their ids.

Jobs. Each writer's event is looked up, written and published in three steps; the
row as it is when it is refreshed is what goes out, and refresh and publication
are one step. That is why `PanelSettles` excepts jobs whose events overlapped.
Two rows for one key make the look-up fail from then on (scalar_one_or_none), and
the failure is logged and forgotten.

Staff. A screen's calls carry the stores that were ticked on its copy. A resend
reads the latest link (`LookUpLink`), then writes the new one (`IssueLink`); a
redeemed link is read, deleted and applied (`OpenLink`, `Consume`, `AcceptInvite`).
A save of stores reads the member's rows (`ReadAssignments`), then deletes those it
read and inserts its own (`ReplaceAssignments`), with no lock in between: rows that
another save deleted meanwhile are skipped, rows that another inserted stay, and one
that both insert breaks the primary key, which fails the later save. Links to reset
a password (`resets`) are used up in one step, because either of their uses, a new
password (`ConfirmReset`) or the end of onboarding (`FinishOnboarding`), is a
single read and write of the member.

Stock desks. Goods and paper are modelled beside the book because only they say
whether a number in the book is right: a note is what a manager enters from, and
keeps until the screen reports success.

## 3. Runs

| Run | Instance | Question |
|---|---|---|
| `checkout_one` | 3 requests, 1 sale of 2 products, total 2, tenders 1 and 2, all stock-room requests | Do money, document, outbox and direct stock stay coherent in every overlap? |
| `checkout_copyshop` | 3 requests, 2 sales sharing a material: a service with a product, and the material itself | Does nothing recorded go below zero, stale material copies included? Do the other rows form a ledger? |
| `checkout_served` | 2 requests, 2 sales of the same 2 rows, fairness | Does every started request end? |
| `void_staged` | as `checkout_one`, no stock room | Violated: a void restores only what was taken |
| `refinalize_credit` | as above | Violated: finalize is idempotent for credit sales |
| `refund_rollup` | as above | Violated: a refund reverses a contribution that was made |
| `material_ledger` | as `checkout_copyshop` with restocking | Violated: the history accounts for every row's stock |
| `analytics_lost` | 1 request, 1 sale, fairness | Violated: an enqueued sale is processed in the end |
| `billing_rows` | 2 requests at a time, 1 plan, 3 days, 2 rows; trial, payment, extension, cancellation, snapshot | What can the rows and the cached entitlements become? |
| `billing_paywall` | 2 requests at a time, plans of 1 and 2 products, 2 days, 2 rows; trial, payment, cancellation, creation | Do limits hold when the answer comes from the cache? |
| `terminal` | 2 tabs, 2 units, 2 sales; a cart of 2 products of 2 businesses in 2 tabs; 2 prices of one of them | Can a sale be doubled or a wrong amount be asked, whatever the cashier and the network do? |
| `screens` | 2 or 3 calls of auth() and 2 or 3 pairs; 2 conversations and messages; 1 job, 2 runs; 1 member and store, 2 screens, tabs and links; 2 desks and notes | Do copies on screens and overlapping calls keep what the office relies on? |

Properties, and the error each is aimed at:

- `CompletedIsPaid`, `PaidColumnNeverOverstates`, `DebtNeverVanishes`: overlapping
  finalize, collect, cancel and void requests write status and money columns
  from stale reads; the sale must still not claim more than its payments cover.
- `CollectNeverOverpays`, `PaymentsNeverErased`, `SecondRestoreNeedsRace`,
  `CountedAtMostOnce`: these fail when requests overlap, which nothing in the code
  prevents. They state what is left: in the absence of an overlap on the sale,
  whatever sequence of requests, failures and retries, the guarantee holds.
- `ImplementsSaleBook` (refinement): a handler reads the sale, works on and writes it
  later, in two transactions if it finalizes. For a sale on which nothing overlapped
  that looks like one step that decides by the present status and payments. For any
  other sale, no step brings back a deleted sale, loses a payment of a sale that is
  there, or completes one that is not paid.
- `ImplementsStockLedger` (refinement) and `NeverBelowZero`: locks, rollback and
  checks together keep stock a ledger.
- `Served`: no request waits for ever.
- `OneTrial`: a lifetime rule decided by an unlocked check. It holds through every
  sequence of payments, cancellations, lapses and crashes; only trial requests that
  overlap break it.
- `InactiveIsFinal`, `GraceNeverShrinks`: an extension that overlaps a cancellation,
  a replacement or another extension writes from what it loaded.
- `CacheIsCurrent`, `CreatedWithinPlan`: commit and invalidation are two steps and
  the cache is filled in two. Without overlap and with Redis reachable, a cached
  answer is one that the present rows gave, today or earlier, and no product is
  added beyond what such an answer allows.
- `TypeOK` of `Billing` includes that an answer carries a plan, hence limits,
  exactly when it gives access.

- `SecondPendingNeedsSlip`, `SoldTwiceNeedsSlip`, `FinalizedTwiceNeedsSlip`: the
  marker, the emptied cart and the guard against Back are each a few lines in
  different pages; together they must keep one cart from becoming two sales, and
  one sale from being paid twice. The properties list the ways that remain, among
  them the checkout of a sale opened in a tab that did not stage it (`opened`).
- `QuotedAsStaged`: the screen adds up the prices the lines were added at, the server
  those of the database; a discount is clamped when it is typed, again on the screen
  and again by the server, over goods that have changed since. Screen and server agree
  unless the price of something in the cart was edited since the list it was added
  from was read, and the labels of the checkout page with them unless goods were taken
  out after the discount was typed.
- `CartIsOfThisBusiness`: tabs of two businesses overwrite one stored cart.
- `SessionLostForCause`, `OneHeirUnlessCrossed`: a call of auth() that submits a used
  token ends in an error. In the calls of a request whose proxy renewed the session
  that happens every time, and the property says that this never reaches the cookie:
  the session ends only because of a failed exchange, of two calls that carried one
  pair, of a page that renewed it and lost the new pair, or of a deactivation.
- `ThreadUnmixed`, `NothingElseMissed`: late fetches and replies, a socket that is
  closed later than its thread, and what a socket carried or could not carry.
- `FinishedIsFinal`, `PanelSettles`: redelivered and retried runs, histories older
  than the updates they follow.
- `OustedStaysOut`: links, passwords and activation changed from several screens.
- `LastSaveDecides`: saves of the same member's stores that overlap. The member has
  all stores of the save that committed last; what else it may have are stores that
  other saves wrote between that save's read and its commit. Such leftovers are real:
  the code takes no lock.
- `BookMatchesShelf`: entries, counts and sales from several desks.

Bounds. Three requests are the smallest number for a victim, an overtaker and a
follow-up (a finalize, a collect overlapping it, and a void or second collect
after both); two products are the smallest number with a lock cycle; a total of
two with tenders of one and two gives a partial payment, an exact one and an
overpayment; an opening stock of two admits two of three deductions and refuses
the third. Each request runs one handler and requests are never reused, so the
state space is finite without a constraint. Requests are symmetric; symmetry is
not used in the runs with fairness. `CHECK_DEADLOCK FALSE` is set in the
checkout runs because a behaviour ends when all requests have been served.

In `Billing` two requests are served at a time and their slots are reused without
bound, so histories of any length are covered; three days reach the active, grace
and locked phase of a trial, and two those of a one-day paid plan; two rows give a
predecessor and a successor; limits of one and two distinguish the plans. `MaxRows`
and `LastDay` bound the rows and the clock. The operations are split over two runs
(`Offered`) because all of them together exceed what TLC finishes in minutes.

`MCTerminal` and `MCScreens` put modules that share no state into one run: `task`
is chosen at the start, one module moves, the others keep their initial values.
In `terminal` the tasks bound different things: two units and two calls at once on
one tab; one unit in two tabs, with one call at a time, which a reload may abandon; the
checkout of one tab opened in the other (`link`: one call at a time, and no
answer missed); and for the cart two businesses at fixed prices (`cart`) and two tabs
of one business whose prices are edited (`prices`). In `screens` the session has two
tasks: `session`, two calls with two pairs, or three pairs when no call fails, and
`request`, three calls with two pairs and neither failure, logout nor deactivation,
which has a proxy, a page behind it and a call that meets them. One store is enough
for saves to overlap in every way, because rows of different stores do not touch.
Each of the ways named by the properties needs at most two of anything, a
call and the one it is confused with, a tab and the one it shares with. The rest
is finite by construction: `MaxCalls`, `MaxLoads`, `MaxHistories`, `MaxWire`,
`MaxRuns`, `MaxFinals` and `MaxUnits` bound what is in flight or counted, and the
sets of pairs, links, messages and notes bound how many are issued. A tab that
left a call or missed an answer is excused from every property of `Counter`; a
behaviour ends when this has come to all tabs. In place of symmetry, sales, pairs,
messages, links and notes are used in a fixed order.
`CHECK_DEADLOCK FALSE` is set in both because these may be used up.

Fairness. `FairSpec` has weak fairness of `Work(r)` for every request: the event
loop and the database go on with a handler that has started. Clients owe
nothing: `Arrive`, `Stage`, `ViewReceipt` and `StockRoom` have no fairness, and
neither has `Fail`. Weak fairness is enough although requests wait for locks,
because a lock holder always has a step, and a circle of waiters is broken by
`DeadlockVictim`.

## 4. What the violated runs show

1. `void_staged`: initialize_checkout leaves a sale PENDING_PAYMENT, the status
   void_finalized_sale takes for "stock was deducted" (`crud/store.py:731`).
   Voiding a staged sale adds its items to stock.
2. `refinalize_credit`: the idempotency check (`crud/store.py:324`) looks for the
   document, which is written after the response. A second finalize before that,
   or after a failed generation, deducts the stock again.
3. `refund_rollup`: a void that commits before the completion's rollup task
   subtracts a contribution; the task then skips the refunded sale
   (`services/analytics_rollup.py:95`).
4. `material_ledger`: the stale copy of a material overwrites a movement
   committed between the unlocked read and the lock, while both history rows
   stay (`crud/product_materials.py:264`, `models/models.py:653`).
5. `analytics_lost`: `drain_pending_outbox` has no caller, so a row whose task did
   not run stays PENDING (`models/models.py:1256`).

Other places where code and text differ, or that a reader of the code should know.
They came up while modelling; the models contain those that concern their
components, and the properties above except them by name.

- Two presses of Back from the summary of a sale on credit reach its checkout
  again: the guard at `CompleteSaleClient.tsx:125` pushes one entry, and
  `BackToCheckout` starts from the terminal (`returned`).
- cancel_staged_sale accepts a sale on credit that was finalized and has no
  document yet, although it is to "Discard a staged checkout that never finalized."
  The stock it took is not given back.
- A receipt opened for a staged sale generates its document, and finalize then
  answers 409.
- Paying during a trial starts today (`crud/subscription.py:456`) and loses the
  trial's remaining days, although the route is to "activate or extend a plan
  window" (`api/routes/organization.py:368`).
- Two resends at the same time leave two links that work, although the screen says
  that previous links stop working (`slips`).
- An answer that comes late empties lines that were added to the cart meanwhile:
  the handlers clear the whole cart, not what they sent.
- An edit made before the session has loaded goes into a cart of another business
  (`early`).
- The customer screen announces "Partial collection — … will stay due"
  (`CollectCreditForm.tsx:345`; line 301 of the same form says that partial pay is not
  supported yet), but the proxy `sales/[saleId]/collect/route.ts:26-32` does not pass
  `amount_given` on, and `collect_credit_sale` then takes the whole amount due as
  given (`crud/store.py:592-594`): the sale becomes COMPLETED with a payment that was
  not received. `Checkout` models the backend with every amount it accepts; the
  screen and its proxy are not modelled.
- When the proxy renews the session, every call of auth() behind it submits the used
  refresh token again and is refused: `org/[organizationId]/layout.tsx:20-26`,
  `org/[organizationId]/[businessId]/layout.tsx:105-113` and `org/page.tsx:203` redirect
  to `/login`, `lib/auth/require-api-auth.ts:21` makes a route answer 401. One request
  is enough (`CallAgain`, `part` = "echo"). The cookie has the new pair by then, so the
  next request works.
- A page that the proxy does not match and that calls auth() itself
  (`(public)/onboarding/plans/page.tsx:34`, `(public)/onboarding/organization/page.tsx:14`,
  `not-found.tsx:9`) loses the pair it is given, and the next request that renews the
  session ends it (`thrownPairs`).
- A price edited after a product was added: the cart shows the old one, which it keeps
  (`useCartStore.ts:440`, `617`), and the sale asks the new one (`crud/store.py:171`,
  `207`), although the totals "Must match backend initialize_checkout"
  (`useCartStore.ts:742`). The line keeps its price until it is taken out (`old`).
- A discount that outgrew its goods is sent and stored as it was typed; the checkout
  page, which is to "recover goods for honest labels" (`CheckoutWorkspace.tsx:119`),
  then shows goods and a discount that the cart did not have (`cut`). The total is
  right.
- A message of the conversation that was just left is added to the thread that
  replaced it, when it arrives before the effect closes its socket
  (`PlatformSupportInbox.tsx:119-142`; `strays`).
- Two saves of a member's stores that overlap can leave stores of both: a save of an
  unchanged set beside one that unticks everything leaves the stores
  (`crud/staff.py:474-495`; `beside`).
- The link to reset a password activates a deactivated member who uses it at the end
  of onboarding (`api/routes/auth.py:297-304`); confirm_password_reset refuses the same
  member (`slips`).
- The banner's "Resume" is a link to the checkout's address (`TerminalCockpit.tsx:532`):
  opened in a second tab, a sale on credit can be paid from both (`opened`).
- A void whose rollup reversal raises is committed without it, with a warning in the
  log (`crud/store.py:803-807`).
- A job row that was inserted twice stays as it is for good, and so does a row whose
  task's PENDING event was recorded last (`overlapped`).

## 5. Proofs

All theorems hold for any finite or infinite sets of requests, sales and rows,
under the named assumptions `InventoryAssumption` and `CheckoutAssumption` (types of
the constants; tracked rows are not services; a material is not a service), and for
billing `SubscriptionsAssumption` and `BillingAssumption` (types of the constants, at
least one plan, periods of at least one day). The screens' modules assume that their
"none" values are not members of the sets they stand beside, that bounds are natural
numbers, and that products and notes are finite sets. `SaleBook`, `StockLedger` and
the MC modules assume nothing.

Every property that a passing run checks is a theorem, except `Served`.

`CheckoutProofs`:

- `TypeCorrect`: `Spec => []TypeOK`. The inductive invariant adds `ServiceInHand`: a
  handler on a material has a service in hand, else the material's row is undefined.
- `CompletedSalesArePaid`, `PaidColumnIsBacked`, `DebtIsKept`: from `MoneyInv`. None
  of the three is inductive, because a commit writes what its request read long
  before. `MoneyInv` relates each in-flight request's memory to the table: what it
  read of the sale was true of at most the payments there are now, since payments
  only grow while the sale exists (a cancelled id is not reused). With that, each
  column a flush writes is covered whether it comes from the request's memory or
  from the table, which is why columns of two requests may mix in one row.

`StockProofs`:

- `StockNeverBelowZero`: from `StockInv`, part `Moved`: a session with uncommitted
  history on a row holds a copy of it that is not negative. It covers materials,
  whose copies may be stale.
- `StockImplementsLedger`: from `StockInv`, part `Guarded`: a row that no service
  consumes is in a session's identity map only while the session holds its lock,
  and then the copy is the committed stock plus the session's own changes. Each
  step of `Checkout` maps to `Post`, `Overwrite` or a stutter of `StockLedger`.

`RaceProofs` is about a sale on which no two requests overlapped (`"requests"` is not
in its `raced`), or no two of its rollup tasks:

- `RestoredOnceUnlessRaced`, `PaymentsErasedOnlyByRace`, `CollectStopsAtTotal`: from
  `AloneInv`. At most one request is between its read of such a sale and its last
  write, and until its first commit the table holds what it read. Hence a void knows
  whether the items went back before (`restores` and the refunded flag agree), a cancel
  that found no payment deletes none, and a collect that adds to what it read adds to
  what there is.
- `CountedOnceUnlessRaced`: from `CountedInv`: at most one task is between the look at
  the outbox row and the commit, and the row is DONE when the sale was counted.
- `HandlersImplementBook`: from `AloneInv`, `MoneyInv` and `CheckedInv` (a request past
  its checks read a status they let pass). A commit for a sale on which nothing
  overlapped maps to `Finalize`, `Collect`, `Cancel` or `Void`; otherwise it maps to
  `Disturbed`, for which `MoneyInv` gives that payments grow and that COMPLETED is
  paid. A handler that begins on a sale another works on maps to `Overlap`,
  and staging to `Stage`. All other steps stutter, finalize's second transaction among
  them, which writes no status.

`BillingProofs`:

- `BillingTypes`: `Spec => []TypeOK`. Its core is `ResolveType`: the newest row that
  gives access exists when any does (`MaxOfPositions`, from the well-foundedness of <),
  and it carries a plan.
- `InactiveStaysInactive`: every step is a `RowsStep`: it appends at most one row,
  keeps trial flags and never sets an active flag.
- `AtMostOneTrial`: from `TrialInv`: while trial requests have not overlapped at most
  one is under way, no trial row exists until it commits, and no payment adds one.
- `GraceIsKept`: from `GraceInv`: while extensions have not overlapped at most one is
  under way, and the grace end it is going to write is not before the present one.
- `CacheKnowsTheRows`, `CreatedWithinLimit`: from `CacheInv`: while nothing overlapped
  and no invalidation was lost at most one request is under way, and the cached answer
  and the one it carries were given by the present rows on some day up to today; the
  room that was counted is still there at the insert.

`TerminalProofs`:

- `CartTypes`: the only type that needs an argument is the value of the goods, a sum
  over a set and so a recursive function. `EveryNat` states induction for a set of
  numbers and follows from a smallest counterexample (`WFMin`); with it, `SumExists`
  shows by cardinality that a function with the recursive equation exists, and
  `SumsOrdered` that sums of smaller terms are not greater. `WorthIsSum` and
  `WorthOrdered` carry this over to what a cart is worth.
- `ShownIsAsked` (`QuotedAsStaged`): from `CartsPriced` beside `CartsBound`. A list has
  the prices of the database except of the products it names as edited, a line that is
  not old has the price of the database, and a cart that was not cut has no larger
  discount than its goods are worth; this holds of every tab's cart and of the stored
  one. Whatever is edited, added or reloaded keeps it.
- `TerminalTypes`: `MCTerminal` moves one module at a time, so each of its behaviours is
  one of `Counter` and one of `CartStore` (`TerminalRuns`), and their types carry over.
- `CounterTypes`, `SecondPending`, `SoldTwice`, `FinalizedTwice`: from `CounterInv`.
  `CallsWait` ties each call to the page that waits for it, or to a tab that is in
  `unsure`; `Remembered` says that a tab's unfinished sale is in its marker, on its
  page, or in the call that staged it; `CartsApart`, `SentApart` and `SalesApart` say
  where a unit can be, cart, call and sale, at once; `TabsKnow` says that a sale on a
  page or in a call was staged by that tab, or is in `opened`; `PaidOnce` says of
  every other sale that once a payment was served its call is still to be answered,
  or neither the tab's marker nor its page leads to the checkout any more.
- `OwnBusiness`: from `CartsBound`, which extends the property to the stored cart:
  whatever is in it is of the business it is bound to.

`SessionProofs`:

- `SessionTypes`, `LostForCause`, `OneHeir`: from `SessionInv`. `OneExchange` allows a
  pair that was not crossed at most one call between the look at the blacklist
  and the new pair; `NewPairsApart` says that a new pair is nowhere but with the call
  it was issued to. `SessionHolds` says of each pair that nothing spoilt (`Spoilt`)
  that, once used, it is in the cookie only while the proxy's call that exchanged it is
  under way, and in no other call but the echoes of that request.

`JobsProofs`:

- `JobsTypes`: the types alone are inductive.
- `Final`: from `TasksInv`, which says for every stage of a run and of its two
  writers what the row can be (`EventsInTurn`).
- `Settles`: from `PanelInv`, part `Settled`: for each row on the panel, the newest
  of the updates on the wire and the histories in flight is what the row has, or the
  row is named in `untold`. It rests on `TasksInv`.

`OfficeProofs`:

- `ChatTypes`, `StaffTypes`, `DeskTypes`: the types of the three modules.
- `Unmixed`, `NothingMissed`: from `ChatInv`, which extends both properties to what is
  on the wire, in fetches and in the reply in flight, with the socket's conversation
  (`joined`) beside the one on the screen.
- `StaysOut`: from `StaffInv`, part `InviteOf`: a member whose invite took its regular
  course has a password or exactly one way to one, a good link, one screen that
  replaces it or one tab that redeems it.
- `StoresDecided` (`LastSaveDecides`): from `SavesInv`: the rows a save has read and not
  lost are the member's, and the member's other rows are in its `meanwhile`.
- `BookKept`: from `DeskInv`: a note is on one desk at a time (`NotesHeld`), a
  number since which nothing moved is up to date (`NumbersCurrent`), and a note that
  was entered and not filed is one whose screen waits for its answer
  (`EntriesKnown`). What is owed is the difference of two cardinalities, and each
  step adds or removes one note of one of the two sets.

- `ScreensTypes`: as `TerminalTypes`, for the five modules `MCScreens` runs.

Only model-checked: `Served`, because it is liveness under weak fairness, for which
the prover would need ENABLED; and the five violated statements, of which TLC shows a
counterexample. The mutants show for each property that it can fail.

## 6. Not modelled, and what is left

`PROJECT.json` gives a reason for each component. In short:

- Backend: the content of documents and their Redis copies, recipe edits, analytics
  backfill, the staff and store limits of a plan, roles, reporting, the
  platform's administration. The last-owner guard of `crud/staff.py` cannot be
  reached: no route assigns the role OWNER, so there is never a second owner.
- Sessions: the age at which a refresh token itself ends.
- Screens: about a dozen pages with their hooks, stores and routes are modelled,
  those on which a step depends on the order of others. They are a small part of the
  front end by lines. The other lines are layout, forms that post one resource,
  lists that show one, charts, documents, static pages, clients generated from the
  API's schema (`lib/api/generated`) and components that no page imports any more
  (`AuditTableRow.tsx`, the longest file). They have no state that outlives the page
  and no step that another can overtake, so a model of them would be a list of
  fields.

What is left, in order of worth:

1. Documents: versions of the snapshot in the table and in Redis, composed with
   `Checkout`'s commits. Abstract specification: the reader's copy is a version the
   sale had, and versions do not go back.
2. Recipe edits (`replace_materials`) in `Inventory`, against sale and void, with
   the ledger's proof extended to recipes that change.
3. Abstract specifications for billing and for the terminal as `SaleBook` is for
   checkout, with the overlaps their properties name as one disturbing step.
