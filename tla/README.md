# City Flash Delivery: TLA+ verification

City Flash Delivery (同城速送) is a same-city delivery platform: customers place
orders in a WeChat mini program and pay with WeChat Pay, an operator accepts and
prices them in a web console, riders claim them and carry them out. All rules
live in one NestJS server (`src/server/api/src`) over a MySQL database accessed
through Prisma; the mini program (`src/apps/customer-mp`) and the console
(`src/apps/merchant-web`) poll it.

This directory holds TLA+ modules translated from the server and from the pages
whose behaviour depends on the order of answers, TLC configurations that check
them on small instances, and TLAPS proofs for every value of the constants.

    tlc -workers 2 -config Serial.cfg MCPlatform      # also Capacity, MoneyRace, ...
    tlc -workers 2 -config Ordering.cfg MCOrdering
    tlc -workers 2 -config OrderPage.cfg MCOrderPage
    tlc -workers 2 -config Parts.cfg MCParts
    tlc -workers 2 -config ConfigRace.cfg MCWorkspace
    tlapm PlatformProofs.tla                          # and the other *Proofs modules

## 1. The system

### 1.1 Components

| component | code | state it keeps | operations that change state | modelled |
|---|---|---|---|---|
| Orders | `orders/orders.service.ts` | `orders`, `order_status_logs` | create, createFromQuote, updateStatus, cancel, hide, quote, confirmQuote, rejectQuote | yes |
| Payments | `payments/payments.service.ts` | `payment_records`, `refund_records`; trades and refunds at WeChat Pay | createPrepay, confirmMockPayment, handleWechatNotification, closePendingPayment, refundForCancellation, handleWechatRefundNotification, reconcileTradeBill | all but reconciliation |
| Riders: dispatch | `riders/riders.service.ts` | `orders.rider_id`, `order_assignments`, `rider_idempotency` | claim, assign, updateStatus, reportException | all but reportException (a log entry) |
| Riders: shift and role | same | `rider_profiles`, `user_role_assignments` | setOnline, changeStatus, updateVehicles, heartbeat, updateLocation | all but heartbeat and position |
| Riders: applications | same | `rider_applications` | apply, applyForUser, withdrawApplication, review | yes |
| Quotes | `config-center`, `catalog`, `orders` | `quotes` | quote, quoteCarpool, quoteHandling, consumption in createFromQuote | yes |
| Pricing | `pricing/pricing.service.ts`, `config-center`, `orders` | none (pure) | estimate, the price of a quote, the price of create | yes |
| Configuration centre | `config-center/config-center.service.ts` | drafts, revisions, published rules, areas, settings | saveDraft, publish | yes |
| Catalogue | `catalog/catalog.service.ts` | services, rules, routes | the defaults of a start, updateService, updatePricing | yes |
| Addresses | `addresses/addresses.service.ts` | `addresses` | create, update, delete, recordUse | yes |
| Authentication | `auth/auth.service.ts` | operators, users, roles | operatorLogin, changeOperatorPassword, switchRole, wechatLogin | all but tokens and the creation of users |
| Rate limiting | `security/` | in-process windows | consume | yes |
| Maps, weather | `maps/` | caches of external answers | none of the system's own | distances and the weather verdict, as functions |
| Notifications, audit, health | `notifications/`, `audit/`, `health/` | rows nobody's logic reads | write, mark read | no |
| Mini program | `apps/customer-mp` | draft order, configuration, page data | choosing a service, filling in, pricing, submitting; the order page's polls and actions | these; the other pages not |
| Merchant web | `apps/merchant-web` | page data | the desk's loads and announcements, accept and quote; the configuration pages | these; the other pages not |
| Shared package, scripts, deployment | `packages`, `scripts`, `deploy` | none | none | no |

### 1.2 How the components interact

The services call each other in one place that matters: `OrdersService.cancel`
awaits `PaymentsService.refundForCancellation` (a paid order) or
`closePendingPayment` (an unpaid one) and then writes the order in a
transaction of its own. Everywhere else they meet only in the database: the
operator's `updateStatus`, the customer's `cancel`, the payment notifications,
`claim`, `assign` and the rider's `updateStatus` all write the row of one order.
WeChat Pay is reached by HTTP calls that can fail after they took effect, and
calls back with notifications that it repeats.

Prices travel the longest way. The operator's console saves a draft and
publishes it as a revision; the server rewrites rules, routes, areas and
settings from it; the mini program fetches them (`getAppConfig`) and computes an
estimate of its own; the server computes the price again for a quote, and once
more when an order is created without one. The customer sees the estimate,
confirms the quote if it differs, and the order must cost what was agreed.

The pages reach the server by HTTP only. Each holds a copy of what the server
said some time ago and decides from it what to offer next.

### 1.3 What is hard

A handler is an `async` function. It reads, checks what it has read, awaits, and
then mostly writes *by id alone*: the check and the write are not tied
together, except where the code makes them so (the conditional `updateMany` of
claim and assign, the SERIALIZABLE transaction of claim, the unique keys of the
payment, refund and idempotency tables). Hence

* every write may be based on a stale read, of this handler or of one it called;
* a process may die, or a call may throw, at every await, with the committed
  writes of the handler in place and the others missing;
* WeChat's answer, its notification and the customer's next request arrive in
  any order, and the notification more than once;
* a configuration is read row by row: a publication, or a restart that writes
  defaults, falls between any two of these reads;
* answers reach a page in another order than it asked, after it was left, after
  the form was edited, or not at all, and polls run beside the user's own calls.

`PROJECT.json` lists these hazards one by one with the line where each bites.

### 1.4 What makes it correct

* An order that moves beyond PENDING is paid, by a trade WeChat really captured.
* An order has one rider, for good, and that is what its assignment row and the
  recorded idempotent answer say.
* A refund is asked of WeChat once, under the number the row names, only for
  money that came in.
* An order's status moves along the flow or to CANCELLED and never leaves an end.
* A price the customer has confirmed and paid is the price of the order.
* A cancelled order leaves nothing owed.
* Captured money gets booked; a refund that was paid out gets recorded as such.
* No rider carries more than the limit, works without the role or leaves with an
  order in hand.
* Nobody works as a rider whom no operator approved.
* A quote buys one order, while it is valid, at a price that was published.
* A publication takes nothing back that its author has not seen, unless another
  publication overtook it on its way to the author or to the draft.
* An order costs what the customer submitted at or confirmed.
* A page that stays open ends up showing the truth, and its buttons do what they say.
* An address book that is not empty has one default address.
* The limiter lets less than twice its limit through per window; the login
  counter counts.

## 2. The modules

| module | what it is |
|---|---|
| `Store` | the rows, WeChat's trades and refunds, the requests in flight; types, initial state, the life of a request |
| `OrdersService` | `orders.service.ts`, after an order exists |
| `PaymentsService` | `payments.service.ts`, and WeChat Pay as far as it can tell |
| `RidersService` | `riders.service.ts`: dispatch, shift and role as far as dispatch reads them |
| `DeliveryContract` | the abstract specification: what the three promise about an order |
| `Platform` | the composition of the four, fairness, the properties, the refinement of `DeliveryContract` |
| `PlatformInvariant` | the inductive invariant `IInv` and the facts that persist |
| `PlatformProofs` | its proof, and the properties that follow from it |
| `ContractProofs` | `Platform` implements `DeliveryContract` |
| `SerialInvariant` | what holds besides when the handlers run one at a time |
| `SerialProofs` | its proof, and the properties of `Serial` and `Capacity` |
| `PricingRules` | the pure part of pricing: rounding, bands, parcel matrix, what a payload may hold |
| `ConfigCenter` | `config-center.service.ts` and `catalog.service.ts`: drafts, revisions, publications, direct edits, restarts |
| `PriceQuotes` | quotes, their consumption and orders placed without one; extends `ConfigCenter` |
| `MapsAndWeather` | distances and the weather verdict of `maps/` |
| `OrderForm` | the mini program's draft order and its own price (`service-config.js`, `vehicle-config.js`, `carpool.js`, `map.js`) |
| `OrderCreatePage` | home, order and address pages against the server of `PriceQuotes` |
| `OrderDetailPage` | the page of one order: polls, payment, cancellation, answer to a quote |
| `RiderApplications` | one user's applications, rider profile and roles |
| `AddressBook` | `addresses.service.ts` |
| `RateLimit` | `rate-limit.service.ts` and its guard |
| `OperatorLogin` | `auth.service.ts`: password, failure counter, lock |
| `OperationsDesk` | `OperationsApp.tsx`: sessions, loads, announcements |
| `ConfigWorkspace` | `ConfigWorkspaces.tsx`: two operators' pages and the server's drafts |
| `PriceQuotesProofs`, `OrderCreatePageProofs`, `PagesProofs`, `ServerPartsProofs`, `ConfigWorkspaceProofs` | the theorems about the modules they extend (section 4) |
| `MCPlatform`, `MCOrdering`, `MCOrderPage`, `MCParts`, `MCWorkspace` | constants, symmetry and small instances for TLC |

How they are put together:

    Store <- OrdersService, PaymentsService, RidersService <- Platform <- PlatformInvariant
      <- PlatformProofs <- ContractProofs
    PlatformInvariant <- SerialInvariant <- SerialProofs (with PlatformProofs)
    SerialInvariant <- MCPlatform
    PricingRules <- ConfigCenter <- PriceQuotes <- OrderForm <- OrderCreatePage
    MapsAndWeather <- OrderForm
    PriceQuotes <- PriceQuotesProofs <- OrderCreatePageProofs (with OrderCreatePage)
    OrderDetailPage, RiderApplications, AddressBook, RateLimit, OperatorLogin,
      OperationsDesk  <- MCParts
    PriceQuotes, ConfigWorkspace <- MCOrdering
    ConfigWorkspace <- MCWorkspace
    OperationsDesk, OrderDetailPage <- PagesProofs
    OperatorLogin, AddressBook, RiderApplications, RateLimit <- ServerPartsProofs
    ConfigWorkspace <- ConfigWorkspaceProofs

### 2.1 Requests

In `Platform` and `PriceQuotes`, `req[w]` is the handler running in slot `w`: its
name (`op`), the step it takes next (`pc`), its arguments, and the parts of its *stale* reads that its later
steps use. An action is what happens between two awaits: `FooRead` starts a
request with its first read and the checks on it, `FooWrite` is the write by
id. A transaction given to Prisma as a list of writes is one action. With one
worker handlers run one after the other; with two or more they interleave at
every await. A request that would be refused by its first check changes nothing
and is not started. The smaller modules have the same construction under another
name (`accountCall`, `bookCall`, `login`, `call`).

`Crash(w)` ends the request in slot `w` at any await. It stands for a dying
process, a failing database call, and a call to WeChat that throws, whenever the
code has no handler for it; where it has one (`refundForCancellation` marks the
refund FAILED) that path is an action (`RefundFailed`).

### 2.2 Code and model: orders, payments, riders

* `order[o]`: `status`, `paymentStatus` (`pay`), `quoteStatus` (`quote`), the
  total in fen (`fee`), `riderId` (`rider`), `arrivedAt` (`arrived`),
  `hiddenAt` (`hidden`). `cancelledBy` is the author of the status log entry that
  recorded the cancellation.
* `payment[o]`: `status` ("NONE" while there is no row), `outTradeNo` (`out`),
  `prepayId` (`prepay`, named by the trade it belongs to), `amount`,
  `transactionId` (`txn`: none, of the mock payment, or WeChat's).
* `refund[o]`: `status`, `outRefundNo` (`no`).
* `rider[r]`: the rider role of `user_role_assignments` (`role`) and `online`.
* `idempotency[r, k]`: the order of the answer stored under a rider's key.
* `trade[t]`: NONE, CREATED (WeChat has answered a prepay), ISSUED (the payment
  parameters have gone to the customer), SUCCESS, CLOSED.
* `wxRefund[n]`: NONE, PROCESSING, SUCCESS, ABNORMAL (also stands for CLOSED: the
  code treats both as failed).

Amounts are members of a small set `Fees`. The answer of a refund call has an
optional `refund_status`; without it the code records FAILED.

### 2.3 Code and model: prices, pages and the smaller parts

* **Configuration** (`ConfigCenter`): `rule`, `route`, `catalog`, `area` and
  `settings` are the rows live code reads; `revisions[c]` the published payloads
  of a category, the first of which has version 2; `draft[c]` the one shared draft.
  `publish` reads the draft, then the version, then runs its transaction, which
  fails if the version's number is taken. `Restart` writes the defaults of both
  `onModuleInit`s and ends all requests. Places stand for addresses; an area is
  the set of places it covers, so polygons and radii are one case. Prices are
  fen, distances metres, as in the code of `quote`; where the code computes in
  kilometres the next item says what becomes of them.
* **Quotes and orders** (`PriceQuotes`): `quote[q]` is the row of `quotes`, `expired`
  whether its `expiresAt` has passed; `placed` the orders that were created, with
  the price and how they came about. A quote reads settings, rule, area and route
  one after the other, the validity last. `create` without a quote reads the rule,
  asks the map, and computes the price by `PricingService.estimate`, a second
  implementation of the same rules.
* **Kilometres in doubles** (`PricingRules`): `quote` subtracts metres
  (config-center.service.ts:300), `PricingService.estimate` (pricing.service.ts:41) and
  the page (order-create.js:236) subtract kilometres held in doubles and then round up:
  `9.3 - 3.3` is `6.000000000000001`, seven kilometres where the quote counts six.
  `FloatAbove` is the set of pairs of distance and included distance for which that
  happens, `FloatExcessKm` counts with it; `FloatAssumption` says the one thing that
  is known of such pairs without doing the arithmetic of doubles: the difference is
  one of whole kilometres, and the included distance is none. `FloatProduct` is the
  set of distances that come out larger when `distanceKm * 1000` turns them back into
  metres (orders.service.ts:867). The instances take the pairs that the doubles give
  for their distances; the theorems hold for any.
* **The form** (`OrderForm`, `OrderCreatePage`): `form` is `globalData.draftOrder`,
  `known` the configuration the app holds, `page` where the customer is and what
  the price line shows, `calls` the questions asked and not answered (route, weather,
  configuration) with the number of the page load that asked, `tries` the
  submissions, from the quote to the payment. Money in the page is in yuan as
  floating point and shown to a tenth; the model computes in fen and rounds where
  `toFixed(1)` does (`formatMoney`). The page asks for the distance without naming a
  mode and is told a bicycle's way (map.js:538, app.js:282); the server prices a
  car's (config-center.service.ts:293, orders.service.ts:857): `Road` has a length for
  each mode.
* **The order page** (`OrderDetailPage`): `row` is the order at the server with the
  number of its changes, `shown` the copy on the page, `polls` the GETs in flight,
  `reply`, `payCall` and `cancelCall` the customer's own calls, each with the time
  between sending, handling and the answer. The server's handlers are one step
  here; their interleavings are `Platform`'s subject.
* **A rider's account** (`RiderApplications`): one user's profile, role,
  applications and preferred role; each handler's check and its transaction are
  two steps. `riding` stands for the orders that dispatch gives.
* **Address book**: `book` in the order of `updatedAt`, which is the order in which
  delete looks for a new default.
* **Rate limiter**: one client and one kind of path; `consume` has no await, so a
  request is a step. A request let through is known by its instant and its number
  among the requests of that instant.
* **Operator login**: the failure counter and the lock; a lock is open, locked or
  expired.
* **The desk** (`OperationsDesk`): what each order waits for, at the server and on
  the screen; `seen` is the ref that keeps announced orders; loads of the timer
  (guarded by `refreshingRef`) and of a sign-in (not guarded) in flight together.
* **The configuration pages** (`ConfigWorkspace`): content is the set of changes it
  holds; a page loads, the operator adds a change, saves or saves and publishes,
  under the version the page loaded. At the server each read, check and write of
  `getConfig`, `saveDraft` and `publish` is an action, and any other request runs in
  between. `overtaken` is history that no guard reads: a publication was committed
  between the reads of the `getConfig`, or between the check and the write of the
  `saveDraft`, that this content comes from.

### 2.4 Choices that decide what can be shown

* A Prisma query with `include` is one read. `claim` is one step after its read
  of the rider because its transaction is SERIALIZABLE; `assign` uses the default
  isolation, so other transactions commit between its reads and its conditional
  update. The column `version` is read and compared only inside claim's
  transaction and is left out with it.
* WeChat refuses to close a trade that has been paid (its documented
  ORDERPAID), answers a repeated `out_refund_no` with the refund it has, and lets
  the customer pay only a trade whose parameters were handed out and that is not
  closed. These are assumptions about an external service.
* The rider endpoints are behind `RIDER_FEATURE_ENABLED`; the model has it on.
  `WECHAT_PAY_MODE` is `PaymentMode`: "wechat", or "mock" with mock payment
  enabled. Mode "disabled" refuses every payment call and is left out.
* Orders exist from the start, as `create` and `createFromQuote` leave them; a
  manual order has no price until it is quoted.
* The outbox, the status log and notifications are written and never read by this
  code: left out. Identity checks (whose order, which role signs the request) are
  left out: every request comes from someone entitled to make it.
* Vehicle, qualification and area matching is the constant relation `Serves`.

* A page that was left goes on receiving answers to what it asked, and the code
  writes them into the shared draft order; `OrderCreatePage` keeps these answers
  and marks what they wrote (`stray`). The configuration pages drop such answers.
* `OrderCreatePage` lets the server answer a quote or an order in one step, because
  `PriceQuotes` has their interleavings; publications fall between the steps.
* The mini program is modelled with its backend (`useBackend`); the built-in
  demonstration without one is left out.
* Geocoding is the constant `Located` (places that have coordinates in the end);
  the weather is whatever the provider may report (`Skies`), or a failure.
* The timer of an order page that was closed goes on (`onHide` ends it, and closing
  calls no `onHide`): `ClosedPageSyncs`. The order in which the home page lists its
  services is the operators' (`sortOrder`), so the default service is any it lists.

Some modules contain a few *slips*: forms a careless change could give
to a guard or a write. No action uses them. Replacing a definition by its slip
must make TLC find a property violated, which shows that the property depends on
that piece of code.

## 3. What TLC checks

| run | question | bounds | result |
|---|---|---|---|
| `Serial` | Does each handler keep status flow, agreed and paid price, the customer's cancellation, the rider's shift and role, when nothing meddles between its awaits, but with crashes and every answer of WeChat? Is captured money booked, does REFUNDING end in REFUNDED? | 1 manual order, 1 rider, 1 key, 2 trade numbers, 1 refund number, 2 prices, 1 worker, no symmetry | holds; 311 006 states |
| `Capacity` | Can any sequence of requests give a rider more than the limit? | 2 orders, 1 rider with limit 1, mock payment, 1 worker | holds; 91 906 states |
| `MoneyRace` | Do prepay, notifications, cancel, refund, hide and the operator, two at a time, keep the money right and the contract? | 1 order, 2 trade and 2 refund numbers, 2 workers | holds; 510 196 states |
| `DispatchRace` | Do riders and operator, two at a time, keep one rider per order and the contract? | 1 order, 2 riders, 2 workers | holds; 1 328 198 states |
| `Ordering` | Do published, quoted and charged prices agree, with two requests of operators and customers at a time, direct edits and restarts? And, one or the other: what can a publication take back, when the requests of two operators' pages overlap at every await? | 4 services, 2 routes, 2 places, 1 quote, 4 requests, edits, restarts or hours in all (`MaxBudget`), 2 workers; 2 pages, 2 changes, 2 calls | holds; 687 468 + 967 157 states |
| `OrderPage` | Is what the customer sees and agrees to what is charged, with late, overtaken and lost answers and publications in between? | 5 services, 2 lines, 3 places, 1 quote, `MaxBudget` 3, 2 questions waiting when one more is asked (`MaxCalls`) | holds; 581 603 states |
| `Parts` | Six smaller parts, one at a time (below) | below | holds; 1 946 707 states |
| `StatusRace` | README.md:231: the status never moves back | 1 order, 1 rider, 2 workers | violated |
| `CancelRace` | A customer's cancellation leaves nothing owed | 1 order, 2 workers | violated |
| `PaidAfterCancel` | No payment on a cancelled order | 1 order, 1 worker | violated |
| `CapacityRace` | The rider's limit under concurrency | 2 orders, 1 rider, 2 workers | violated |
| `ConfigRace` | No publication takes back a change another one put live | 2 pages, 2 changes, 2 calls | violated |

`Parts` chooses one part at the start and lets that one move (`part`): they share
no variable, so running them together would multiply states and show nothing more.

| part | properties | bounds |
|---|---|---|
| order page | `OffersAreHonoured`, `PollsNeverGoBack`, `PageCatchesUp` | 4 changes of the order (`MaxRev`), one quoted price, polls one at a time as in the code (`MaxPolls` 2 leaves room to see a second) |
| rider's account | `WorkersAreEntitled`, `SerialAccountIsSound` | 2 applications, 2 requests at a time |
| address book | `OneDefaultAddress` | 3 addresses, 2 requests at a time |
| rate limiter | `BurstsAreBounded` | limit 2, window of 3 ticks, 6 instants with 3 requests at most at each, 1 restart |
| operator login | `SerialFailuresLock` | threshold 5 as in the code, 7 wrong passwords, 2 attempts at a time |
| operator's desk | `AnnouncedOnce` | 2 orders, 3 changes, 2 sessions, 2 loads in flight |

The properties of `Ordering`, `OrderPage` and `Parts`, in words:

* `QuoteUsedOnce`, `ExpiredQuoteBuysNothing`: a quote makes one order, while it is
  valid, however many requests carry it.
* `LiveRulesAreLastRevision`, `RevisionReplacesItsBase`: what is live is the last
  revision that names it, and each revision replaces the version it was edited from.
* `QuotedPriceWasPublished`, `DirectFeeIsAQuote`: a price comes from one
  published state and not from a mixture of two; both computations of the server
  agree, except by a kilometre's fee where doubles count one more, and where an
  operator has switched the rule off (section 3.3).
* `ChargedAsAgreed`: an order costs what the customer submitted at, or confirmed.
* `EstimateIsServerPrice`: with the configuration in force, the page computes what the
  server would ask *for the distance the page holds* and the same weather (a third
  implementation of the rules), up to the rounding it shows, and a kilometre's
  fee more where doubles count one more. That the server measures the same distance
  is not said, and is not so (section 3.3).
* `RouteIsOfTheseEnds`: answers that overtake each other leave the distance of the
  addresses chosen.
* `OffersAreHonoured`: each button of the order page does at the server what it
  says, for the order it shows; `PageCatchesUp`: an open page ends up current.
* `WorkersAreEntitled` holds whatever overlaps; `SerialAccountIsSound`,
  `SerialFailuresLock` and `OneDefaultAddress` say in their premises what breaks
  them: overlapping requests, or the customer's own form.
* `AnnouncedOnce`: no order is announced twice in a session, none is missed.
* `OnlyOvertakenWorkTakesBack`: a publication takes a live change back only with
  content that another publication overtook between two awaits; that it takes none
  back at all (`PublishedChangesStay`) is violated (`ConfigRace`).

`PageTypeOK` and `PartsTypeOK` document the values the pages and parts can hold; they
hold on the same instances and are not among the runs' properties.

### 3.1 Why these bounds

Every property but the capacity one speaks of one order (and its rows) at a
time, and no handler but claim, assign and changeStatus, through the number of
active orders, looks at a second order: one order shows all the others show.
Capacity needs as many orders as the limit plus one, so the limit is one. Two
workers give every pair of handlers racing; a race of three would need a third
handler that depends on what two others left half done, and `IInv`, whose parts
about requests speak of one request at a time, is proved for any number of
workers. Two trade numbers let a crashed prepay be retried with another number
and two concurrent prepays draw different ones; two refund numbers let cancel and
refund draw different ones. `Keys` has one key: a key reused for another order
needs a second order and is covered by the theorem. Numbers
once drawn are not drawn again: `TradeNos` and `RefundNos` bound how many prepays
and refunds start afresh. TLC checks for deadlock in the passing runs of
`MCPlatform`. `Ordering`, `OrderPage` and `Parts` leave it out, because they really
stop: when the budget, the changes or the attempts of the instance are used up. In
the runs that look for a counterexample it plays no part.

Quotes are looked up by their owner and by id, so one quote and two requests that
carry it show every race for it; two publications, or a publication and a
restart, with a quote in between fit in `MaxBudget` 4. `OrderPage` gives the
customer, the operator and the clock three moves in all besides filling in a parcel
form, and TLC's coverage shows that every action of the page fires. The failure
counter needs one more failure than the threshold after a lock has expired, hence
`MaxWrong` 7. Two changes are the one that is published and the one it is taken back
with; two calls in flight give every pair of requests interleaved at each await, and
a lost update takes no more (the trace of `ConfigRace` is one). `Serial` draws one
refund number, which every retry of a refund must use again; `MoneyRace` has two.
The rules of `Ordering` and `OrderPage` include 3300 m at a distance of 9300 m, the
pair that doubles count differently, and in `OrderPage` every way but the trivial one
is longer by bicycle than by car. The rate limiter's worst burst needs two windows and their boundary:
six instants. The desk needs two orders for an answer that holds one and misses the
other, and two sessions for an answer that outlives the one that asked. Payloads,
wishes and skies are chosen to reach every branch of the price (parcel matrix,
shared ride, distance, weather, labour, over the maximum distance, price not set, a rule switched off).

Symmetry (workers, trade and refund numbers, riders, operators' pages and calls) is
used in runs of safety properties only.

### 3.2 Fairness

`Serial`, for `CaptureIsBooked` and `RefundingEnds`, assumes that a handler in flight goes on (weak fairness: the event
loop runs every settled promise), that WeChat settles a refund (weak fairness)
and that it repeats a notification until it is acknowledged, that is until the
payment, or the paid-out refund, is booked: strong fairness of its read and of
its write, because other requests may hold the only slot in between and a
delivery may crash halfway any number of times, but not for ever. WeChat may
repeat a notification it has an acknowledgement for, and the model lets it, but
nothing relies on that. Nothing is assumed of customers, operator or riders, nor
that a request does not crash.

One worker is the point of these two: with two workers, a write that overtakes the
notification undoes it (the hazards list says where), so the two properties
state what the handlers guarantee when they do not meddle.

`PageCatchesUp` assumes of the order page that timers fire (weak fairness of
`startOrderPolling` and `PollTick`) and that a poll that is sent again and again is
answered and arrives some time (strong fairness: polls may fail any number of
times, but not for ever). Nothing is assumed of the customer or the server's other
work; the order changes at most `MaxRev` times, so it comes to rest.

### 3.3 Where the code does otherwise

1. `StatusRace`. README.md:231 says the server's state machine allows no skipping,
   going back or completing twice. `updateStatus` (orders.service.ts:420), `cancel`
   and the rider's `updateStatus` write by id what they decided on an older
   read. TLC's shortest trace has two requests of operators: one has read the order
   PENDING in order to cancel it, the customer pays, another reads it PENDING and paid
   in order to accept it; the cancellation is written, then the acceptance, and the
   order goes from CANCELLED back to ACCEPTED, paid and not refunded. A customer's
   `cancel`, with its refund, can be overwritten in the same way.
2. `CancelRace`. The customer's cancellation closes the pending payment it finds; a
   prepay that was under way saves its row and hands out payment parameters
   afterwards. The order is cancelled and can still be paid.
3. `PaidAfterCancel`. The operator's cancellation closes no trade at all, and the
   payment notification does not look at the order: the payment is booked on the
   cancelled order, without any concurrency.
4. `CapacityRace`. `assign` counts the rider's orders in a transaction of default
   isolation, and its conditional update does not depend on the count. TLC's shortest
   trace has an assignment that has counted zero, a claim of another order by the
   rider that commits meanwhile, and the assignment's update: two orders at a limit of
   one. That the claim is SERIALIZABLE does not help, since the other one is not.

5. `ConfigRace`. config-center.service.ts:188 refuses a save under an old version
   ("the configuration has been updated by another operator"). But `getConfig`
   (181-183) reads the live content, then the draft, then the version: a publication
   between these reads hands an operator old content under the new version, and
   publishing it takes the other change back without a conflict. The second way is
   `saveDraft` (187-190), overtaken between its check and its write: it leaves a draft
   of the old content behind, which the next load shows under the new version.
   `OnlyOvertakenWorkTakesBack` says that there is no third.
6. Not a run: the comment at catalog.service.ts:22 says existing rules are never
   overwritten by a start; line 82 turns the labour rule back into a manual quote
   at its published version. `LiveRulesAreLastRevision` therefore leaves
   `moving_handling` out.
7. Not a run: prices the page shows that differ from the quote. The page measures the
   way of a bicycle where the server prices that of a car; doubles count one kilometre
   more for some pairs of distances (2.3); a price of zero makes the page fall
   back to its built-in one; shared rides have built-in fares on the page. The first two
   are in the model, the last two are left out of `EstimateIsServerPrice`. The
   dialog of `confirmServerQuote` is what makes `ChargedAsAgreed` hold all the same. For
   an order created without a quote there is no such dialog: `DirectFeeIsAQuote` says
   when it costs a kilometre more than a quote would.
8. Not a run: with a service's rule switched off, `quote` refuses
   (config-center.service.ts:237), while `create` without a quote
   (orders.service.ts:757) finds no rule and charges the built-in price of the
   vehicle. `DirectFeeIsAQuote` says so. The mini program always takes a quote first.

## 4. What is proved

Every theorem holds for all values of the constants that satisfy the named
assumptions below: any sets of orders, riders, workers, calls, pages, services,
places, payloads, any limits and prices. Where a run checks the same property, the
run was there first; the proof shows that the size of the instance does not matter.

| module | theorem | statement |
|---|---|---|
| `PlatformProofs` | `Invariance` | `Spec => []IInv` |
| | `TypeCorrect` | `Spec => []TypeOK` |
| | `PaidBeforeProgress` | `Spec => []ProgressIsPaid` |
| | `OneRiderForGood` | `Spec => []TakenOnce` |
| | `ReplayIsTrue` | `Spec => []ClaimIsRemembered` |
| | `EveryRefundRecorded` | `Spec => []RefundsAreRecorded` |
| `ContractProofs` | `RefundNoHasOneHolder` | `Spec => []OneHolder` |
| | `KeepsContract` | `Spec => ContractSpec`: the platform implements `DeliveryContract` |
| `SerialProofs` | `SerialReadsHold` | `OneWorker` implies `Spec => []SerialOrders` |
| | `HiddenOrdersAreOver` | ... `Spec => []HiddenIsOver` |
| | `AcceptedOrdersWait` | ... `Spec => []AcceptedIsDispatchable` |
| | `OnlineRidersAreActive` | ... `Spec => []OnlineIsActive` |
| | `InactiveRidersAreFree` | ... `Spec => []InactiveIsFree` |
| | `RidersKeepTheirLimit` | ... `Spec => []WithinCapacity` |
| | `OrdersMoveForward` | ... `Spec => StatusMovesForward` |
| | `AgreementsBind` | ... `Spec => AgreedPriceStands` |
| | `SerialMoneyHolds` | ... `Spec => []SerialMoney` |
| | `PaidWhatWasAgreed` | ... `Spec => []PaidPriceIsOrderPrice` |
| | `CancelledIsSettled` | ... `Spec => []CustomerCancelIsSettled` |
| `PriceQuotesProofs` | `QuotesInvariance` | `Spec => []IInv` (of `PriceQuotes`) |
| | `QuotesTyped` | `Spec => []TypeOK` |
| | `QuotePaysOnce` | `Spec => []QuoteUsedOnce` |
| | `RulesAreLastRevision` | `Spec => []LiveRulesAreLastRevision` |
| | `QuotedAtPublishedPrice` | `Spec => []QuotedPriceWasPublished` |
| | `DirectFeeAgrees` | `Spec => []DirectFeeIsAQuote` |
| | `ExpiredBuysNothing` | `Spec => ExpiredQuoteBuysNothing` |
| | `RevisionKeepsToItsBase` | `Spec => RevisionReplacesItsBase` |
| `OrderCreatePageProofs` | `PageInvariance` | `PageSpec => []PageIInv` |
| | `NothingChargedUnagreed` | `PageSpec => []ChargedAsAgreed` |
| | `RoutePricedIsChosen` | `PageSpec => []RouteIsOfTheseEnds` |
| | `EstimateAgrees` | `PageSpec => []EstimateIsServerPrice` |
| `PagesProofs` | `OneAnnouncement` | `DeskSpec => []AnnouncedOnce` |
| | `DetailInvariance` | `DetailSpec => []DetailIInv` |
| | `PollsGoForward` | `DetailSpec => PollsNeverGoBack` |
| | `PageOffersAreHonoured` | `DetailSpec => []OffersAreHonoured` |
| `ServerPartsProofs` | `LoginInvariance` | `LoginSpec => []LoginIInv` |
| | `FailuresLock` | `LoginSpec => []SerialFailuresLock` |
| | `DefaultIsOne` | `BookSpec => []OneDefaultAddress` |
| | `AccountInvariance` | `AccountSpec => []AccountIInv` |
| | `NobodyWorksUnapproved` | `AccountSpec => []WorkersAreEntitled` |
| | `SerialAccount` | `AccountSpec => []SerialAccountIsSound` |
| | `LimitInvariance` | `RateSpec => []LimitIInv` |
| | `LimiterHolds` | `RateSpec => []BurstsAreBounded` |
| `ConfigWorkspaceProofs` | `NoLostPublication` | `WorkspaceSpec => OnlyOvertakenWorkTakesBack` |

The parts of `Parts` have specifications of their own here (`AccountSpec`,
`LoginSpec`, `BookSpec`, `RateSpec`, `DeskSpec`, `DetailSpec`, `WorkspaceSpec`: the part's Init
and Next, which are those its run moves, with `part` saying which). No fairness is
assumed: safety does not need it.

### 4.1 The assumptions

| assumption | module | why the code justifies it |
|---|---|---|
| `StoreAssumption` | `Store` | the sets are related as their names say, fees are positive, `None` is no element of any of them |
| `FloatAssumption` | `PricingRules` | of doubles: whole kilometres are exact, so only a difference of whole kilometres between distances that are none can come out above one |
| `ConfigAssumption` | `ConfigCenter` | services are those of the catalogue; located places are places |
| `PayloadAssumption` | `ConfigCenter` | a payload is JSON of the shape the workspaces build; its numbers are any integers, and `validatePayload` is what refuses the negative ones; `updatePricing`'s DTO checks its own |
| `WantedAssumption` | `PriceQuotes` | wishes have the fields of `PricingQuoteDto` and its bounds; the home page turns a shared ride into a parcel of task `send_parcel` with the flag; distances are not negative |
| `KindsAssumption` | `PriceQuotes` | `validatePayload` does not look at `pricingMode` or at a line's service, and `ConfigWorkspaces.tsx` never edits them: a rule keeps the mode it was loaded with, new lines and cities get an id with a time stamp, so no city takes a shared ride's id |
| `PageAssumption` | `OrderCreatePage` | the built-in ends are places, a draft has the fields of `draftOrder`, what the page is told of a distance is a number of metres, and the server prices what `roundDistance` makes of a car's way |
| `DetailAssumption` | `OrderDetailPage` | the operator's quote must be positive (`QuotedFees`) |
| `AccountAssumption`, `LoginAssumption` | the modules | bounds of the model are numbers; the lock's threshold is not 0 |
| `LimitAssumption` | `RateLimit` | the guard's limits and windows are literals, none of them zero; the rest are bounds of the model |
| `OneWorker` | hypothesis of `SerialProofs`' theorems | not justified by the code when requests overlap: section 3.3, 1, 2 and 4 |

`KindsAssumption` is one the server relies on without checking it: a payload that
gives `carpool_ride` a distance mode passes validation, and quote and create then
compute different prices for it.

### 4.2 Orders, payments, riders

**The inductive invariant.** None of the properties is inductive: what an
action writes is justified by what its request read some steps ago. `IInv` adds
to the types

* `Typed(req[w])`: what a request carries at each step (an order, a rider, a
  status among those its handler writes);
* `Knows(req[w])`: what it has learnt and acts on is *still* true: the payment it
  saw booked is booked, the trade captured, the rider set, the refund number the
  one in the row;
* `MoneyInv`, `TakenOnce`, `ClaimIsRemembered`, `NoStrayRefund`: the tables agree
  with each other and with WeChat.

**Why it is inductive.** The facts in `Knows` are facts that no handler takes back
(`Persist`): a transaction id is never cleared, a rider never removed, an
`out_trade_no` or `out_refund_no` never replaced, a captured trade stays captured.
This is the answer to writes by id on stale reads: the properties that hold under
every interleaving are those that rest on such facts only; those of section 3.3
rest on facts that are taken back (a status, a count).

**How the proof is laid out.** `KnowsPersists` shows that `Persist` keeps what any
request knows; `StepKeeps` reduces a step to the moving request and the tables,
with variants for the shapes a step has (`GoOnKeeps`: only the request moves;
`BeginKeeps`: one starts; `FinishKeeps`: one writes and ends; `MoveKeeps`: one
writes and goes on; `WorldKeeps`: no request moves). `RowsWritten` with the lemmas
on `RefundUpsert`, `RequestWechatRefund`, the trades and `TakeOrder` say what each
kind of row write does to `TablesInv`. Then there is one lemma per action, and
`OrdersKeep`, `PaymentsKeep`, `RidersKeep` and `NextKeeps` put them together.

**The refinement.** `ContractProofs` maps the platform to `DeliveryContract` as
`Platform` does: captured money, the rider and the refund WeChat knows of an order.
Initial states map to initial states; `StepKinds` sorts every step: it leaves
money, couriers and refunds alone (`Quiet`), books a capture (`Captures`), gives the
order to a rider (`Takes`), or is one of the three steps of a refund. Each kind is a
step of the contract or leaves it where it is. A refund must be mapped back from WeChat's
number to one order, and for that the number must have one holder: `OneHolder`
says so of the refund rows, of the requests that have drawn a number and not
stored it, and between the two. It is inductive on top of `IInv`, because only
`RefundLookup` draws numbers, and it draws one nobody holds.

### 4.3 One handler at a time

The properties of `Serial` and `Capacity` rest on facts that are taken back (a
status, a price, a count); between two handlers nothing protects such facts, and
section 3.3 shows what comes of it. `SerialProofs` shows that this is all that
can go wrong with them: `OneWorker` leaves every crash, every
answer of WeChat, every payment, settlement and repeated notification in place,
and takes away only the second handler. Orders, riders, prices and numbers are
still any; the runs have one order, or two. TLC agreed with `SerialOrders` and
`SerialMoney` on the instances of `Serial` and `Capacity`, and on one with two orders
and WeChat, before they were proved.

**Orders and riders.** `SerialOrders` says of the request in flight that what it has
read of its order and its rider is so (`ReadOrder`, `ReadRider`), and of the rows
what the properties say, with `Untaken`: nobody has an order before it is
dispatched. Every step does one of a few things to orders and riders
(`OrderKinds`): an order rests, proceeds, is hidden or priced, or is taken by a
rider below the limit; or the riders change, nobody leaving with an order in hand.
`KindsKeepRows` shows once that each kind keeps the rows, `WithinCapacity` among
them by the cardinality of a set with one more element; one lemma per handler shows
which kind its steps are. `StatusMovesForward` and `AgreedPriceStands` say no more
than what a kind may do.

**The money.** `SerialMoney` says what the rows owe each other: a payment row names
its order's own trade at the order's agreed price; a trade that can be paid, or
was, is the one its order's row names; a prepay id is that of the row's number; a
closed payment that was never booked has a closed trade. And of the request: a
prepay is for the price the order still has; a cancellation that is about to write
owes nothing, because it has closed the trade it found, or asked WeChat to refund
the capture it found. `RowsKeepMoney` covers the writes that only move
the status of a row that is there; `TradeOpens`, `PrepayIsSaved`,
`BookingKeepsMoney`, `TradesGoOn` and `RefundsGoOn` the five that do more. A
capture between the closing of a trade and the cancellation's write cannot
happen, since WeChat takes no money for a closed trade; a capture before it makes the
closing fail, and the cancellation with it.

### 4.4 Prices and quotes

`IInv` of `PriceQuotes` has eleven parts. Types: `TablesTyped`, `HistoryTyped`
(revisions and drafts), `OrdersTyped`, and `RequestsHold`, which says of each
request what it has read by its step. Quotes: `UsedOnce`, that a row's flag and the
orders that name it agree. Revisions: `LastIsItsOwn`, `RulesFollow`, `FaresFollow`,
`RulesUnedited`, that live rules and fares are those of some revision, the last
one unless a direct edit came later. Prices: `QuotesPriced` and `DirectPriced`, that
every saved price is one published at a version that is in the history.

Why a price is not a mixture of two publications: a request that has read a rule
carries what `RulesFollow` said of it *when it read*, and a revision's
content never changes (`RuleAt(s, v)` for a version below the current one is
kept by every publication). The line is read later and may be of a later version;
`PublishedPrices` says exactly that. That the price of `create()` is one `quote()`
would have asked is a lemma about two different computations
(`PricingService.estimate`, in kilometres and yuan, and `QuoteTotal`, in metres and
fen): for every rule of a mode the service can have they differ by one kilometre's fee
where the pair of distance and included distance is in `FloatAbove`, and not at all
elsewhere.

`LatestIsIn` gives `RuleAt` its revision: a non-empty set of versions has a greatest
element, because `<` is well founded on the naturals.

### 4.5 The order page

`PageIInv` has the server's rows (`ServerTyped`), the screens and the money.

* `Screens`: the draft keeps its types under every answer (`PageTyped`); away from
  the home page a distance service has both its ends (`EndsGiven`); and
  `RouteCurrent`: unless the configuration is awaited, whose answer asks for the
  route again, every answer that may still write the distance is about the
  addresses chosen now, and there is one unless the distance fits already. This is
  what the page's sequence number achieves, and it needs the
  exception: an answer from a page load that was left may write the shared draft.
* `Money`: a submission about to order has agreed to the total of its quote's row,
  and an order keeps what its submission agreed to (`TriesHold`, `OrdersAgreed`).

`EstimateAgrees` needs no history: in a state in which the page holds the
configuration in force and any distance, the page's computation and the server's for
that distance are compared service by service, in tenths of a yuan as shown, with the
kilometre of `FloatAbove` added to the server's.

### 4.6 The smaller parts

* **Rider's account.** `Entitled`: an active role, a shift under way, an order in
  hand, and a request about to grant one of them, each imply that an operator has
  approved; approval is never taken back, so stale reads do no harm. `Sound`: until
  two requests overlap, what the one in flight has read is still true.
* **Login.** The same shape: until two attempts overlap, the count read is the row's.
* **Address book.** One default, unless the form unset it or a create or delete
  rested on a stale read; the proof follows the deletion's search for a new
  default through the sequence of the remaining addresses.
* **Rate limiter.** While a window is open, a stretch that begins after the *previous*
  one was opened holds less than a limit besides what this window has granted, one that
  begins after this one was opened holds less than what it has granted (the
  request that opened it is outside), and a stretch that reaches to now when none is
  open holds less than a limit; each plus one limit per restart. The requests
  let through were counts per instant, whose sum is a fold; they are a set now, and
  the sum a cardinality.
* **Desk.** An announced order has been seen, and nothing is announced before the
  session's first answer.
* **Order page.** Only what the server has held is on its way to the page; polls go
  one at a time, and what one brings is no older than what was shown. So the
  answers' revisions rise, and the offers are honoured for whatever is shown.
* **Configuration pages.** Content taken under the current version covers what is
  live (`Covers`), for whatever a draft, a page or a call holds, unless it is
  `overtaken`: then the base version the server compares is enough. A publication
  keeps this for everything it finds: content of an older version says nothing any
  more, and what is between two reads, or between check and write, becomes overtaken
  (`Overtakes`). No assumption on the order of requests is made.

### 4.7 What the proofs corrected

Proving found what TLC's instances had not:

* three definitions with overlapping CASE arms (`getBusinessStatus`,
  `RefundRoute` and its slip), whose value TLA+ leaves open while TLC takes
  the first: they are IF chains now, in the order of the code;
* the choice of lines on the order page offered the built-in parcel lines to every
  service (`BuiltinLines` now depends on the service, as in the code);
* `DirectFeeIsAQuote`, as it stood, is false when a rule is switched off: section
  3.3, 8. The run has such a rule now;
* the parcel prices of a payload were checked for every service; the code checks
  them for `send_parcel` only;
* `Synced` counted a page without any configuration as one with the current one.

### 4.8 Only model-checked

* Liveness (`CaptureIsBooked`, `RefundingEnds`, `PageCatchesUp`), which is beyond the prover together with
  `ENABLED`.
* `PartsTypeOK` for the address book: the library says nothing of `SelectSeq` that
  the provers could use.

No RECURSIVE operator is used in the modules.

## 5. Not modelled

* The reconciliation of trade bills: it compares WeChat's file with the rows and
  writes a report nobody's logic reads.
* Heartbeat, position and exception reports of riders, the outbox, notifications,
  audit, health, metrics: written, not read by the modelled logic.
* Tokens, WeChat's code exchange, the creation of users, and who may call what:
  every request comes from someone entitled to make it.
* Geocoding, place suggestions, map drawing, the caches of external answers.
* In the mini program: the list of orders and its cache, profile, address editing
  and map picker, the buying, cargo and product forms (their fields reach the price through
  `budget` and the vehicle), the map of the order page, the rider's pages, the
  demonstration without a backend. Page instances that were unloaded while a
  submission is under way are followed to the order, not beyond.
* In the merchant web: rider review and rider management, which forward single
  calls; profile and password pages.
* The shared package, scripts and deployment files have no behaviour of their own.

## 6. Plan

Every safety property and action property that a passing run checks is a theorem.
What section 4.8 names stays with TLC. Worth doing next:

1. **Type invariants of the pages and the smaller parts** (`PageTypeOK`, the parts of
   `PartsTypeOK`) as theorems of their own, where the inductive invariants already
   contain them.
2. **What holds with any number of workers** of the properties that `OneWorker` is for:
   a status that is COMPLETED or a capacity kept by claims alone, each with the
   handlers that break it left out of `Traffic`.
3. **The pages' content**: the list of orders and its cache, the rider's pages.
