# A TLA+ model of sayur-market-go

sayur-market-go is a vegetable shop built of five Go services (order, product,
payment, user, notification), each with its own PostgreSQL database. They talk
over HTTP when a request needs an answer and over RabbitMQ for everything else;
products and orders are also kept in Elasticsearch indices that the listings
read. This directory holds TLA+ modules that model the parts of the system where
concurrency, failure and ordering decide what happens, TLC configurations that
check them on small instances, and proofs, checked by TLAPS, for every instance.

## 1. Inventory

| Component | State | Operations | Interacts with |
|---|---|---|---|
| Transactional outbox (order, product, user, payment) | table `outbox_events`; per replica a polling worker | `Insert` (in a business transaction), `FetchPending`, `MarkProcessed`, `IncrementRetry`, `MarkFailed`, `CleanupProcessed` | Publisher; every service's transactions |
| RabbitMQ publisher and shared connection (all services) | pool of confirm channels, one connection per process | `Publish`, `borrowChannel`, `returnChannel`, `OpenChannel`, `Close` | Outbox, Consumer (same connection) |
| RabbitMQ consumer (order, product, user, notification) | prefetch window, jobs channel, worker pool, `x-retry-count` headers, DLQ | `Start`, `run`, `worker`, `processMessage`, `handleFailure`, `cleanup` | queue, handlers |
| Stock deduction (product) | `products.stock`, `stock_deductions` | `UpdateStockHandler.Handle`; product edits | order outbox, Consumer |
| Orders (order) | `orders`, `order_items`; index `orders` | `CreateOrder`, `UpdateStatus`, `DeleteByID`; reads of one order and lists; index, status, payment and delete handlers | user and product service (HTTP), stock, notifications, payments |
| Product catalogue (product) | `products`; index `products` | `Create`, `Update`, `Delete`, reindex; shop and home pages; `ESIndexHandler`, `ESDeleteHandler` | Outbox, Consumer |
| Payments (payment) | `payments`, `payment_logs` | `ProcessPayment`, `UpdateStatusByOrderCode` (webhook), reads | Midtrans, order and user service (HTTP), Outbox |
| Notifications (notification) | `notifications`; a websocket pool that stays empty | `NotificationHandler.Handle`, `MarkAsRead`, reads | Consumer, e-mail |
| Cart (product) | one Redis key per user | `AddToCart`, `GetCart`, `RemoveFromCart`, `RemoveAllCart` | catalogue |
| Users (user) | `users`, `verification_tokens`, Redis sessions | sign-up, verification, sign-in, password reset, admin edits | Outbox; the middleware of every service |
| Categories (product) | `categories` | create, edit, delete with slug and usage tests; lists | catalogue |
| Clients, storage, gateway | none | HTTP, uploads | |

Hard to get right, and hard to test: replicas that poll the same table; crashes
between a broker's confirm and the SQL statement that records it; messages that
arrive twice, late, or in another order; retry by republishing followed by a
separate ack; a shared connection; reads that are not locked up to the write that
depends on them. `PROJECT.json` lists these hazards at their lines with the
properties that address them.

What makes each component correct, in one line:

* outbox: a recorded event is delivered at least once or given up after
  `MaxRetries` failed publishes, never marked delivered without a confirm;
* consumer: a message is handled or dead-lettered, never lost, never rejected early;
* stock: what is left is what was set minus what was claimed; each order item counts once;
* orders: statuses follow the workflow, every change is announced with it, the
  index shows nothing the order has not been;
* catalogue: a write and its event are one, variants are replaced as a whole, what the
  lists show can be opened, an index without pending events shows each row as it is;
* payments: one payment per order, recorded and announced together, its status one
  the gateway sent;
* notifications: stored once per handling, mailed only if stored;
* cart: it holds what the user's requests asked for;
* users: a request changes its own fields, success means done, a mailed link works.

## 2. Modules

```
EventDelivery  <--implements--  Outbox  <--  MCOutbox
                                   ^---  OutboxProofs
Consumer        <--  MCConsumer,        ConsumerProofs
StockDeduction  <--  MCStockDeduction,  StockDeductionProofs
Orders          <--  MCOrders,          OrdersProofs
Catalogue       <--  MCCatalogue,       CatalogueProofs
Accounts        <--  MCAccounts,        AccountsProofs
Payments, Notifications, Cart, Publisher  <--  Services  <--  MCServices, ServicesProofs
Payments        <--  PaymentsProofs  <--  ServicesProofs
```

| Module | Models |
|---|---|
| `EventDelivery` | what the rest of the system relies on: a recorded event gets copies delivered and is `delivered` (at least one copy was accepted) or `abandoned` |
| `Outbox` | table and workers, one action per SQL statement and per publish attempt |
| `Consumer` | one queue, its channels, and the consumers of several replicas |
| `StockDeduction` | `UpdateStockHandler` run concurrently on one database |
| `Orders` | requests on an order, its events, its index document and what readers are answered |
| `Catalogue` | administrators' requests on products and categories, with PostgreSQL's locks, and the index `products` |
| `Accounts` | every route of user-service on users, tokens, e-mails and sessions |
| `Payments` | creation of payments, Midtrans' notices, the reads |
| `Notifications` | the notification consumer's handler and the requests of the reader |
| `Cart` | the requests of one user on his Redis key |
| `Publisher` | one publisher, its channel pool, and the connection it shares with consumers |
| `Services` | the last four side by side: they share no state, each behaviour moves one |
| `MC*` | instances: symmetry sets and message bodies |
| `*Proofs` | the theorems about the module, or modules, of that name (section 4) |

Operators named `X_Something` above an operator `X` are seeded bugs: `X` changed as
a plausible mistake in the code would change it. They are used by nothing; with one in
the place of `X`, TLC finds the property that is meant to catch it violated
(`PROJECT.json`, "mutants").

### Outbox

A row is one event, named by its rank in `created_at`; `status` has the
column's values, plus `none` before the commit and `CLEANED` once cleanup has
soft-deleted it. A worker's `pc` is its place in `Start` / `processBatch` /
`processEvent`:

```
idle --FetchPending--> loop --NextEvent--> publish --PublishConfirmed--> confirmed --MarkProcessed--> loop
                                             |  ^ PublishAttemptFails (retry)
                                             +--> publish_failed --IncrementRetry--> loop | give_up --MarkFailed--> loop
```

Each statement may fail (`...Error`); the code logs that and goes on. `seen` is
the `RetryCount` of the fetched rows, on which the give-up test is made.
`accepted` counts the copies the broker has taken, also for an attempt that the
publisher saw fail because the confirm came too late. `Cancel` is SIGTERM,
`Crash` a death between any two steps, `Restart` the supervisor.

### Consumer

A message copy is in the queue (`holder = Nobody`) or unacknowledged at a
consumer. `delivery[c][k]` is the copy as the client has it and how far it has
got: `inbox` (the library's delivery channel), `job` (the jobs channel),
`handling`, then `ack`, `retry` or `reject`. Frames the client has written and the
broker has not processed are in `wire`; a republish and the ack after it are on one
channel and stay in order. `ChannelLost` drops the frames, requeues what
the channel held and leaves the client with deliveries it can no longer ack.
A done context makes the handler fail, so `HandleError` is always possible.
All services call `WithDLQ(true)`; the instance does too.

### StockDeduction

One transaction per delivery, in the steps claim, lock, check, commit.
PostgreSQL's waiting is in the guards: `ClaimDeduction` waits for an open claim of the
same key, `LockProduct`, `SaveUpdate` and `DeleteProduct` for the row lock.
`HandlerFails` rolls back at any step; it stands for an invalid body, a
missing product, too little stock, a timeout and a database error. The retry counter
is kept per message rather than per copy, so a message may be dead-lettered a
little earlier than in `Consumer`. Edits set the stock to what a form says
(`base`) and restart the account (`prior`).

### Orders

`CreateOrder` is two transactions with the enrichment between them, as in the
code; `CreationFails` is a crash or error in between. A request is `found`
(loaded outside the transaction), `checked` (the unlocked SELECT and the test of
the transition), `locked` (the UPDATE), and over at the commit, which
records the events. For DeleteByID, which starts with its transaction, `found` is the
beginning of the transaction. A status event stands for the three recorded together
(e-mail, push, index). Delivery is what Outbox and Consumer provide: an event
stays `open` and may be handled any number of times, in any order, until it is
settled or dead-lettered. The request's status is free text in the code; the
model uses the six statuses the code tests for.

Reads change nothing, so they are not actions but operators: the set of answers an
endpoint may give in the present state, layer by layer as in the code (repository,
service with its HTTP calls, handler). The lists ask the index first and the rows only if
Elasticsearch cannot be reached or has no index; any other error of Elasticsearch
panics on a type assertion and is answered 500. The buyer's list shows the first item of
each order and panics on an order without items, which validation admits; one such order
makes the buyer's whole list unreadable. `paidDoc` is the field the payment handler sets;
a later or repeated order.created removes it again.

### Catalogue

A product's row carries the version of its last write (`ver`: created_at or updated_at, from
the application's `clock`) and the variants each write inserted. A request is at the next
statement of its transaction: `save`, `variants`, `naming`
(the product is read back and its category looked up, on a second connection), `dropVariants`,
`dropRow`. What an open transaction wrote is not in `product` before its commit; the
guards `RowLocked` and `LockedVariants` make others wait for it, `DeadlockVictim` is
the database breaking a cycle, `KnownSlugs` and `Referenced` are the foreign key,
which looks at deleted rows as well. Index handlers are two steps, `CompareVersions` (Get
and compare) and `IndexDocument` (Index). `raced` and `unsettled` are history: which products and slugs
overlapping requests touched, which products' events came in an order that the version test
cannot repair. The properties promise nothing for those, and say exactly that.

The status of a row is what the request says, free text in the code: `ACTIVE`, which the lists
of rows ask for when the query names none, or `DRAFT`, for any other. The search of the index
has no such condition, and a reindex reads the ACTIVE rows only. So `SettledIndexIsCurrent`
says what each source shows: the index every live product, the rows the ACTIVE ones.

### Accounts

A handler's steps are those between which another request can run: after it has bound
its body into the package variable `err`, after the service returned, after the
assignment to `err`, before the test. `did` records whether the service did its work. Rows
are read, changed and written whole (`Save`); `intended` is the row as it would be had each
request changed its own fields only. Values are named by the request that wrote
them. `Crash` loses the requests in flight; a failed `CreateCustomer` does the same, since the
handler calls `log.Fatalf`. Routes declared "/roles/{id}" have no parameter in echo, find
no id and refuse: roles never change, and a user has one or none.

### Payments, Notifications, Cart, Publisher

`Payments`: a request looks for a payment of the order, asks the user and the order service, charges at
Midtrans (outside any transaction) and commits payment, log and event together. A webhook
asks the order service for the id, loads the first payment of the order and saves its
status; late notices are applied as they arrive. Any call may fail at any step. The model assumes
that the webhook's caller is Midtrans, which the handler does not verify, and that the name of the
queue `payment-success` is configured, without which `insertPaymentSuccessOutbox` records no event.

`Notifications`: what the handler does with a message, under a consumer that may hold several
copies of it. `handleFailure` publishes a copy with one more retry (`RetryNotice`) and then acks the
original (`AckOriginal`): in between a message is there twice, before anything was
stored. `LoseChannel` queues an unacknowledged copy again while its handling goes on (a channel that holds
several is lost in as many steps, each of them a fault); that handling can no longer ack, republish or reject (`EndLost`, which is also the early return after a failed
republish: it fails only on a lost channel, where the Nack fails too). `LoseProcess` ends the
handling. `again[m]` counts the faults that led to a handling more than was needed, and is the only thing
that may make a second row. The row is stored before anything is sent, an e-mail notice already as SENT, a
push notice as PENDING, where it stays. A failed e-mail is logged and the message acked. The
reader's page of a notice that was never read fails on its nil `read_at`.

`Cart`: one user's requests; a removal deletes the key and sets it again. `expected` is what the
requests, in the order they were answered, would leave; `added` bounds it when they overlap.

`Publisher`: the outbox worker, the only caller, publishes one message at a time; the pool may hold
channels of a connection that is gone; `ConsumerOpensChannel` takes the connection down
if it cannot open its channel, for everybody.

## 3. Runs

| Run | Question | Bounds | Result |
|---|---|---|---|
| `outbox_replicas` | do two replicas on one table lose or give up an event early? | 2 events, batch 2, 2 retries, no republish, copies counted to 2, 1 stop | holds; also refines `EventDelivery` |
| `outbox_single` | is a settled row final, does every row settle, with one replica? | 2 events, batch 1, 2 retries, 1 republish, 2 stops | holds |
| `outbox_skip_locked` | can two replicas hold the same row? | as `outbox_replicas` | yes: finding 1 |
| `consumer` | is a message lost, rejected early, left behind; does the loop block? | 2 messages, 2 replicas, 1 worker, prefetch 1, 1 retry, 1 fault, 6 copies | holds |
| `stock` | do workers, duplicates, crashes and edits keep stock and claims in step? | 3 items, 2 workers, 2 copies each, 1 retry, 1 edit or deletion, stock below demand | holds |
| `stock_order_service` | does the same hold for the bodies the order service sends? | as `stock`, bodies without metadata | no: finding 2 |
| `orders` | statuses, announcements and answers of reads under overlapping requests | 1 order, 3 requests | holds |
| `orders_race` | do overlapping requests keep to the permitted transitions? | as `orders` | no: finding 3 |
| `catalogue` | do rows, variants, events, lists and index fit together; is every request answered? | 1 product, 2 categories, 2 slugs, 2 requests, 2 index handlers, 3 connections, 1 fault | holds |
| `accounts` | do requests change their own fields, mail working links, answer what they did? | 2 users, 1 e-mail address, 3 requests, 1 failure or crash | holds |
| `accounts_err` | does success mean done, for requests that overlap? | 2 users, 2 requests, no fault | no: finding 4 |
| `services` | payments, notifications, cart, publisher | 1 order and 3 requests with 2 faults; 1 notice in up to 6 copies, 1 retry, 2 faults; 2 products and 3 requests with 1 fault; pool of 2, 3 attempts, 4 channels, 2 publishes, 2 faults | holds |

Why the bounds are enough: two replicas suffice for a conflict on a row and two
events for a batch with a remainder and for starvation by a failing head. One fault
is placed at every point of every behaviour; two are used where a crash during the
recovery matters (`outbox_single`). The counters saturate where the code's tests
saturate. `NumCopies` and `NumNoticeCopies` are large enough that no behaviour of the
instance wants a copy and finds none; two faults let a channel be lost between republish and ack
of a message that a first fault had already doubled, and messages share nothing but the table. Three order items give two with different keys for
one order and more demand than stock; three requests are what it takes to bring an order
back to an earlier status. Requests on different orders, users or carts share nothing
but the broker, so one of each is enough; two slugs and two
categories let a product move and a category be replaced, two users let one
be created beside another. A pool of two channels with three attempts
lets a call work through a pool of dead channels and open a new one. In the code the pool (10) is
larger than the number of attempts (4): there a Publish can fail although the broker is back,
which the row in the outbox survives and the property does not depend on.

Deadlock is not checked in the runs whose system may finish (all messages
settled, all requests over).

Fairness. `Outbox`: weak fairness of each replica's own steps, because a goroutine
with an expired ticker is scheduled, and of `Restart`, because an orchestrator
restarts a stopped process; strong fairness of the three UPDATEs, because a database
outage ends and a statement that is tried again and again succeeds at some time.
Without it a row could be published and fail to be marked forever, which the
code does nothing against. Nothing is assumed of successful publishes: the row
settles as FAILED if they never succeed. `Consumer`: weak fairness of the system's
progress as a whole, no fairness of faults. `Catalogue`: weak fairness of each request's next
statement, because the database answers and breaks deadlocks, and a free connection goes to
who waits for one. `EveryRequestAnswered` then needs one connection more than there are
writers: with as many as connections, each holds the one the other's category look-up
waits for (`X_ThirdConnection` needs one more and shows it).

Findings (details and quotations in `PROJECT.json`):

1. The `SKIP LOCKED` option of `FetchPending` does not keep replicas apart: no
   transaction spans fetching and marking. Every event is still delivered, but possibly
   by both replicas; and only with one replica is a settled row final
   (`SettledIsFinal`).
2. Stock updates carry no order metadata, so the digest of the body identifies
   the product and quantity, not the order: a second order for the same amount is
   acknowledged as a duplicate and never deducted.
3. `UpdateStatus` reads the status without a lock and writes it without a
   condition: overlapping requests make transitions that it refuses.
4. Handlers of the user service keep errors in a variable of the package: a sign-up
   that failed is answered with success if another request succeeds in between.

Not a finding, as no document promises otherwise or no run is spent on it, but worth knowing:

* An order whose creation fails between its two transactions exists without an index
  entry and without stock updates: its page opens, the lists do not show it.
* An update of an order deleted after the check changes nothing and still announces the
  status; the index can keep an old status, or a deleted order, when events arrive out of order.
* `CreateOrder` requires a payment type and drops it: the handler does not copy it.
* When Elasticsearch is down, a filter on the status without a search term is ignored.
* The Midtrans webhook changes one row and tells no other service, although README.md:351
  says the order is updated; it writes no log. A notice for an abandoned charge changes
  the status of the payment made instead. Two overlapping requests make two payments, of which only the
  first ever gets the gateway's status.
* A product that is not ACTIVE is sold by the shop page as long as Elasticsearch answers, and
  disappears from it when the page falls back to the rows; no document says which is meant.
* A product update that overlaps the product's deletion brings it back; variants an update
  inserted may outlive a deletion; updated_at is not in commit order. A deduction of stock
  does not reach the index.
* `CreateCustomer` ends the process when the service fails. A password reset that overlaps the
  deletion of its user inserts the user again, without a role, and signing in then panics.
  `UpdateDataUser` reads the row over the request's name and e-mail, so these never change.
* A crash between the two Redis commands of a removal loses the cart; quantities are not
  validated (the `binding` tags mean nothing to the validator); one product that is gone
  makes the whole cart unreadable.
* An e-mail that fails leaves its notice SENT; a queue for customer updates has no consumer.

## 4. Proofs

Every invariant of a passing run is proved for all values of the constants, under the
`ASSUME` of its module and, for one, the hypothesis named below. So are the refinement, the action
property `SettledIsFinal`, and three action properties that have no run. The assumptions
say what kind of value a constant is (limits are natural numbers, "nobody" is not a name) and,
where a proof counts, that a set is finite (workers of the outbox, requests of
`Catalogue` and `Payments`); nothing bounds the number of orders, users, products,
messages, replicas or faults.

None of the properties is inductive by itself, for one reason everywhere: the code reads
something, lets go of it, and acts on it later. Each proof module has one inductive
invariant (`OrdersInv`, `ConsumerInv`, ...), a conjunction of named parts that say what a
worker, a request, a frame or an event still knows about the state it was made from. It
holds initially, each action preserves it, and the properties follow from it. Each was
checked by TLC on small instances before it was proved (between 875 and 3 million states);
several versions that looked right were refuted there first.

`OutboxProofs`:

* `NoEventLost` (`ProcessedWasAccepted`): `MarkProcessed` does not look at the broker;
  strengthened with `ConfirmedWasAccepted`, a worker about to mark a row holds a confirm for it.
* `GivenUpOnlyAfterMaxRetries` (`FailedOnlyAfterMaxRetries`): the give-up
  test uses a count that may be out of date in both directions. `RetryAccounting`
  bounds the row's `retry_count` plus the workers that are about to increment it by the
  failed publishes, and every fetched count by the row's.
* `OutboxImplementsEventDelivery`: every step of every replica is a step of `EventDelivery`
  or a stutter.
* `SingleReplicaSettlesOnce`: with one replica, `Spec => SettledIsFinal`, from
  `HoldsPending`: what the worker has in hand is PENDING and there once.

`ConsumerProofs`:

* `NothingIsLost` (`NoMessageLost`): an ack is written only for a copy that is `Covered`: its
  message is settled, or a copy with more retries behind it exists. More retries, and not just
  another copy, so that two copies cannot each be dropped because of the other.
* `GivenUpAfterMaxRetries` (`DeadOnlyAfterMaxRetries`): `CopyOK` and `DeliveryOK` tie the retry
  header of every copy, frame and delivery, of lost channels too, to the failures so far.
* `JobsHasRoom` (`LoopNeverBlocks`): `WindowOK` counts the unacknowledged copies of a channel and
  the deliveries its client still has.

`StockDeductionProofs`:

* `BooksBalance` (`StockMatchesClaims`), `NeverOversold` (`StockNeverNegative`), `DeductedOnce`
  (`DeductedAtMostOnce`): `WorkerOK`, from its lock on a transaction's `read` is the row's
  stock less what it took; `Apart`, no two transactions hold one row or one open claim; `ClaimsInv`,
  a claim stands for one deduction. `BooksBalance` needs that the sum over the claims
  changes by the one that is added.
* `SkippedOnlyIfDeducted` (`AckedIsDeducted`), if no two messages share a key. The order
  service's bodies do not satisfy this (finding 2); bodies with metadata, as in run `stock`, do.
* `StockIsNotOverwritten` (`NoLostUpdate`): a deduction never undoes a change made since it read.

`OrdersProofs`:

* `WorkflowKept` (`StatusFollowsWorkflow`): a request past the unlocked test has a target whose
  predecessor, or a cancellation, is among the statuses the order has *had*; that stays true
  whatever others do, and it is all that is left of the test.
* `StatusAndEventsAgree` (`ChangesAreAnnounced`), `ReadersAreRight` (`ReadersSeeOrders`): an
  event and CreateOrder's snapshot carry statuses the order has had (`EventOK`, `RowsInv`), so the
  document does (`DocsInv`). `DeletionIsFinal` is an action property.

`CatalogueProofs`:

* `VariantsAreReplacedWhole` (`VariantsFollowProduct`), `ListsCanBeOpened` (`ListedPagesOpen`):
  `RequestOK`, an update that is about to drop variants has seen all there are; `ApartOK`, a row has
  one writer, and what overlaps is marked; `UnusedOK`, `NamedOK` for categories.
* `EventsSayWhatWasWritten` (`WritesAreAnnounced`): events name only finished requests.
* `IndexCatchesUp` (`SettledIndexIsCurrent`), of the index and of the fallback: `DocOK`, the document is as new as every handled event
  and no newer than the row; `JobOK`, what a handler between its Get and its Index knows
  of the document is still true, unless the product counts as unsettled.

`AccountsProofs`:

* `LastWritesStand` (`LastWriteStands`): the whole row a request will write back is
  the row in the table, or the account is marked as raced (`RequestOK`, `Overlap`).
* `MailedLinksAlwaysWork` (`MailedLinksWork`), inductive with "e-mails have a user".
* `AnswersAreRight` (`AnswersMatchEffects`): `AloneOK`, while a request runs alone the package's
  variable holds its result from the assignment to the test.

`PaymentsProofs` and `ServicesProofs`. `PartsRunAlone`: a behaviour of `Services` is one of each part,
so each part has an invariant of its own and the theorems hold of the whole.

* `PaidForOnce` (`OnePaymentPerOrder`): `OnceOK`, a creation that found no payment is the only
  one for its order until it inserts. `PaymentsFitTogether` (`PaymentsAreWhole`): what a request holds is
  a payment as it was, but for its status; ids are used up by creations only, so there is one for
  every insert. `NoPaymentIsLost` (`PaymentsRemain`) is an action property.
* `NoticesAreStored` (`StoredOncePerHandling`): `NoticeOK` counts the rows of a message together
  with the copies that will still make one (`ToStore`), which a republish leaves unchanged and
  a fault raises only with `again`; and the e-mails together with those about to go out (`ToMail`).
* `CartHoldsWhatWasAsked` (`CartIsWhatWasAsked`): while writers take turns, what one is
  going to write is what is expected, and its own change (`HeldOK`). When they overlap,
  `NoMoreThanAdded` bounds the cart, and what each request is going to write,
  by what was added less the units not yet merged into any of them.
* `NoChannelIsLost` (`PublisherKeepsChannels`): the pool, as a sequence, has no channel twice.

`TypeCorrect` of each module states its type invariant (`TypesOK` in `ServicesProofs`).

Sums, maxima and counts are proved without induction over data: a sum over a finite
set by a smallest counterexample (the library's well-foundedness of strict subsets), a count by
the library's facts on cardinality. What a recursive operator computes for every
input is not provable with these provers; no theorem rests on one.

Only model-checked: `EveryEventSettles`, `EveryMessageSettles` and `EveryRequestAnswered`, because
liveness needs fairness and ENABLED, which the prover does not handle; and the runs
that expect a violation, whose counterexamples are TLC's.

## 5. Not modelled

Message contents beyond what a property distinguishes, timing (a timeout is the
choice to fail), logging and metrics, paging and free-text search, prices, image
storage, the third-party APIs. RabbitMQ, PostgreSQL, Redis, Elasticsearch and the libraries are modelled as
far as the code relies on them. Not modelled either:

* the stand-alone legacy workers of the order and product services (`cmd/worker-*.go`),
  superseded by the consumers in `app.go`;
* the nested category menus of the shop, and the filters of the lists other than the one on the
  status, which only read;
* creation and listing of roles;
* the websocket pool: its handler is never registered, so it is never used;
* the fire-and-forget and legacy publishers, which nothing calls, and `SetupExchange`;
* the stock in the index (`Catalogue` leaves stock to `StockDeduction`).

## 6. Plan

The models are complete up to the list in section 5, and every invariant of the runs is
proved. Left:

1. More action properties of the kind of `StockIsNotOverwritten`: what a step of a request
   may never do to another's row (`Accounts`, `Catalogue`), to a frame (`Consumer`), to a
   stored notice (`Notifications`).
2. For `Consumer` and `Publisher`, an abstract queue and an abstract publish that they
   implement, as `EventDelivery` is for `Outbox`.
3. The safety half of the liveness properties: what has to be ruled out before fairness
   can do the rest (a cycle of waiting transactions in `Catalogue`, a message nobody holds).
