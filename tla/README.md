# Verification of the e-commerce store API

TLA+ models, TLC runs and TLAPS proofs about the NestJS application under
`src/` (orders, inventory, carts, payments, identity, notifications over
PostgreSQL, Redis and BullMQ). Paths below are relative to `src/src/` unless
they start with `docs/`.

The application is hexagonal: a controller, queue processor or cron calls a use
case; the use case loads an entity through a *cached* repository (Redis in front
of a TypeORM repository), asks the entity for a change, and saves. Every one of
these calls is an `await`, several instances of the API and of the workers may
run, and almost nothing is done under a lock. That is where its hard behaviour
lies, so the modules follow the code at the grain of its awaits.

## 1. Inventory of the system

| Part | State | Operations | Interacts with | Hard behaviour | What makes it correct |
|---|---|---|---|---|---|
| **Reservations** (`modules/inventory`) | `inventories` rows (available, reserved), `reservations` rows and items | ReserveStock (one transaction, rows locked in order), ConfirmReservation, ReleaseStock (read, then a transaction) | stock jobs of the checkout flows, release job, failure listener | reads before the lock; job redelivery; confirm against release; TTL | no oversell, no lost unit, books balance, holds end |
| **Stock levels** (`modules/inventory`) | the same rows, their cache entries | AdjustStock, Check/BulkCheck, GetInventory, ListLowStock | reservations (which never touch the cache), carts, checkout | absolute writes computed from cached copies; string comparison of quantities | reservations survive adjustments; checks agree with the rows |
| **Order lifecycle** (`modules/orders`) | `orders` row, cache entry | Create, Confirm, Process, Ship, Deliver, Cancel, List, Get, payment handlers, expiry cron | payments (events in, COD payments out), checkout scheduler (flows out) | decisions on stale copies, blind `updateStatus`, follow-ups scheduled after the write, ignored results | legal transitions, no goods without payment, follow-ups exactly when justified |
| **Checkout saga** (`modules/orders`) | BullMQ flows `checkout`, `post-payment`, `release` and their jobs, failed-job events, the failure listener's compensation | Checkout, validate/reserve/payment jobs, follow-up jobs, release jobs, failure listener | everything | child results, compensation, retries, stalls, late steps | no payment without stock held, no stock left with a cancelled or failed checkout |
| **Idempotency** (`infrastructure/idempotency`, `infrastructure/interceptors`) | one Redis entry per key | checkAndLock, complete, release | POST /orders/checkout | check-then-set, two-command writes, fail-open, process death | one order per key, replay of that order, every request answered |
| **Carts** (`modules/carts`) | `carts` and `cart_items` rows, cache entry per cart | create, get, add, update, remove, clear, merge | stock check, checkout (validation) | whole-cart read-modify-write through a cache, merge of two carts | a save touches no other cart, the cache shows the row, a request leaves what it is not about |
| **Payments** (`modules/payments`) | `payments`, `refunds` rows, cache entry per payment, what the gateways know | create, intent, capture, refund, COD, verify, webhooks | gateways, order events | gateway called before the guard, whole-payment saves of stale copies, duplicate and early webhooks | a refund on the books was paid and is never lost, the books agree, the status moves forward |
| **Job infrastructure** (`infrastructure/jobs`, `infrastructure/queue`) | BullMQ queues, retry policies | BaseJobHandler, retry strategies, QueueEvents | all jobs | retryable or not, attempts, stalled jobs | a transient failure is retried, a final one compensated |
| **Sessions and registration** (`modules/authentication`) | `session_tokens`, `credentials` | login, refresh, logout, logout-all, register | identity, authorization | rotation with ignored results, saga with in-memory compensation | a revoked session stays so, no half-registered user, nobody inactive signs in |
| **Users and addresses** (`modules/identity`) | `users`, `addresses`, cache | create, view, list, edit, add/update/delete/default address, (de)activate, delete | sessions, checkout | cache-aside reads beside saves and deletions, compensation that fails | the entry follows the row |
| **Roles** (`modules/authorization`) | `roles`, `permissions`, `user_roles` | assign, create, update, delete, two start hooks | guards | permissions replaced outside a transaction, start hooks that run together | a role grants what its last writer asked for |
| **Notifications** (`modules/notifications`) | `notifications` rows, flow save, send, update, connected clients | schedule, the three jobs, mark read, list, connect, cleanup | the queue, WebSocket rooms | stalled jobs, status written after the user has read or the row was deleted | what was shown is listed, what was read stays read, every flow ends |
| **Products** (`modules/products`) | `products` rows, cache and list flag | CRUD, search | inventory, carts | cache-aside | entries agree with rows |
| Redis, shared kernel, WebSocket, shutdown, metrics, tracing, logging, throttling, health, demo seeding | configuration and I/O | | | | |

How the parts interact: `Checkout` creates the order and puts a BullMQ flow on
the queue whose jobs reserve stock, create the payment intent, clear the cart;
the gateway's webhook settles the payment and queues a payment event; the event
handler confirms (or fails) the order and schedules the post-payment flow (or
the stock release); the failure listener compensates a checkout whose flow
failed. The idempotency interceptor surrounds `Checkout`.

## 2. Plan

The modules in the order in which they were written; all of them are done.

| # | Module(s) | Composes |
|---|---|---|
| 1 | `StockLedger`, `StockReservations`, `StockBooks` (+ MC, Proofs) | reservations implement the abstract ledger |
| 2 | `OrderStatus`, `OrderStatusMachine`, `OrderLifecycle` (+ MC, Proofs) | order row, cache, payment event, follow-ups; implements the status machine |
| 3 | `Idempotency` (+ MC; proofs in `CheckoutProofs`) | interceptor around the checkout |
| 4 | `StockAdjustment` (+ MC, Proofs) | composes `StockReservations` with the stock cache, the adjustments and the readers |
| 5 | `Payments` (+ MC, Proofs) | payment rows and cache, gateways, webhooks, refunds |
| 6 | `Carts` (+ MC, Proofs) | cart rows and cache, whole-cart saves, merge |
| 7 | `CheckoutSaga` (+ MC; proofs in `CheckoutProofs`) | orders, stock, payments and the cart through the flows of jobs and the failure listener |
| 8 | `Roles`, `Accounts` (+ MC, Proofs) | roles under users, credentials and sessions; registration over three modules |
| 9 | `Notifications` (+ MC, Proofs) | the flow of three jobs, the connected clients, reading and cleanup |

Each component has a module parameterised by CONSTANTS, one action per step, an
MC module and one or more passing runs; a run that shows a disagreement is kept
only where it refutes a promise that a document or a comment makes in so many
words. The project keeps a dozen runs, so that all of them can be repeated with
every change of the code. Theorems: type correctness and every safety property
that a passing run checks, and refinement where an abstract specification is
stated. No module uses RECURSIVE.

## 3. The modules and the code

### StockLedger, StockReservations

`StockLedger` is what the reservations promise: holds are taken once from free
stock, and then either sold once or given back once. It knows neither rows nor
transactions.

`StockReservations` is the code. Reservation repository lines are those of
`modules/inventory/secondary-adapters/repositories/postgres-reservation-repository/`.

| Model | Code |
|---|---|
| `available`, `reserved` | the columns of `InventoryEntity` |
| `status`, `items`, `expired` | `ReservationEntity.status`, its items, `Reservation.isExpired()` |
| `call[c]` | the reservation a running ConfirmReservation or ReleaseStock has read, decided on and not yet written |
| `Reserve` | `save` (23-93): one transaction, inventory rows locked, all products or none |
| `ReadForConfirm`, `CommitConfirm` | `findById` and `Reservation.confirm()` on that copy; then `confirm` (233-287), which looks at the locked row for CONFIRMED only |
| `ReadForRelease`, `CommitRelease` | `findById` and `Reservation.release()`, which accepts every status; then `release` (168-231), which returns early for RELEASED and EXPIRED |
| `TtlPasses` | time passes `expiresAt`; nothing else happens, because nothing calls `findPendingExpired` |
| `Abort` | the transaction rolls back or the process dies |

Which use cases run is a matter of the constants `Confirmers` and `Releasers`;
each caller may call as often as it likes, on any reservation, so a redelivered
job is a second call.

`StockBooks` is the same specification with two history variables: `resold`, a
row has gone from RELEASED to CONFIRMED, and `returned`, one has gone from
CONFIRMED to RELEASED. Its properties `BooksKept` and `LedgerKept` say what the
rows promise until one of these has happened.

### OrderStatus, OrderStatusMachine, OrderLifecycle

`OrderStatus` is the transition table of `order-status.ts` and
`Order.isCancellable`; `OrderStatusMachine` is the abstract specification "the
status moves along the table". `OrderLifecycle` is one order, its row, its cache
entry, its payment event and the use cases that move it. A worker is an HTTP
request, a queue job or the expiry cron; a use case is the sequence of steps

    lookup -> read -> fill -> decide -> (write row) -> refresh -> store  -> schedule
                           |                        \-> evict            -> schedule
                           \-> collect -> attach -> refreshPaid -> storePaid -> decide

where each arrow is an `await`, so other workers move in between. The middle
line is `cancelOrder`, the last is the recording of the cash by `DeliverOrder`.

| Model | Code |
|---|---|
| `row`, `cache` | `OrderEntity`, the entry `order:<id>`; of the order only its status and whether `paymentId` is set |
| `copy[w]`, `draft[w]` | the entity a use case holds, the cache entry `updateStatus` has read and patched |
| `outcome` | what the payments module decided (`PaymentSettles`) |
| `job`, `named` | its event: not sent, on `payment-events`, or done; and what it names |
| `EmitEvent` | the webhook's next call, which may come late or never: the process may die first, the scheduler swallows the errors of the queue, and nobody else sends the event |
| `flows` | how often a post-payment flow (`schedulePostPayment`, `schedulePostConfirmation`) and a release (`scheduleStockRelease`, `scheduleOrderStockRelease`) were put on the queue (none, one, several) |
| `seen`, `lost` | history variables: the statuses the row has had, and the follow-ups that a fault took after their status was written |
| `Lookup`, `ReadRow`, `Fill` | `CachedOrderRepository.findById`, and `listOrders`. The latter asks for `NX`, but `CacheService.setAll` hands that to `json.set` as a further argument, so entries are overwritten |
| `Target`, `Required`, `Accepts` | the entity's methods and `changeStatus`; `PaymentPresent` is ConfirmOrder's own check |
| `WriteStatus`, `ReadEntry`, `WriteEntry` | `updateStatus`: an UPDATE by id, then read, patch and set the entry |
| `SaveCancelled`, `Evict` | `cancelOrder`: the whole copy is saved, the entry deleted |
| `CollectCod`, `AttachPayment` | `DeliverOrder` records the cash payment and its id before it asks whether the order can be delivered |
| `Named` | a completed payment schedules its flow if the event names the reservation and the cart, a failed one if it names the reservation; a confirmation of cash on delivery names both or neither; a cancellation needs neither |
| `Schedule`, `ScheduleFails` | the call of the scheduler after the write, or none; a failure is logged and the use case succeeds |
| `HandleEvent`, `Return` | `PaymentEventsProcessor` and `BaseJobHandler`: a use case's error is not retryable, so the event leaves the queue whenever the handler returns |
| `ListExpired` | `ExpirePendingOrders`, which runs CancelOrder on each order it lists |
| `Crash`, `RepositoryFails` | death of a process; an error of PostgreSQL or Redis, with the branches that ignore it (`AttachIgnored`, `UpdateIgnored`) |

Two overlapping runs of one event come from BullMQ's at-least-once delivery.

### Idempotency

One key of `IdempotencyService` and the deliveries of one client operation
under it. `key` is the Redis entry with its writer and whether it has a TTL;
`cacheService.set` is two commands, `JSON.SET` and `EXPIRE`, so `Lock`/`LimitLock`
and `Complete`/`DateResult` are two steps each. `Handle` is the checkout: a
`Result`, success or failure, is a value for the interceptor, which completes
the key with it; only an exception releases the key. `StoreFails` is the
fail-open rule (a failing Redis lets the request through), `Expire` the end of
the 24 hours, long after every request.

### StockAdjustment

`StockAdjustment` runs `AdjustStock` and the readers of stock levels beside the
reservations: it has the variables and the next-state relation of
`StockReservations` (`Reservations == INSTANCE StockReservations`), the cache
entry of each product, and requests with the steps

    lookup -> read -> fill -> apply -> refresh

| Model | Code |
|---|---|
| `cache` | the entry `inventory_cache:product:<id>` |
| `Begin` | AdjustStock, CheckStock and GetInventory (`check`), BulkCheckStock (`bulk`), ListLowStock (`list`, which asks the rows and never the cache) |
| `Lookup`, `ReadRow`, `Fill` | `CachedInventoryRepository.findByProductId`, `findByProductIds`, `findLowStock`; all of them set the entry, the last two through `setAll`, whose `NX` is lost (see the orders) |
| `Loadable` | the constructor of `Inventory` throws on a negative quantity |
| `Allowed`, `Adjusted`, `Refuse` | `increaseStock`, `decreaseStock`, `setStock` on the copy |
| `WriteRow` | `PostgresInventoryRepository.update`: both quantities of the copy, by id, without a lock or a condition |
| `Refresh` | the entry is set to what was written |
| `Fail` | any of these calls fails, or the process dies |

### Payments

A worker is a request, a job of the checkout flow or a webhook delivery. Its
steps are

    gateway -> insert -> store                       create, intent, cash
    lookup -> read -> fill -> [payBack ->] decide -> load -> commit -> store
                                                     capture, refund
    find -> insert                                   webhooks
    lookup -> read -> fill                           get, verify, list

| Model | Code |
|---|---|
| `rows`, `cache` | `PaymentEntity` with its `RefundEntity` rows, the entry `payment:<id>`; of a payment its status, whether it has a transaction and an intent, the column `refunded_amount` and its refunds |
| `intents`, `paidBack` | what the gateways know |
| `Authorize`, `CreateIntent`, `Answered` | the gateway's answer and what `CreatePayment` and `CreatePaymentIntent` make of it |
| `Captured` | `Payment.capture`, whose refusal `CapturePayment` does not look at |
| `PayBack`, `Decide`, `Refundable`, `WithRefund` | `ProcessRefund`: the gateway pays, then `addRefund` is asked |
| `FindByIntent`, `Insert` | `HandlePaymentWebhook`, which saves through a method that only inserts |
| `LoadForUpdate`, `OrphansRefund`, `CommitUpdate` | `PostgresPaymentRepository.update`: one transaction that loads the payment with its refunds and writes the whole copy; a loaded refund that the copy lacks would lose its `payment_id`, which is NOT NULL |
| `Interrupted`, `CacheExpires` | a failed call or a dead process; the TTL |

### Carts

| Model | Code |
|---|---|
| `rows`, `cache` | `CartEntity` with its items, the entry `cart:<id>` |
| `loose` | item rows whose `cart_id` is NULL: those a save has cut off |
| `origin` | history variable: the cart in whose place a cart was put back |
| `given`, `made` | the sequences of item and cart ids, which never go back |
| `Lookup`, `ReadRow`, `Fill` | `CachedCartRepository.findById`; a merge finds the guest's cart first, then the user's |
| `Merged`, `WithOneMore`, `WithQuantity`, `Without` | the entity's `mergeItems`, `addItem`, `updateItemQuantity`, `removeItemById` |
| `Change` | the use case's decision on its copy; a merge is done twice, by `MergeCarts` and again by the repository |
| `WithinBounds` | no quantity below one; that none is above `MaxQty` is a bound of the model, the code has none |
| `Load`, `known`, `found` | what the ORM's `save` loads: the row of the cart, and the rows of the copy's items in whatever cart they are. A cart without a row is inserted, under a new id |
| `Commit`, `RowAfterSave` | the transaction of `create`/`update`: items are inserted, updated, taken over from where they are (an item row has one `cart_id`), or cut off |
| `DeleteGuest`, `EvictGuest`, `Store` | the rest of `mergeCarts`, and the entry that is set |

An id of 0 marks an item that has no row yet (`id || 0` of the mapper), so it is
inserted with a fresh id. `AddCartItem` asks whether the *added* quantity is in
stock, not the sum; as the answer may be either way, `Change` and `Refuse` are
both possible.

### CheckoutSaga

The composition: one product, its stock and reservations, the orders, their
payment intents, the jobs of each order's checkout flow, the follow-up flows,
the release jobs, and the failure listener of each instance of the application.
A call into another module is one step; what may happen inside it is that
module's own specification.

| Model | Code |
|---|---|
| `Checkout`, `ScheduleCheckout`, `ScheduleFails` | `CheckoutUseCase`: the order is saved, then the flow is scheduled; if that fails, `cancelOrder` is called on the repository with an order nobody cancelled |
| `flow`, `tries`, `NextJob` | the BullMQ flow: each job is a child of the next; online: validate, reserve, pay; cash: validate, reserve |
| `ValidateCart`, `ValidationErrs` | the cart is read again, so its items, not the order's, are passed on; only the errors of this job's gateways may be retried |
| `ReserveStock`, `ProcessPayment` | one call each; the payment does not ask what has become of the order |
| `Done`, `Failed` | completion, or a stalled job run once more; a failed job is announced to every instance's `QueueEvents` |
| `Cancel`, `ScheduleRelease`, `ReleaseUnscheduled` | `CancelOrder`, by the shop or the cron: the order is saved, then the release is scheduled (`owed` in between). A refusal of the queue is logged and the request succeeds; a process that dies schedules nothing |
| `Confirm` | the use case as one step, with its follow-up flow or without |
| `ConfirmReservation` | the first job of a follow-up flow, which wants the result of a child it does not have: it always fails |
| `ReleaseOrderStock`, `ListingFails` | the job that lists the reservations of the order and schedules one release for each; a refused one is logged only, and a list that cannot be read fails the job |
| `ReleaseStock`, `ReleaseFails` | the release of one reservation; releasing what is released is a success |
| `Hear`, `Look`, `CancelByListener`, `ScheduleByListener`, `ReleaseByListener` | `CheckoutFailureListener` at the grain of its awaits; reservations it cannot read are taken for none, a release that fails is logged only |
| `forgotten` | history variable: the orders of whose release or compensation a fault has dropped a part that the code only logs, or that died with a process |
| `Undefined`, `ghost` | the listener hands `cancelOrder.execute` a number where it takes `{ orderId }`: the id is undefined, the query finds the row with the least id, and the cache keeps it as `order:undefined` |
| `ListenerDies` | an instance dies with what it was doing and had yet to hear |

The listener's refund is not an action: no job's data ever holds a payment id
(`checkout-failure.listener.ts:73`), so the branch is dead.

### Roles, Accounts

`Roles` is the authorization module; `Accounts` extends it with users,
credentials and sessions, and a worker runs one request of either kind. All
users of the model have the same e-mail address, so that uniqueness and
registration again after a deletion are what happens.

| Model | Code |
|---|---|
| `roles`, `known`, `assigned` | `roles` with their `role_permissions`, `permissions`, the role of each user |
| `FindByCode`, `FindById`, `InsertRole`, `ClearPermissions`, `InsertPermissions`, `RemoveRole` | `CreateRole`, `UpdateRole`, `DeleteRole` and `PostgresRoleRepository`, one statement at a time |
| `StartRoles`, `StartPermissions` | the two initialisers, which run together at every start |
| `RegisterUser` ... `WithdrawCredential`, `DeleteRow` | registration: user, credential, role, with the compensation in reverse |
| `Lookup`, `ReadRow`, `Fill`, `StoreUser`, `EvictUser` | `CachedUserRepository` |
| `SaveUser`, `InsertRow` | `save`: the whole copy, by id; a user whose row has been deleted is inserted under a new id, without a credential, unless the address is taken |
| `UpdateRow` | `update` is given the entity with its list of addresses, which TypeORM's `update` refuses: editing a user and adding an address always fail, and no address is ever there to be changed, deleted or made the default |
| `HandleUserDeactivated` | the listener of `user.deactivated`: `RevokeAllForUserUsecase` has no `@Injectable()`, is built without its repository and throws; the sessions stay |
| `FindSession`, `SaveRevoked`, `SaveSession` | rotation and logout |
| `CacheFails`, `CallFails`, `Interrupted` | a Redis error (logged, ignored), any other error with the branch that follows it, a dead process |

### Notifications

| Model | Code |
|---|---|
| `stage`, `tries`, `failed`, `run` | the flow save, send, update; a run of a job and whether it still has the job's lock |
| `ScheduleNotification` | external: nothing in the repository schedules a notification, the model takes the request as given |
| `FindById`, `Load`, `Write` | `UpdateNotificationStatus` and `SaveNotificationHistory`: the copy is found, then TypeORM's `save` loads the row again and writes the columns in which the copy differs |
| `Send`, `online`, `shown` | the WebSocket gateway; an error is swallowed, a user who is not connected misses the push |
| `DbError`, `AfterError` | errors of the save job are final, the others may be retried; the parents of a failed job wait for ever |
| `Stall` | BullMQ takes a run for dead and hands the job out once more, although it may be alive; one stall for each notification |
| `MarkAsRead`, `Listed`, `Expire`, `CleanupExpired` | the user's requests and the nightly job |

## 4. The runs

| Run | What it checks | What it shows |
|---|---|---|
| `reservations_mixed` | `NoOversell`, `NothingLost`, `BooksKept`, `LedgerKept` | duplicated, overlapping and crashing confirmations and releases never oversell and never lose a unit; until a reservation is confirmed that was given back, the books balance and the rows implement the ledger |
| `stock_adjusted` | `NoOversell`, `ReservedWasReserved` | stale absolute writes neither drive stock below zero nor invent reservations |
| `order_overlapping` | `LegalHistory`, `PaymentRespected` | however two use cases overlap, and with a failing repository call, every status was reached over an edge of the table from a status the order had, and nothing leaves without its payment |
| `order_follow_ups` | `FlowsJustified`, `EventLeavesPending`, `CancelledReleases`, `FailureReleases` | stock is released or taken only for an order that gives the reason; once its payment event is on the queue the order moves on; the stock of a cancelled or failed order is released, unless a process died, or the queue refused, exactly between the write of that status and the release |
| `order_sequential` | `CacheCoherent`, `FlowOnce`, `ImplementsStatusMachine` | without overlap the cache agrees with the row, one flow is scheduled, and the row is the status machine |
| `key_retried` | `AtMostOneOrder`, `OrderIsRemembered`, `ReplayIsTheOrder`, `EveryRequestAnswered` | a client that retries after its last attempt ended, also after a crash of the server, places one order and is told which; overlapping deliveries with a failing Redis are still answered |
| `payments_overlapping` | `RefundsArePaid`, `BooksAgree`, `RefundsAreKept`, `StatusMoves` | a refund on the books was paid and is never lost, whatever overlaps; the status moves along the stated edges only; without overlap the refunded column is the sum of the refunds |
| `carts_overlapping` | `OthersUntouched`, `CacheAgrees`, `UntouchedStay` | no overlap, merge, stale copy or interruption lets a save change any cart but its own; without overlap the cache shows the row and a request leaves the products it is not about |
| `checkout_compensated` | `TypeOK`, `IntentNeedsHold`, `CancelledHoldsNothing`, `FailedReleases` | no payment is asked for before stock is held; a cancelled or failed checkout gives its stock back, through stalled jobs, failed releases, reservations that cannot be listed and whoever cancels, unless the fault is one the code only logs; stock never exceeds what there was (the type of `stock`) |
| `accounts_overlapping` | `RegisteredWhole`, `PermissionsAsAsked`, `RevokedIsFinal`, `InactiveStaysOut` | a registration is whole or undone; a revoked session stays so; without overlap or failure nobody inactive signs in and a role grants what its last writer asked for |
| `notifications_overlapping` | `ShownIsListed`, `DeliveryRecorded`, `SettledStays`, `FlowSettles` | what a client saw is in the user's history until it expires; a flow that is through leaves a delivered row; what was read or deleted stays so unless a job met it; every flow ends |
| `deactivated_signed_out` | `DeactivatedIsSignedOut` is violated | a deactivated user keeps a session that can be refreshed |

Every property of a passing run is broken by a mutant of the code it is about;
the mutants stand beside the definitions they change, marked `mutant:`.

## 5. Bounds

- *Reservations.* Two products, one of them with a single unit, so that two
  reservations compete for it and a reservation of both fails on one; two
  reservations, quantities up to 2, two overlapping callers of each kind. A
  third overlapping caller of one kind meets a row that two callers have
  already settled, which is a case the two have met.
- *Stock levels.* One product, two overlapping requests of every kind, one
  reservation with a confirmer and a releaser, levels up to `Ceiling` = 2. The
  three interesting levels (nothing, one unit, more than is asked for) occur.
- *Orders.* One order: orders share no state. Two workers, because a stale
  decision needs one worker that decides and one that writes; both payment
  methods. `Metadata` is what an event may name: what the code's payments name
  (nothing, or the reservation), and in two runs also both, so that the branch
  that schedules the post-payment flow is taken. At
  most one fault of the kinds named in the cfg (`MaxFaults`), and
  follow-ups are counted up to `Many` = 2, enough to tell none, one and more.
  `Endpoints` picks the requests of an instance; `order_sequential` has all of
  them, `order_overlapping` those that lead into and out of every phase
  reachable before shipping.
- *Idempotency.* One key, as keys share nothing; three deliveries, so that a
  retry of a retry and a late writer fit.
- *Payments.* One payment: payments share nothing but the ids of refunds. Its
  amount is 2 and the refunds 1, 2 and 3, so a refund below, at and above the
  amount, two that add up to it and two that exceed it all occur. Two workers,
  one interruption.
- *Carts.* A user's cart and a guest's, and a third id for one that is put back
  after its deletion; two products, two item ids, two workers. `MaxQty` = 2: no
  larger quantity is asked for or saved, so a merge that would exceed it is not
  followed; no property reads more than "changed" off a quantity.
  `MaxTroubles` = 1: at most one request is interrupted, or started once the
  behaviour is no longer calm; the calm part of a behaviour, which `CacheAgrees`
  and `UntouchedStay` are about, is not bounded by it.
- *Checkout.* Two orders for two units of stock, three reservations (a stalled
  job may reserve twice), a cart of one unit, one instance, two attempts, one
  fault of any kind: scheduling the checkout, a stalled job, an instance that
  dies, a release job the queue refuses, reservations that cannot be read, a
  release that fails. Two orders are what it takes for the compensation of one
  to hit the other. `MaxFaults` is at most 1 by assumption, because BullMQ runs
  a stalled job once more and not twice.
- *Accounts.* Two users of one e-mail address (so one exists at a time, and one
  may be registered after the other was deleted), two sessions (one rotation),
  one role with one permission, one trouble: an overlap, a failed call or a
  dead process. One permission is enough to tell a permission that was taken
  back from one that was not.
- *Notifications.* One notification: notifications share only the workers. Two
  users, one of them the addressee or neither; two runs, one error and one
  stall, two attempts. (BullMQ fails a job that stalls a second time.)

## 6. Fairness

- `OrderLifecycle!Fairness`: weak fairness of each worker's own steps (a running
  handler goes on; Node does not drop a continuation) and strong fairness of
  *taking up* a queued event, since the worker pool may be busy and free again
  infinitely often. Nothing forces a request, a payment, its event or the cron. BullMQ
  re-runs a stalled job once, so liveness is checked with at most one crash.
- `Idempotency!Fairness`: weak fairness of a running request, and of the TTL.
- `CheckoutSaga!Fairness`: weak fairness of each order's job (a queue worker
  takes a waiting job), of each release job, of a request that has cancelled and
  goes on to schedule the release, and of each instance's listener.
  Customers, the shop and faults are forced to nothing.
- `Notifications!Fairness`: weak fairness of handing out a waiting job and of a
  run's own steps.
- `StockReservations!Fairness`: a call that has read gets to its commit, because
  a job that dies is retried and a request has nothing to wait for; TTLs pass.
  Only `ExpiredHoldsEnd` (section 9) needs it.

Payments, carts and accounts are request-driven: nothing in them must happen
unless somebody asks, so only safety is stated about them.

## 7. What is proved

All proofs are checked by TLAPS, for every value of the constants that satisfies
the named assumptions: finite sets of reservation ids in `StockReservations`,
natural quantities and amounts, refunds of at least one unit (the DTO's
`@Min(0.01)`, `payments/primary-adapters/dto/process-refund.dto.ts`), orders with
numbers from 1, at most one fault in `CheckoutSaga`, and markers such as `Idle`,
`Missing`, `New` and `Absent` outside the sets they mark. Every safety property
of the passing runs is a theorem.

| Theorem | States | Argument |
|---|---|---|
| `NeverOversold`, `NothingIsLost` (StockReservationsProofs) | `[]NoOversell`, `[]NothingLost` for any number of callers of both kinds | `Held` and `Sold` are cardinalities of sets of units; one lemma says how changing one reservation's status moves units between two such sets; the reserved column is bounded by the holds |
| `BooksAreKept`, `LedgerIsKept` | `[]BooksKept`, `LedgerKept` of `StockBooks` | as long as nothing was resold, a commit finds the status it read, its own result, or a status that makes it return early: each step balances the books and is a step of the ledger |
| `BooksAlwaysBalance`, `ReservationsImplementLedger` | `Spec => []BooksBalance` and `Spec => ImplementsLedger` where confirmers or releasers are absent | with only one kind of caller nothing can be resold |
| `AdjustmentTypes`, `AdjustmentsNeverOversell`, `ReservedIsBounded` (StockAdjustmentProofs) | the invariants of `stock_adjusted`, any number of products, requests, reservations | see below |
| `TypeCorrect`, `HistoryIsLegal`, `PaymentIsRespected`, `FlowsAreJustified` (OrderLifecycleProofs) | the safety invariants of the order, any number of workers, any metadata, any faults (the last: no repository faults) | see below |
| `CacheStaysCoherent`, `FlowRunsOnce`, `OrdersImplementStatusMachine` | `[]CacheCoherent`, `[]FlowOnce`, `ImplementsStatusMachine` for one use case at a time and no fault | see below |
| `KeyTypeAlways`, `OneOrderPerKey`, `OrderStaysOnRecord`, `ReplayAlways` (CheckoutProofs) | types, and the three safety properties of the key, which speak of behaviours without overlap or Redis errors, crashes included | see below |
| `TypeAlways`, `RefundsAreAlwaysPaid`, `RefundsAreAlwaysKept`, `StatusAlwaysMoves` (PaymentsProofs) | `[]RefundsArePaid`, `RefundsAreKept`, `StatusMoves` for any payments, amounts, refunds, workers and interruptions | see below |
| `BooksAlwaysAgree` (PaymentsProofs) | `[]BooksAgree`: where no requests overlapped and none was interrupted, the refunded column is the sum of the refund rows and fits the status | see below |
| `OthersAlwaysUntouched`, `CacheAlwaysAgrees`, `UntouchedAlwaysStay` (CartsProofs) | the three properties of `carts_overlapping`, for any carts, products and workers | see below |
| `IntentsAlwaysNeedHolds`, `CancelledNeverHolds` (CheckoutProofs) | `[]IntentNeedsHold`, `[]CancelledHoldsNothing` for any orders, reservations, stock and instances, one fault of any kind | see below |
| `CheckoutTypes`, `StockAlwaysBalances` (CheckoutProofs) | `[]TypeOK` of `CheckoutSaga`, the bounds of the stock and of the attempts included; free and reserved units add up to the stock | see below |
| `TypeAlways`, `RegisteredAlwaysWhole`, `PermissionsAlwaysAsAsked`, `RevokedAlwaysFinal`, `InactiveAlwaysStaysOut` (AccountsProofs) | types, and the four properties of `accounts_overlapping`, for any users, sessions, roles, permissions and workers, any number of troubles | see below |
| `TypeAlways`, `ShownIsAlwaysListed`, `DeliveryIsAlwaysRecorded`, `SettledAlwaysStays` (NotificationsProofs) | the three safety properties for any number of notifications, users, runs, errors and stalls | see below |

*Stock levels.* `IInv = TypeOK /\ InHand /\ NoItemsYet /\ NoOversell /\ ReservedBounded`.
`ReservedBounded` says of the column, of the cache and of every copy in
somebody's hands that its reserved quantity is at most the number of units ever
reserved, a number that only grows; that makes stale copies harmless for this
property. The reservations' part of each step is proved about
`StockReservations` through the instance.

*Orders.* `LegalHistory` is not inductive: a worker writes on the strength of a
copy, so the invariant must say that what every worker holds, and what the cache
holds, is a status the row has had (`InHand`), and that a worker past its
decision has written (`Committed`). `PaymentIdOnlyForCod` keeps ConfirmOrder
from confirming an online order, `EventsOfOutcome` says that a handler runs only
for the outcome it is named after.
`IInv = TypeOK /\ Committed /\ InHand /\ PaymentIdOnlyForCod /\ EventsOfOutcome /\ LegalHistory /\ PaymentRespected`.
`FlowsAreJustified` assumes `"repository" \notin FaultKinds`: with such faults it
does not hold (section 9). For one worker and no fault (`Sequential`), `Fresh`
says that copy, draft and entry agree with the row except between the two
writes of a step that is under way, and `OneFlow` ties the number of scheduled
flows to the status and to where the worker is; the refinement follows from
`Fresh`, since then the entity's guard was asked about the row itself.

*Idempotency.* The invariant is guarded by `~disturbed`: then one request at
most is running (`OneAtATime`), and where it is determines what the key holds
(`KeyOfPlace`) and whether its order has been placed (`PlacedOfPlace`).

*Payments.* `IInv = TypeOK /\ InHand /\ Placed /\ Paid /\ Kin /\ Forward`.
`Placed` says that a payment being created belongs to one request until its row
is there; `Paid`, that whatever copy of a payment exists, in the row, the cache
or a worker's hands, has only refunds that were paid out. `Kin` says that all
copies of one payment that may yet be saved belong to one family of statuses, so
that a stale save can move the status within its family only; `Forward`, that
AUTHORIZED is never among what may be written. `RefundsAreKept` follows from
`TypeOK`, `Placed` and the check of the transaction (`OrphansRefund`).
For `BooksAgree`, which speaks of behaviours without overlap or interruption,
`Calm` adds: one request at most is on its way (`Alone`); what it has in its
hands, and every entry, is the row except while it is being written (`Current`);
and the books are right, of the rows and of that copy (`Books`). The sum over the
refund rows needs no induction: only a payment that was not refunded can be
refunded (PARTIALLY_REFUNDED is not among the statuses `PaymentStatus.canBeRefunded`
accepts from), so a payment has no refund or one, and the two sums are lemmas
(`TotalOfNone`, `TotalOfOne`).

*Carts.* `IInv = TypeOK /\ InHand /\ OneOwner /\ AllGiven`. A save may move any item
row whose id is in its copy, so `OthersUntouched` rests on who can have which id.
`OneOwner` says it of everything that may become a row: an id that is in the
row, the entry or a copy of two carts is in two of one `origin`, one having been
put back in the place of the other. `AllGiven` says that all ids were given out,
so that a fresh id is in none of them. That a save then leaves the rows of every
other cart as they are is the lemma `RowsApart`.
For behaviours without overlap or interruption `Calm` adds: one request at most
is on its way (`Solo`); no row has two items of one id, and only carts that were
created have a row (`Keyed`); what the request has in its hands is the row until
it is changed, keeps the products the request is not about until it is saved,
and is the row again afterwards (`Current`, `Ready`); and an entry that differs
from its row is one the request is yet to set or drop (`Cached`). That a save
leaves exactly the copy, although it writes row by row against what it loaded,
is the lemma `SavedWhole`.

*Checkout.* `IInv = Base /\ HeldFirst /\ Noted /\ Single /\ Pending`, with
`Base = Typed /\ OfSaved /\ Named`. `HeldFirst` is `IntentNeedsHold` with the order
whose turn it is to pay. `Pending` says of every reservation that a cancelled
order still holds who is about to release it (`Awaits`): the request that has yet
to schedule the release, the job that lists the reservations, the release of
this one, the listener that is about to schedule (`OwedBy`), or the listener that
was told of a release or a listing that failed (`ToldOf`). `Noted` says that
orders cancelled in mid-flow are on record in `meddled`; what a fault dropped is in
`forgotten`. When the listener has to stand in, the one fault has happened, so it
lives to finish; and no job has run twice, so the reservation it finds is the
only one: that is `Single`.
The types are a second invariant, `Booked = Typed /\ Balanced /\ OfSaved /\ Tried /\ Named`.
That the stock stays within `0..Stock` does not follow from its type: `Balanced`
says that the free units and those of the pending reservations, counted as the
elements of a set (`Units`), add up. `OfSaved` says that jobs, events and the
listener's order are of orders that were saved, so that there is a row with the
least id when the listener looks for `undefined`; that a non-empty set of
numbers has a least element is the lemma `Least`, from the well-foundedness of
the strict subset order.

*Accounts.* `IInv = TypeOK /\ InHand /\ Calm /\ Untroubled /\ Fresh /\ Granted`.
`InHand` says, step by step, what a worker was asked for and what it holds
(`Doing`), and that the session a request names exists; with `TypeOK` it is enough
for `RevokedIsFinal`, which holds whatever overlaps or fails. The rest is
layered by what may have gone wrong. While `~disturbed`, which allows failed
calls, `Calm`: one request at a time, no entry without its row, and whoever is
not whole is being registered or taken back (`Registering`); `RegisteredWhole` is
`Calm` at rest. While `troubles = 0`, `Fresh`: entries and copies carry the row's
status except between the two writes of a save, which gives `InactiveStaysOut`;
and `Granted`: a role is as asked for, or empty and about to be given what was
asked, which gives `PermissionsAsAsked`. `Untroubled` ties the two together. That a
worker is alone turns each step into a statement about that worker
(`CalmBefore`/`CalmAfter`, `FreshBefore`/`FreshAfter`, `GrantedBefore`/`GrantedAfter`).

*Notifications.* `IInv = TypeOK /\ InHand /\ Owned /\ Recorded /\ Delivers /\ Settles`.
`Owned` says that a job belongs to one run, and that a run that lost its job is
one of a notification that stalled; `Recorded`, that the row is there before
anything is sent; `Delivers` and `Settles` carry the two other properties over
the steps of a run between its reads and its write.

## 8. Only model-checked

- Liveness (`EventLeavesPending`, `CancelledReleases`, `FailureReleases`,
  `EveryRequestAnswered`, `FailedReleases`, `FlowSettles`): temporal reasoning
  under fairness, with `ENABLED`, is out of the prover's reach.
- `DeactivatedIsSignedOut`, which the code violates (section 9).

## 9. What the code does not keep

One run ends in a violation, `deactivated_signed_out`: it refutes a sentence of
the repository (quoted under "findings" in PROJECT.json). Deactivating a user is
documented to revoke the user's sessions; the listener's use case lacks
`@Injectable()`, so the container builds it without its repository, it throws,
the emitter logs the error, and the sessions stay.

Further definitions stand in the modules, without a run of their own, because
the model refutes them as well. To see one, put it in the cfg named here, as
INVARIANT or, for an action or temporal formula, as PROPERTY without SYMMETRY.

| Definition | Instance | Why it fails |
|---|---|---|
| `NotOverpromised`, `ReleasedIsFinal` (StockReservations) | ReservationsMixed.cfg | ConfirmReservation reads a pending reservation, a release commits, the confirmation's transaction looks only for CONFIRMED and writes CONFIRMED over RELEASED: units free and sold |
| `ReservedNotNegative` | ReservationsMixed.cfg | a confirmed reservation can be released, and `reservedQuantity` is reduced twice |
| `ExpiredHoldsEnd` | ReservationsMixed.cfg with `BooksSpec /\ Fairness` | no caller of `findPendingExpired` or `Reservation.expire` |
| `HoldsOnTheBooks` (StockAdjustment) | StockAdjusted.cfg | an adjustment reads a level, a reservation is made, the adjustment writes its old level: the hold is gone from the columns |
| `CancelledIsFinal` (OrderLifecycle) | OrderOverlapping.cfg | CancelOrder saves between the payment handler's read and its `updateStatus`: a cancelled order becomes CONFIRMED |
| `ConfirmedHasPayment` | OrderSequential.cfg | `Order.confirmPayment` sets the id on the copy, `updateStatus` writes the status only |
| `CacheCoherent`, `FlowOnce`, `FlowsJustified` | OrderOverlapping.cfg | a late fill puts the old status back; two runs of one event, or two confirmations, both find the order pending; a handler whose update failed schedules the flow all the same |
| `EventLeavesPending` | OrderFollowUps.cfg with the fault `"repository"` | the payment handler ignores the result of `updateStatus`, and an error of its look-up is final |
| `ConfirmedFlows` | OrderFollowUps.cfg | `HandlePaymentCompleted` schedules the post-payment flow only if the event names the reservation and the cart (80); `process-payment.job.ts` (78-81) names the reservation only, PayPal's webhook nothing, so the order is confirmed, a warning is logged (97-102), the reservation stays pending and the cart full. `docs/integration/INTEGRATION-PATTERNS.md:194` says "Confirm Order → Clear Cart" |
| `OneOrder` (Idempotency) | KeyRetried.cfg | `checkAndLock` reads the key and then sets it; two simultaneous deliveries both read nothing |
| `FailureAllowsRetry` | KeyRetried.cfg | a failed `Result` is a value, and is replayed for 24 hours |
| `LockIsSettled` | KeyRetried.cfg | a crash between `JSON.SET` and `EXPIRE` leaves a lock without a TTL |
| `WebhookSettles` (Payments) | PaymentsOverlapping.cfg | the webhook saves the payment it found through `save`, which refuses an id that exists, so its event is never queued |
| `MergeAddsOnce` (Carts) | CartsOverlapping.cfg | the use case merges the guest's items into the copy, and the repository merges the two carts once more |
| `FailedIsCancelled` (CheckoutSaga) | CheckoutCompensated.cfg | the listener passes a number for a command, so the order with the least id is cancelled, and the one that failed is not |
| `ConfirmedKeepsHold` | CheckoutCompensated.cfg | the follow-up flow's first job always fails, and the compensation releases the confirmed order's stock |
| `ReadStaysRead` (Notifications) | NotificationsOverlapping.cfg | the update job saves the copy it found over a row that has since been read, or in the place of one that was deleted |
| `UnreadAreCounted` | NotificationsOverlapping.cfg | the list counts SENT, a status nothing sets |

Other things that a reader of the models will come across:

- *Payments.* `ProcessRefund` pays through the gateway before it asks whether
  the payment can be refunded; two overlapping refunds leave a `refunded_amount`
  below the sum of the refund rows, and a capture can write CAPTURED over
  REFUNDED. A PARTIALLY_REFUNDED payment cannot be refunded further.
  `CapturePayment` publishes its event whether or not anything was captured. Each
  `DeliverOrder` of a cash order records a payment. The event of a settled
  payment is sent once at most, by the webhook, after a save that is refused
  (`WebhookSettles`); `OrderLifecycle` shows what follows where it is sent.
- *Releases.* A cancellation is saved before its release is scheduled
  (`cancel-order.usecase.ts:41-52`); if the process dies in between or the queue
  refuses, the order is cancelled, the request may have succeeded, and nothing
  releases the stock. The same holds for one release of several
  (`release-order-stock.usecase.ts:56-60`), and for a release the failure
  listener attempts itself.
- *Carts.* A cart merged into itself is deleted and its entry stays; a save of
  a stale copy puts a guest cart that a merge has deleted back under a new id,
  or puts a product into a cart twice. Items that a save removes keep a row
  without a cart.
- *Checkout.* The cart is read again by the validation, so stock may be held
  for other items than the order has. When scheduling fails, the order stays
  pending. The jobs `clear-cart` and `finalize` never run.
- *Accounts.* The permissions a role gets at the first start depend on which of
  the two start hooks is faster; a restart overwrites what an administrator
  made of a system role; a new role's code is sought as typed and inserted in
  upper case; the list of users is the list of cached users if there is one; the
  reuse detection of `RefreshToken` can never fire; saving a user that another
  request has deleted inserts another user, who has no credential.

## 10. Not modelled

PROJECT.json lists every part with its reason. Products repeat the order
repository's cache protocol over rows nobody computes from; Redis, WebSocket,
shutdown, metrics, tracing, logging, throttling, health checks, the shared
kernel and demo seeding are configuration, values or I/O on which no property of
the state depends. What the modules need of them (retryable failures, stalled
jobs, the connected clients, cached users that the seed looks up) is part of the
modules.

Within the modelled parts:

- order operations without a caller (`updateItemsInfo`, `deleteById`,
  `retryPayment`, `refund`, `associatePayment`, `CreateOrderFromCart`), the
  `isCached` flags and list indexes;
- the inventory entry under its own id, and the comparison of two `Quantity`
  objects by `>=` in `Inventory.isInStock`, which compares decimal strings
  ('9' >= '10'); for the quantity 1, the default, the answer is right, because
  every positive number is at least '1' as a string;
- the gateways' own behaviour: in the code they are stubs;
- delays, backoff and the dead-letter log of the queues, and the second stall of
  a job, which fails it;
- password hashing, token signing, changing a password, the permission guard
  (it only reads).

## 11. Reading the models with care

- `save`, `confirm` and `release` of the reservation repository ask for a
  pessimistic lock; the models take it as the intent says, the row is locked from
  the read to the commit. How PostgreSQL treats the lock on an eagerly joined
  relation is outside the models.
- A cancellation saves the whole copy; the model shows of it the status and
  whether the payment id is set.
- In `Idempotency` a value that is overwritten may or may not keep the TTL of
  the old value until `EXPIRE` is called; both are allowed.
- `CacheCoherent`, `AtMostOneOrder`, `OrderIsRemembered`, `ReplayIsTheOrder`,
  `BooksAgree`, `CacheAgrees`, `UntouchedStay`, `RegisteredWhole`,
  `PermissionsAsAsked` and `InactiveStaysOut` are about behaviours in which no
  two requests overlap (and, where they say so, nothing fails). The other
  safety properties are about every behaviour.
- Carts and Accounts fold the expiry of a cache entry into the lookup: an entry
  nobody looks for is as good as gone or there. In Payments it is an action.
- In `CheckoutSaga` the run of a job and its completion are one step, with the
  stalled job (its effect without its completion) as the alternative.
- What TypeORM and BullMQ do (which columns a `save` writes, when a stalled job
  is handed out again, in which order children run) is marked external in the
  map and modelled from how the code uses them.

## 12. Running the checks

    tlc -workers 2 -config OrderFollowUps.cfg MCOrderLifecycle.tla
    tlapm StockAdjustmentProofs.tla

The cfg and the MC module of every run are in PROJECT.json, with the source
lines each definition stands for. The longest runs take up to four minutes with
two workers; the proofs take a few minutes together.
