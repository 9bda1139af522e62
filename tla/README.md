# Dewaju Mart: a TLA+ verification project

Dewaju Mart is a marketplace back end written as NestJS micro-services that
share one Kafka broker. This directory holds TLA+ models of the services whose
behaviour is hard to test (several handlers running concurrently, messages that
are lost or delivered twice, processes that die between two awaits), the TLC
configurations that check them on small instances, and TLAPS proofs of the
properties that matter most for instances of any size.

Run everything from this directory:

    tlc -config order_lifecycle.cfg MCOrderService.tla
    tlapm OrderServiceProofs.tla

## 1. The system

### Components

| Component | State it keeps | Operations | Talks to |
|---|---|---|---|
| **order-service** (`apps/order-service`) | tables `order`, `order_item` | createOrder, cancelMyOrder, handlePaymentConfirmed, handleFailedPayment, deleteOrder (all HTTP) | GETs products from product-service; emits `order.created` |
| **payment-service** (`apps/payment-service`) | table `payment`, BullMQ queue `verify-payment`, an in-memory cache | consumer of `order.created`, Paystack webhook, verification worker | Paystack; emits `payment.initiated`, `payment.confirmed`, `payment.failed` |
| **auth-service** (`apps/auth-service`) | table `user` (password, refresh token hash, tokenVersion, isVerified), OTPs in the cache | register, verify, login, refresh, logout, password reset and change, profile and avatar updates | emits the user and OTP topics; RPC to media-service |
| **product-service** (`apps/product-service`) | tables `product`, `category` | create, update, delete products and categories | RPC to media-service; emits `media_delete` |
| **media-service** (`apps/media-service`) | images at Cloudinary | upload one, upload several, delete | Cloudinary |
| **notification-service** (`apps/notification-service`) | WebSocket rooms, offsets of its consumer group | one e-mail per topic, and a push for three of them; WebSocket connections | consumes the topics above; the mail server |
| **gateway** (`apps/gateway`) | none (the throttler it runs into counts in auth-service) | one route per operation: checks input and header, forwards, turns errors into answers | HTTP to auth-, product- and order-service |
| **libs** (`libs`) | none | Kafka and database wiring, decorators, the response envelope | |

Every service is a single Node process: within one turn of the event loop
nothing interferes, and every `await` is a point where another handler, another
service or a crash may come in between. Services share no tables. They interact
through the Kafka topics (`kafkaClient.emit`, never awaited), synchronous HTTP
(order-service to product-service, the gateway to three services) and two
request/reply topics to media-service.

### What is hard, and what makes each component correct

- **order-service.** `createOrder` fetches all lines concurrently and adds up a
  shared total; the rows are written in one transaction and announced after it.
  The other handlers read a row, decide with the transition table and call
  TypeORM's `save`, which selects again and then updates or *inserts*. Correct
  means: a stored total is the sum of the stored items; a status only moves
  along the table; what a caller was told stays true; every committed order is
  announced, and nothing else is.
- **payment-service.** Kafka delivers `order.created` at least once; Paystack
  repeats its webhook; BullMQ retries a job after an error and once after its
  worker died; the processed marker lives in memory and expires. Correct means:
  every charge has its payment row; a charge is eventually announced; a success is
  never on record without a charge, and a failure only because the charge was given
  back. The webhook does not wait for its signature check, so a delivery that is not
  Paystack's may have the worker ask too early; what then still holds is part of the
  properties.
- **auth-service.** Handlers read a user, wait for bcrypt, JWT signing or an
  upload, and write back, sometimes the whole row. Correct means: a logout ends the
  session and the access tokens of before it, an OTP is used once, the image of an
  account is not removed before there is another. A whole-row save of an earlier
  read undoes some of this; the properties say which save, what it undoes and that
  nothing else does.
- **product-service and media-service.** Check-then-insert around an RPC of up
  to 30 seconds that may time out while the upload still succeeds. Correct
  means: no product whose images were deleted, an answer that holds whenever a late
  reply comes, and no deleted product that returns. An update that overlaps a
  deletion does put the product back; the properties say that nothing else can.
- **notification-service.** At-least-once delivery into two side effects, of which
  one may be refused or slow, and is awaited by five of the nine handlers only.
  Correct means: a message whose offset is committed has had its effects, a
  refused e-mail that is awaited costs neither the push nor the messages behind it,
  and an older e-mail does not overtake a newer one. A refused e-mail that is not
  awaited ends the process.
- **gateway.** Its routes and those of the services are written in separate tables,
  both order-sensitive, and each of its 35 functions has a catch block of its own.
  Correct means: a request runs the handler its route is for and no other, and the
  answer says success only if the handler succeeded.

The complete list, with the line each hazard bites at and the property that
watches it, is `hazards` in `PROJECT.json`.

## 2. Plan

| Order | Module | Subject | State |
|---|---|---|---|
| 1 | `OrderStatus`, `OrderService` | the order service | modelled, checked, safety proved |
| 2 | `PaymentService` | the payment service with Paystack, Kafka, BullMQ and the cache | modelled, checked, safety proved |
| 3 | `PaymentLedger` | what the payment service promises about money; refinement by `INSTANCE ... WITH` | checked, refinement proved |
| 4 | `Checkout` | both services composed over the topic `order.created` | modelled, checked, safety and refinement proved |
| 5 | `AuthSession` | login, refresh, logout, password reset and change, whole-row saves, avatar | modelled, checked, safety proved |
| 6 | `Catalogue` | products and categories with the media service: uploads, clean-up, time-outs | modelled, checked, safety proved |
| 7 | `AuthAccount` | registration, Google accounts, the OTP flows with their cache keys, expiry and resend limit | modelled, checked, safety proved |
| 8 | `Notification` | the Kafka consumer, e-mails and WebSocket rooms of the notification service, with redelivery | modelled, checked, safety proved |
| 9 | `GatewayRoutes`, `Gateway` | the routes of the gateway and of the services behind it, and the way of a request through both | modelled, checked, safety proved |

Proofs follow their module in a module of their own (`...Proofs`): types first,
then each safety invariant with its strengthening. Every invariant and every
action property a run checks is proved, and so is every refinement; what is left to
TLC is liveness.

## 3. The modules

### `OrderStatus` and `OrderService`

`OrderStatus` is `state.machine.ts`: the enum, the table `ValidTransitions` and
the lookup `CanTransition`.

`OrderService` keeps `orderTable` and `itemTable` (the Postgres tables, as
committed), `create` (the `createOrder` in progress for each id), `request` (the
other handlers in progress), `orderCreated` (the topic), `catalog` (what a GET to
the product service would return) and two history variables, `placed` (ids whose
transaction has committed) and `deleted` (ids whose deletion was reported).

| Code | Actions |
|---|---|
| `createOrder` up to `Promise.all` | `BeginCreateOrder` |
| one answer of `getSingleProduct` | `FetchLine` (in stock), `RejectLine` (missing or short) |
| error paths | `Rollback`, reached by `RejectLine`, `RejectTotal` (the total does not fit `decimal(10,2)`) and `FailCreateOrder` (a call fails) |
| saves and `commitTransaction` | `CommitOrder` |
| `emit(ORDER_CREATED)` | `EmitOrderCreated`, which may lose the message |
| `cancelMyOrder`, `handlePaymentConfirmed`, `handleFailedPayment` up to `save` | `CancelMyOrder`, `HandlePaymentConfirmed`, `HandleFailedPayment`, all through `ChangeStatus` |
| `repository.save(entity)` | `Reload`, then `Update` or `Insert` |
| `deleteOrder` | `BeginDelete`, `DeleteOrder` (with the items: `ON DELETE CASCADE`) |
| a process crash | `Crash`: handlers are gone, committed rows stay |
| another service | `SellerEdits`: a product changes or disappears between two fetches |

Rows written inside the transaction are invisible until the commit, so the two
saves and the commit are one action. Amounts are integers in the minor unit; the
code rounds to two decimals after each addition, which on such amounts is exact.
Names, e-mail addresses and time stamps are left out: no property tells them
apart.

### `PaymentService`

`orderCreated` and `consumed` are the topic and the committed offset; `consumer`
is the `handleOrderCreated` in progress; `payments` is the table by its unique
reference; `paystack` is the provider's view; `jobs` and `worker` are BullMQ;
`cache` is the in-memory cache; `initiated`, `confirmed` and `failed` are the
outgoing topics.

| Code | Actions |
|---|---|
| `onOrderCreated` and the new reference | `ReceiveOrder` |
| `initializeTransaction` | `InitializeTransaction`, `InitializeFails` (with or without an effect at Paystack) |
| the transaction with `save` | `SavePayment`, `SaveFails` |
| cache entry and `PAYMENT_INITIATED` | `AnnouncePayment` |
| the handler returns | `CommitOffset` |
| the `catch` block | `RejectOrder`: `PAYMENT_FAILED`, then a throw, so the offset stays |
| `handleWebhook` for an event of Paystack's | `HandleWebhook`: one more job per delivery |
| `handleWebhook` for a delivery whose signature does not match | `HandleStrayWebhook`: the same job, and the process ends |
| `verifyAndConfirmPayment` | `StartJob` (marker), `FindPayment`, `VerifyTransaction`, `UpdatePayment`, `EmitOutcome`, `MarkProcessed` |
| an error leaves the worker | `FailAttempt`: three attempts, then the job is given up |
| cache ttl, process crash | `Expire`, `Crash` with BullMQ's stalled-job rule in `Stalled` |
| Paystack and its users | `Pay`, `Reverse` (external) |

A payment row copies its order, buyer and amount out of the message, so the
model keeps the message as the row's `order`. `verifySignature` is `async` and
`handleWebhook` does not await it (`payment-service.service.ts:132`): what it tests is
a promise, which is true, so a delivery of `Strays` queues its job for a reference
that may not have been charged, and the rejected promise ends the process (Node 18 or
later, `README.md:188`). `early` is a history in the job: Paystack had no charge of
this reference when the job was queued. BullMQ's back-off is a delay, which an untimed model has
anyway. The cache entry `payment:ref` is written and never read; `cache` is the set
of references with a `payment:processed` marker. The topic is taken to have a
committed offset: a consumer group that starts for the first time reads from the
end (`Notification` has that case).

### `PaymentLedger`

The abstract specification of the payment service: what is known of each reference,
and no process, queue, cache or crash. A payment is opened for an order that was
announced and charged only through its link; `SUCCESS` is said only of a charge,
`FAILED` only of a reversed one and then finally. The one exception is a reference
the provider was asked about before it was charged: of it a `FAILED` may be said that
is none, and taken back. `PaymentService!Ledger`
instantiates it with the refinement mapping

| Ledger | Payment service |
|---|---|
| `ordered` | the topic `orderCreated` |
| `link` | the order whose link has been sent (`LinkOf`: references in `initiated`) |
| `charge` | Paystack's state of the transaction, "open" until it is charged (`ChargeOf`) |
| `verdict` | the status of the payment's row, PENDING without one (`VerdictOnRecord`) |
| `early` | the references with a job that was queued before their charge (`AskedEarly`) |

Everything else the service does, crashes and repeated jobs included, is a
stuttering step of the ledger.

### `Checkout`

The composition: `OrderService` extended by an instance of `PaymentService` whose
orders are the messages `createOrder` emits. The two share the topic
`orderCreated` and nothing else, as in the code; each crashes on its own. A step
of the system is a step of one of them. Nothing on the order service's side
reads `confirmed` or `failed`, because no handler there has an `@EventPattern`.

### `AuthSession`

One verified local account and any number of requests on it. `row` is its row in
the table `user`; `request` has the handler of each request with the entity it
holds and the set of columns it may still write; `tokens` are the versions of the
access tokens handed out; `mediaDelete` is the topic; `replaced` is a history of
the password hashes an answered request has replaced; `faults` counts failed
statements and crashes.

| Code | Actions |
|---|---|
| `loginUser`, `refreshToken` up to `updateUserRefreshToken` | `LoginUser`, `RefreshToken`, both through `IssueTokens` |
| `JwtStrategy.validate` before the guarded routes | `Validate` |
| `logout`, `logoutAll`: the increment | `Logout`; the second statement is a `Write` |
| `changePassword`, `resetPassword` (its OTP has matched) | `ChangePassword`, `ResetPassword`, both through `SetPassword` |
| `updateUserProfile` up to `save` | `UpdateUserProfile` |
| `uploadUserImage` up to the RPC, its reply, `MEDIA_DELETE` | `UploadUserImage`, `UploadSucceeds`, `UploadFails` |
| `repository.save(user)`: the second SELECT | `Reload`, which keeps of the columns those that differ |
| the UPDATE and the answer | `Write` |
| a statement fails, the process dies | `StatementFails`, `Crash` |

A hash, a refresh token and an image are named by the call that made them, so a
stale copy can be told from a fresh one. Two details of the libraries decide what
is true. `imagePublicId` is declared `select: false`: a profile save never writes
it, an upload's save always does. bcrypt compares 72 bytes, and the header and
the user id of a JWT fill these, so every refresh token of an account matches any
stored hash: what `refreshToken` really checks is that a hash is stored at all,
and the "mismatch" branch has no action. `sendVerificationOtp` and
`verifyUserEmail` have no route. Expiry of tokens only removes behaviours.

### `Catalogue`

The product service with the part of the media service it uses. `productTable`
and `categoryTable` are its tables; `request` has the handler of each request
with the entity it is about to save and the columns a save will write; `upload`
is the media service's work on the files of a request, which goes on when the
handler is gone; `assets` are the images at Cloudinary; `mediaDelete` is the topic;
`faults` counts failed statements and crashes. A product or category has the name
of the request that creates it, and an image that of its request and file; one
product, `Original`, is there from the start.

| Code | Actions |
|---|---|
| `createProduct`, `updateProduct`, `createProductCategory` up to the RPC, or to the save of an update without files | `CreateProduct`, `UpdateProduct`, `CreateProductCategory` |
| `deleteProduct` up to `remove` | `DeleteProduct`, which may lose `MEDIA_DELETE` |
| `uploadMultiple`, `uploadSingle`, one file each | `StoreFile`, `FileFails` |
| `deleteMedia` | `DeleteMedia` |
| the reply, the failure reply, `timeout(30000)` | `UploadSucceeds`, `UploadFails`, `UploadTimesOut` |
| `repository.save(product)` of an update | `Reload`, then `UpdateRow` or `InsertProduct` |
| `repository.save` of a new entity | `InsertProduct`, `InsertCategory` |
| `repository.remove(product)` | `RemoveProduct` |
| the answer to a statement, which may be lost | `Replies` |
| a statement fails, the process dies | `StatementFails`, `Crash` |

A statement that is carried out may lose its answer with the connection: the row is
stored or removed, and the handler ends in an error (step `lost`).

The columns `imageUrls` and `imagePublicIds` are one field: the code assigns them
together, and TypeORM compares arrays by identity, so a save writes both. Price,
stock, category and description behave like the name and are left out, as is the
slug, a function of the name. A duplicate is looked for under the trimmed name,
and only by `createProduct`: names are model values, and an update may take a name
the seller already uses. The branch for more than four images cannot be reached
through the controller, whose interceptor stops at four. `deletedAt` is never
set. An untimed model lets the 30 seconds pass at any moment, and a media service
that dies is a reply that does not come in time.

### `AuthAccount`

One e-mail address and any number of requests for it: every cache key and every
query of these handlers contains the address, so addresses do not interact.
`user` is its row, with what the flows look at (provider and password);
`registration`, `resetOtp` and `attempts` are the cache keys `user-reg`,
`forget-password` and `resend-limit`; `request` has the handler of each request
with the OTP it was called with and the registration it read; `mailed` and
`created` are the topics; `resent` is a history of the OTPs sent again since the
limit was last forgotten; `faults` counts failed statements and crashes.

| Code | Actions |
|---|---|
| `registerUser` | `RegisterUser` up to the SELECT, then `StoreRegistration` with `REGISTER_USER_OTP` |
| `verifyOtpRegisterUser` | `VerifyOtp` (reads the cache), `CheckRegistration` (the SELECT and all checks), `InsertLocal`, `AnnounceLocal` (cache entry and `USER_CREATED`), `StoreToken` |
| `validateGoogleUser` | `ValidateGoogleUser`, `InsertGoogle`, `AnnounceGoogle`, `StoreToken` |
| `forgotPasswordToken` | `ForgotPassword`, `StoreReset` |
| `resetPassword` | `ResetPassword` (cache and comparison), `CheckReset`, `UpdatePassword`, `DeleteResetOtp` |
| `resendOtp` | `ResendRegistrationOtp`, `SelectVerified`, `RenewRegistrationOtp`; `ResendResetOtp`, which waits for no query |
| the ttl of a cache key | `ExpireOtp`, `ExpireAttempts` |
| a statement fails, the process dies | `StatementFails`, `Crash` |

The cache is in memory although the module configures Redis
(`auth-service.module.ts:33-43`): `@nestjs/cache-manager` 3 with `cache-manager` 7
(`package.json:31` and `:54`) reads `stores`, not `store`, and falls back to a map.
A cache call then settles before the event loop turns to another request, so a
handler is interrupted only where it waits for Postgres or bcrypt, and a crash
empties the cache. Both matter: with a cache behind a socket, two resends could
read the counter before either writes it, and `ResendsAreLimited` would be false.
An OTP is named by the request it was drawn for, which takes two draws of six
digits to differ. An OTP expires at any moment after it was drawn; the counter
only while no resend is in progress, since no handler runs for ten minutes. The
tokens handed out at the end are the subject of `AuthSession`. The image update
of a known Google user is a statement that may fail and is otherwise left out.

### `Notification`

`log` has the messages of each topic (one partition each), `committed` and
`position` are the offsets of the consumer group and of the consumer, `batch` is
the topic being worked on and `handling` says whether its next message waits for
the mail server; `mails` are the e-mails handed to the transport, `sockets` the
connections. `answered`, `latest`, `pushed`, `unseen`, `skipped` and `killed` (an
unhandled rejection has ended the process) are histories.

| Code | Actions |
|---|---|
| another service's `emit` | `Publish` |
| an `@EventPattern` handler up to `sendMail` or, where that is not awaited, to its end | `Handle` |
| the e-mail is accepted: the handler goes on to `sendToUser` and returns | `MailAccepted` |
| the e-mail is refused: caught, or an unhandled rejection that ends the process (`Kill`) | `MailRefused` |
| kafkajs commits after a batch | `Commit` |
| the process dies; it starts again; the group is rebalanced | `Crash`, `Restart`, `Rebalance` |
| `handleConnection`, up to and after `verifyAsync`; a client leaves | `Connect`, `FinishConnection`, `Disconnect` |

There are three kinds of providers. Five await the e-mail inside a `try` block
(`AwaitedTopics`); three call `sendMail` without `await`, so that their `try` block
catches nothing, and a refusal is a rejection nobody handles (`UncaughtTopics`), which
ends the process, most often before the offset is committed, so that the e-mail is
sent and perhaps refused again after the restart, any number of times;
`sendPaymentFailedEmail` starts a provider that catches its own errors and pushes
without waiting. kafkajs works on one batch of one partition at a time and commits
when the batch is done. The group does not read from the beginning: a topic
without a committed offset (`Fresh`) is read from its end at a start.

### `GatewayRoutes` and `Gateway`

`GatewayRoutes` has the route tables of the gateway's three controllers and of the
three services' controllers as they are declared, with what each route does about
a missing header, a body or a parameter, the guards of the services, Express's
rule for choosing a route, and the answer each catch block makes of an error with
and without a response. `Gateway` takes requests through them. `request` has each
request with the step it has reached, `alive` the services, `hits` the throttler's
counters; `ran` and `done` are histories: the handlers run for a request, and
whether one succeeded.

| Code | Actions |
|---|---|
| a client's request | `Receive` |
| no route; `ParseUUIDPipe`, `ValidationPipe`, `ParseFilePipe`; a missing header | `NotFound`, `RejectInput`, `RejectToken` |
| `health` and the two Google redirects | `AnswerLocally` |
| `httpService.get`, `post`, `patch`, `delete` | `Forward` |
| `ThrottlerGuard`; `JwtAuthGuard` and `RolesGuard`; the service's pipes | `Throttle`, `RefuseCaller`, `RefuseInput` |
| the service's handler and its reply | `RunHandler`, `EndHandler` |
| `return result.data`, and the catch block after a reply | `PassOn` |
| the catch block after an error without a reply | `GiveUp` |
| a service dies, and is started again | `Crash`, `Restart` |
| the other clients of the throttler, and its window | `OtherClient`, `WindowEnds` |

What a handler does is the subject of the other modules: here it succeeds or
refuses. The status 200 stands for every success, and a body fits its DTO or does
not. A function without a route (`failedPayment`, `deleteSingleProduct`,
`googleUserRegister`) is never called and has no entry, and `GatewayController`,
which keeps to itself, and the envelope of `ResponseInterceptor` are left out.

### Model-checking modules

`MCOrderService`, `MCPaymentService`, `MCCheckout`, `MCAuthSession`, `MCAuthAccount`,
`MCCatalogue`, `MCNotification` and `MCGateway` define the
carts, the symmetry sets and what else a `.cfg` cannot write; everything else is
in the `.cfg` files. No `.cfg` replaces a definition of a model.
`CHECK_DEADLOCK FALSE` is set but for the notification service and the gateway,
where something can always happen: when all ids, slots, references and
faults are used up, nothing is left to do, which is not a fault of the system.
That nobody is left waiting is stated as a property instead (`RequestsAnswered`,
`PlacedOrderGetsLink`, `ChargeIsAnnounced`).

Operators whose comment starts with "Mutation:" are plausible bugs (a dropped
guard, a swapped order, a missing effect). Nothing uses them; each can be put
in place of the definition that follows it, and the property named beside it in
`PROJECT.json` must then fail.

## 4. What TLC checks

| Run | Bounds | Shows |
|---|---|---|
| `order_lifecycle` | 1 order, 2 users, 2 concurrent handlers beside its `createOrder`, stock and totals on both sides of their limits, a crash, lost emits, fair scheduling | `StatusFollowsTable`, `CancelReplyHolds`, `RevivedOrderIsCancelled`, `FulfilmentUnreachable`, `RequestsAnswered` and the inductive invariant `IInv` of the proofs |
| `payment_service` | 1 order, 2 references, per reference a delivery of Paystack's and one whose signature does not match, 2 failed calls, a crash or such a delivery, fair scheduling | `ChargedHasRecord`, `ConsumedHasPayment`, `MarkedIsSettled`, `OutcomeHasCause`, `ChargeIsAnnounced` and the refinement `ImplementsLedger` |
| `checkout_charge` | 1 order out of a cart with two products or one product on two lines, at changing prices, a concurrent cancel, confirmation or deletion, a crash of the order service, a failed call, lost emits | `TotalMatchesItems`, `AnnouncedOrderIsCommitted`, `ChargeMatchesItems` |
| `checkout_link` | 1 order, 3 references, a failed call, a crash of the payment service, a webhook delivery, fair scheduling | `PlacedOrderGetsLink` |
| `catalogue` | a stored product and 2 concurrent requests of any kind, 2 sellers, 2 names, up to 2 files each, a failed statement, a lost answer or a crash, fair scheduling | `ShownImagesExist`, `CreateReplyHolds`, `OnlyEarlierSavesRevive`, `RequestsAnswered` and the inductive invariant `IInv`, with `CategoryNamesAreUnique` in it |
| `auth_session` | 3 concurrent requests of any kind, 2 passwords, a failed statement or a crash, fair scheduling | `LogoutIsFinal`, `OnlyLoginOpensSession`, `AvatarIsKept`, `RequestsAnswered` and the inductive invariant `IInv` |
| `auth_account` | an address that is new, has a local or has a Google account; 3 concurrent requests of any kind, OTPs and counters that expire, lost e-mails, 1 resend allowed, a failed statement or a crash, fair scheduling | `OneAccount`, `ResetsAreLocal`, `SpentOtpIsGone`, `ResendsAreLimited`, `RequestsAnswered` and the inductive invariant `IInv` |
| `notification` | 4 topics, one of each kind of handler and one without an offset, 3 messages, 1 user with a connection, any number of refused e-mails, a crash or rebalance, fair scheduling | `CommittedIsHandled`, `NewestMailIsLast`, `ConnectedUserIsPushed`, `EventsAreConsumed` |
| `gateway` | 1 request, which may be any of any client to any of the services, 2 calls allowed per window, a crash, fair scheduling | `AnswerTellsOutcome`, `OnlyItsHandlerRuns`, `GoodRequestIsServed`, `EveryRequestIsAnswered` |

The inductive invariants of `PaymentService`, `Notification` and `Gateway`, with
their type invariants, are proved (section 5) and not part of these runs; TLC finds them
true on the same instances (`RunsInv` of `Gateway` among them).

Why these bounds are enough for what they show. Orders do not interact: no handler
of the order service reads two of them, so one order with every handler on it
shows what the order runs are about. The payments of two orders share the consumer
and the worker, and so do two references of one order, which a redelivery or a failed
call makes: `payment_service` has these. A delivery whose signature does not match
ends the process, so it takes the place of the crash. Two lines are enough for a lost
addend, and the same product on two lines with an edit in between is the smallest
cart with two prices of one product. Two handlers let a deletion, a cancel or a
failed payment fall into the gap between the two SELECTs, or the SELECT and the
statement, of one save; three, in `auth_session`, let a stale save and an upload
overlap a third request that both of them miss. In `catalogue` two requests
are enough for an update that overlaps a deletion, two updates of one product and two
creations of one name, and two files for an upload that fails in part. In
`auth_account` three requests are a registration, its verification and whatever
comes in between (a second verification, a Google sign-in, a resend); the resend
limit is 1 instead of 3 so that two resends already meet it. In `notification`
three messages are two of one topic, so that one may overtake or be redelivered
behind the other, and one of another topic; refusals are not bounded. In `gateway` requests share only the throttler's counters,
and `OtherClient` stands for all the others there; the limit is 2 instead of 5.
That more of them change nothing
is what the proofs say. `MaxAmount`, `Stocks` and `Prices` lie so that an order can be
in stock or not and can fit the column or not. In the payment runs each failed
call or crash consumes a reference, an attempt or a stall; the bounds stop one
short of where the code gives up (three attempts, one stall) because there the
liveness properties are really false: the code keeps no record it would ever look
at again.

`FulfilmentUnreachable` is a property of the code that its authors may not
expect. New orders are PENDING, no handler ever asks for AWAITING_PAYMENT, and
the table refuses PENDING to PAYMENT_CONFIRMED: `handlePaymentConfirmed` always
answers with an error.

### Fairness

`order_lifecycle`: weak fairness of the steps of a handler that has started. The
event loop runs every continuation whose promise has settled, and the database
and the product service answer. Nothing is assumed of arrivals, of sellers, of
failures or of crashes.

`payment_service`: weak fairness of the consumer (kafkajs polls on after an error or a
restart), of the worker (BullMQ does the same) and, per reference, of Paystack's first
webhook delivery (it repeats an event until it is answered). Nothing is assumed of
orders, payments, reversals, other deliveries, failures, expiry and crashes.

`checkout_link`: both of the above. Nothing more is assumed. The run excludes a crash
of the order
service and a lost emit between `commitTransaction` and `emit(ORDER_CREATED)`
(`order-service.service.ts:108-117`): there is no outbox, so such an order is
never announced and never gets a link.

`auth_session`: weak fairness of the steps of a handler, as above, and of the
replies of the media service, success or failure. Without the second assumption
an upload may wait forever: the RPC has no time-out. Nothing is assumed of
arrivals and faults.

`auth_account`: weak fairness of the steps of a handler. Nothing is assumed of
arrivals, expiry, e-mails and faults.

`catalogue`: weak fairness of the steps of a handler, the timer of its upload among
them. Nothing is assumed of the media service, which may never answer.

`notification`: weak fairness of the consumer (kafkajs polls on), of the mail
transport (it delivers or times out) and of the restart of a dead process.
Nothing is assumed of messages, refusals, crashes and clients. `EventsAreConsumed`
has a premise of its own: from some time on no e-mail whose promise nobody looks at is
refused. Without it the code has the behaviour in which a message of one of the three
topics ends the process each time it is delivered, before its offset is committed,
and TLC finds it. Refusals of all other e-mails may go on for ever.

`gateway`: weak fairness of the steps of a request in the gateway and in its
service. `HttpModule` has no timeout, so the gateway waits for as long as a handler
takes, and handlers come to an end as shown in the other runs. A service that died
need not come back: the call is refused then, and the request answered.

### Disagreements with the documentation

Each of these runs is expected to end in a counterexample.

| Run | The repository says | TLC shows |
|---|---|---|
| `payment_charged_twice` | "duplicate event protection" (`README.md:340`) | a redelivered `order.created` makes a second reference, and both can be charged |
| `auth_password_restored` | "Password changed successfully" (`auth-service.service.ts:365`) | a profile save that read the user before the change writes the old password back |
| `catalogue_duplicate` | "Duplicate product creation blocked via DB constraint" (`product-service.service.ts:222`) | two creations of one name both pass the check and both are stored: the table has no such constraint |

More need no run of their own. First those in which a property states what still holds
where the code does not do what it says.

- `README.md:106` and `:331` have webhooks verified by HMAC-SHA512.
  `payment-service.service.ts:132` calls the `async verifySignature` without `await`
  and refuses nothing: a delivery that does not match queues a job and ends the
  process. The worker believes Paystack only, so it never makes a SUCCESS of it, but
  it stores and announces FAILED of a payment that is merely open, and marks it;
  the job of the charge that follows meets the marker and is skipped, and the
  charge is not announced. `OutcomeHasCause`, `ChargeIsAnnounced` and the ledger state this
  as their one exception (`AskedEarly`).
- `README.md:86` has token versions end a session. `updateUserProfile` and
  `uploadUserImage` save the whole user they have read, so one that began before a
  logout brings the old version, and with it the old access tokens, back after it
  (`LogoutIsFinal` names it). `product-service/jwt.strategies.ts:17-23`
  and `order-service/src/jwt.strategies.ts` do not look at the version at all: to these
  services a token is good until it expires, and a logout changes nothing there.
- `uploadUserImage` deletes the old image (`auth-service.service.ts:722-726`), and a profile
  save that had read the user before writes its url back: the account shows an image
  that is gone, until the next upload. `AvatarIsKept` names this case, and a fault
  between the deletion and the save.
- `deleteProduct` answers that the product was deleted, and an `updateProduct` that had
  read it before puts it back by the INSERT of `save`, for good and with images that were
  given up. `OnlyEarlierSavesRevive` says that this is the only way.
- `createProduct` and `createProductCategory` answer with an error if the connection is
  lost after their INSERT was carried out, and the row is stored: `CreateReplyHolds` excepts
  this error.
- An e-mail that `reset-password-provider.ts:11`, `verify-email-otp.ts:11` or
  `user-registered-email-provider.ts:11` does not await ends the process when it is
  refused, and again whenever it is delivered again and refused: the premise of
  `EventsAreConsumed`.

The others:

- `README.md:151-152` says that the order service receives PAYMENT_CONFIRMED and
  changes the order's status. Nothing there consumes the topic, and
  `FulfilmentUnreachable`, proved, says that no order is ever confirmed.
- `deleteOrder` answers "this order: ... has been deleted"
  (`order-service.service.ts:249`), yet a cancel that read the order before the
  deletion saves it afterwards and `save` inserts it again: `RevivedOrderIsCancelled`
  says what the order that is back looks like.
- `README.md:94` and `:301` call the deletion of a product soft; `remove` deletes the
  row. The comments at `product-service.service.ts:314` and
  `media-service.controller.ts:43` speak of cleaning up replaced images;
  `updateProduct` emits no `media_delete`.
- `README.md:134-136` has the notification service push for every payment event;
  `sendPaymentInitiatedEmail` pushes nothing (`PushTopics`).
- The `try` blocks of `reset-password-provider.ts:10`, `verify-email-otp.ts:10` and
  `user-registered-email-provider.ts:10` are there to catch a refused e-mail; without
  `await` they catch nothing, and the process dies (`MailRefused`).
- `POST category` of the product service carries `@Roles(ADMIN)` without `RolesGuard`
  (`product-service.controller.ts:49-50`): any user with a token may create a category, and
  `AdmitsCaller` admits him.
- `README.md:51` gives the gateway JWT authentication and rate limiting; it has
  neither guard nor throttler. The throttler of auth-service sees the gateway's
  address for every client (`OtherClient`).
- `updateProduct` of the gateway throws `HttpException(message, error.status)`
  (`product-service.ts:248-253`), and an error without a response has no status:
  Nest then keeps the route's 200. `AnswerTellsOutcome` states the exception. The
  catch blocks of the order routes answer 400 whatever went wrong, an unreachable
  service included (`ToBadRequest`).
- A missing header is answered with 500 where `swagger.decorator.ts:12-17` documents
  401: `token.startsWith` of undefined (`RejectToken`).
- Two routes serve nobody (`Unserved`). `GET order/all-orders` reaches
  `getSingleOrder`, whose pipe refuses the id, and the handler for it is declared
  behind one with the same path (`order-service.controller.ts:28-38`).
  `forgot-password` posts the address instead of an object with it
  (`auth.service.ts:92`), which the service's pipe refuses.

## 5. What is proved

The proofs are for every value of the constants: any number of orders, users,
products, handlers, references, deliveries, requests on an account, on the
catalogue or to the gateway, files, messages, connections, refused e-mails, failed
calls and crashes, and carts of any length. They use
only the assumptions named in the models: the bounds are naturals, carts are
non-empty sequences of lines, and the value `None` is none of the records it
stands in for.

`OrderServiceProofs`

| Theorem | Statement |
|---|---|
| `TypeCorrect` | `[]TypeOK` |
| `FreshIds` | an id is stored, requested or deleted only after its `createOrder` committed |
| `OnlyCancellationsAreSaved` | `[]StatusInv`: every entity held by a handler is CANCELLED, every row PENDING or CANCELLED, every cancel reply true |
| `ConfirmationUnreachable`, `CancellationIsFinal` | `[]FulfilmentUnreachable`, `[]CancelReplyHolds` |
| `StatusChangesFollowTable` | the action property `StatusFollowsTable` |
| `DeletionInvariant`, `RevivedOrdersAreCancelled` | `[]RevivedOrderIsCancelled` and its strengthening |
| `AnnouncementsAreTrue` | `[]AnnouncedOrderIsCommitted` |
| `TotalsInvariant`, `TotalsMatchItems` | `[]TotalMatchesItems` and its strengthening |
| `ServiceInvariant` | `[]IInv`: all of the above together, as `order_lifecycle` checks it |

None of the properties is inductive by itself. That a stored status follows the
table, although the check was made against an older read, needs to know what
the handlers may hold: `EntitiesAreCancelled`. That in turn needs
`FulfilmentUnreachable` (a refused confirmation holds nothing), which needs to
know what the handlers write; so the three are proved together as `StatusInv`.
That a revived order has no items needs `IdsAreFresh`: no second `createOrder`
commits items under a used id. Truth of announcements needs that every
copy of a row (in a handler, in an emit in progress) agrees on buyer and total:
`AnnouncementsAgree`, carried over a step by the lemma `AgreementIsStable`.

`TotalMatchesItems` is about rows; what makes them right happens before, in
`createOrder`, where the answers to the fetches are added up as they come. The
strengthening `TotalsInv` says that at every moment the running total is the sum of
the lines fetched so far, each of which is no longer waited for (`RunningTotal`),
and that only committed orders have items, so the commit of one order adds none to
another. A step that fetches a line needs
`TotalOfOneMore`: the sum of a set with one more line is the old sum and the line.
`Total` is a fold that picks the lines in an order nobody knows, so this is a
theorem and no definition. Its proof is an induction over finite sets, done without
an induction rule: a smallest set for which the claim fails exists, because strict
inclusion is well-founded on the subsets of a finite set (`SmallestSet`), and it is
shown to have a smaller one. `PartialSumsExist` and `PartialSumsAgree` do that for the
function behind the fold, `TotalUnfolds` brings it to `Total`, and `TotalOfRest` shows
that the order of the additions does not matter.

`PaymentServiceProofs`

| Theorem | Statement |
|---|---|
| `TypeCorrect` | `[](TypeOK /\ WorkInv)` |
| `LinkInvariant` | `[]LinkInv`: a charge has been linked, a linked reference has its row and transaction for the same order, the consumer is where its step says |
| `ChargesAreRecorded` | `[]ChargedHasRecord` |
| `ConsumedIsRecorded` | `[]ConsumedHasPayment` |
| `OutcomesHaveCauses` | `[](OutcomeInv /\ OutcomeHasCause)` |
| `ImplementsTheLedger` | `Spec => ImplementsLedger` |
| `MarksAreSettled` | `[](MarkInv /\ MarkedIsSettled)` |
| `ServiceInvariant` | `[]IInv`: all of the invariants above together |

Types need `WorkInv`: `UpdatePayment` only keeps the table's type when the row it
updates exists, and `FailAttempt` only keeps the attempts in range when a running
job has one left. A charge has a record because the link is the only way to a
charge and the link goes out last: that chain is `LinkInv`. An outcome has its
cause because a job was queued for a charge or is an early one, and the outcome a
worker holds was true when Paystack gave it (`OutcomeInv`); charges are never undone,
a reversal is final (lemma `ChargesStay`), and a job, once queued, remains known as
early. A delivery whose signature does not match is one of the steps of the induction,
any number of them, at any moment.

The refinement needs one more invariant, `LedgerInv`: the consumer holds a
message that has arrived; a worker about to write SUCCESS meets a row that says FAILED
only if Paystack was asked too early, and one about to write FAILED meets a SUCCESS only
if the charge was reversed, because the one worker writes its verdict before the next
job asks Paystack. With it, `AnnouncePayment`, `Pay`, `Reverse` and `UpdatePayment` map
to a ledger step, `OrderArrives` to `Order`, `HandleStrayWebhook` to `AskEarly` if
there is no charge yet, and every other action to a stutter.

That a marker is set for a settled and announced payment only is `MarkInv`: the
worker stores, announces and marks in this order, and a settled payment never goes
back to PENDING (lemma `SettledStays`), whatever later jobs do while the marker
lasts. Where `emit` may lose an event (`EmitMayFail`), only the first half is said.

`CheckoutProofs`

| Theorem | Statement |
|---|---|
| `OrderServiceIsUndisturbed` | `CheckoutSpec => Spec` |
| `ChargesMatchItems` | `CheckoutSpec => []ChargeMatchesItems` |
| `CheckoutKeepsTheLedger` | `CheckoutSpec => Payment!ImplementsLedger` |

The composition is proved from its parts. A step of the payment service leaves the
order service's tables and the topic as they are (`TopicIsReadOnly`), so it is a
stutter of the order service; a step of the order service leaves the payment
service alone and adds to the topic at most one order that was not there
(`TopicGrows`), so it is a stutter of the payment service or its environment's step
`OrderArrives`. Hence each service behaves in the composition as it does alone
(`OrderServiceIsUndisturbed`, `PaymentServiceIsUndisturbed`), and the theorems about each
hold of the whole; those of the payment service are taken over by an instance of
`PaymentServiceProofs`, whose assumptions on its constants `PaymentAssumptions` proves of
the composition's. `ChargesMatchItems` then chains four invariants of the parts: Paystack has
transactions for announced orders only (`TransactionsAreOrdered`), an announcement agrees
with the row as long as the order is stored (`AnnouncementsAgree`), and the row's total
is the sum of its items (`TotalsMatchItems`), on types (`TypeCorrect`). The new
assumptions are that the bounds on the payment service are naturals, and that `None` is
none of its records.

`AuthSessionProofs`

| Theorem | Statement |
|---|---|
| `Invariant` | `[]IInv`: `TypeOK`, `HandlerInv` and `ImageInv` |
| `LogoutStays` | the action property `LogoutIsFinal` |
| `SessionStaysOver` | the action property `OnlyLoginOpensSession` |
| `AvatarStays` | the action property `AvatarIsKept` |

The three are action properties, because each names the step that may undo what it
promises: the UPDATE of a handler that read the user before (`WritesBack`). That
only such a step lowers the version or stores a refresh token follows from
`HandlerInv`: a handler that has not read the row yet, or has been answered, has
nothing left to write, the column updates of a login, a refresh or a password
leave the version alone, and the increment of `Logout` raises it. Hence a version that is past, with no
earlier reader left, stays past (the second half of `LogoutIsFinal`). That
an image is not removed under the account needs `ImageInv`: the image a
request brings is its own and is known to nobody else while the request may still
store it, in either column. Without it a second upload could give up an image that is
only about to be recorded.

`CatalogueProofs`

| Theorem | Statement |
|---|---|
| `Invariant` | `[]IInv`: `TypeOK`, `HandlerInv`, `TableInv`, `CategoryNamesAreUnique` and `ImageInv` |
| `ImagesExist` | `[]ShownImagesExist` |
| `CreateReplies` | `[]CreateReplyHolds` |
| `EarlierSavesRevive` | the action property `OnlyEarlierSavesRevive` |

`ImageInv` follows an image from the upload through the entity into the row: in
each of these places it was made for this product and is stored, and only images of a
product whose deletion has begun are given up. It needs the files of an upload one
by one (what is stored of it so far), and that no image is shared between
products, or the deletion of one could take an image of another. `TableInv` says
that a row comes from a confirmed creation, or, after a deletion, from an update of
a product that existed; so a creation that ended in an error has no row, however late the
reply. A deleted product comes back by an earlier save only: `HandlerInv` keeps an
entity only in handlers in progress, none can read a row that is not there
(`SaversHaveRead`), and an id that was in the table is never created again, so what inserts it
is an update that still holds it, and ends with that (`SavesRevive`). What every step
leaves of the requests is stated once, as `Persist`, and used by each of these proofs.

`AuthAccountProofs`

| Theorem | Statement |
|---|---|
| `Invariant` | `[]IInv`: `TypeOK`, the properties below, `HandlerInv`, `AnnounceInv`, `OtpInv` and `ResendInv` |
| `AccountsAreUnique` | `[]OneAccount` |
| `OnlyLocalResets` | `[]ResetsAreLocal` |
| `SpentOtpsStayGone` | `[]SpentOtpIsGone` |
| `ResendLimitHolds` | `[]ResendsAreLimited` |

Everything rests on an account persisting with its provider (lemma
`AccountPersists`), so what a handler has seen of it stays true (`HandlerInv`). One
account, announced once, needs that whoever inserted it is the only one about to
announce (`AnnounceInv`). A spent OTP stays gone because an OTP in use has been drawn
(`OtpInv`) and a handler draws only one: a reset that deletes somebody else's newer OTP
cannot bring an old one back. The limit holds because the resends sent and those under
way have all been counted (`ResendInv`, with the cardinality of the set of handlers that wait
for their SELECT).

`NotificationProofs`

| Theorem | Statement |
|---|---|
| `Invariant` | `[]IInv`: `TypeOK`, `OffsetInv`, `HandlerInv`, `PassedIsHandled`, `ProcessInv`, `OnlyFreshTopicsSkip` and the two invariants below it needs itself |
| `CommittedHandled` | `[]CommittedIsHandled` |
| `NewestLast` | `[]NewestMailIsLast` |
| `ConnectedPushed` | `[]ConnectedUserIsPushed` |

`CommittedIsHandled` speaks of the committed offset and is not inductive;
`PassedIsHandled` says the same of the position, which a commit copies, a restart
turns back and only a returning handler moves on. `NewestMailIsLast` needs
`HandlerInv`: a handler that waits is the only one with an awaited e-mail, and its
message is the next one of its batch, so e-mails are answered in the order of the
messages, a second time after a redelivery. `ConnectedUserIsPushed` needs that an
unseen message is about the client in its room (`ProcessInv`).

`GatewayProofs`

| Theorem | Statement |
|---|---|
| `Invariant` | `[]IInv`: `TypeOK`, and what a request keeps on its way (`Keeps`) |
| `AnswersTell` | `[]AnswerTellsOutcome` |
| `RunsInvariant` | `[]RunsInv`: what a request has run at each step of its way (`Runs`), and that nothing breaks before the first crash |
| `OnlyHandler` | `[]OnlyItsHandlerRuns` |
| `GoodRequests` | `[]GoodRequestIsServed` |

`AnswerTellsOutcome` is about answers; `Keeps` says what holds before: no handler
has succeeded until a reply says so, a reply says success exactly if it has, and a
broken call has no reply left. That each catch block turns errors into errors is in
two lemmas about the catch blocks (`ErrorIsPassedOn`, `ErrorOfBrokenCall`).

`OnlyItsHandlerRuns` and `GoodRequestIsServed` rest on the tables. `RoutesAgree` says, for
every path whatsoever, that if the gateway takes a request by an entry and the service
by a handler, then the handler's pipes let it through only if it is the handler the
entry is for, and they do let it through if the parameters are in order, but for
`getAllOrders`. It is proved controller by controller from the entries
(`AuthControllerEntries` and five more). The order of declaration is needed where a
parameter could stand for a literal: `GET products/categories` must be taken before
`GET products/:id` on both sides, and `getAllOrders` of the order service is never
reached because `getMyOrders` is declared before it. `Runs` carries this over the steps of a
request: it has been forwarded by an entry of its route, has run nothing until it
reaches the handler, and then exactly that one.

### What stays with TLC

- Liveness under fairness (`RequestsAnswered`, `ChargeIsAnnounced`,
  `PlacedOrderGetsLink`, `EventsAreConsumed`, `EveryRequestIsAnswered`): out of the
  prover's reach.
- That an `ASSUME` on the constants holds of an instance: TLC evaluates each on the
  runs whose module extends the one that states it.
- That the runs meet each branch: the mutants in `PROJECT.json` show that every
  property notices the code it is about being changed.

## 6. What is not modelled

The read-only queries of the services are left out but for their routes, and so is
an upload request that Kafka delivers twice, which only stores images nobody knows.
The libraries are configuration: the topic names, the validation pipe and Kafka's
guarantees are part of the services' models. The rules of the DTOs, logging, the content of e-mails, Swagger decorators, the response
envelope, the deployment files and the generated tests are left out: they
change no state that a property speaks of. Each service is one process with one
verification worker (BullMQ's default concurrency), and each topic one partition:
several instances of a service, and a worker that BullMQ takes for dead while it
still runs, are not modelled. Proofs of liveness are out of the prover's reach
(section 5).
