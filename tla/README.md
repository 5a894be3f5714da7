# TDA Skills: TLA+ models

TDA Skills sells training courses and CITB tests. A Next.js front end
(`frontend/`) talks to a Go server (`backend/`, Gin) that keeps its data in
PostgreSQL and Redis and takes money through Stripe and PayPal. This directory
holds the TLA+ models of the server and of the pages that talk to it, the TLC
configurations that check them and the proofs about them. Paths of Go files below
are relative to `src/backend/internal/`, those of TypeScript files to
`src/frontend/src/`.

The repository has no tests. Its documentation is `TDA_Skills_Architecture.md`;
where code and documentation disagree the models follow the code.

## 1. Inventory

Every HTTP request is a goroutine. Handlers share nothing in memory (but for the
WebSocket hub); what they share is in PostgreSQL, in Redis and at the payment
providers. Nearly every repository method is one SQL statement outside of a
transaction, so that requests interleave between any two statements, and a
request that dies leaves the statements it has run. The request's context is
handed to every statement: a client that hangs up cuts its own request short.

| component | state | operations | hard behaviours | what makes it correct |
|---|---|---|---|---|
| **Payments** `services/payment_service.go`, `repository/payment_repo.go`, `handlers/payments.go` | table `payments`; at the providers: intents, orders, refunds; events on their way | open a Stripe intent, open a PayPal order, capture it, cancel it, webhook (succeeded, failed), refund | provider call and several UPDATEs without a transaction, UPDATE errors dropped, events repeated and reordered, replies lost, requests cut off, cancellation and deletion during a capture | a row never claims what the provider does not know of; money taken is on record and, in the end, confirms the booking; refunds are not overstated but for a penny of rounding |
| **Bookings** `services/booking_service.go`, `repository/booking_repo.go`, `handlers/bookings.go`, `handlers/admin/bookings.go` | tables `bookings`, `booking_items` | create (number, booking, items), set status, cancel, delete with items and payments (one transaction) | MAX + 1 numbering, items inserted one by one without a transaction, status written by payments and by the office | status earned by a payment; what is paid has all its items; the total is the sum of what was stored |
| **Learner sessions** `services/auth_service.go`, `handlers/auth.go`, `repository/user_repo.go`, `middleware/auth.go` | `users` (attempts, lock), `refresh_tokens`, Redis `blacklist:*` | register, log in, refresh, log out, list and revoke sessions, change password | rotation in several statements, logout racing a refresh, attempts read, incremented and written back | a revoked session stays revoked; a refresh token yields one successor |
| **Two-factor, reset and verification tokens** `services/auth_service.go`, `services/crypto_service.go`, `handlers/profile.go` | `two_factor_secrets`, `password_reset_tokens`, `email_verification_tokens` | set up, enable, disable, verify, use a backup code; forgot, reset; verify e-mail | backup code read, removed, written back with the factor disabled in between; token verified and revoked in separate statements; goroutine on a cancelled context | a code or token is used once; an enabled factor stays enabled |
| **Administrator sessions** `handlers/admin/auth.go`, `middleware/admin_auth.go` | `admins`, Redis `blacklist:*` | log in, log out, authenticate | blacklist write fails or races a request | a logged-out token is refused |
| **Rate limiting** `middleware/ratelimit.go` | Redis counters | count a request, allow or refuse | two Redis calls instead of one, process death in between, Redis down | at most `limit` per window; nobody is refused for ever |
| **WebSocket hub** `websocket/hub.go`, `websocket/client.go`, `handlers/websocket.go` | clients and rooms maps, a buffered channel per client, a reader and a writer goroutine per connection | register, unregister, join a room, send to a user or a room, chat | full buffers, second connection of one user, close of a channel known to two maps, goroutines of forgotten connections | no send on and no second close of a closed channel; the maps hold the open connections and no others; messages reach those they are for; goroutines end |
| **Course catalogue and cache** `services/course_service.go`, `repository/course_repo.go`, `app/(admin)/admin/courses`, `nvqs` | `courses`, Redis `courses:*`; the form of each administrator | read through the cache; load, edit, upload, save, create | a form saved by one administrator over the save of another; an upload that writes back an old form; items of a list shared between copies of the form | what an administrator typed and saved is stored |
| **Cart, draft and checkout** `handlers/checkout.go`, `lib/store/cartStore.ts`, `app/checkout/page.tsx`, `components/booking/CheckoutForm.tsx` | the cart of the browser, its draft in Redis, the form | add, remove, clear, each sending the cart; fetch the draft back; create the booking; pay | drafts written out of order or lost; a draft that replaces the cart; price computed twice; items inserted one by one | the cart that comes back is the one that was there; what is paid is whole, at the price shown, and names the right persons |
| **Migrations** `cmd/server/main.go` | schema, `schema_migrations` | apply those not applied | crash between a migration and its record, two servers starting | each is applied once |
| **Cards** `services/card_service.go`, `app/(admin)/admin/cards/page.tsx` | table `cards`; the list and the drawer on the page | list, create, edit, switch, delete, upload a picture | a switch that writes the whole row back from the screen; an upload answered into another form | the screen shows what is stored; a picture ends in its own form |
| **Enquiries and contacts** `services/enquiry.go`, `services/contact.go`, `app/contact/page.tsx`, `components/ui/EnquireModal.tsx`, `components/admin/*Table.tsx` | tables `enquiries`, `contacts`; forms and lists | send a message; list, set status, delete | a timer that outlives its dialog; lost answers; rows changed on the screen alone | nothing typed is lost, nothing is sent twice, the list shows what is stored |
| **Administrator's bookings and payments** `app/(admin)/admin/bookings/page.tsx`, `payments/page.tsx` | rows, filters, drawer, dialog | filter, open, save a status, delete, refund | answers that arrive after the administrator went on clicking | the rows are those of the filters; a form belongs to its booking; nothing is refunded twice |
| **Notifications, settings, uploads, users (admin), audit log** | one table each | single-statement create, read, update, delete | none beyond SQL's own | - |
| **E-mail** `services/email_service.go` | none | send | failure is logged only | - |
| **Sign-in form** `components/auth/AuthForm.tsx`, `lib/validation.ts` | values, touched fields, messages | type, leave a field, submit, switch mode | the message of one field depends on another | the messages are those of the values |
| **Rest of the front end** `frontend/` | browser state | static pages, navigation, dashboard | - | - |

How they interact: *Payments* reads and writes the bookings that *Bookings*
creates and deletes; the office's booking endpoints delete payment rows; the
sessions guard the profile and booking endpoints but not checkout, which guests
may use; rate limiting and authentication are middleware in front of all
handlers, Stripe's webhook among them; notifications are to go through the hub. The
pages share nothing with one another but the server. `PROJECT.json` has the same list
with the files of each part, and under `hazards` every hazard with its line.

## 2. Modules

| module | what it is |
|---|---|
| `PaymentLifecycle` | what the payment records promise, with no request in sight: a status per row, the state of its charge, and the changes a row may make |
| `BookingPayments` | the payment service over `bookings`, `payments`, Stripe and PayPal, one action per SQL statement or provider call |
| `MCBookingPayments` | constants and symmetry for TLC |
| `BookingPayments_proofs` | proofs that the safety properties hold for every value of the constants |
| `BookingPayments_refinement` | proof that `BookingPayments` implements `PaymentLifecycle` |
| `WebSocketHub` | the hub's loop, and the reader and the writer of every connection |
| `MCWebSocketHub` | symmetry for TLC |
| `WebSocketHub_proofs` | proofs that its safety properties hold for every value of the constants |
| `PaymentViews` | what the invoice and the drawers say of a payment, read from the state of `BookingPayments` |
| `PaymentViews_proofs` | proof that they say nothing the provider would deny |
| `Sessions` | refresh tokens and listed sessions of one learner, statement by statement |
| `OneTime` | backup codes of the two-factor secret, and links that reset a password |
| `RateLimits` | the counters and bans of the middleware in Redis, with time |
| `MCServer` | the three together, for TLC |
| `Access_proofs`, `OneTime_proofs` | proofs about them, and about the server as a whole |
| `BookingsDesk`, `PaymentsDesk`, `CardsDesk`, `CourseEditor` | the administrator's pages and the handlers they call |
| `Enquiries` | messages of visitors, from the two forms to the office |
| `Checkout` | the cart, its draft, the booking made of it, and the prices |
| `BookingRecord` | whose booking it is: the form, the columns, and the pages that read them back |
| `VisitorForms` | the form that signs in or up, and its messages |
| `MCScreens` | the eight together, for TLC |
| `VisitorPages_proofs` | proofs about `Checkout`, `VisitorForms`, `BookingRecord` and `Enquiries` |
| `Desks_proofs` | proofs about the administrator's pages, and about the eight together |

`PaymentViews` extends `BookingPayments`, because an invoice is read between any two
statements of a payment. The other parts share no state: nothing in the server
sends through the hub yet, and a page knows of other pages only what the server
answers. So `MCServer` and `MCScreens` let a behaviour be one of a single part.

### BookingPayments

*State.* `booking[b]` is `bookings.status` (migration 007); `payStatus[r]`,
`payNumber[r]`, `payRefunded[r]` are columns of `payments` (migration 008), with
`absent` before the INSERT and `deleted` after the DELETE. Each payment row is
inserted for a charge the provider has just created, so the row is identified by
its charge `r`, and `payBooking[r]` is both `booking_id` and the metadata at the
provider. `charge`, `chargeRefunded` and `events` are the provider's own state;
`issued` says which charge ids a client has been given. `call[h]` is a request
under way: the statement it issues next and the local variables it carries.

*Actions.* A request arrives (`Begin...`, `CancelBooking`, `DeliverEvent`) and
takes its first read or write with it; every later statement is an action named
for it.

| handler | statements |
|---|---|
| `CreatePaymentIntent`, `CreatePayPalOrder` | `BeginIntent` / `BeginOrder`, `CreateStripeIntent` / `CreateProviderOrder` or `ProviderRefuses`, `GetNextPaymentNumber`, `InsertPayment` or `InsertRejected`, `SetPendingPayment` |
| `CapturePayPalOrder` | `BeginCapture`, `CaptureOrder`, `RecordCapture`, `ConfirmBooking`; on an error `CaptureRejected`, `RecordCaptureFailure`, `FailBooking` |
| `CancelPayPalOrder` | `CancelBooking`, `CancelPendingPayments` |
| `Webhook` | `DeliverEvent`, `RecordSucceeded`, `SettleSucceeded`, or `RecordFailed`, `SettleFailed` |
| `ProcessRefund` | `BeginRefund`, `RefundCharge` or `RefundRejected`, `RecordRefund`, `RefundBooking` |
| booking endpoints | `UpdateBookingStatus`, `DeleteBooking` (one transaction) |
| customer, at the provider | `Pay`, `Decline`, `Approve` |

*Faults.* `FaultKinds` and `MaxFaults` say which go wrong and how often: `db`, a
statement fails (where the code drops the error the request goes on, where it
returns it the request ends); `reply`, the provider acted and its answer is lost;
`crash`, the request ends here, because the process died or because the client
hung up and the cancelled context fails whatever is left; `hold`, PayPal does not
complete the capture at once, so that the handler records nothing.

*Abstractions.* All charges are for one `Amount`, in pence. The conversion
`int64(amount * 100)` truncates, and falls a penny short for amounts such as 19.99, whose
product is 1998.99...: `Truncated` is the set of these amounts and `Pence` the conversion. So
Stripe takes and returns `Pence(a)`, while the rows record `a`; PayPal is sent the
amount as text, but nothing returns the money of a PayPal payment. `payment_number` is its sequence part. A
panic in an opening (`payment_service.go:80` dereferences the user id of a guest)
ends the request before any write, as `ProviderRefuses` does. A held capture
counts as taken when PayPal accepts it. A charge that was created but whose row
could not be inserted stays open at the provider and no client learns its id.

### WebSocketHub

*State.* `clients` and `rooms` are the hub's maps; a room without members is no
entry, and the private room `"user:" + UserID` is named by the user. `broadcast`
is the hub's buffered channel and `send[c]` that of connection `c`, with `closed`
for the channels that were closed. `reader[c]` and `writer[c]` say where the two
goroutines of `c` are, `inHand[c]` is the message a reader waits to hand over, and
`up` holds the connections whose socket works. `panicked` is the end of the process.
`dropped` and `met` are history: the connections the hub closed because they were full, and
those that were active, between registration and unregistration, at the same time as another
one of their user (`Register` adds the new one and those it meets).

*Actions.* The three cases of `Hub.Run` are `Register`, `Unregister` and
`DeliverToRoom` / `DeliverToUser`. The unbuffered channels `register` and
`unregister` make the sender wait, so the hub's case and the sender's return are
one action. `Connect` is `HandleConnect` up to that wait, `ReadChat`, `HandOver` and
`ReadFails` are `ReadPump`, `Write`, `WriteClose` and `PingFails` are `WritePump`,
and `PeerLeaves` is a browser that closes or stops answering pings. `JoinRoom`,
`SendToUser` and `SendToRoom` are called from nowhere in the repository; they are
modelled because they are the hub's interface, and `ServerSends` turns the last two
off.

*Atomicity.* A room's delivery is one step. While the hub is in it no map changes
(`JoinRoom` waits for the lock), and a writer that runs in between only makes room
in a buffer, which it could as well have done before the step. A Go `select` with a
`default` on a closed channel panics: `Offer` says so before it looks at the buffer.

*Abstractions.* A message is its room, its user and, as history, the connection that
sent it. A chat message may name any room, known or not; one of an unknown room is
delivered to nobody. Events other than `chat:message` and malformed JSON change
nothing and have no action.

### PaymentViews

Operators only, over the state of `BookingPayments`. `Attached(b)` are the payments that
an answer may carry with booking `b`: the join of `BookingRepository.GetByID` takes the
newest one, and creation times are not modelled, so it may be any. `InvoiceSum` is the
page that `generateInvoicePDF` prints, by its label and its sum; `LinkedPayment` is what the
drawer of a booking shows; `AuditEntries` and `LifecycleStage` are the audit of a
payment. `StatusBacked` is the fact about bookings that the property rests on.

### Sessions, OneTime and RateLimits

*State.* `token[t]` and `session[t]` are the rows of `refresh_tokens` and `user_sessions`
by hash; `request[q]` is a request under way and the token it has read. `factor` is the row of
`two_factor_secrets`, `reset[l]` a row of `password_reset_tokens`, `use[u]` a request that
uses a code or a link, `owner` the request of the settings page. `hits`, `tries`, `ban` and
`cookieBan` are Redis keys with what is left of their lives. Most history variables hold
the overlaps that the code lets through, so that each property can say: but for these, it holds.

*Actions.* `Login` or `ReadToken`, then `RevokeOld`, `InsertToken`, `InsertSession` are the
statements of a login or of a refresh; `Logout` and `RevokeAllSessions` are one UPDATE over all tokens;
`RevokeSession` and `DropSession` are the two of one session. `MatchCode`,
`RewriteFactor`, `AcceptCode` are a backup code: read the codes, write them back with the
factor disabled, enable it again. `VerifyLink`, `SetPassword`, `RevokeLink` are a reset.
`Setup2FA`, `ProveFactor` and `SwitchFactor` are the owner's. `Count` and `Expire` are the two Redis
calls of `RateLimiter`, `PassCookie` / `CookieUnknown` and `RunScript` those of
`AuthRateLimiter`; `ContactRateLimiter` is the same without a cookie. `Tick` ages every key.

*Faults.* A failing statement (whose error is dropped or returned as the code has it), a
request cut off, an `EXPIRE` that is lost, a Redis that does not answer.

*Abstractions.* The expiry of tokens and links only makes them invalid and is left out:
a link that was never used up stays valid for longer in the model than in the code. TOTP
codes are a fact the owner can prove or not. Addresses share no key, cookies are one.

### The administrator's pages

*State.* Each module keeps the rows of the server, the React state of the page, and the requests
under way with the variables of the render that sent them: a handler in React goes on with
the values of its own render when its `await` returns, and this is where such code goes
wrong. `BookingsDesk`: `filters`, `list`, `panel`, `form`, one fetch per element of
`DeskFetches`, one `save`, one `removal`. `PaymentsDesk`: `ledger`, `audit` and `modal` are
copies of payments as they were when fetched; `returned` is what Stripe gave back.
`CardsDesk`: `cards` on the screen, `drawer` with its form, any of `CardRequests` under way.
`CourseEditor`: a page per administrator with its form; `due` is what each saved last.

*Actions.* A click, a request served, and its answer are three actions, so that answers
overtake each other and the administrator clicks in between. A click is possible only
when its control is on the screen and not disabled. `handleUpdateStatus` is
`SubmitStatus`, `PutStatus`, `RefreshPanel`; `handleProcessRefund` is `ConfirmRefund`,
`ProcessRefund`, `RefundReturns`, `RefreshAudit`; `handleToggleStatus` is `Toggle`, `ServeCard`,
`ToggleReturns`, and so on; every request may fail. `ListReturns` of the cards keeps the
rows when the answer has none: the server sends `null` for an empty table, and the page takes
a list only if there is one.

*Abstractions.* Filters on the screen alone (search within the rows, dates) hide rows and change
nothing. A card is its switch, its picture and one version of the rest; a text is a
version. An item of a course is an object that the copies of a form share, or, for those in
`Lines` (the strings of `included` and `whatIsIt`), a value that each copy has of its own. The refund behind `PaymentsDesk` is one step here; its statements are in
`BookingPayments`.

### Enquiries, Checkout, BookingRecord and VisitorForms

*State.* `Enquiries`: both tables in `inbox`, the forms `contact` and `dialog` with the
dialog's timers, the office's `board`. `Checkout`: `cart` in the browser, `draft` on the
server, the requests `posts` that write it, `orders` with the items inserted so far and
what the customer saw, `tariff` with the two settings. `BookingRecord`: `details` is the
form, `records` the JSON columns of the bookings; people in `Namesakes` share one name, which is all
that the invoice compares. `VisitorForms`: values, touched
fields, messages.

*Actions.* `Store` sends the whole cart after every change and waits for nothing, and so does
`TypeDetails`, a change of any field of the checkout form: `setCheckoutFormData` sends cart and form
together. Of the draft the page reads the cart alone, so that what is kept of the form there has
no reader and is not modelled. `ItemsRead` is what a list of bookings brings of the items: the rows in any order,
for no query has an `ORDER BY`, or none when that query fails, since its error is dropped. `OpenCheckout`,
`AskDraft`, `GetDraft`, `RestoreCart` are the effect of the checkout page. `CreateBooking`,
`InsertBooking`, one `InsertItem` per item, `BookingCreated` are `handleCreateBooking` and
`BookingService.Create`. `Reprice` is the administrator who changes a setting.
`SubmitContact`, `StoreContact`, `ContactAnswered` and their twins of the dialog are a message.

*Abstractions.* A product is an id with a kind and a price; prices are small whole numbers, all
but the CITB tests' constant. A person or a firm stands for all of its fields. A payment is
one step in `Checkout`. A form value is empty, wrong or right.

## 3. Runs

| run | bounds | shows |
|---|---|---|
| `payments` | 2 requests at a time, 1 booking, 1 intent, 1 order, refunds of all or of a penny, 1 fault of any kind (1.3 million states) | all the safety properties, `IInv`, `ViewsAreBacked`, and that `PaymentLifecycle` is implemented; the amount is one that the conversion truncates |
| `payments_serial` | 1 request at a time, 1 booking, 1 intent, 1 order, 2 lost replies or held captures | `TablesAgreeAtRest`: booking and payment rows tell the same story |
| `stripe_liveness` | 2 requests, 1 intent, 1 crash or lost reply | `StripeMoneySettles`, and `TakenIsRecorded`, that the event which settles is still there |
| `paypal_liveness` | 2 requests, 2 orders for one booking, no fault | `PayPalMoneySettles` |
| `webhook_db_error` | 1 request, 1 failing statement; expected violation | `StripeMoneySettles` does not survive it (finding 1) |
| `next_number` | 2 intents, 2 bookings; expected violation | the next payment number can be taken (finding 2) |
| `hub` | 2 users, 2 connections, 1 chat room, buffers of 1, 3 messages (1.6 million states) | the hub's safety properties and `HubInv` |
| `hub_liveness` | 1 user, 2 connections, 1 chat room, buffers of 1, 2 messages | `NoGoroutineLeaks` |
| `hub_overflow` | 1 connection, 2 chat messages; expected violation | an unregistration can end the server (finding 3) |
| `hub_takeover` | 1 user, 2 connections, no message; expected violation | the hub can keep a connection for ever (finding 4) |
| `server` | 3 tokens, 2 requests, 2 logouts, 1 lost statement; 2 backup codes, 1 link, 2 secrets, 1 failing statement; 2 addresses, windows of 2 and bans of 3 ticks (850 thousand states) | `LogoutHolds`, `OneSuccessor`, `FactorAsWanted`, `UsedOnce`, `RefusalsEnd` |
| `screens` | every page with 2 rows (4 products, 3 persons of whom 2 share a name), 2 requests under way and 2 to 7 clicks; see `MCScreens.cfg` (1.8 million states) | the properties of the pages, below |

The properties of `screens`, each with the overlap that it excepts:

| property | says | unless |
|---|---|---|
| `ListMatchesFilters` | at rest the rows are those of the filters on the screen | the filters were used while a request was under way |
| `FormIsOfPanel` | the form in the drawer is that of the booking above it | the drawer was opened during a save |
| `RefundedOnce` | no payment is refunded twice | an answer was lost, the drawer or the dialog was opened meanwhile, the payment is older than the last 20 |
| `CardsAsStored` | at rest the rows of the cards are those of the table | requests overlapped or failed, the table is empty |
| `ImageInItsForm` | a picture ends in the form it was chosen in | the drawer was opened during the upload |
| `EditsAreKept` | what administrators changed and saved is stored | the form had failed to load, was older than another's save, or its upload came back late |
| `MessagesKeptAndSentOnce` | a message is neither emptied unsent nor stored twice | the dialog was used before its timer ran, an answer was lost |
| `BoardAsStored` | at rest the statuses of the messages are those of the table | requests overlapped or failed |
| `DraftKeepsCart` | the draft brings back the cart that is there | a save was lost or late, the draft was read while it was behind, the cart changed before the answer was used |
| `PaidIsWhole` | of what is paid, or asked to be paid, all the items of the cart are read, each as often as it is there and in whatever order | the read of the items fails, which shows none |
| `PricedAsShown` | the total is that of the summary and of the cart | cart of several kinds, cards, sales, a changed price |
| `DetailsAsShown` | invoice and drawers name whom the form named; the invoice leaves out a candidate with the payer's name | the form was changed while the booking was created (for the form that asks for the payment) |
| `MessagesAreCurrent` | a touched field shows a message iff its value is wrong | an empty repetition of an empty password |

The exceptions are history variables set by the actions themselves. Each was tried without:
TLC then finds a counterexample, for `FormIsOfPanel` with one click more than the run has.

*Why the bounds are enough.* Every conflict in this code is between two requests
over one row; two requests with one Stripe and one PayPal charge for the same
booking give each pair of handlers, including two of the same kind. A request
slot is reused without limit, so that runs are not bounded in length: only charges
and faults are. The safety properties are proved for all constants as well, which
settles the question for them. Symmetry is used in `payments` only, on requests,
which occur in no constant and no property distinguishes; never under liveness.
`CHECK_DEADLOCK` is left on for the payments: the office can always act.

For the hub, a buffer of 1 in place of 256 makes overflow take two messages; nothing
in the code depends on the size but the test for full. Two connections are one
that takes over and one that is taken over, or two users who write to each other;
three messages fill one buffer, overflow it, and meet the closed channel. Symmetry is
on connections and users, which no formula tells apart; not under liveness. A
connection is opened once, and nothing follows a panic, so these runs may stop and
have `CHECK_DEADLOCK FALSE`.

For the server and the pages, what can go wrong takes two requests that overlap, or one
that is answered after a click: two rows, two requests and a few clicks give every pair. The
bounds on clicks (`MaxDeskClicks` and its like) were raised until the exceptions of the
properties are reached; a list with room for one of two payments makes the other an old one. Three tokens are a login, its refresh and a fork of it. A
limit of 1 and a window shorter than the ban stand for 60 and 1 minute against 15; the
proof covers the rest. Symmetry is used in `server`, on tokens, requests, codes and
addresses, which no constant and no property distinguishes; `screens` uses none, since its rows are
ordered by number. Clicks and secrets are used up, so both runs have `CHECK_DEADLOCK FALSE`.

*Fairness.* `WF(Step(h))`: a goroutine that has started is scheduled until it
returns. `SF` on the delivery of each event: Stripe repeats an event until it is
answered, and the server starts a goroutine for each delivery; the strong form is
needed because the model has only as many request slots as `Handler`, which other
requests may occupy every time Stripe tries. Stripe's deliveries are behind a counter of
`RateLimits`, which is why it matters that a refusal ends (`RefusalsEnd`). No fairness on `Arrive` otherwise,
on customers, on the office, or on faults.

For the hub, `WF` on `Register(c)` and `Unregister(c)`: the hub's `select` picks
among the ready channels at random, so that a waiting connection is taken in the end
although messages keep coming; each is enabled until it happens, so weak fairness
is enough. `WF` on delivery, on a writer that can write, ping or return, and on a
reader whose socket has failed (`ReadMessage` returns an error then). No fairness on
browsers, on new connections or on messages. `server` and `screens` check safety only: a
click, an answer or the end of a request is nothing that their code makes happen.

*What the liveness properties say.* Settling is `<>`, not `<>[]`: the booking is
confirmed at some time. It need not stay so, because no statement looks at the
current status: a delayed `payment_failed` event or a second capture of the same
order overwrites a success with a failure, and `TablesAgreeAtRest` fails with two
requests for one booking. No document of the repository promises otherwise, so these are listed as
hazards and not as findings.

## 4. Proofs

`tlapm` checks the eight proof modules to the last leaf. What they prove holds for any sets
of bookings, charges, requests, users, connections, rooms, tokens, rows and products, any
amounts, fees and buffer sizes, and any number of faults, clicks and messages. Every
safety property of a run with `expect` pass is a theorem:

| module | proves about |
|---|---|
| `BookingPayments_proofs`, `BookingPayments_refinement` | the payment service; that it implements `PaymentLifecycle` |
| `PaymentViews_proofs` | what invoice and drawers say of a payment |
| `WebSocketHub_proofs` | the hub and its connections |
| `Access_proofs` | sessions and limits |
| `OneTime_proofs` | codes and links; then the server's parts side by side (`MCServer`) |
| `VisitorPages_proofs` | cart, draft, booking and total; the sign-in form; the checkout form; messages to the office |
| `Desks_proofs` | the administrator's pages; then all pages side by side (`MCScreens`) |

Assumed are the named `ASSUME`s of the modules and no more: null values are no members of
their sets, sets that must differ are disjoint, charges are finitely many, amounts, limits
and bounds are natural numbers, buffers hold at least one message, a window of the limits is no
longer than a ban, a page of a list has a row. One theorem, `TablesAgreeApart`,
has hypotheses of its own, below.

*The invariant of the payments.* `SucceededIsPaid`, `RefundNeverOverstated` and the others are not
inductive: whether a request may write `succeeded` depends on what it learnt
several statements ago. `IInv` adds what every request under way remembers and
why it is still true: `CallConsistent` (a request at `recordCapture` has a charge
that is taken; one at `recordRefund` has an amount that the provider returned),
`ChargesConsistent` (rows exist only for created charges of existing bookings;
clients know only recorded charges), `OutcomesBacked`, `EventsBacked`,
`OpeningsDisjoint` (no two requests open the same charge). All of it is monotone at the provider: a
charge that is taken stays taken, what was returned stays returned.

*The argument.* `BookingPayments_proofs` splits `IInv` by charge and by request
and proves, once for each, what an action must leave alone (`OthersKeep`,
`Preserves`, `Combine`), then one lemma per action with only what that action
disturbs. `Invariance` is the temporal conclusion; `SucceededIsPaidHolds`,
`PaidIsOnRecordHolds` and `RefundNeverOverstatedHolds` follow from it. `BookingStatusEarnedHolds` is an
action property: each write of a status is matched with the part of
`CallConsistent` that earns it.

*Money is not forgotten.* `TakenIsRecorded` says where the knowledge of a payment is while its
row does not show it: for a card payment in the event that Stripe has yet to have answered, for a
captured order in the request that is about to write the row. It leans on three things that are
far apart in the code: a cancellation spares the bookings and rows that are not open
(`AND status = 'pending'`), the webhook answers after its statements, and no other statement puts a row back to
`pending`. `MoneyInv` adds that a webhook at its second statement has found a row, so that the answer
which takes the event away leaves nothing outstanding; it is inductive beside `IInv`.

*Between requests.* `TablesAgreeAtRest` is what the office expects of the two tables, and it is
not true of every behaviour: a statement that fails or a crash leaves one table without the
other (hazards), a status set by hand says what it likes, and two requests for one booking may
overwrite each other. `TablesAgreeApart` proves it from the absence of these:
`StatementsExecuted`, a condition on the constants, and `[]RequestsApart`, that requests
for one booking do not overlap - those for other bookings may, and replies may be lost and
captures held. `payments_serial` is an instance of both hypotheses. The invariant is
`TablesInv`: a booking agrees with its rows or the request that will make it agree is at
one of the `Settling` statements, and that request has already written what its next statement
relies on (`HalfDone`). It needs `IInv` for whom the request acts.

*Refinement.* `RefinesLifecycle` maps `payStatus` to `status` and the provider's
state to `chargeSeen`, which merges `open` with `approved` and tells `returned`
from `taken`. The mapping needs `IInv`: `RecordSuccess` of the abstract
specification requires money to have been taken, which the code does not check
when it writes, but which `CallConsistent` knows.

*The invariant of the hub.* Each of the hub's properties leans on the others.
`PanicOnlyAfterOverflow` needs `ClosedConsistent`: a channel is closed for overflow, or
by an unregistration that also took the connection out of every room; together with
`MapsConsistent` (who is registered is open) the second kind can never be met again.
`LeakOnlyAfterTakeover` needs `RegisteredUnlessTakenOver`: while a connection is open
its user is registered through it, unless it was dropped or has met another one of that user,
and two that are active at once have met. A connection that came and went before excuses nothing.
`AddressedToReader` needs to follow a message from the reader's hand through both
buffers (`MessagesConsistent`) while owners of connections appear. `HubInv` is their
conjunction; the proof separates what is about maps (`MapPart`) from what is about
messages (`MessagePart`), shows once what steps of readers and writers leave alone
(`PumpsKeepMaps`, `MessagesStay`), and has one lemma per action.

*What a page may say of a payment.* `ViewsAreBacked` is about what is read, so it needs a fact
about what was written: `BookingsBacked` says that a booking is `confirmed` or
`refunded` only if a charge of its own was taken or returned. It is inductive beside `IInv`, which
knows for whom a request at `confirmBooking` acts; then each label of the invoice is matched with the
status it is printed for.

*Sessions.* `SessionsInv` adds to `LogoutHolds` what a request between two statements knows:
`ExchangesSound` (who exchanges a token was first to read it, or the token is shared),
`OneChild` (no token has two successors, as a statement about equality rather than about
cardinality) and `RefreshesCurrent` (a refresh that began before the last logout is
excused when it inserts). Most steps leave tokens alone and are dealt with once (`QuietStep`).

*Codes and links.* `OneTimeInv`: the list a use has read still contains its code and is what
the table holds, unless a clash is on record (`CodesSound`); the row is off while a
use is between its statements, and as the owner wants it otherwise (`FactorSound`);
a link that was used is revoked or about to be (`LinksSound`).

*Limits.* `LimitsInv`: every key of the script has an expiry, and the counter of a banned
address goes no later than the ban (`TriesAge`), so that the first request after a ban
finds no counter; of the two-call counter, a key without expiry has an `EXPIRE` under way.

*Pages.* `DeskInv` follows queries and rows through the fetches under way: the last fetch is for
the filters on the screen (`QueriesFollow`), and what is on the screen is what it found or will be
replaced by it (`ListFollows`); a form is that of the drawer, also in the hands of a save
(`FormFollows`). `CardsInv` says of the one request under way what its answer will find
(`ToggleFollows`, `RowsFollow`) and that a picture on its way is for the form that is
open (`ImageFollows`). `CardsInv` speaks of tables that have a row, and stays inductive when the last one is deleted because
a list that is asked for later brings the rows of a table that has some again. `OrdersInv` says
that the items of a booking are a beginning
of those asked for, that only the last booking grows, and that it is whole once its
id was returned. That reading the rows in another order loses none of them is
`TimesReordered`: a permutation of the rows is one between the places of an item. `MessageInv` is `MessagesAreCurrent` with the types of the form.

`LedgerInv`, for refunds: a payment that says `succeeded` was given nothing back
(`SucceededIsUnreturned`); what says so on the screen - a row, the drawer, the dialog - is right
or about to be replaced, by a list under way or by the refund that made it wrong
(`LedgerFollows`, `AuditFollows`, `DialogFollows`). Only then can a click on a stale row not
refund again. `EditorInv`, for the forms of courses: a form that loaded well and was not overtaken
holds what is *due* of its course but for the fields touched in it, and so does the
payload of its save (`PageFollows`), while rows are clean in the sense of `Clean`
(`RowsAreClean`), so that loading and saving a form changes nothing by itself.

`RecordInv`: the request under way and the booking it inserts hold what the form showed, and
so does the form until it is typed into (`RecordsKept`, `FormKept`). `MessagesInv`: a text is typed
once (`TextsKnown`), a form holds one that is not stored or one whose form is about to be
emptied (`ContactFollows`), and the dialog's timer finds the text it was set for
(`DialogFollowsText`). `BoardInv`: the rows on the office's page, and those that each request
took from its render, belong to the same list (`BoardShape`) and are those of the table but for the row
that a served request has changed (`RowsFollowInbox`). `DraftInv`: of the draft and the requests
that may still write it, the one with the newest number holds the cart, and an answer under way
brings the cart or nothing (`DraftFollows`), as long as nothing was lost or late.

*Totals.* `PricedInv` carries the total that the summary showed with the booking under way; the
step that matters is `InsertBooking`, where three programs compute a total: the summary, the page of
the cart and the server. `SameTotals` proves that they agree for a cart of any length. The sums are
folds of the community modules, that is functions picked by `CHOOSE`; `LeastNumber` is induction over
the natural numbers as a statement about sets (from `WFMin`, since the induction theorems take an
operator), `FoldExists` shows with it that the function exists, `TotalByStep` that the
total adds one item after the other, `TotalOfEquals` what it is for equal prices. `WithoutType` does the
same for the filter of `removeItem`.

*Side by side.* The modules of `MCServer` and `MCScreens` share no state. The lemmas `ServerIsItsParts`
and `ScreensIsItsPages` say so: a behaviour of the whole is one of each part, so that every theorem
about a part holds of the whole, and the types of all follow (`ServerTypesAlways`,
`ScreensTypesAlways`).

*Only model-checked.* Liveness, since the prover does not handle fairness and ENABLED:
`StripeMoneySettles`, `PayPalMoneySettles`, `NoGoroutineLeaks`. The four expected violations are
counterexamples and nothing to prove.

## 5. Findings

1. **A failing UPDATE in the webhook loses a payment** (`webhook_db_error`).
   Clients are told that confirmation is handled by the webhook
   (`handlers/payments.go:143`), yet the webhook drops every error and answers
   200, so Stripe does not try again and the booking stays `pending_payment`.
2. **Deleting a booking can stop all payments** (`next_number`). The next payment
   number is COUNT(*) + 1, deletion removes payment rows, so the next number may
   be one that exists; the UNIQUE constraint refuses it, each time.
3. **Closing a full connection can end the server** (`hub_overflow`). "Unregister
   removes a client from the hub" (`hub.go:133`), but a room broadcast that finds a
   buffer full closes the channel and leaves the client in `clients`, and its
   unregistration closes the channel again. `PanicOnlyAfterOverflow` says that this,
   and its twin, a message to a user whose entry or room membership survived the
   close, are the only ways to a panic.
4. **An unregistered connection can stay in the hub** (`hub_takeover`). The entry of
   a user is deleted by whichever of the user's connections closes first; the other
   one is then not found, and stays in its rooms with its channel open.
   `NoGoroutineLeaks` says that its goroutines end nevertheless, and
   `LeakOnlyAfterTakeover` that nothing else leaves anything behind.

Seen while modelling, and without a run of their own. The models do what the code does in
each of these, and the properties are stated so as to except them:

- A refund of 19.99 returns 1998 pence and is recorded as 19.99 (`payment_service.go:308` and
  `:316`); an intent for 19.99 takes 1998 pence (`:75`). `RefundNeverOverstated` and `ViewsAreBacked` say
  that it is never more than this penny.
- After the last card was deleted the page keeps showing it: the list of an empty table is `null`
  (`card_repo.go:59-63`), which the page does not take (`cards/page.tsx:64`).
- The drawer and the invoice list the items of a booking in whatever order the database finds them, and
  show none when that query fails (`booking_repo.go:98` and `:161`).
- The audit of a payment shows a cancelled one as succeeded and completed
  (`payments/page.tsx`, `LifecycleStage`), and the invoice prints a row "Amount Paid" for any
  payment it is given.
- The drawer of a booking looks for `company_name` where checkout stores `companyName`, so
  that it never shows the company.
- The confirmation page says that the payment was received whichever way it was reached.
- A card is sold with the type `nvq`: the server finds no course with its id and prices it at 0, and the
  item's foreign key on `courses` refuses it, which leaves a booking without items.
- The server charges `sale_price`, the shop shows `price`; the item keeps the price of the request,
  which the invoice takes to include VAT although the total adds VAT to it.
- Nothing clears the cart after a payment (`clearCart` has no caller on that path).
- A login never sets `is_locked`, which alone makes `locked_until` count
  (`auth_service.go:106`); the architecture document (line 846) has it set.
- The access token that a learner's logout puts on the blacklist is looked for by the
  administrators' middleware only.

## 6. Not modelled

Listings and other reads that only show what they read; texts, e-mails, currencies, card
details, layout; float arithmetic of prices, which neither TLC nor the provers have, but for the
truncation of an amount to pence;
`booking_number`. By component, as in `PROJECT.json`:

- *Administrator sessions*: one key written by a logout and read by every request; there
  is nothing to interleave.
- *E-mail, uploads, audit log, notifications*: I/O, or rows that nothing reads back but a
  list. No code creates a notification.
- *Migrations*: a sequential program run by hand, whose behaviour after a crash depends on the
  SQL of each migration.
- *CORS, CSRF, headers, scraping filter, configuration, routing*: no state that another
  request reads.
- *Cache of a course's page*: never invalidated, it expires after ten minutes; no price is
  taken from it.
- *Lockout after failed logins*: no lock is ever set (above), so that no property of it holds but
  the empty one.
- *Registration, profile, verification of an e-mail address*: single statements, or the
  same two statements as a reset link.
- *Static pages, navigation and the learner's dashboard*: no state beyond what is shown.
