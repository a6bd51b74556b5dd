# ELK backend: TLA+ models, checks and proofs

This directory models the ELK backend (a NestJS service over MySQL through
Prisma, Redis, BullMQ, Razorpay, FCM, an SMS gateway and Google's places) in
TLA+.  TLC checks the modules on small instances; TLAPS proves the safety
properties of all stateful components, from bookings, payments and the catalogue
to sign-in, chat and the provider panel, for every value of the constants.
`PROJECT.json` holds the same information in machine-readable form: components,
runs, mutants, the map from definitions to source lines, findings, hazards and
theorems.

    tlc -workers 2 -config MCServiceBooking.cfg MCServiceBooking
    tlapm ServiceBookingProofs.tla

tlapm needs one to three minutes for each of the eight proof modules.

## 1. The system

ELK is two products behind one API: cleaning and repair jobs sold by the
company (paid through Razorpay, done by its professionals), and a marketplace
where users list and order things from each other.  Every HTTP request is a
chain of awaited statements; several run at once, in one process or in many,
and only the database, Redis, the queue and Razorpay order them.

| Component | State | Operations that change it | What is hard, and what must hold | Module |
|---|---|---|---|---|
| Booking rules (`home-services.rules.ts`) | none | quote, applyPromo, cancellationFee, matchArea | limits and roundings: discounts as promised, the nearest area, a refund is most of what was paid | `BookingRules` |
| Bookings, customer (`home-services.*`) | `ServiceBooking` row | book, verifyPayment, cancel | steps fail half way; cancel races everyone; released only when paid | `ServiceBooking` |
| Payments (`razorpay/*`) | `ServicePayment` row | checkout, verify, handleWebhook, settle, captureOnce, refund | app and webhooks settle one payment; lost answers, repeated deliveries; payment and booking move together | `ServiceBooking`, `PaymentLedger` |
| Refund queue (`razorpay.queue.ts`, `jobs.module.ts`) | one BullMQ job per booking | schedule, process | a retry after the refund went through, worker death, outage: one refund, and not none | `ServiceBooking` |
| Bookings, company (`admin-bookings.service.ts`) | the booking row, the WhatsApp log | assign, setStatus, resend | writes by id after a check on a stale read; the job goes only to who was assigned | `ServiceBooking`, `Professionals` |
| Catalogue and approvals (`admin-catalog.service.ts`, `admin-approvals.service.ts`, `service-change.repository.ts`) | `HomeService`, `ServiceChangeRequest` rows | create, update, delete, approve, reject | an edit of several statements against deletes and decisions: one decision, nothing hidden for good, history as decided | `ServiceCatalog` |
| Professionals (`professional-approvals.*`, `admin-catalog.service.ts`) | `Professional` row | create, update, delete, approve, reject | edits against decisions, removal against assignment | `Professionals` |
| Service areas, promo codes (`admin-catalog.service.ts`) | `ServiceLocation`, `PromoCode` rows | create, update, delete, geocode | Google fails in the middle of a save; a date passes between check and switch | `ServiceAreas`, `PromoCodes` |
| Staff and access (`admin-users.*`, `admin-access`) | users, their modules | create, update, the guards | rights that change while a request runs | `StaffAccess` |
| Sign-in (`auth/*`) | codes and attempts in Redis, refresh sessions, denylist | request and verify codes, refresh, logout | rotation against revocation, lost answers, the clock's rounding | `Otp`, `Sessions`, `AccessTokens` |
| Listings (`marketplace.*`, `ad-attributes.ts`) | `Ad` row, photos, views, wishlists, counters | create, update, remove, detail, setWishlisted | counters follow unique rows; details fit the category; photos of one edit | `Marketplace`, `AdAttributes` |
| Ad orders, tracking, seller's figures (`ad-orders.*`, `orders.*`, `provider.*`) | `AdOrder` row | place, setStatus | buyer, seller and admin move one order | `AdOrders`, `OrderTracking` |
| Reviews (`reviews.*`) | review, rating, points | submitReview | a stored review without its rating or its points | `Reviews` |
| Chat (`chat.*`) | threads, messages, read stamps | send, open, count | first messages crossing, a message stamped unseen | `Chat` |
| Notifications and push (`notifications.*`, `push.*`) | notifications, device tokens | notify, register, unregister, mark read | handsets change hands while a push is under way | `Notifications` |
| Addresses (`locations.*`, `prisma.extension.ts`) | addresses, one default | create, update, remove | two defaults, a default that was removed | `Addresses` |
| Places and cache (`places.*`, `cache.service.ts`) | cache entries | details, reverse geocoding | Redis or Google failing at any step | `Places` |
| Provider panel (`provider.*`) | `ProviderProfile` row | register, ensureProfile, setAvailability, verify | first requests crossing | `ProviderPanel` |
| Home, offers, users, app config, uploads, HTTP plumbing | profile rows, objects | single-row writes and reads | little to interleave | not modelled, section 7 |

How they interact: `book` calls Razorpay and returns the order to the app; the
app pays, then calls `verify`; Razorpay sends webhooks on its own.  `cancel` and
`setStatus(CANCELLED)` cancel the booking, claim the refund on the payment row
and put a job on the queue; the worker calls Razorpay and writes the refund id;
a later webhook marks the payment refunded.  The catalogue decides what
customers can book and at which price; super admins decide what of that goes
live and which professionals may be sent.  A review needs a completed order of
the marketplace, the seller's panel and the tracking screen are drawn from
orders, and every move of an order raises a notification.

## 2. The modules

Everywhere a step is one database statement, one transaction, one Redis
command, one queue call or one call to an outside service; anything else may
happen between two of them.  A request is a record in a slot (`req`, `tap`,
`edit`, ...) with the step it reached (`pc`) and what it read before its last
await.  A request that is refused on its first read changes nothing and is no
action.  Where a process may die, an action (`Abort...`) drops the request.

Two facts about the database shape many modules.  The soft-delete extension
(`prisma.extension.ts:80-98`) sends `delete` and `deleteMany` to the base
client, so inside a `$transaction` they commit by themselves: `ClearPhotos`,
`ClearModules`, `ClearCategories` and the deletes of `ServiceCatalog` are steps
of their own.  And on MySQL Prisma runs an `upsert` that also includes relations
as a select and an insert, which `Chat` has as one step that can be refused.

**BookingRules.**  The pure rules as operators: `Quote`, `ApplyPromo`,
`CancellationFee`, `MatchArea`, the table `TRANSITIONS` and the sets of statuses
that `cancel` and `assign` accept.  Amounts are integers in paise; `RoundDiv` is
`Math.round`, halves up.  Floating-point error below a paisa is left out, and
distances are given.

**Rules.**  The rules of `BookingRules` and `AdAttributes` applied to any input, one
per step, with the inputs as constants.

**ServiceBooking.**  One booking from `POST /service-bookings` to the money going
back; nothing in the code relates two bookings.

| Variable | Stands for |
|---|---|
| `booking`, `payment` | the `ServiceBooking` and `ServicePayment` rows |
| `rzp`, `events` | Razorpay (external): order, payment, refunds, amount given back; webhooks still to deliver |
| `req`, `job` | requests in flight; the `refund-<bookingId>` job with attempts and stalls |
| `late`, `faults` | the free cancellation window is over; failures so far, for the bounds |

| Action | Code |
|---|---|
| `Book`, `CreateOrder`, `CreatePayment`, `CloseBooking` | `HomeServicesService.book`, `RazorpayService.checkout` and the catch around it |
| `Verify`, `WebhookPayment` | `RazorpayService.verify` and `handleWebhook` up to `settle` |
| `Fetch`, `Capture`, `Refetch`, `Record` | `settle`, `captureOnce`, `RazorpayRepository.capture` |
| `WebhookRefund` | `handleWebhook` for refund events, `markRefunded` |
| `Cancel`, `CancelBooking` | `HomeServicesService.cancel` |
| `Assign`, `AssignWrite`, `SetStatus`, `SetStatusWrite` | `AdminBookingsService` |
| `StartRefund`, `Schedule` | `RazorpayService.refund`, `RefundScheduler.schedule` |
| `JobStart`, `JobRefund`, `JobRefused`, `JobSetId`, `JobMark` | `RefundProcessor.process` |
| `JobRefundUnheard`, `JobError`, `JobStall`, `Abort` | lost answers, throwing calls, a dead worker, a dead request |
| `Pay`, `AutoCapture`, `Lapse`, `RefundSettles` | Razorpay and the customer |

A call to Razorpay has three outcomes where the code can see three: it worked,
it worked and the answer was lost, it did not work.

**PaymentLedger.**  The abstract specification of the same: what is collected,
whether it is on the books, the work, the cancellation, the one amount claimed
and where the money is.  It has no requests, retries, webhooks or jobs.
`ServiceBooking` defines the mapping (`Ledger == INSTANCE PaymentLedger WITH
...`) and `KeepsTheLedger` says that it implements the ledger.

**ServiceCatalog.**  One service with the requests about it.  `service` is the
`HomeService` row, `open` the waiting `ServiceChangeRequest` (the unique column
`openFor` allows one), `decided` the others, `upd` and `dec` the edits and
decisions in flight.  `UpdateService` is the first read; `Save` and
`LookForWaiting` are the two calls of its `Promise.all`, in either order;
`Finish` files or withdraws the request.  `Decide` and `Apply` are one
transaction: what its first query reads, and the claim with everything up to
the commit.  The approvals screen (`changeJson`) is an operator over both.

**Professionals.**  The professionals of a company, one booking and the WhatsApp
log.  An edit reads, clears the categories and saves; a removal counts and then
deletes; `Decide` is the conditional update; `Assign`, `AssignRead`,
`AssignWrite`, `SendTemplate` and `LogWhatsapp` are `assign` and what it sends.

**Marketplace**, **AdAttributes.**  One listing, edited by its seller or a rental
admin (`Update`, `ClearPhotos`, `UpdateWrite`, `SoftDelete`) while users open and
save it (`FindView`/`RecordView`, `FindSave`/`AddToWishlist`,
`RemoveFromWishlist`/`CountDown`).  `AdAttributes` has the schema of details per
category and `ValidateAdAttributes`, used by both create and edit.

**AdOrders**, **OrderTracking**, **Reviews.**  `Place`, `FindOpenEnquiry`,
`CreateOrder`, `TellSeller` and `SetStatus`, `UpdateStatus`, `TellOtherParty`
are the two routes, with the two transition tables.  `OrderTracking` extends it
by the timeline and the seller's figures.  `Reviews` composes it with
`submitReview`, statement by statement: look, insert, aggregate, write, points.

**Otp**, **Sessions**, **AccessTokens**, **StaffAccess.**  Codes of one phone: three
Redis keys, the gateway's outcomes, keys that expire.  Refresh sessions: login,
rotation by claim and insert, revocation of a family, logout, answers that are
lost.  Access tokens: whole seconds in the token, ticks on the clock, Redis up
or down.  Staff: the Users tab, sign-up by phone, profiles, both guards.

**SignIn.**  The four together, for any constants: they share no row and no key,
so a variable `part` says which of them a behaviour is one of.  `Sessions` is
instantiated twice, for apps that wait for each answer and for apps with several
requests in flight.

**Chat**, **Notifications**, **Addresses**, **Places**, **ServiceAreas**,
**PromoCodes**, **ProviderPanel** follow their services one to one; each header
says what a step is and what is left out.

**App.**  These seven together, for any constants, composed by `part` as in
`SignIn`.

**MC modules.** `MCRules` gives `Rules` small sets of inputs.
`MCServiceBooking`, `MCServiceCatalog`, `MCProfessionals` and `MCMarketplace`
add constants and symmetry sets. `MCOrders` extends `OrderTracking` and
`Reviews` and runs them in two parts with bounds of their own; `MCAccounts`
extends `SignIn`, `MCApp` extends `App`. There every variable that is not of the
part stands still, so the state space is the sum of the parts'. An invariant of
these runs is a conjunction of the named invariants of one module.

**Proof modules.** `ServiceBookingProofs`, `ServiceCatalogProofs`,
`ProfessionalsProofs`, `MarketplaceProofs` (of `Marketplace` and `Rules`),
`OrdersProofs` (of `AdOrders`, `OrderTracking` and `Reviews`), `SessionsProofs`,
`AccountsProofs` (of `SignIn` and its parts) and `AppProofs` (of `App` and its
parts) extend the module they are about.

## 3. What the runs check

Deadlock is not checked: a booking that is completed or refunded, a service
nobody edits and a request that was answered come to rest.

| Run | Instance | Distinct states |
|---|---|---|
| `rules` | values on both sides of every limit | 89 thousand |
| `booking` | 2 requests, 1 webhook slot, a free booking and one of 15 paise, 1 dying request, 1 failing refund attempt | 1.3 million |
| `booking_live` | 1 request, 1 webhook slot, 1 dying request, 2 failing attempts, 1 death of the worker | with fairness |
| `catalog` | 1 editing admin, 1 who deletes, 2 super admins, 2 prices, both switches, 2 requests filed | 3.5 million |
| `professionals` | 1 professional, 2 contacts, 2 staff requests, 2 super admins, 1 message | 0.5 million |
| `marketplace` | 1 user with 2 taps, 1 editor, forms with a detail, a cleared one or none, 3 sets of photos, 1 removal dying half-way | 2.4 million |
| `orders` | trading: 1 order, 2 devices, 2 prices, 2 quantities, dying requests; rating: 2 orders of one price placed from one device, 2 reviewers, dying requests | 0.8 million |
| `accounts` | codes: 1 device, 3 codes; sessions: 2 devices and 4 sessions, or 1 device with 2 requests and 3 sessions; tokens: 2 tokens of 2 seconds of 3 ticks; staff: 3 accounts, 1 tab, 1 sign-up, 1 admin request | 1.7 million |
| `app` | chat: 3 users, 2 requests, 1 message; notifications: 2 users, 2 handsets, 2 requests; addresses: 2 users, 2 requests, 3 addresses; places: 2 suggestions, 3 points of which 2 share a cache entry, 1 request; areas, promo codes: 1 request; panel: 3 requests | 2.5 million |

Two requests are what every race in this code takes: a reader with a stale read
and the writer that overtakes it; webhook, job or expiry is a third party.

**rules.**  `DiscountAsPromised`, `AreaIsNearest` and `RefundIsMost` state what the
docs promise independently of how the code computes it.  Percentages fall on,
just below and just above a half rupee; caps are none, tiny and real; up to three
areas cover ties, areas without coordinates and pincodes; ages are 120 and 121
minutes.  Below a subtotal of five rupees rounding can exceed the price; the
property says from where on it cannot.  `DetailsAsPromised` says of a listing's
details that every problem is listed at once, a cleared field is an absent one,
and what one category stores every other refuses.

**booking.**  `PaidBeforeServed`, `CaptureIsWhole`, `RefundAtMostOnce`,
`RefundedIsProcessed`, `RefundFollowsCancel`, `TypeOK`, and `KeepsTheLedger`: every
step is a step of `PaymentLedger` or none.  The death of the worker is left to
`booking_live` and to the proofs, which have every bound.

**booking_live.**  `PaidIsReleased`: captured money releases its booking although
the app never reports and a request dies.  `RefundIsAsked`: for a cancelled paid
booking Razorpay is asked for the money, through two failed attempts and one
death of the worker, unless a request died before the job was queued.

**catalog.**  `HiddenHasRequest`, `OneDecision`, `OfflineFollowsInactive`,
`HistoryStaysAsDecided`, `TypeOK`; a second request exists while the first is
being decided.  `HiddenHasRequest` has one exception, a deletion between its two
committed deletes: one that died there leaves a service hidden with nothing to
approve (section 5).

**professionals.**  `DecisionMatchesStatus`, `DecidedOnce`, `JobsGoToAssigned`.

**marketplace.**  `CountersCountPeople` (views and wishlists against the rows they
count, requests under way and removals that died included), `DetailsFitCategory`,
`PhotosAreOfOneEdit`, for one edit at a time.

**orders.**  `OrderTellsOneStory`, `MovesAreToldOnce` and `EarningsOnlyGrow` on the
order, `ReviewsAreEarned` and `ReviewsAreRewarded` on its rating.

**accounts.**  `CodesWork`, `SessionsHold`, `LogoutHolds`, `StaffKeepScope`.

**app.**  `ChatReachesItsReader`, `PushFindsItsUser`, `DefaultIsOneAndTheirs`,
`PlaceIsTheOneAsked`, `CentreIsOfThePlace`, `SwitchedOnIsValid`,
`PanelKeepsItsWord`.  In chat a request may fail at every step.  An opening whose
listing is rejected still marks (`Promise.all` stops nothing): in the model it
fails after the mark.  So `UnseenIsUnread` names two ways in which a message leaves
the badge unseen, and says that there is no third: not a lost socket, not a dead
sender, not the opening of another thread or by another account.  An opening
that hangs counts as about to answer until it does or fails.  Of the points of
`PlaceIsTheOneAsked` 6 and 14 share an entry of the cache; 16 is a neighbour of 14
with an entry of its own.

Some instances have a single actor because the property fails with two.  That is
so for one-time codes (one device), the editing of staff (one tab), of a
listing (one editor), of areas and of promo codes (one request): section 5 has
what goes wrong.

### Violations

**booking_final** (`CancelledIsFinal`).  `assign` and `setStatus` check the
status they read and then update by id alone.  A cancel that commits in between
is overwritten: the booking goes back to CONFIRMED with its refund under way.

**booking_processed** (`ProcessedIsRecorded`).  The `refund.processed` webhook
is matched on the refund id, which the job stores after the refund call
returns.  A webhook that comes first matches no row, is answered 200, and the
payment stays REFUND_PENDING.

**catalog_rejected** (`RejectionIsRecorded`).  Rejecting a new service claims its
request inside a transaction and then deletes request and service through the
base client: the delete waits for the claimed row, the transaction times out and
rolls back, and the delete goes through.  The service is gone and no decision is
recorded.

### Fairness

`LiveSpec` (`ServiceBooking`):

- `WF` on every step of a request that has begun: an await resolves or throws;
  that a request dies is the action `Abort`, which is bounded.
- `WF` on the steps of the job: BullMQ's worker takes waiting jobs as long as
  one worker runs.
- `SF` on the delivery of a payment event and `WF` on that of a refund event:
  Razorpay delivers an event again until it is answered 2xx.  Strong fairness is
  needed for payment events because the webhook slot is busy, again and again,
  with other events.

`Fairness` (`Reviews`, used by `MCOrders`): `WF` on the steps of a rating that has
begun, for the same reason.  Nothing is assumed of customers, sellers, staff,
Razorpay's own progress or the clock.

## 4. What is proved

### The booking (`ServiceBookingProofs`)

For any number of requests, webhooks and faults, any professionals and any
integer totals (`ConstantsAssumption`), TLAPS checks that `Spec` implies
`TypeOK`, `PaidBeforeServed`, `CaptureIsWhole`, `RefundAtMostOnce`,
`RefundedIsProcessed`, `RefundFollowsCancel` and `PaymentOnlyForward` (no step
moves the payment row back).

None of these is inductive, because each depends on what requests in flight
have read.  `IInv` adds:

- `PayInv`: booking, payment and Razorpay agree on how far the payment came;
- `BookInv`: at most one request is still booking, and its payment row is not
  stored;
- `ReqInv`: what a request read still holds where it matters (who is about to
  record saw a captured payment; who is about to cancel knows an amount that is
  owed);
- `ClaimInv`: before the claim there is no refund and no job, after it all are
  about the one amount claimed;
- `MoneyInv`: at most one refund is live, and the amount given back is its own;
- `OutcomeInv`: where a refund id is known and what it says is true.

`TypeStep`, `PayStep`, `BookStep`, `ReqStep`, `ClaimStep`, `MoneyStep` and
`OutcomeStep` show that each part is preserved, with one case per action.  The
lemma `Advances` collects how the rows may change at all, so that `ReqOthers`
can show once that no step invalidates what another request relies on.

Why a retried refund is not paid twice: the code sends no idempotency key, and a
retry after a lost answer asks again.  It is safe because a refund is the total,
or the total less a tenth: more than half (`OwedIsMost`).  Razorpay refuses a
refund above what is left (`IssueOnce`).  A fee of half the price or more would
break the argument; the mutant of `RefundAtMostOnce` does exactly that.

### The refinement (last part of `ServiceBookingProofs`)

`ImplementsLedger`: `Spec => KeepsTheLedger`, that is, `ServiceBooking` implements
`PaymentLedger` under the mapping in `ServiceBooking`.  `LedgerStep` shows from
`IInv` and `OfferInv` (money that was offered or taken has its payment row) that
every step is an entry of the ledger or leaves it alone; there is one lemma per
kind of entry (`BookEntry`, `CollectEntry`, `RecordEntry`, `WorkEntry`,
`CancelEntry`, `ClaimEntry`, `SendBackEntry`, `SettlesEntry`, `CloseEntry`).

### The catalogue (`ServiceCatalogProofs`)

For any admins, super admins, price fields, amounts and number of requests
(`CatalogAssumption`): `TypeOK`, `HiddenHasRequest`, `OneDecision`,
`OfflineFollowsInactive` and `HistoryStaysAsDecided`.  The strengthening says that
request ids are handed out in order, so a decision cannot hit a later request of
the same service; that an edit that read "approved" is right for good, so it
never withdraws the request a hidden service waits for; and that a decision's
kind is that of the request it read.  `HiddenIsDecidable` thus says that only a
deletion takes that request away, and that only the death of one between its two
deletes (`cut`) leaves the service without it.

### Professionals (`ProfessionalsProofs`)

For any professionals, contacts, staff requests, super admins and messages
(`ProfessionalsAssumption`): `TypeOK`, `DecisionMatchesStatus`, `JobsGoToAssigned` and
`DecidedOnce`.  `IInv` adds what a request relies on: one that is about to read
whom to write to, or to send, is about somebody who was assigned
(`RequestKnows`); the booking points at somebody who was assigned; and a
professional in the catalogue has a contact.  `EditedFacts` is the heart: an edit
that sends a row back for approval drops its decision with its status.

### Orders and reviews (`OrdersProofs`)

For any number of orders, buyers, devices, reviewers, prices and quantities;
the rows are finite sets (`AdOrdersAssumption`, `ReviewsAssumption`).
`OneStory` and `ToldOnce` state `OrderTellsOneStory` and `MovesAreToldOnce`,
`EndsAreFinal` that a finished order never changes, `EarningsGrow` states
`EarningsOnlyGrow`, `Earned` states `ReviewsAreEarned`.  `OrdersInv` adds `RequestsInv` (a request about to move an
order was allowed to from the status it read; the conditional write then finds
that status or fails) and `ToldInv` (who is about to tell of a move made it, is
the only one, and has not told it yet).  `AllowedFacts` reads the transition
tables once: none leads back or out of an end.

The earnings are a fold over a set of orders.  The induction theorems of the
library cannot be used on it, but any set of naturals has a least one
(`LeastOf`), so each fact is shown by the least size of a set it fails for: the
sum exists (`SumsExist`), is a natural (`SumsAreNat`), does not depend on the
order of adding (`AnyFirst`) nor on orders outside the set (`SumsAgree`).

### Listings (`MarketplaceProofs`)

`Types` and `Counters` (`CountersCountPeople`) hold for any number of editors and
users.  The sets of views, of saves and of removals between their two
statements are finite and only grow or shrink by one, which ties them to the
counters.  `PhotosOfOne` and `DetailsFit` assume `OneEditor`: with two, section 5
has the counterexamples.  `EditKnows` says that what the editor read is still
so, and `DetailsFit` needs that `ValidateAdAttributes` accepts what it returns
(`StoredFits`), for any form.

### The rules (last part of `MarketplaceProofs`)

For any inputs the DTOs allow (`RulesAssumption`): `DiscountKept`
(`DiscountAsPromised`) rests on `RoundRupee`, that `Math.round` is off by half at
most, and on a code taking at most 90 percent: above 500 paise the half rupee is
less than the tenth that is left.  `NearestWins` (`AreaIsNearest`) needs that any
set of areas has a nearest one (`LeastOf`, from the well-founded order of the
naturals).  `MostGoesBack` (`RefundIsMost`) is about a tenth rounded to a paisa.
`DetailsKept` (`DetailsAsPromised`) shows that a key's problem depends on its own
value only (`ErrorsAre`), and that two categories that share a key share no word
for it, the duration label apart (`OtherRefuses`).

### Sessions (`SessionsProofs`)

`OneLive` holds for any number of devices, of requests in flight at once and of
sessions.  `RaceInv` is inductive because of `AloneInFamily`: between its claim
and its insert a request is the only one of its family there, and no session of
the family is good.  `Hold` adds `SoloInv` for devices that wait for each answer:
no other request knows a session of the family (`Apart`), so nobody else can
revoke or reuse it.  The same with two requests of one device fails, section 5.

### Codes, access tokens and staff (`AccountsProofs`)

- `CodesKept` (`CodesWork`) assumes `OneDevice` and `NoLateSms`: the comments it
  rests on are refuted with a second device and with a gateway that delivers
  after the timeout.  Under them the request knows that the code in hand is the
  last one and nobody holds an older one (`OtpKnows`).
- `SessionsKept` (`SessionsHold`) instantiates `SessionsProofs` for both uses of
  `Sessions` in `SignIn`.
- `LogoutKept` (`LogoutHolds`) holds for any tokens, lifetime, resolution of the
  clock and failures of Redis.  The argument is that of `Covered`: the entry of a
  token that was logged out lasts until the token's second is over, because
  rounding the present down never shortens the rest of its life.
- `ScopeKept` (`StaffKeepScope`) assumes `OneTab`: with two super admins the two
  statements of an edit add up.  The proof's `CallKnows` says that a request's
  scope is a set given to its admin whole, whatever is stored by now.

`Components` shows that a behaviour of `SignIn` is, for each component, one of
its own, so the theorems of the parts hold of the whole.

### Around bookings and listings (`AppProofs`)

Each part has an invariant of its own, shown as a lemma about the part's `Spec`
(`ChatHolds`, `NoticesHold`, ...); `Parts` shows that a behaviour of `App` is, for
each part, one of its own.

- `ChatReaches` (`ChatReachesItsReader`), for any users, requests and messages.
  `Covered` says of each message marked read that it is on its recipient's
  screen, that a request in flight `Shows` it, that it came `beside` an opening
  (after the listing, before the mark), or is `lost` with an opening that was
  never answered; `ChatKnows` says that what a request is about to mark it
  listed, or came beside it.  One thread per pair rests on the pair being sorted, the badge
  on both counts being of the same rows.
- `PushFinds` (`PushFindsItsUser`), for any users and handsets.  `HandsetTable`
  ties a registered handset to whoever holds it, and `WaitingIsDue` says that
  what its user has waiting is due there.  `NoticeKnows` carries that over the
  await: the tokens a send still holds were its user's when it read them, which
  `due` remembers, and tokens about to be pruned are dead for good.
- `OneDefaultEach` (`DefaultIsOneAndTheirs`), for any number of crossing writes.
  `AddressTable` allows a user one default row, removed ones included: a write may
  land on a row that was removed meanwhile, and it clears removed rows as well.
- `PlaceAsked` (`PlaceIsTheOneAsked`).  `EntryKnows` says of a cache entry and
  `LookKnows` of a lookup that what it carries is an answer for its own key.
  `FinestLevel` shows which level the mapper's search stops at.
- `CentreOfPlace` (`CentreIsOfThePlace`) assumes `OneEditOfAreas`, `SwitchedOn`
  (`SwitchedOnIsValid`) assumes `OneAdmin`: with two, section 5 has the
  counterexamples.  `WillBeOf` names the place a row will have once an edit is
  saved, each field from the form or else from the row; the centre the edit
  carries is of that place, or null.
- `PanelKeeps` (`PanelKeepsItsWord`), for any sellers, applications and requests:
  profiles are never removed (`PanelKnows`), so a write finds the row it read of,
  and a seller without one was told nothing and set nothing
  (`NothingWithoutProfile`).

### Only model-checked

- Liveness: `PaidIsReleased`, `RefundIsAsked`, `ReviewsAreRewarded`.  They need
  fairness and ENABLED, which the proof system does not reason about here.
- The violations.

## 5. Claims that do not hold

Comments and docs of the repository that the models refute.  The definitions
are in the modules; the three runs of section 3 reproduce the first of their
kind, the others can be reproduced with the instance named here.

| Claim | Definition | Instance and what happens |
|---|---|---|
| "a Razorpay outage ... must not lose the refund either" (`razorpay.queue.ts:18`) | `RefundIsAsked` | three failing attempts (`MaxJobErrors = 3`): the job is left failed and nothing asks again |
| a booking "stays hidden from the customer's and the admin's lists until paid" (`api-cleaning-repair-admin.md:177`) | `HiddenUntilPaid` | checkout fails: the booking is closed as CANCELLED and listed |
| "The app keeps the live values until it is approved" (`schema.prisma:680`) | `LivePriceIsApproved` | an edit that read the service as not approved writes its price after the approval |
| "A new service stays hidden from the app until the super admin approves it" (`schema.prisma:656`) | `HiddenIsAsked` | a deletion dies between its two deletes: hidden, and nothing waits to be approved |
| "asking for what is live again withdraws it" (`admin-catalog.service.ts:100`) | `WaitingAsksForAChange` | an approval between the comparison and the filing: the request asks for nothing new |
| "Deletes a service and withdraws its waiting request" (`admin.repository.ts:64`) | `OpenIsAboutStored` | a request filed between the two deletes outlives its service |
| "A new phone or email sends an approved professional back to `PENDING`" (`api-cleaning-repair-admin.md:413`) | `ApprovedIsChecked` | the approval lands between the edit's read and its write |
| "409 `HAS_ASSIGNMENTS` while they have confirmed or in-progress jobs" (`api-cleaning-repair-admin.md:390`) | `ActiveHasProfessional` | an assign between the count and the delete: CONFIRMED without a professional |
| super admins check "before the company can send them to a customer" (`professional-approvals.service.ts:12`) | `JobsGoToApproved` | a resend goes to a changed phone that waits for approval |
| "the marketplace repository does its own `deletedAt` filtering" (`prisma.extension.ts:18`) | `DeletedIsHidden` | two editors: an edit to ACTIVE that read before the delete brings the listing back |
| "nothing unvalidated reaches the row" (`schema.prisma:544`) | `DetailsFitCategory` | two editors: the category changes between validation and write |
| "replacing its photos" (`marketplace.repository.ts:152`) | `PhotosAreOfOneEdit` | two editors: both delete first, both insert |
| the same, in a `$transaction` (`marketplace.repository.ts:163`) | `PhotosAreReplaced` | the edit dies after the delete of the old photos: the listing has none |
| "PAUSED is not a valid starting state" (`marketplace.dto.ts:171`) | `StartsDraftOrLive` | the DTO accepts every status |
| "a buyer has one conversation with a seller about a listing" (`ad-orders.service.ts:71`) | `OneOpenEnquiry` | two taps both find none |
| "so it cannot drift" (`schema.prisma:556`) | `RatingCannotDrift` | two reviews: the older aggregate is written last |
| "Frozen where it stopped" (`orders.constants.ts:35`) | `FrozenWhereItStopped` | an order cancelled after it was accepted shows the accepted step as pending |
| "a code they never received" (`otp.service.ts:98`) | `DeliveredCodeWorks` | two devices pass the cooldown check; the failed send of one undoes the code of the other |
| "the gateway was never reached" (`sms.service.ts:67`) | `SmsNotReached` | outcome "late": the message arrives after the timeout and its code is deleted |
| "a per-code attempt cap" (`otp.service.ts:18`) | `CapIsPerCode` | two devices: a guess at the old code is counted against the new one |
| "the whole session family is revoked" (`auth.service.ts:27`) | `ReuseEndsFamily` | two requests of one device: the winner inserts its next session after the loser revoked |
| "An ADMIN needs at least one module" (`admin-users.service.ts:100`) | `AdminHasModules` | the modules are deleted for good and the edit then fails on a number taken meanwhile |
| "[modules], when given, replace an ADMIN's" (`admin-users.repository.ts:106`) | `ModulesAreOfOneRequest` | two tabs: both delete first, both insert |
| "Centre of the area, geocoded when the admin saves it" (`schema.prisma:721`) | `CentreIsOfThePlace` | two requests: the old centre is written back over the new place |
| "Switching an expired code back on: returns 409" (`api-cleaning-repair-admin.md:467`) | `SwitchedOnIsValid` | two admins: one shortens the date between the other's check and write |
| "Reading a thread marks it read ... you have just seen them" (`chat.service.ts:38`) | `ReadWasSeen` | a message between the list and the stamp; or the list, or the answer, fails after the stamp |
| "`upsert` turns the loser's collision into a read" (`chat.repository.ts:43`) | `FirstWordGoesThrough` | two first messages: the loser is refused |
| "the next user of the phone gets no stale pushes" (`notifications.dto.ts:50`) | `NoStalePush` | the handset changes hands between the read of the tokens and the send |
| "`PENDING` until an admin verifies a real application" (`provider.service.ts:128`) | `VerifiedIsReal` | the empty profile is verified |
| "The caller's profile, created empty if they have none" (`provider.service.ts:119`) | `PanelOpens` | two first requests: the second is refused |

## 6. Assumptions

- Razorpay is external: captures at most once, refuses refunds above what is
  left, delivers events in any order and possibly twice.  An order, a payment or
  a signature that does not match is refused without a change of state.
- The app pays one order once; a failed authorization is final.
- A stalled job is run again after its worker is gone; two workers on one job
  at the same time are left out.
- One Prisma `update` or `updateMany` and one `$transaction` without deletes are
  atomic; a transaction that reads before it writes is two steps where the read
  takes no lock.  A transaction that starts by updating the user's addresses
  locks them and is one step.
- Refresh tokens and passcodes do not collide by chance; the hash of a token
  stands for the token.
- Google, FCM and the SMS gateway answer, refuse or do not answer; the gateway
  may also deliver after the timeout.

## 7. Not modelled

- **Home, offers, users, app config**: reads, and writes of one row by its owner.
- **Uploads and storage**: image conversion and object storage; no shared state.
- **HTTP plumbing, configuration, health**: error formatting, validation pipes,
  start-up, the seed; no state after start.
- **Cache**, partly: `get` and `set` as `Places` uses them.  **Database access**,
  partly: the soft-delete extension as addresses and transactions meet it.
  **Orders and bookings overviews**, partly: the timeline and the figures; the
  merged lists are sorted reads.
- Searches, rankings, counts and paging of every component only read.

## 8. What is left

Every component with state that two requests can reach is modelled, checked and
proved about, so are the rules, and the ledger is refined with proof.  Next:
`Professionals` composed with `ServiceBooking` over one booking row; two workers
on one stalled refund job.
