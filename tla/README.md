# ShipAmaze: a TLA+ development of booking, billing and synchronisation

ShipAmaze (`backend/`) is an Express and MongoDB service that sells shipments
of several couriers (Velocity, Lorrigo, Ekart) to dropshippers and, through a
partner API, to other systems. An order is a MongoDB document. To book it means
to call a courier, which cannot take part in a transaction, to write the AWB
into the order and to charge a wallet. Clicks, API retries, background jobs,
courier webhooks and cancellations do this to the same documents at once,
without locks other than the ones they build from conditional updates. The
modules in this directory model those protocols, check them with TLC and prove
the central ones with TLAPS.

Paths below are relative to `backend/src/` unless they begin with `docs/`.

## 1. Inventory

### Core, modelled

| Part | State it keeps | Operations | What makes it hard | Module |
|---|---|---|---|---|
| Booking claim (`modules/courier/bookingClaim.ts`) | `bookingInProgress`, `bookingInProgressAt`, `bookingIdempotencyKey`, `status`, `shipmentCreated`, `awb` of an order | claim, release, implicit take-over after `STALE_CLAIM_MS` | four awaits; an unconditional reset of rebookable orders; crashes; slow bookings | `BookingClaim` |
| Wallet ledger (`services/walletLedger.ts`) | `Wallet.balance`, `Transaction` rows | credit, debit, admin adjustment, creation of a wallet | concurrent transactions, write conflicts, lost commit acknowledgements, duplicate references | `WalletAccount` (abstract), `WalletLedger` (detailed) |
| Lorrigo booking and cancellation (`modules/courier/bookShipment.ts`, `booking.controller.ts`, `cancelProviderShipment.ts`) | the order, `bookingReconciliationRequired`, the courier's shipments | book, save, fall back, release, cancel | answers lost after the courier acted; saves that fail or conflict; stale documents | `LorrigoBooking` (extends `BookingClaim`) |
| Shipment billing (`services/shipmentWallet.ts`, `walletDebitReconciliation.ts`, `modules/partner/partnerBookingService.ts`) | `walletDebitPending`, `walletDebitFailedAt`, the wallet | precheck, debit after booking, reconciliation job, cancellation, recharge and adjustment | check and debit far apart; nothing but a flag keeps an order from being charged twice; faults between debit and flag; a batch queue that can starve | `ShipmentWallet` (extends `WalletAccount`) |
| Partner shipment creation (`modules/partner/partnerShipmentCreateService.ts`, `partnerIdempotency.ts`, `partnerReferenceLifecycle.ts`, `partnerOrderService.ts`) | idempotency records, `partnerReferenceId` of orders | create, replay, retry, release of a reference | retries under one or two keys; stale and expired records; decisions on a document read earlier | `PartnerCreate` |
| Background job lock (`modules/courier/distributedLock.ts`, `syncMutex.ts`, `server.ts`) | a map per process, a key in Redis or a document in Mongo | enter, acquire, take over, release | leases that expire under a running job; clock skew; crashes; lost connections | `JobLock` |
| Status synchronisation and webhooks (`modules/ekart/ekart.statusSync.ts`, `ekart.webhooks.ts`, `partnerCancelService.ts`, `ekart.recover.ts`) | `status`, `shipmentStatus`, `lastProviderStatusSyncedAt`, `bookingVersion` of the orders | batch job, webhook, cancellation by user or partner, edit, new booking | documents loaded for a whole batch and saved without their version; webhooks late, twice, out of order; a save outside the `try` of its order | `StatusSync` |
| Process-selected, priority and Velocity booking (`controllers/orderController.ts`, `modules/velocity/velocity.controller.ts`) | the order, the request's own document, `velocityOrderId` | prepare, loop over couriers, book with and without the claim, mark failed | a courier that failed or timed out is followed by the next; a document loaded before the first call is saved after the last; Velocity takes no claim | `PriorityBooking` (extends `LorrigoBooking`) |
| Courier HTTP client (`modules/courier/http/providerHttpClient.ts`, `providerErrors.ts`) | slots, wait queue, token cache, login under way | request, second try after 401, retry, login | shared token and login; a slot kept while it sleeps; creates that must not be repeated | `ProviderClient` |
| Shopify order import (`controllers/shopifyController.ts`, `services/shopifyOrderSync.ts`, `shopifySyncRunner.ts`) | `ShopifyWebhookReceipt`, the order, what Shopify has | webhook, synchronisation | deliveries repeated, late, out of order; a receipt written before the work is done; merges into documents loaded earlier | `ShopifyImport` |

How they meet: every Lorrigo or Ekart booking first takes the claim; Velocity's
does not. The priority loop runs bookings of both kinds on one order. The
partner route wraps the booking in idempotency records and references, and
checks the wallet before and debits it after; the jobs of `server.ts` (status
sync, NDR sync, wallet reconciliation, Shopify import) run under the job lock,
and the sync and the reconciliation job finish what a booking request could not.
Cancellations, webhooks, the status sync and the Shopify import save whole
documents they loaded before, so they meet the bookings on the document's
version, or, where a save carries no array, do not. All requests to one courier
go through one HTTP client.

What makes each part correct is stated in section 4, next to the run that
checks it.

### Not modelled

Computations on one document (rate cards and charges, status text normalisation,
reports, invoices, payouts), form-like create/read/update/delete (resources,
order editing, KYC, approvals, accounts and OTP), read-only courier questions
with a cache (discovery, serviceability), NDR and pickup upserts, the Shopify
connection, fulfilment and product pushes, notifications, images, labels, the
frontend, scripts and load tests. Two small protocols are left for later: the
partner rate limits (`modules/partner/mongoPartnerRateLimitStore.ts`: three
conditional updates; when all three miss, the request counts as the first) and
COD remittance (`services/codRemittanceSync.ts`: a read and an upsert per
delivered order, whose status is fixed when the row is made). `PROJECT.json` lists
each part with its reason. Most of the repository's lines are the frontend and
such forms: they call the operations modelled here and keep no state that two
actors contend for.

## 2. Modules and how they correspond to the code

A step of a model is what the code does between two awaits; a request, worker,
call or timer is a process. MongoDB updates of one document are atomic; a
mongoose `save()` writes the paths changed since the load and, when one of them
is an array, fails if another such save came in between. Couriers are sets of
shipments. Strings, formatting, logging and prices are abstracted away.

**BookingClaim.** `claimOrderForBooking` is `FindOrder` (the first `findOne` and
the early returns), `ResetForRebook`/`ResetLost` (the rebook reset and its
failure), `TryClaim` (the `findOneAndUpdate` with the filter `Claimable`),
`Reread` (the second `findOne`) and `Answer`. `Release` is
`releaseBookingClaim`, `Complete` the save of a booked order, `Crash` the death
of a worker, `ClaimAges` the passing of `STALE_CLAIM_MS`, `Cancel` a
cancellation to reship. The time stamp is kept as what the code compares: none,
recent or stale. `owner` and `overridden` are history variables: whose claim the
document records, and whether a claim was taken from a worker still at work.

**WalletAccount** is the promise: a posting is one step that moves the balance
and adds its row. **WalletLedger** is the code: `Read` (session, snapshot, check
of funds), `Save`, `Insert`, `Commit`, `CommitUnacknowledged`, `Abort`,
`EnsureWallet`. Snapshot isolation is modelled by versions and the set `writer`
of open transactions that wrote a wallet. Credit, debit and adjustment differ in
their arguments only. `Indexed` says whether the unique index of
`models/Transaction.ts:59` exists. Its partial filter uses `$nin`, which MongoDB
does not accept in a partial index, so it does not: every run has `Indexed` FALSE,
and the branch "duplicate" is never taken in them. The proofs cover both values.

**LorrigoBooking** details what a holder of the claim does in
`bookLorrigoShipment`: `Claim`, `Refuse` (validation), the courier's `Accept` or
`Reject`, `Timeout`, `Note`, `EndFailed`, `Save`, `SaveFails`, `Fallback`,
`FallbackFails`, `Die`; and `cancelShipment`: `CancelRead`, `CancelAccepted`,
`CancelRefused`, `CancelSave`, `CancelSaveFails`. `loaded` is the document each
worker holds and `fresh` tells whether its array save would conflict. `lost`
and `wiped` record shipments that no write tells of, or that a later write
removed from the order.

**ShipmentWallet** is the life of a charge: `Precheck`, `Book`, `AwaitAwb`,
`RequestDebit`, `RequestPersist`, `RequestDies`; the job
`reconcilePendingWalletDebits`: `JobStart`, `JobSkip`, `JobDebit`, `JobPersist`,
`JobFails`; `Cancel` and `Adjust` (recharges and corrections by an admin). A debit
is one step of the account book that `WalletLedger` implements, and `Tracked` what
is made of the flag afterwards, from the order as it was loaded before. The
pending orders are a queue, because `walletDebitFailedAt` only orders the batch.
The marking of uncharged orders by the status syncs is no action: it never takes
effect (section 6).

**PartnerCreate** is `processPartnerShipmentCreate` for one `referenceId`:
`Check`, `Discard`, `Find` (`checkPartnerIdempotency`), `Lookup`, `Reset`,
`Ensure`, `Insert` (`ensurePartnerIdempotencyPending`), `Create`, `Raced`
(`createPartnerOrder` and the lost race for the index), `Book` (up to the
claim), the Ekart outcomes `Rejected`, `Accepted`, `Timeout`, `SecondTryLost`,
then `Save`, `Refresh` (the second read and `finalizeBookingError`), `Release`
(of the reference), `Complete` (the record). `Crash`, `RecordAges`,
`RecordExpires` and `ClaimAges` are the environment. Ekart recognises a repeated
create by the tracking id, so its shipments are a set of orders.

**JobLock** is `withDistributedLock`: `EnterMutex`, `AcquireRedis`,
`CreateMongo`, `AcquireFails`, `StealMongo`, `StealFails`, `RunUnlocked`,
`Finish`, `Release`, `Crash`, `Tick`. The store and the wall clock of each
process are chosen in the initial state and never change.

**Exclusive** is the promise of a lock in general: at most one holder, unless the
promise was broken, and a broken promise stays broken. `BookingClaim` implements
it with held = the workers that book and broken = `overridden`
(`ImplementsExclusive`), `JobLock` with held = the runs of one store that are
younger than their lease, and never broken (`LeaseIsExclusive`). The larger modules
implement it, too: `LorrigoBooking` and `PriorityBooking` keep the claim's promise
with all that happens around it (`ImplementsExclusive` again); in `LorrigoBooking` the
shipments that are known are held one at a time (`ShipsExclusively`); in
`PartnerCreate` held = the requests that have taken an order to the courier, and
never broken (`BooksExclusively`). All of these are theorems of section 5 and not
properties of a run: on a small instance they say what `ClaimExclusion`,
`OneKnownShipment` and `JobExclusion` say.

**StatusSync** is the Ekart batch job (`SyncStart`, `SyncHeal`, `SyncAborts`,
`SyncTrack`, `SyncSave`, `SyncSaveFails`), the webhook (`HookLoads`, `HookSaves`,
`HookFails`), a cancellation by a user or a partner (`CancelLoads`,
`CancelAccepted`, `CancelRefused`, `CancelSaves`, `CancelSaveFails`), the manual edit
`MarkCancelled`, new bookings `BookEkart` (with the tracking id and the recovery of
duplicates) and `BookOther`, and the courier's `CourierMoves`. The batch query
selects its fields and leaves out `__v`, so `SyncSave` asks for no version:
`astray` records the orders it wrote amid another request. A webhook finds its
order by the AWB or by the merchant's reference, which names an attempt (`ref`).
Statuses are grouped by how the code treats them.

**PriorityBooking** is `processOneSelectedOrder` for one order: `Begin`, `Skip`,
`PrepSaves`, `PrepReloads`, `PrepFails`; the loop `TakeNext`; `ClaimedBooking`, which
is any step of `LorrigoBooking`; Velocity's
`VelocityRefuses`, `Persist` (the order id stored before the call),
`VelocityAccepts`, `VelocityRejects`, `VelocityTimesOut`, `VelocitySaves`,
`VelocitySaveFails`, `HistorySaves`, `HistoryFails`; and `Fail`, `MarkFailed`,
`MarkLost`, `Dies`. `mem` is the document a request keeps, `current` the requests
whose document no other array save has overtaken. Velocity may answer without an
AWB: the order is then marked as shipped and `named` is the shipment it names by
Velocity's id; `dropped` are those it no longer names. `Reminted` says whether the
order's id is of the kind that `velocity.service.ts:127` makes anew just before the
call; it is TRUE in `priority`, FALSE in `priority_remint`, and either in the proofs.
Ekart in this loop is not modelled: it takes the claim as Lorrigo does, but its
reuse of an earlier booking drops the AWB (`bookShipment.ts:901`), a second create
may be sent (`:1027`), a time-out flags and saves (`:1029`), and the fallback writes no
key (`:1097`). `PartnerCreate` has these steps for the partner route.

**ProviderClient** is one client of a courier, event by event of the Node loop:
`Enter` (`acquireSlot`, `getToken`), the answers `Accepted`, `Refused`, `NoAnswer`,
`Unauthorized`, `UnauthorizedAgain`, `WakeUp` after a back-off, the shared login
(`EnsureAuth`, `LoginIssued`, `LoginArrives`, `LoginFails`), `TokenExpires` and
`Revoke`. A release and the start of the call it wakes are one step, as they are
in Node.

**ShopifyImport** is `handleWebhook` (`Receive`, `ClaimDelivery`, `Duplicate`, the
save, `Answer`, `AnswerFails`, `Undo`, `Die`) and
`performShopifyOrderSyncForUser` (`List`, `Read`, the save), for one order. `Merged`
and `Cancelled` are `mergeShopifyPayloadIntoOrder` and
`applyShopifyCancellationToOrder`; the save (`Update`, `Create`, `ImportFails`) writes
the fields that the merge changed and conflicts only when an array is among
them. `hasLocalShipment` is an AWB or `begun`: a shipment without an AWB, or
Velocity's order id stored before its call. What other modules model in detail
(`Prepare`, `Begin`, `Book`, `CancelShipment`, `Move`) is one step here. One version of
the order in Shopify is one delivery.

The `*Proofs` modules hold the theorems of section 5. The `MC*` modules hold the
constants and symmetries of the runs. Operators that are marked "Mutation" or
are named for a bug (`ReleaseAny`, `TimeoutUnflagged`, ...) are broken variants of
a definition; no specification uses them. Each
property is known to fail when the variant listed under "mutants" in
`PROJECT.json` takes the place of the definition.

## 3. Fairness

Safety runs use none. Five runs check liveness:

* `claim`: a worker's booking ends (every await of it has a time limit) and time
  passes. Nothing is assumed of crashes, of retries or of new requests.
* `shipment`: a booking request goes on after the booking, and the reconciliation
  job runs again and again, as `setInterval` in `server.ts` makes it. Crashes and
  database errors are bounded by `MaxFaults` and never forced; recharges are not
  assumed.
* `sync`: the job's steps (`SyncStep`), one weak fairness for all of them: the
  timer of `server.ts` starts the next batch, and the calls of a batch have time
  limits. Webhooks, users and the courier are free to do nothing; faults are
  bounded by `MaxDisturbances`.
* `http`: every request sent is answered or given up, since `fetchWithTimeout` and
  the logins abort after `requestTimeoutMs`; back-offs are timers. New calls,
  revocations and expiry are not assumed, and not bounded.
* `shopify`: the timer's synchronisation (`setInterval`, `server.ts:336`) lists, reads
  and finishes, and a save it tries again and again is not refused for ever
  (strong fairness of `Save(Timer)`): conflicts and database errors are not
  permanent. Of webhooks nothing is assumed.

All but that last one is weak fairness. No fairness is put on couriers, users or
faults.

## 4. Runs

| Run | Instance and bounds | What it shows |
|---|---|---|
| `claim` | 3 workers, 2 keys, 1 AWB, order ready, to reship or failed; slow bookings, crashes and cancellations | `ClaimExclusion`: two workers book at once only after a rebook reset over a live claim or the theft of a claim that outlived five minutes. `HolderOwnsDocument`, `ClaimIsDated`. `ClaimNotStuck`: a dead worker does not block an order for ever. |
| `ledger` | 3 calls, 2 users, 2 amounts, 1 reference or none, no unique index | `ImplementsAccount`: every history of concurrent transactions is one of indivisible postings. With it `NoOverdraft`, `RunningBalance`; and `AnswerIsTrue`: what a caller is told is so. |
| `lorrigo_any` | 2 workers, 2 AWBs, a cancellation; crashes, lost answers, failing and conflicting saves, stale claims | `LiveIsKnown`: whatever claims are overridden, a live shipment is in the order, in a request about to save it, or was forgotten by a step that can be named. `OneKnownShipment`: while no claim is overridden, there is one such shipment at most. `AwbNotReplaced`: an AWB gives way to another only after an override. `UnsavedIsFlagged`. |
| `shipment` | 2 orders that cost 2 and 4, funds 4, batch 1, one recharge or adjustment, one fault anywhere; no unique index | `ChargeTracked`: no shipment is both uncharged and untracked, save one whose own request was hit by the fault. `ChargedOnce`: the request and the job charge an order once, unless it was cancelled in between or the record of a debit was lost. `ChargedInTheEnd`: while there is money the job charges every tracked shipment, unless a batch full of orders without a shipment stands before it. |
| `shipment_twice` (violation) | 1 order, one lost acknowledgement | "Debit shipping for an order once (idempotent)" (`walletLedger.ts:214`): without the index that was to refuse it, a debit that was committed and reported as failed is made again by the job. |
| `partner` | 2 requests at a time, any number of retries, 2 keys, 2 orders; crashes, failing writes, expired records and one stale record at a time | `ShipmentFoundByReference`: a retry under any key finds the shipment there is, or it went astray by a step that can be named. `ShipmentIsFlagged`: a shipment the courier may have is in its order, about to be, or flagged. `CompletedIsBooked`: what is replayed as a success is one. |
| `joblock` | 2 processes, 3 timers, Redis or Mongo each, TTL 2, clocks at most 1 apart, time up to 6 | `JobExclusion`: a job runs twice at once only without a shared store or when a run outlasted its lease. `MutexNotLeaked`: no path leaves the mutex of a process locked. |
| `sync` | 2 orders, batch 1, users and courier act on one of them; 2 booking attempts, 3 disturbances (webhooks, cancellations, bookings, edits, faults) | `LiveShipmentKept`: a shipment under way leaves its order only by a save over a newer document or a manual cancellation. `DeliveredStays`: late or repeated webhooks do not undo a delivery. `UnbookedIsBookable`: whatever requests met, an order without a shipment can be booked. `SettledInTheEnd`: polling brings the final status, but for the orders its query leaves out. |
| `priority` | 2 requests, lists of the claimed courier and Velocity in either order, 3 AWBs, 4 order ids, made anew before each call (`Reminted`); answers without an AWB, crashes, lost answers, failing and conflicting saves | `EveryShipmentIsKnown`, `OneShipmentPerRequest`: no shipment goes missing, with an AWB or without, and a request makes a second one only after forgetting the first. `UpdatedIsStored`: "updated" is true, but for the named exceptions. `ShippedStatusKept`: no request puts a booked order back, but a preparation made again, or over a shipment of the fallback. |
| `priority_remint` (violation) | 2 requests, Velocity only, undisturbed | "Creates at most one Velocity order_id per ShipAmaze order - never remints on retry" (`velocity.controller.ts:1839`) fails when the first call times out and the retry clears the order. |
| `http` | a read and two creates, 2 slots, 1 retry; revocations and expiry at any time | `SlotsAccounted`: no slot is lost or counted twice. `CreatedOnce`: a create is acted on once. `SecondTryIsAuthorized`: a 401 is followed by a new token. `EveryCallEnds`. |
| `shopify` | 2 versions of the order, 1 webhook request at a time, the timer, 2 AWBs, shipments without one; deaths, failing saves, lost answers, repeated deliveries, preparations, moves to reship, deletion | `HandledOnce`: a delivery that Shopify will not repeat is applied or being applied, and none twice, but after a mishap. `NewShipmentSurvives`: an import takes no shipment it has not seen. `UpToDateAgain`: the order follows Shopify in the end. `CancellationHeard`: a cancelled order without an AWB is junked unless someone books it or moves it to reship first, one with an AWB loses it, unless it is on its way. An order that is in reship hears nothing (section 6). |

Why the bounds are enough to be worth running: every hazard of the claim, the
booking and the partner route is a race of two actors, and a third worker in
`claim` lets a stale release meet a new holder. Two AWBs or two orders are what
it takes to ship twice. Three calls let two debits race while a third posts in
between, and two users show that transactions on other wallets do not interfere.
In `joblock` three timers over six ticks let a lease expire, be taken over, and
the late release meet the lock of the next owner. A stale record matters
until it is deleted, and one at a time meets every request. Requests, workers and retries
are not otherwise bounded: workers and requests start again after they end.

In `sync` the second order is what the busy one keeps waiting, and the third
disturbance is what it takes for a webhook, a cancellation and the job to meet.
Three AWBs let each of two priority requests ship twice. In `shipment` a batch of
one is the smallest that an order without a shipment can fill, and two prices
let the wallet pay one order and not the other. In `http` three calls on
two slots are the fewest of which one waits while another fails. In `shopify` a
second webhook request at a time was checked once for the safety properties (4.9
million states) and is left out of the run; `HandledOnceAlways` covers any number.

Every module has a type invariant. Those of `claim` and `joblock` are checked by
their runs and are theorems. `LedgerTypeOK`, `ClientTypeCorrect`, `SyncTypeCorrect` and
`PriorityTypeCorrect` are theorems too, and the types of `LorrigoBooking`,
`PartnerCreate`, `ShipmentWallet` and `ShopifyImport` are part of the inductive invariants
of section 5.

Deadlock is checked in `claim`, `lorrigo_any`, `partner`, `joblock`, `sync`, `http`
and `shopify`. It is off in `ledger`, where the calls are made once and end, in
`shipment`, where every order may have been charged, and in `priority*`, where the
requests end.

## 5. Proofs

TLAPS checks the following for every value of the constants that the named
assumptions allow. Each module proves an inductive invariant, action by action,
and draws its theorems from it.

* `BookingProofs`, the claim: `TypeCorrect`, `Exclusion`, `HolderIsRecorded`,
  `ClaimsAreDated`. `ClaimExclusion` is not inductive: nothing in it ties a booking
  worker to the document. `IInv` adds `OwnersOnly`: unless a claim was
  overridden, every booking worker is the recorded owner, the flag is set, there
  is no shipment and the document carries its key. Then a second claim would
  need the filter to match a document whose flag is set with a recent date, and
  `ClaimIsDated` excludes the branch for a missing date.
  `ClaimImplementsExclusive` maps every step of the claim to one of `Exclusive` or
  to a stutter. `BookingImplementsExclusive` does so for every step of a booking at
  Lorrigo.
* `BookingProofs`, the booking at Lorrigo: `ShipmentsAreKnown`, `OneShipmentAtMost`,
  `FallbackIsFlagged`, `AwbStays`. `LiveIsKnown` is about the order and the courier;
  what makes it inductive is about the documents that requests hold. `BookInv` adds
  that an AWB is held from the courier's answer to the last write (`StepOK`), that
  a document loaded with the claim showed no shipment, so that saving it writes
  the AWB and both flags and never drops another's status (`LoadedOK`), and that
  a cancellation whose save does not conflict has seen the shipment it clears,
  or the fallback wrote it (`CancelOK`). `HolderBooks` (one worker books, unless a
  claim was overridden) is proved from the claim's own lemmas and gives
  `OneKnownShipment`. `ShipmentsAreExclusive` is the same as a refinement: the courier's
  acceptance is the only step that adds a known shipment, and it is asked by the
  one worker that books, for an order that has none.
* `PartnerCreateProofs`: `ShipmentsAreFlagged`, `ShipmentsAreFound`,
  `CompletedAreBooked`. The release of a reference goes by what was read of the
  order, and is followed by no check; what saves it is that a shipment the courier
  has is booked, flagged, or in the hands of a request that still has the claim.
  `HolderOK` says the last: whoever is between the claim and its last write has
  the claim, alone, on an order that has the reference or is known to be adrift.
  `RequestOK` ties the last steps of a request ("done", or a booking without an
  error) to a booked order. `PartnersBookAlone` follows from `HolderOK` before and after
  a step: who comes to hold an order is alone there.
* `WalletProofs`, the account: `AccountCorrect`, the three properties of the account
  book. `Unbroken` and `NoRepeat` are preserved by `Append` (two lemmas on
  sequences); the rest follows from the guard of `Post`.
* `WalletProofs`, the ledger: `LedgerImplementsAccount`. The inductive invariant
  `LedgerInv` says that a written wallet belongs to one open transaction
  (`OneWriter`), that a current snapshot shows the current, sufficient balance
  (`CurrentSnapshot`), and that a call past its save still holds the document
  (`SavedHolds`). A commit is then a `Post` and every other step a stutter.
  `LedgerNoOverdraft` and `LedgerRunningBalance` follow through the refinement.
  Assumption of the refinement: `0 \notin Amounts`, see section 6. That a reference is
  posted once is not claimed of the ledger: without the index nothing refuses the
  second row. `AnswersAreTrue` (`AnswerIsTrue`): "applied"
  follows the call's own commit, the other answers a call that has written nothing
  that stays, and "duplicate" a row found under the reference; rows are only added.
* `JobLockProofs`: `JobsExclude`, `MutexIsFreed`, `JobLockTypeCorrect`, for any
  TTL, any skew and any number of processes. `JobInv` adds `LeaseHeld`: a run that
  is younger than `TTL - MaxSkew` has its lock in the store, with an expiry no
  thief's clock has passed. `TakeOverNeedsOverrun` is the arithmetic of it.
  `LockImplementsExclusive` (`LeaseIsExclusive`) shows the refinement of `Exclusive`, without
  exception.
* `WalletProofs`, the billing of shipments: `ShipmentsAreTracked`, `ShipmentsChargedOnce`,
  `ShipmentsNeverOverdraw`. Between the debit and the save that follows it, the
  outcome lies in the request or in the job, not in the order, so `ChargeTracked` is
  not inductive. `ShipmentInv` ties the outcome to the account book: what is
  settled is charged, and an order that was pending when it was booked is pending
  or charged since. Clearing the flag of one order leaves the others pending
  (`RemovedOne`, `QueueKeeps`). `ShipmentsChargedOnce` assumes no index. `OnceInv` says of
  an order whose record nobody lost that it is in one pair of hands at a time: its
  request's, the queue's or the job's, and that it is charged while it is still
  pending only between the job's debit and the job's save (`Once`).
* `ProviderClientProofs`: `SlotsAlwaysAccounted`, `CreatedAtMostOnce`,
  `SecondTriesAuthorized`, `ClientTypeCorrect`, for any number of calls, slots and
  retries. The counter of slots is compared with the cardinality of a set, so each
  action needs to know how that set grows or shrinks (`ResumedCalls`, `ReleaseOK`).
  `ClientInv` adds `QueueOK` (the queue holds waiting calls, once each), `BackoffOK` (only
  a call that may retry sleeps), `CreatesOK` (the courier has not acted on a create
  that has not ended), `LoginOK` (a login is under way only without a cached token)
  and `SecondTryOK` (what is refused a second time was revoked meanwhile).
* `ShopifyImportProofs`: `HandledOnceAlways`, from `HandledInv`, which ties the
  receipt and the outcome of a delivery to the handlers at work on it; and
  `ShipmentSurvivesImports`, from `ClearingInv`: a merge that clears a shipment has
  read one (`MergeClears`), and its save asks for the version.

* `StatusSyncProofs`: `SyncTypeCorrect`, `UnbookedStaysBookable`, `LiveShipmentsKept`,
  `DeliveriesStay`, for any orders, AWBs, batch size and number of disturbances.
  Every writer of an order holds a document that it loaded a while ago, so
  `SyncInv` says what those are worth: a request whose save would succeed holds
  the stored order, unless a write without the version came in between
  (`RequestOK`); what the job, a webhook or a cancellation has heard that is final is
  the courier's state (`JobOK`, `HookOK`, `CancelOK`), because the courier reports an end
  only when it has come (`ReportsOK`) and never takes it back. The action properties
  follow from one lemma on all writes of an order (`WritesKnown`).
* `PriorityBookingProofs`: `PriorityInvariant`, `PriorityTypeCorrect`, `NoShipmentUnknown`,
  `OneShipmentEach`, `UpdatedIsTrue`, `StatusStays`, for any number of requests, any
  lists and any number of AWBs and order ids. `PriorityInv` says of each request how
  its document differs from the one it loaded, stage by stage (`DocumentOK`), which
  shipments are its own and what became of them (`MadeApart`, `MadeOK`), what a
  document nobody overtook shows of the stored order (`CurrentOK`), and what a
  request that saw a booked order may rely on (`StoredOK`); of the order, that an
  AWB never stands without the flag and that a flag without an AWB is Velocity's
  shipment, which the order names (`Sound`). Steps are proved by what they leave to
  the other requests (`Alone`, `Remembers`, `OthersKeep`); the steps of a booking with
  a claim, ten of them, by one common effect (`Effect`). The second exception of
  `ShippedStatusKept` came out of the attempt to prove it without: the shipment of
  the fallback overtakes no document, and it takes four requests to see that.
  `PriorityImplementsExclusive` keeps the claim's promise among writers that know
  nothing of it. `HolderInv` adds that such a save writes the claim fields only to
  clear them (`ClaimAsLoaded`, `SaveOverrides`), which is then counted as an override.

Only model-checked: the liveness properties `ClaimNotStuck`, `ChargedInTheEnd`,
`SettledInTheEnd`, `EveryCallEnds`, `UpToDateAgain` and `CancellationHeard`, because fairness
and ENABLED are beyond the prover. Every other property of the passing runs is a
theorem.

## 6. What the models showed besides the findings

These follow from the code and are kept in the models, without a run of their
own.

* The rebook reset (`bookingClaim.ts:53`) is unconditional. When it arrives after
  the other booking is complete, it removes the AWB of a booked order. This is
  why `LiveIsKnown` excludes `wiped` shipments and `OneKnownShipment` overridden
  claims. It also lets a second request take a claim that is alive, if the order
  is rebookable, against "only one worker may book an order at a time"
  (`bookingClaim.ts:2`).
* The recovery after a Lorrigo time-out (`bookShipment.ts:467`) asks for the
  shipment by an order id that a first booking does not have yet; when that
  throws, the claim is released without a flag, and the next click creates a
  second shipment. In the models such a shipment counts as `lost`.
* The fallback (`bookShipment.ts:561`) records the AWB but not the status. If the
  order was to be rebooked, the next request's reset takes that AWB for an old
  one and wipes it.
* An amount that rounds to zero paise passes the checks of `debitWallet`
  (`walletLedger.ts:161`), leaves the wallet unwritten, so that the transaction
  conflicts with nobody, and still adds a row: the running balance may break.
  Therefore the proofs assume that amounts are at least a paisa.
* The reconciliation job decides on documents loaded at its beginning
  (`walletDebitReconciliation.ts:53`): an order cancelled since then is charged.
* `ChargedOnce` rests on the job running once at a time. The exceptions of
  `JobExclusion` (a lease of 60 seconds that nothing renews, a process whose
  database connection is down) are exceptions of it, too: two runs debit the same
  batch. The exceptions it names (`renewed`) are the lost acknowledgement of
  `shipment_twice`, and an order that is cancelled while it is pending and booked
  again: its new request and the job, which holds it from its batch, both debit it.
* The status syncs are meant to mark uncharged shipments: "When status sync
  discovers AWB on a partner order awaiting debit, mark pending"
  (`walletDebitReconciliation.ts:76`). Both select their fields without
  `dropshipperId` and `partnerId` (`lorrigo.statusSync.ts:75`, `ekart.statusSync.ts:230`), so
  the function returns at `walletDebitReconciliation.ts:80`. A shipment whose request
  died before it could mark it (`missed`) is never charged.
* `partnerReferenceId` is released by `$unset`, and the sparse compound index
  (`models/Order.ts:378`) keeps the order under its partner alone. The release of a
  second order of that partner fails, is swallowed, and the reference stays.
* After a connection failure before the request went out, Ekart's create is
  sent again (`bookShipment.ts:1027`). If that answer is lost, the order is neither
  booked nor flagged: `SecondTryLost`, counted under `lost`.
* "so multiple API instances do not run the same job twice"
  (`docs/distributed-locking.md:3`) holds up to the three exceptions of
  `JobExclusion`: no lease is renewed, 60 seconds is the lease of the wallet
  job, and a process whose mongoose connection is down runs without a lock. The
  wallet job would bear it if the unique index existed.
* The reconciliation batch is ordered by `walletDebitFailedAt`
  (`walletDebitReconciliation.ts:37`), and pending orders whose shipment was
  cancelled are skipped untouched (`:54`): as many of them as the batch is long
  keep the others waiting for ever. `Crowded` in `ChargedInTheEnd` is this case; with a
  batch of one, the run reaches it.
* "2+ = reship so Durin gets a new AWB" (`ekart.payload.ts:107`): the tracking id of a
  new attempt is to differ from that of the shipment cancelled before. A tracking id
  that is given wins (`ekart.payload.ts:269`); the booking gives the last one found in
  what the order keeps of earlier answers (`bookShipment.ts:991`,
  `ekart.recover.ts:148`), and a move to reship keeps it. The next booking therefore
  asks for the AWB that was cancelled (`TrackingId` in `StatusSync`), and ends with a
  409 when the duplicate turns out to be cancelled.
* A webhook finds its order by the merchant's reference as well
  (`ekart.webhooks.ts:108`). The reference names the attempt by its `bookingVersion`,
  and since the AWB stays the old one, the two may be of different attempts.
* The reference of an order is released on a reading made before a concurrent
  retry claimed it (`partnerShipmentCreateService.ts:197`). Such orders, `adrift` in
  the model, are booked and no longer found by their reference.
* Velocity's last save (`PriorityBooking.VelocitySaveFails`): after another
  courier's rejection has saved its event, the request's own document is behind,
  the save fails and the request still answers "updated".
* Velocity may answer without an AWB: `shipmentCreated` is set all the same
  (`velocity.controller.ts:1970`), and the shipment is known by Velocity's id alone. A
  preparation that is made again on such an order after a conflict clears that id
  (`dropped`).
* "Never remint when we already have a provider id" (`velocity.controller.ts:1912`): for
  an order id with the prefix shopify-, or a long one that begins neither with SA-
  nor with ORD, `createForwardShipment` makes another just before the call
  (`velocity.service.ts:127`). What is stored before the call is then not what
  Velocity gets, and a time-out leaves a shipment under an id nobody knows.
* A preparation that meets a version conflict is made again on the reloaded
  order (`orderController.ts:2109`), booked or not, and puts its status back.
* An answer 401 for an old token clears the token a newer login brought
  (`providerHttpClient.ts:235`). That costs a login and nothing else.
* The time limit of a request covers the headers; its body is read after the
  timer is cleared (`providerHttpClient.ts:194`, `:244`). The fairness of `http` relies
  on the runtime's own limit for that.
* A Shopify merge that changes no line item saves without the version and may
  write "pending" over a booking made since the order was read. A Shopify
  cancellation clears the shipment's fields and does not cancel at the courier;
  while Shopify says "cancelled", each synchronisation cancels the order again,
  if it was booked again from any status but reship.
* An order in reship never hears that Shopify cancelled it: the merge leaves
  protected orders before it looks at the cancellation (`shopifyOrderSync.ts:346`).
  That holds for one that a user moved there, and the move itself is what the
  cancellation makes of a booked order. In either case "process selected" takes the
  order for a new booking; only the synchronisation that comes between its
  preparation and its booking cancels it again. An order in junk can be taken in
  the same way.
* A delivery repeated while its first request is at work is answered as a
  duplicate with 200 (`shopifyController.ts:983`), although that request may fail
  yet. A junk order that was deleted for good comes back with the next
  synchronisation, because Shopify still lists it.
* A partly fulfilled Shopify order is "in-transit" without a shipment
  (`shopifyOrderSync.ts:83`), and a later cancellation in Shopify is then ignored as one
  that came too late (`:228`).

## 7. What is left

1. The safety part of the liveness arguments: for each of the six properties, that
   the state it waits in is left only for the better, step by step.
2. `ShipmentWallet` as an implementation of an abstract bill (an order is unbooked,
   owed or charged), and `ShopifyImport` as one of a mirror of the shop's order.
3. The instances of two jobs at once: `StatusSync` under the exceptions of
   `JobLock`.
4. Ekart in the priority loop: the steps that differ from Lorrigo's (section 2).
5. Partner rate limits and COD remittance, which are small.
