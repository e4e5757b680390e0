# Verification of the booking platform

TLA+ models of the backend under `src/apps/backend`, a NestJS application over
Postgres (through Prisma) and Redis in which customers hold, confirm, pay for,
move and cancel appointments. Several requests are in progress at once, on one
or more server processes, and most handlers read a row, wait, and write it back
by id. What can go wrong lies between two awaits; that is the granularity of
the models.

## The system

| Component | State | Operations | Correct when |
|---|---|---|---|
| Slot lock (`common/redis/redis-lock.service.ts`) | keys with a token and a ttl in Redis | `acquire`, `release`, `withLock` | one request per key inside `withLock`; no key stays for ever |
| Bookings (`modules/booking/booking.service.ts`) | `Booking` rows: status, lane (branch and staff member), interval, hold expiry, group | `hold`, `confirm`, `confirmGroup`, `cancelBy*`, `reschedule`, `createRecurring`, `updateStatus`, `releaseExpiredHolds` | no two active bookings of a lane overlap; statuses follow the matrix; holds end |
| Hold cleanup (`booking-cleanup.service.ts`) | none | cron, every minute | expired holds are given back |
| Availability (`modules/booking/availability.service.ts`) | none (reads hours, holidays, bookings) | `getFreeSlots` | offers exactly the free part of the grid |
| Payments (`modules/payment`) | `Payment` rows | `initiate`, `payFromWallet`, `payFromGateway`, `handleCallback`, `refund` | every amount taken is recorded once and refunded at most once |
| Wallet (`modules/wallet`) | balances and `WalletTransaction` rows | `topup`, `getMine` | the balance is the sum of the transactions |
| Payment gateway (`common/payment-gateway`) | sessions in process memory | `createSession`, `verify` | a session is verified at most once |
| Coupons | `Coupon.usageCount`, `CouponUsage` | `checkAndRedeem`, `create`, `update` | usage limit, one use per user |
| Loyalty, Referral | points and tier; referral status | `earnFromPurchase`, `addPoints`, `rewardIfEligible`, `registerReferral` | points are the sum of the transactions; one reward per referral |
| OTP, Authentication | codes with attempts; users; refresh tokens | `requestOtp`, `verifyOtp`, register, login, reset, refresh, logout, revoke, delete | a code is used once; a token is rotated once; revoked means revoked |
| Settlement | `Settlement` rows | `runForBusiness`, `runBatch` | a payment of a period is in its settlement and in no other |
| Working hours, Directory | hours, holidays; businesses, branches, staff, services | `setWorkingHours`, `addHoliday`, approve, suspend, invite, assign, ... | bookings are made in a valid context |
| Guards (`BusinessRoleGuard`, `JwtStrategy`) | none of their own | let a request in or refuse it | only who may change a business does |
| Discovery, Infrastructure, Frontend | none of their own | queries, wiring, a page | not modelled |

How they interact: `hold` and `reschedule` run one database transaction inside
`withLock`; `reschedule` first asks Availability; `hold` redeems coupons in its
transaction; `confirm` and PaymentService end in the same status update and
call `awardPostPurchaseRewards` (loyalty and referral) in their transaction;
the cron job and all requests share the `Booking` table; the gateway calls back,
possibly several times. A hold reads the directory before it books
(`loadAndValidateContext`), the guards read it before a handler runs, and a
settlement reads the approved businesses and their payments. A registration
verifies a code, creates the user, the wallet and the loyalty account, registers
the referral and issues tokens, each in a query of its own. The database works at READ COMMITTED, so a transaction
isolates nothing but its own uncommitted writes, and an update takes a row lock
until commit.

`PROJECT.json` lists the hazards at their lines, with the properties that cover
them or the reason why none does yet.

## Modules

| Module | Models |
|---|---|
| `SlotMutex` | the abstract lock: at most one request inside per key |
| `RedisLock` | `RedisLockService` as `hold` and `reschedule` use it: SET NX PX, transaction, compare-and-delete, expiry, crash |
| `RedisLockProofs` | theorems about `RedisLock`, including that it implements `SlotMutex` |
| `Availability` | `AvailabilityService` as pure operators over its tables |
| `Bookings` | `BookingService`, the cron job, and the steps of PaymentService that confirm a booking (extends `Availability`) |
| `MCBookings` | instances of `Bookings` for TLC |
| `BookingsProofs` | theorems about `Bookings` |
| `Payments` | `PaymentService`, `WalletService`, `MockPaymentGateway`, and what BookingService does to a booking that is paid for |
| `MCPayments` | an instance of `Payments` for TLC |
| `PaymentsProofs` | theorems about `Payments` |
| `Sessions` | `AuthService`, `OtpService`, `UsersService`: registration, login, codes, refresh tokens, deletion |
| `SessionsProofs` | theorems about `Sessions` |
| `MCSessions` | the symmetry of the instance of `Sessions` |
| `Checkout` | `CouponService`, the price and deposit of a hold, confirm's second look at the service, the other changes of a booking's status, edits of coupons and services |
| `CheckoutProofs` | theorems about `Checkout` |
| `MCCheckout` | an instance of `Checkout` for TLC |
| `Rewards` | `LoyaltyService` and `ReferralService` in the transaction of a purchase, with its row locks |
| `RewardsProofs` | theorems about `Rewards` |
| `Directory` | businesses, members, branches, services, hours and holidays behind `BusinessRoleGuard`, and the hold that reads them |
| `DirectoryProofs` | theorems about `Directory` |
| `Settlement` | `SettlementService` over the directory and over payments that change (extends `Directory`) |
| `SettlementProofs` | theorems about `Settlement` |
| `MCDirectory` | an instance of `Settlement`, and of the `Directory` in it, for TLC |

Definitions named `...Unchecked`, `...Late` and so on and marked *mutant* are
plausible bugs. They are used nowhere; `PROJECT.json` names the property that
each of them breaks when it replaces the definition it mutates.

### RedisLock

`store` is the Redis key space, `client` the request's place in `withLock`:
`idle`, `granted` (SET answered OK), `tx` (inside the transaction), `releasing`
(in the `finally` block). Redis drops a key when its ttl runs out, whatever its
owner is doing. Exclusion is therefore a matter of real time, and the module
states the bound it needs, `TimeBounds`: the time from SET to the start of the
transaction plus the transaction's timeout is below the ttl. In the code the
ttl is 10 s (`redis-lock.service.ts:26`) and Prisma's defaults, which nothing
in the repository overrides, are 2 s to obtain a connection and 5 s of
transaction, so `EntryBound` leaves 3 s for the reply of the SET. A client may
linger in `releasing` for any time and may crash anywhere.

### Availability and Bookings

Time is in ticks. A lane is a branch with a staff member or none. Each request
has a `pc` and locals (`req`); an action is the code between two awaits that
touch shared state:

* `hold`: `BeginHold`, `Acquire`, `AssertSlotFree`, `PlaceHold` (or `AbortTx`), `Unlock`;
* `reschedule`: `ReadReschedule`, `FindFreeSlot`, `Acquire`, `AssertSlotFree`, `PlaceMove` (or `AbortTx`), `Unlock`;
* `createRecurring`: `BeginRecurring`, `CheckOccurrence` for each session, `CommitRecurring` (or `AbortRecurring`);
* `confirm`: `ReadConfirm`, then `WriteExpire` or `WriteConfirm`; `confirmGroup`: `ReadGroup`, `NextInGroup` in a loop;
* `cancel*`: `ReadCancel`, `WriteStatus`; `updateStatus`: `ReadUpdateStatus`, `WriteStatus`;
* a payment: `ReadPayment`, `WritePayment`;
* `Fail` ends any handler, and leaves its lock behind; `ReleaseExpiredHolds` is the cron job.

The lock appears here as what RedisLock proves of it: a key belongs to one
request at a time, `ExpireLock` never takes the key of a request inside its
transaction (`OwnerHasTime`), and always may take that of a dead one
(`LockIsReleased`). `findFirst` over several working-hours rows of a day is a
free choice. The rows in `Earlier` stand for bookings made before.

Four history variables, which no action reads, record why something happened:
`since` (rows others wrote since a request's last read), `unseen` (rows written
between a booking's check and its commit), `revived` (active again after being
inactive) and `locked` (placed under the lock of its slot).

### Payments

`payments`, `wallet`, `booking`, `session` and `req` as in the code; the
`WalletTransaction` table is kept as the sum per user and the number of top-up
and refund rows per payment. `Callback`, `Verify`, `Settle` and the three
commits are `handleCallback`; `RowFree` is the row lock that the transaction's
first update takes on the payment. `Restart` loses all requests and the
gateway's sessions, `Fail` one request. `CallbackUnnamed` is a callback without
a reference, for which Prisma drops the condition and `findFirst` returns some
payment of the gateway, and which verify refuses. `ReadHold` and `Confirm` are
BookingService's `confirm`, which rewards a purchase that needs no payment;
`WriteBooking` is what else writes a booking's status (`updateStatus`, the
cancellations, the cron job), and rewards nobody. History: `paid`, `dropped`,
`contested`, `copaid` (bookings that two handlers were about to confirm at
once), `stale`, `raced`.

### Sessions

A phone number stands for the account registered under it. Each endpoint is a
request with a place in its handler: `RequestOtp`, `CheckCooldown`, `CreateOtp`
for a code; `BeginVerify`, `VerifyOtp`, then `WrongCode` or `ConsumeOtp`, and
after a right code `CheckNew`, `CreateUser`, `CreateWallet`, `CreateLoyalty`
(registration), `IssueTokenPair` (login) or the new password and the revocation
(reset); `RefreshTokens`, `ReadOwner`, `Rotate`, `IssueTokenPair` for a refresh.
No step is in a transaction, so `Fail` leaves what was written so far. Codes and
passwords are right or wrong, hashes and signatures are left out. Of the profile
the model has the address, which is optional, and whether the row holds a name
(and perhaps a picture), `named`; the phone number is what identifies the row. A request is
handled once, and the system may stop when all are done.

History: `epoch` counts how often an account's sessions were called off (reset of
the password, deletion) and `born` the epoch of the credentials a token comes
from; `tried` counts the comparisons with a code, `accepted` its acceptances and
`lost` the handlers that failed after the comparison and before they wrote its
outcome; `codeRivals` and `tokenRivals` count the handlers that read a code or a
token another one had read and not written yet; `overtaken`, `escaped`, `kept`
and `broken` name handlers that a deletion or revocation overtook, the tokens and
profiles they wrote, and the accounts whose handler failed half way.

### Checkout

`hold` from `loadAndValidateContext` on: `BeginHold` reads the service before the
transaction, `CheckCoupon`, `CheckUsage`, `Redeem` and `PlaceHold` are the
transaction. Its reads return what is committed, its writes appear at the commit,
and the update of the coupon's counter locks the row until then (`RowLocked`).
`ReadConfirm`, `ReadService`, `WriteConfirm` are `confirm`, which asks the service
and not the booking whether a deposit is due. `ReadStatus` and `WriteStatus` are
`updateStatus`, the cancellations and a payment from the wallet, which write by id
what the status they read allowed; `PayDeposit` is the gateway's callback, `Expire`
the cron job. Prices, amounts and percentages are in hundredths, as in the columns;
`Round` is `Math.round`, used for discounts, which are whole toman, and for
deposits, which `round2` rounds to hundredths, so that a small one becomes 0.
Doubles are taken to be exact. A cancelled hold keeps its coupon, as in the code.
History: `rivals`, `lowered`, `edited`, `settled` (bookings that were paid, or
confirmed by the business itself).

### Rewards

`BeginPurchase` is `awardPostPurchaseRewards`, `ReadPoints` and `WritePoints` the
two halves of `addPoints`, `ReadReferral` and `Commit` are `rewardIfEligible` and
the end of the transaction. Writes stay in the transaction (`mine`, `added`) until
the commit and lock their account (`Holds`, `WaitsFor`); `DeadlockVictim` is
Postgres ending a cycle. The upsert with an empty update is taken not to lock,
which only allows more behaviours. A referral code is the id of a user who is
there when the form is sent. History: `raced`, `rewarded`, `rivals`.

### Directory and Settlement

A request names a business, an operation and a target (a branch or a member).
`Guard` is `BusinessRoleGuard`; what follows is the handler, one step per await:
policy, branch, service, invitation (`CheckInvite`, `AddMember`), `Deactivate`,
`AddHoliday`, `setWorkingHours` (`DeleteHours`, `InsertHours`). A hold is
`ReadContext`, `ReadStaff`, `Place`. A business under review, rejected or
suspended is `CLOSED`, because no guard tells the three apart. `hours` keeps, for
every target, the PUTs its rows come from. A PUT that deletes rows another one is
deleting waits for it; that orders their commits and allows nothing else, so it is
not modelled. `overtaken` is the history: requests whose facts changed after they
were read.

Settlement adds clerks: `RunBatch`, `ReadPayments` and `CreateSettlement` for each
business, `EndBatch` at the end or at a failure, which keeps what was settled. A
settlement is kept by clerk and business, with what was read for it and when, so
that a run may be repeated by another clerk, at any time and for any period. Meanwhile a clock runs and payments are
made, from the wallet (`PayFromWallet`, successful at once) or through the gateway
(`PayFromGateway`), succeed, fail and are refunded (`Succeed`, `RejectPayment`,
`Refund`), the last two over whatever the row says by then, as in Payments. Both
ends of the period are included and `createdAt` is the time of initiation, so a
payment may succeed after its period was settled. Amounts and percentages are in
hundredths, and the commission is rounded to whole toman.

## Runs

| Run | Instance | Shows |
|---|---|---|
| `redis_lock` | 3 clients, 1 key, ttl 4 against bounds 1 + 2, the smallest margin | exclusion, ownership with time to spare, refinement of `SlotMutex`, every key is given up |
| `bookings_safety` | 3 requests, 3 bookings, 1 lane, starts 1, 2, 3 with duration 2, groups of 2, one earlier PENDING booking or none | see below |
| `bookings_live` | 2 requests, 2 bookings, hold ttl 1, fair | holds expire, locks are freed |
| `payments_safety` | 2 requests, 2 payments, 1 user with or without a wallet, 1 booking | see below |
| `sessions` | 3 requests, 1 phone, 2 codes, 2 tokens, 1 attempt, clock 0..2 with all lifetimes 1 | see below |
| `checkout` | 3 requests, 2 users, 1 coupon, 2 bookings; a percentage with limit 1 or a fixed discount of 3.60, rounded to 4 and above the price; services of 2.00 without a deposit, of 3.00 with one of no percentage (after an update) and of 1.30 with 1 %, which rounds to nothing after the discount | see below |
| `rewards` | 2 users, 3 purchases worth 0 or 1 point, reward 2, tiers at 2 and 4, fair | see below |
| `directory` | 2 users and an administrator, 2 businesses of which one is there at first, 2 policies; in one half 3 requests, in the other 2 clerks, a payment of 0.60, instants 1, 2, 3, the periods 1..1 and 2..3 and a commission of 90 % | see below |
| `no_double_booking`, `status_follows_matrix`, `callback_idempotent`, `personal_data_erased` | as above, `no_double_booking` without earlier bookings | counterexamples, see Findings |

`bookings_safety`: the slot lock makes bookings of one slot exclusive
(`SameSlotExclusive`); every double booking comes from a row written between
check and commit or from a revived booking (`DoubleBookingNeedsRace`: the
overlap test, the active statuses and the exception for the booking being moved
are right); every forbidden status change comes from an old read
(`IllegalTransitionNeedsStaleRead`).

`payments_safety`: a top-up is credited at most once whatever is duplicated or
restarted (`CreditedOnce`); money the gateway took is recorded unless the
handler died after verify or two handlers overlapped (`PaidIsRecorded`);
balances drift and refunds double only through the overlaps that the history
variables name (`DriftNeedsRace`, `DoubleRefundNeedsRace`); a purchase is rewarded
twice only if two handlers that complete it, confirms, wallet payments or
callbacks, were at work on the booking at once (`DoubleAwardNeedsRace`).

`sessions`: a code is accepted once, but for the handlers that had read it
together (`CodeUsedOnce`), and compared with what is sent in as often as allowed,
but for those and for handlers that failed before they counted
(`AttemptsBounded`); the same
of the rotation of a token (`RotatedOnce`); after a reset or a deletion no token
of before is valid, except those that a handler under way
issues and those of a handler that failed before the revocation (`NoSurvivors`);
the address of a deleted account stays erased unless an `updateProfile` was under
way (`EmailStaysErased`); a registration is complete unless it failed half way
(`RegistrationComplete`).

`checkout`: coupon, usage and booking agree at every commit whatever is rolled
back (`UsageMatchesBookings`); the limit is exceeded only by holds that checked
together, or when it was lowered (`LimitKept`); discount and deposit stay within
the price (`DiscountWithinPrice`); unless the service was edited in between, what
waits for a deposit can be paid, except where less than half a toman was left to
pay, and what is confirmed owes nothing, was paid, or was confirmed by the business
(`StatusFitsDeposit`).

`rewards`: points and tier are those of the transactions unless purchases raced,
and a race only loses points (`PointsMatchLedger`); a referral is paid once, and
again only to a purchase that found it PENDING meanwhile (`RewardPaidOnce`);
every cycle of purchases that wait for each other consists of pairs, in each of
which one referee makes both and each waits for the other
(`CyclesHaveOneBuyer`); every purchase ends (`PurchasesEnd`).

`directory`: a target's hours come from one PUT unless two overlapped
(`HoursFromOnePut`); who manages a business may, or was deactivated since the
guard, and the owner stays an active owner (`OnlyMembersManage`); what is booked
was bookable when it was read (`BookedInContext`). Of settlements
(`SettledByPeriod`): nothing stops a run from being repeated, so a
payment may be settled twice, but only for its own business and for periods that
overlap; a successful payment that the settlement of its period lacks was confirmed
no earlier than the run read the payments; and the rounded commission costs a
business at most half a toman more than the payments brought.

Bounds. Starts 1, 2, 3 with duration 2 contain equal, overlapping and adjacent
intervals. Three requests are needed for a revival (one reads, one cancels, one
takes the slot), and each request is handled once, so that behaviours are
finite. The clock stops at `Horizon`, after which every start counts as past;
holds expire from there too. Two handlers at once are enough for every race in
Payments, whose requests are reused; the two payment rows bound it. In Sessions two
requests race for a code or a token and a third deletes, resets or revokes; with
one phone the conflicts over an address are not reached, and nothing but the
uniqueness of the address depends on them. In Checkout two holds race for the
last use while a third request confirms. In Rewards the third purchase is what
lets two of them overlap before or after another. With two users the referrals
have one edge; longer chains add waiting, of which the run says nothing and the
theorem `OnlyPairsDeadlock` does. In
`directory` the requests and the clerks are in two halves, because their product
is too large and they share only the status of a business, which changes in both.
The periods touch without sharing an instant, the second is not over when it may be
settled, and the payment is below the commission's rounding; one payment is enough
because the property relates no payment to another, and `SettlementsByPeriod` has
any number. Symmetry is
used for safety only.

Fairness. A handler in progress goes on (`Proceed`: event loop and database
serve it; Prisma's timeouts end a transaction), Redis expires keys, the cron
job runs every minute, time passes. In Rewards each open purchase goes on when
the database answers, and Postgres's deadlock detector ends one of a cycle; no
purchase is obliged to begin. No request is obliged to arrive, and no
client to release its key.

## Findings

* **Double booking** (`no_double_booking`). The lock key contains the exact
  start, so a hold at 1 and one at 2 do not exclude each other, both find the
  lane free and both commit. `schema.prisma` (l. 329) and `architecture.md`
  (principle 2) claim that this cannot happen. The other ways to a double booking,
  recurring bookings without a lock and a late write that revives a cancelled one,
  are in what `DoubleBookingNeedsRace` admits.
* **Status matrix** (`status_follows_matrix`). Checked on the row read earlier,
  written by id.
* **Callback** (`callback_idempotent`). The failed verify of a duplicate
  callback overwrites SUCCESS with FAILED.
* **Personal data** (`personal_data_erased`). The comment on
  `requestAccountDeletion` (`users.service.ts`, l. 64) says that what identifies
  the person is erased; the update clears the address and leaves `fullName`,
  `phone` and `avatarUrl`.

Seen in the code, with no run of its own: `HoldBookingDto` (l. 17) says that a
start is one of the free slots and that the server validates it again, and `hold`
checks overlaps only. The model lets `hold` book any start for that reason.

## Proofs

`RedisLockProofs`, for any clients, keys, tokens and bounds with `TimeBounds`.
Mutual exclusion alone is not inductive: the state must say that whoever is
inside owns the key and will leave before the ttl runs out. The invariant
`LockInv` joins the types, `KeyKnown`, `TokensDistinct` and `OwnerHasTime`; two
requests inside one key would own the same token. Theorems: `TypeCorrect`,
`OwnersHaveTime`, `Exclusion`, and `Refinement` (every step enters or leaves
one section of `SlotMutex`, or stutters).

`BookingsProofs`, for any requests, lanes, bookings, times and durations above
0. `BookingInv` joins the types, the shape of rows and locals, `HoldsKey` (a
request inside its transaction owns the lock of its slot) and `SlotReserved`
(one that has passed its check has the slot for itself among locked, unrevived
bookings: whoever else writes that slot needs the lock or revives). Theorems:
`BookingTypes`, `SlotsExclusive`. `FreshInv` adds what a request still knows
without a lock: of every row that is not in `since`, the status it has read is
the present one (`StatusSeen`), and once its check has passed no such row is
active and overlaps the interval it is about to write (`SlotSeen`, and
`OccurSeen` for each session of `createRecurring`). A row that it then commits
beside an overlapping one has that one in `unseen`, which is
`DoubleBookingsAreRaces`; a status that it writes against the matrix is one it
has not seen, which is `ForbiddenMovesAreStale`, an action property. All rest
on `TimeAssumption`, `EarlierAssumption` and `SentinelAssumption`.

`PaymentsProofs`, for any requests, users, payments, bookings and amounts, from
`MoneyAssumption` and `NoneAssumption`. The invariant has five layers, each
proved from the ones it needs. `Shape` holds the types and what a request has
in its locals at each place (`MoneyTypes`). `Credits` follows a payment's
session: one request opens it, before the ref is stored and so before any
callback finds the payment; verify uses it up, so one handler at most ever
settles, and that one credits (`TopupCreditedOnce`). `Balances` adds that a
request which is not stale has the current balance in its locals
(`OnlyRacesDrift`). `Handlers` says that an uncontested payment has one handler
at most and that it has seen the current status (`OnlyRacesRefundTwice`,
`PaidPaymentsRecorded`). `Awards` says the same of the handlers that complete a
purchase: unless two of them met, one at most is at work on the booking, and a
booking that is HOLD or PENDING, or about to be confirmed, has not been rewarded
(`OnlyRacesAwardTwice`).

`CheckoutProofs`, for any requests, users, coupons, bookings, terms and offers,
from `TermsAssumption` and `NothingAssumption`. `Shape` holds the types and the
locals at each place, with a discount that never exceeds the price and a deposit
that never exceeds the rest, for which `RoundBounds` brackets a rounded quotient
(`CheckoutTypes`, `DiscountsBounded`). `Usages` says that a counter, the usages
and the bookings agree because a transaction between `Redeem` and its commit has
the coupon's row to itself (`RedemptionAtomic`). `Limits` counts: uses and
transactions past the check are together at most the limit and the rivals
(`LimitsHold`). `Deposits` follows what confirm has read of the service to what
it writes: an unedited hold has the deposit of the service's present terms, which
is 0 only where none is required or the rest is below half a toman
(`ConfirmFitsHold`).

`SessionsProofs`, for any requests, phones, addresses, codes, tokens and time
limits, from `ClockAssumption` and `NullAssumption`. `CodeUsedOnce`,
`AttemptsBounded` and `RotatedOnce` are not inductive: what may still happen to
a code or a token has to be counted with what has happened. `Codes` and
`Refreshes` say that the acceptances (attempts, rotations) and the handlers that
have read it and not written yet are together at most the limit and the
rivals, and that every comparison with a code is an attempt counted, an acceptance,
a handler that has not written yet or one that was lost
(`CodesAcceptedOnce`, `AttemptsLimited`, `TokensRotatedOnce`).
`Survivors` says that a handler which may still issue a token of an earlier
epoch is overtaken, exchanges a token that had escaped, or acts for an account
whose revocation has failed or is still to come (`SessionsCalledOff`). `Erased` says that a
profile about to be written to a deleted account belongs to an overtaken handler
(`EmailErased`). `SessionTypes` and `RegistrationCompletes` need `Shape` only.

`RewardsProofs`, for any users and any finite set of purchases, all amounts,
rates and thresholds, from `RewardsAssumption`. `Ledger` says that an account's
row is locked by one transaction at most, and that what a purchase has read and
written of an account is at most what the transactions add up to, and as much if
nobody raced for the account (`PointsNeverMade`); `Paid` counts the
rewards paid and about to be paid of a referral against the handlers that found
it PENDING together (`ReferralPaidOnce`). `Order` is for the cycles: users can
be numbered so that a referrer has a smaller number than who registers with the
code, and each place of the transaction says which accounts it has locked and
which it locks next. In a cycle every purchase waits for another and is waited
for, and since it waits for one account, which one transaction holds, "waits
for" is a function of the cycle onto itself and, the cycle being finite, one to
one. Numbers go down along an edge from a buyer to the referrer, so an edge that
comes back is between purchases of one buyer, and each of them waits for the
other (`OnlyPairsDeadlock`). An earlier form of `CyclesHaveOneBuyer`, that all
purchases of a cycle have one buyer, cannot be proved: two disjoint pairs are
together a cycle in the sense of `Cycle`, which needs four purchases and four
users, more than the run has. The property now speaks of pairs.

`DirectoryProofs`, for any requests, users, businesses and policies, from
`DirectoryAssumption`. The invariant says what a request that is not overtaken
may rely on: its caller still has the role that the guard read (`Guarded`), the
business and the member that `loadAndValidateContext` read are still approved,
under the same policy and active (`InContext`), the rows that its PUT deletes are
all there are (`Replacing`); and every business has an active owner (`Owned`).
Theorems: `DirectoryTypes`, `HoursReplaced`, and the action properties
`ManagersOnly` and `HoldsInContext`.

`SettlementProofs`, for any clerks, businesses, periods, percentages and any
finite set of payments, from `SettlementAssumption`. `SettledByPeriod` looks at
the payments as they are now, and is not inductive: it needs that
`callbackVerifiedAt` is never later than the clock and set whenever a payment is
SUCCESS (`Timed`), since a payment that has left SUCCESS does not come back. Then
what a clerk has read at some instant says, from then on, which payments of the
period had been confirmed by that instant (`Known`), and this carries over from the
clerk (`AtWork`) to the settlement (`OnFile`); that a payment has one creation time
makes the periods of two settlements overlap. `SettlementsByPeriod` joins this with
the rounding of the commission (`Rounding`), which needs that the sum of the
payments is a natural number. The library defines it by a recursive
function on subsets, of which the proof shows that it exists (`SumsExist`, from
solutions on smaller sets, which agree by `SumsAgree`) and what its values are
(`SumsNat`), each by looking at a smallest set for which it would fail
(`Smallest`): the induction principles of the library take an operator, which the
provers cannot instantiate, but its theorem on least elements takes a set.

Every safety property
that a run checks, invariants and action properties, is stated by a theorem.
Only model-checked: the liveness properties (`LockIsReleased`, `HoldsExpire`,
`SlotLocksFreed`, `PurchasesEnd`), which are out of the
prover's reach, and the counterexamples of the Findings.

## Not modelled

* Cancellation fees, list queries, logging, audit entries and messages.
* The writes of `assignStaff` and `unassignStaff`: of their rows (`ServiceStaff`) only
  `getFreeSlots` takes notice, where they are the constant `Assigned`; `hold` does
  not read them.
* Documents, names and descriptions of businesses, which no code decides on.
* Refused requests that change nothing, where the refusal comes first.
* Discovery (read-only search), Infrastructure (wiring, I/O, hashing) and the
  Frontend (a placeholder page).
* Availability has no state; its operators are used in Bookings and are not
  compared with a definition of their own yet. A booking that crosses midnight
  is therefore a hazard without a property.
* The hazards without a property are in `PROJECT.json`, with the reason for each.

## Plan

1. `Bookings` over `RedisLock` in one specification, in place of the facts used
   here, and the steps of `Bookings` as those of `SlotMutex`.
2. `Availability` against a reference definition of the free grid, with bookings
   across midnight and two rows of hours in a day; lemmas about the overlap test
   and the grid for every input.
3. Refinements of the theorems: the abstract ledger that `Payments` implements
   for wallets no handler raced for.
