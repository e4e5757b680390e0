----------------------------- MODULE Checkout -----------------------------
(***************************************************************************)
(* What a booking costs: CouponService (modules/coupon), the part of       *)
(* BookingService.hold that redeems a coupon and fixes the deposit, the    *)
(* part of confirm that decides whether the deposit is due, what else      *)
(* changes a booking's status, and the edits of coupons and services       *)
(* (modules/service) that happen meanwhile.                                *)
(*                                                                         *)
(* Requests are processes, as in Bookings.  hold works in a transaction:   *)
(* its reads return what is committed, its writes appear at commit, and    *)
(* the update of the coupon's counter locks the row until then.  Slots and *)
(* their locks are in Bookings, payments in Payments.  A coupon is         *)
(* identified by its code (unique); isActive, the dates and the business   *)
(* it is good for are one flag, live.  Money is in hundredths of a toman   *)
(* and percentages in hundredths, as the columns are decimals of two       *)
(* places; discounts are rounded to whole toman and deposits (round2) to   *)
(* hundredths.  Doubles are taken to be exact.                             *)
(***************************************************************************)
EXTENDS Integers, FiniteSets

CONSTANTS
    Requests, Users, Coupons, BookingIds,
    Terms,          \* [type, value, minPurchase, usageLimit] of a coupon; 0: none
    Offers,         \* [price, requiresDeposit, depositPercent] of the service; 0: null
    NoCoupon, NoUser, NoBooking

ASSUME TermsAssumption ==
    /\ Terms \subseteq [type : {"PERCENTAGE", "FIXED_AMOUNT"}, value : Nat,
                        minPurchase : Nat, usageLimit : Nat]
    /\ Offers \subseteq [price : Nat, requiresDeposit : BOOLEAN, depositPercent : Nat]
    /\ \A offer \in Offers : \/ offer.depositPercent = 0
                             \/ 100 <= offer.depositPercent /\ offer.depositPercent <= 10000

ASSUME NothingAssumption ==
    NoCoupon \notin Coupons /\ NoUser \notin Users /\ NoBooking \notin BookingIds

VARIABLES
    coupon,     \* the Coupon table: terms, live, usageCount
    usage,      \* CouponUsage: the booking for which a user redeemed a coupon
    service,    \* the service that is booked
    booking,    \* the Booking table, as far as prices go
    req,        \* every request's place in its handler, and its locals
    \* History, read by no action:
    rivals,     \* checks of a coupon made while another redemption was under way
    lowered,    \* coupons whose limit was lowered
    edited,     \* bookings held or being confirmed when the service was edited, placed
                \* at old terms, or at those of a deposit of no percent
    settled     \* bookings that were paid, or confirmed by the business itself

history == <<rivals, lowered, edited, settled>>
vars    == <<coupon, usage, service, booking, req, history>>

NoTerms == [type |-> "NONE", value |-> 0, minPurchase |-> 0, usageLimit |-> 0]
Unissued == [terms |-> NoTerms, live |-> FALSE, usageCount |-> 0]

NoRow == [status |-> "NONE", user |-> NoUser, coupon |-> NoCoupon,
          price |-> 0, discount |-> 0, deposit |-> 0]

NoOffer == [price |-> 0, requiresDeposit |-> FALSE, depositPercent |-> 0]

Idle == [pc |-> "idle", user |-> NoUser, coupon |-> NoCoupon, booking |-> NoBooking,
         offer |-> NoOffer, discount |-> 0, status |-> "NONE"]
Done == [Idle EXCEPT !.pc = "done"]

\* ServiceCatalogService.create: who asks for a deposit names the percentage.
Valid(offer) == offer.requiresDeposit => offer.depositPercent > 0

Init ==
    /\ coupon = [c \in Coupons |-> Unissued]
    /\ usage = [c \in Coupons |-> [u \in Users |-> NoBooking]]
    /\ service \in {offer \in Offers : Valid(offer)}
    /\ booking = [b \in BookingIds |-> NoRow]
    /\ req = [q \in Requests |-> Idle]
    /\ rivals = [c \in Coupons |-> 0]
    /\ lowered = {} /\ edited = {} /\ settled = {}

Goto(q, pc) == req' = [req EXCEPT ![q].pc = pc]

Finish(q) == req' = [req EXCEPT ![q] = Done]

---------------------------------------------------------------------------
(* checkAndCompute *)

\* Math.round of n / d.
Round(n, d) == (2 * n + d) \div (2 * d)

RawDiscount(terms, price) ==
    100 * IF terms.type = "PERCENTAGE" THEN Round(price * terms.value, 1000000)
          ELSE Round(terms.value, 100)

DiscountUncapped(terms, price) ==   \* mutant: no Math.min
    RawDiscount(terms, price)

Discount(terms, price) ==
    LET raw == RawDiscount(terms, price) IN IF raw < price THEN raw ELSE price

ExhaustedLate(c) ==                 \* mutant: > for >=
    LET limit == coupon[c].terms.usageLimit IN limit > 0 /\ coupon[c].usageCount > limit

Exhausted(c) ==
    LET limit == coupon[c].terms.usageLimit IN limit > 0 /\ coupon[c].usageCount >= limit

Redeemable(c, price) ==
    /\ coupon[c].live
    /\ price >= coupon[c].terms.minPurchase
    /\ ~Exhausted(c)

---------------------------------------------------------------------------
(* hold, from loadAndValidateContext on *)

\* The service is read before the transaction.
BeginHold(q, u, c) ==
    /\ req[q].pc = "idle"
    /\ req' = [req EXCEPT ![q] = [Idle EXCEPT !.pc = IF c = NoCoupon THEN "book" ELSE "check",
                                    !.user = u, !.coupon = c, !.offer = service]]
    /\ UNCHANGED <<coupon, usage, service, booking, history>>

\* checkAndRedeem: the coupon is read ...
CheckCoupon(q) ==
    LET r == req[q] IN
    /\ r.pc = "check"
    /\ IF Redeemable(r.coupon, r.offer.price)
       THEN /\ req' = [req EXCEPT ![q].pc = "used",
                         ![q].discount = Discount(coupon[r.coupon].terms, r.offer.price)]
            /\ rivals' = IF \E s \in Requests : /\ req[s].coupon = r.coupon
                                                /\ req[s].pc \in {"used", "redeem", "book"}
                         THEN [rivals EXCEPT ![r.coupon] = @ + 1] ELSE rivals
       ELSE Finish(q) /\ UNCHANGED rivals
    /\ UNCHANGED <<coupon, usage, service, booking, lowered, edited, settled>>

\* ... the user has not redeemed it yet ...
CheckUsage(q) ==
    /\ req[q].pc = "used"
    /\ IF usage[req[q].coupon][req[q].user] = NoBooking
       THEN Goto(q, "redeem") ELSE Finish(q)
    /\ UNCHANGED <<coupon, usage, service, booking, history>>

\* An open transaction has updated the row of coupon c.
RowLocked(c) == \E s \in Requests : req[s].pc = "book" /\ req[s].coupon = c

RedeemUnindexed(q) ==               \* mutant: no unique (couponId, userId)
    /\ req[q].pc = "redeem"
    /\ ~RowLocked(req[q].coupon)
    /\ Goto(q, "book")
    /\ UNCHANGED <<coupon, usage, service, booking, history>>

\* ... and the insert into CouponUsage, which is unique per coupon and user,
\* and the counter's increment follow, once the row is free.
Redeem(q) ==
    /\ req[q].pc = "redeem"
    /\ ~RowLocked(req[q].coupon)
    /\ IF usage[req[q].coupon][req[q].user] = NoBooking
       THEN Goto(q, "book") ELSE Finish(q)
    /\ UNCHANGED <<coupon, usage, service, booking, history>>

DepositOff(offer, discount) ==      \* mutant: the discount comes off the deposit
    IF offer.requiresDeposit THEN Round(offer.price * offer.depositPercent, 10000) - discount ELSE 0

Deposit(offer, discount) ==
    IF offer.requiresDeposit THEN Round((offer.price - discount) * offer.depositPercent, 10000) ELSE 0

\* The booking is created, the usage linked to it, and everything committed.
PlaceHold(q, b) ==
    LET r == req[q] IN
    /\ r.pc = "book"
    /\ booking[b].status = "NONE"
    /\ booking' = [booking EXCEPT ![b] =
         [status |-> "HOLD", user |-> r.user, coupon |-> r.coupon, price |-> r.offer.price,
          discount |-> r.discount, deposit |-> Deposit(r.offer, r.discount)]]
    /\ IF r.coupon = NoCoupon THEN UNCHANGED <<coupon, usage>>
       ELSE /\ usage' = [usage EXCEPT ![r.coupon][r.user] = b]
            /\ coupon' = [coupon EXCEPT ![r.coupon].usageCount = @ + 1]
    /\ edited' = IF r.offer # service \/ ~Valid(r.offer) THEN edited \cup {b} ELSE edited
    /\ Finish(q)
    /\ UNCHANGED <<service, rivals, lowered, settled>>

---------------------------------------------------------------------------
(* confirm; what else happens to a booking *)

ReadConfirm(q, b) ==
    /\ req[q].pc = "idle"
    /\ booking[b].status = "HOLD"
    /\ req' = [req EXCEPT ![q] = [Idle EXCEPT !.pc = "service", !.booking = b]]
    /\ UNCHANGED <<coupon, usage, service, booking, history>>

ReadServiceUnchecked(q) ==          \* mutant: every hold is confirmed at once
    /\ req[q].pc = "service"
    /\ req' = [req EXCEPT ![q].pc = "confirm", ![q].status = "CONFIRMED"]
    /\ UNCHANGED <<coupon, usage, service, booking, history>>

\* The service is read again, and not the deposit in the booking.
ReadService(q) ==
    /\ req[q].pc = "service"
    /\ req' = [req EXCEPT ![q].pc = "confirm",
                 ![q].status = IF service.requiresDeposit THEN "PENDING" ELSE "CONFIRMED"]
    /\ UNCHANGED <<coupon, usage, service, booking, history>>

WriteConfirm(q) ==
    /\ req[q].pc = "confirm"
    /\ booking' = [booking EXCEPT ![req[q].booking].status = req[q].status]
    /\ Finish(q)
    /\ UNCHANGED <<coupon, usage, service, history>>

\* What updateStatus may be asked for by the matrix; CLOSED stands for COMPLETED,
\* CANCELLED and NO_SHOW.
Transitions(status) ==
    CASE status \in {"HOLD", "PENDING"} -> {"CONFIRMED", "CLOSED"}
      [] status = "CONFIRMED"          -> {"CLOSED"}
      [] OTHER                         -> {}

\* updateStatus, the cancellations and confirm of a hold that has run out read the
\* booking, and so does a payment from the wallet before its transaction ...
ReadStatus(q, b, status) ==
    /\ req[q].pc = "idle"
    /\ status \in Transitions(booking[b].status)
    /\ req' = [req EXCEPT ![q] = [Idle EXCEPT !.pc = "write", !.booking = b, !.status = status]]
    /\ UNCHANGED <<coupon, usage, service, booking, history>>

\* ... and write it, whatever it is now.
WriteStatus(q) ==
    LET r == req[q] IN
    /\ r.pc = "write"
    /\ booking' = [booking EXCEPT ![r.booking].status = r.status]
    /\ settled' = IF r.status = "CONFIRMED" THEN settled \cup {r.booking} ELSE settled
    /\ Finish(q)
    /\ UNCHANGED <<coupon, usage, service, rivals, lowered, edited>>

\* PaymentService.initiate charges a booking that is PENDING with a deposit ...
Payable(b) == booking[b].status = "PENDING" /\ booking[b].deposit > 0

\* ... and the gateway's callback confirms it when it is paid.
PayDeposit(b) ==
    /\ Payable(b)
    /\ booking' = [booking EXCEPT ![b].status = "CONFIRMED"]
    /\ settled' = settled \cup {b}
    /\ UNCHANGED <<coupon, usage, service, req, rivals, lowered, edited>>

\* releaseExpiredHolds: a hold that runs out keeps its coupon, as one cancelled does.
Expire(b) ==
    /\ booking[b].status = "HOLD"
    /\ booking' = [booking EXCEPT ![b].status = "CLOSED"]
    /\ UNCHANGED <<coupon, usage, service, req, history>>

\* A handler fails, and the transaction is rolled back.
Fail(q) ==
    /\ req[q].pc \notin {"idle", "done"}
    /\ Finish(q)
    /\ UNCHANGED <<coupon, usage, service, booking, history>>

---------------------------------------------------------------------------
(* Edits by the business *)

CreateCoupon(c, terms) ==
    /\ coupon[c] = Unissued
    /\ coupon' = [coupon EXCEPT ![c] = [terms |-> terms, live |-> TRUE, usageCount |-> 0]]
    /\ UNCHANGED <<usage, service, booking, req, history>>

\* update changes the terms under the redemptions, and never the counter.
UpdateCoupon(c, terms, live) ==
    LET old == coupon[c].terms.usageLimit
        new == terms.usageLimit
    IN
    /\ coupon[c] # Unissued /\ ~RowLocked(c)
    /\ coupon' = [coupon EXCEPT ![c].terms = terms, ![c].live = live]
    /\ lowered' = IF new > 0 /\ (old = 0 \/ new < old) THEN lowered \cup {c} ELSE lowered
    /\ UNCHANGED <<usage, service, booking, req, rivals, edited, settled>>

\* ServiceCatalogService.update does not repeat the check of create.
UpdateService(offer) ==
    /\ service' = offer
    /\ edited' = edited \cup {b \in BookingIds :
                     \/ booking[b].status = "HOLD"
                     \/ \E q \in Requests : req[q].booking = b /\ req[q].pc \in {"service", "confirm"}}
    /\ UNCHANGED <<coupon, usage, booking, req, rivals, lowered, settled>>

Next ==
    \/ \E q \in Requests :
         \/ \E u \in Users, c \in Coupons \cup {NoCoupon} : BeginHold(q, u, c)
         \/ CheckCoupon(q) \/ CheckUsage(q) \/ Redeem(q)
         \/ \E b \in BookingIds : PlaceHold(q, b) \/ ReadConfirm(q, b)
         \/ ReadService(q) \/ WriteConfirm(q)
         \/ \E b \in BookingIds, status \in {"CONFIRMED", "CLOSED"} : ReadStatus(q, b, status)
         \/ WriteStatus(q)
         \/ Fail(q)
    \/ \E b \in BookingIds : PayDeposit(b) \/ Expire(b)
    \/ \E c \in Coupons, terms \in Terms :
         \/ CreateCoupon(c, terms)
         \/ \E live \in BOOLEAN : UpdateCoupon(c, terms, live)
    \/ \E offer \in Offers : UpdateService(offer)

Spec == Init /\ [][Next]_vars

---------------------------------------------------------------------------
(* Properties *)

PCs == {"idle", "done", "check", "used", "redeem", "book", "service", "confirm", "write"}
Statuses == {"HOLD", "PENDING", "CONFIRMED", "CLOSED"}

Rows == [status : Statuses \cup {"NONE"}, user : Users \cup {NoUser},
         coupon : Coupons \cup {NoCoupon}, price : Nat, discount : Nat, deposit : Nat]

Locals == [pc : PCs, user : Users \cup {NoUser}, coupon : Coupons \cup {NoCoupon},
           booking : BookingIds \cup {NoBooking}, offer : Offers \cup {NoOffer},
           discount : Nat, status : {"NONE", "PENDING", "CONFIRMED", "CLOSED"}]

TypeOK ==
    /\ coupon \in [Coupons -> [terms : Terms \cup {NoTerms}, live : BOOLEAN, usageCount : Nat]]
    /\ usage \in [Coupons -> [Users -> BookingIds \cup {NoBooking}]]
    /\ service \in Offers
    /\ booking \in [BookingIds -> Rows]
    /\ req \in [Requests -> Locals]
    /\ rivals \in [Coupons -> Nat] /\ lowered \subseteq Coupons
    /\ edited \subseteq BookingIds /\ settled \subseteq BookingIds

\* Redemption is atomic with the booking (the comment on checkAndRedeem): every
\* use of a coupon belongs to one booking of that user with that coupon, the
\* other way round too, and the counter counts them, whatever is rolled back.
UsageMatchesBookings ==
    \A c \in Coupons :
      /\ \A u \in Users, b \in BookingIds :
           usage[c][u] = b <=> booking[b].coupon = c /\ booking[b].user = u
      /\ coupon[c].usageCount = Cardinality({u \in Users : usage[c][u] # NoBooking})

\* A coupon is used usageLimit times, and once more for every hold that checked
\* it while another was about to redeem it (checkAndCompute compares, and the
\* increment comes later), unless the limit was lowered under them.
LimitKept ==
    \A c \in Coupons \ lowered :
      LET limit == coupon[c].terms.usageLimit IN
      limit > 0 => coupon[c].usageCount <= limit + rivals[c]

\* No discount exceeds the price, whatever the type and value of the coupon and
\* however they change, and no deposit what is left (checkAndCompute, hold).
DiscountWithinPrice ==
    \A b \in BookingIds :
      /\ booking[b].discount <= booking[b].price
      /\ booking[b].deposit <= booking[b].price - booking[b].discount

\* confirm agrees with hold, unless the service was edited in between or an edit
\* took its depositPercent away: what waits for a payment can be paid, unless less
\* than half a toman is left to pay (at one percent the deposit then rounds to
\* nothing, and initiate refuses it); and what is confirmed owes nothing, unless it
\* was paid or the business itself confirmed it (updateStatus).
StatusFitsDeposit ==
    \A b \in BookingIds \ edited :
      /\ booking[b].status = "PENDING" =>
           Payable(b) \/ booking[b].price - booking[b].discount < 50
      /\ booking[b].status = "CONFIRMED" => booking[b].deposit = 0 \/ b \in settled
===========================================================================
