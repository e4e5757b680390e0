-------------------------- MODULE CheckoutProofs --------------------------
(***************************************************************************)
(* What Checkout guarantees of coupons, discounts and deposits, for all    *)
(* sets of requests, users, coupons and bookings, all terms and all        *)
(* offers.                                                                 *)
(***************************************************************************)
EXTENDS Checkout, FiniteSetTheorems, TLAPS

---------------------------------------------------------------------------
(* The inductive invariant, in layers *)

Redeeming == {"used", "redeem", "book"}
Confirming == {"service", "confirm"}
Writing == Confirming \cup {"write"}

\* A booking that is not there has no coupon, and one that is has a customer.
RowOK(b) ==
    IF booking[b].status = "NONE" THEN booking[b] = NoRow
    ELSE booking[b].user \in Users

\* What a request has in its locals, by its place in the handler.
LocalsOK(q) ==
    LET r == req[q] IN
    /\ r.pc \in Redeeming \cup {"check"} => r.user \in Users /\ r.offer \in Offers
    /\ r.pc \in {"check", "used", "redeem"} => r.coupon \in Coupons
    /\ r.pc \in Redeeming => r.discount <= r.offer.price
    /\ r.pc \in Writing => r.booking \in BookingIds /\ booking[r.booking].status # "NONE"
    /\ r.pc = "confirm" => r.status \in {"PENDING", "CONFIRMED"}
    /\ r.pc = "write" => r.status \in {"CONFIRMED", "CLOSED"}

\* A coupon that can be redeemed has the terms of one that was issued.
IssuedTerms == \A c \in Coupons : coupon[c].live => coupon[c].terms \in Terms

Shape == /\ TypeOK
         /\ IssuedTerms
         /\ DiscountWithinPrice
         /\ \A b \in BookingIds : RowOK(b)
         /\ \A q \in Requests : LocalsOK(q)

Redeemers(c) == {q \in Requests : req[q].coupon = c /\ req[q].pc \in Redeeming}

\* A coupon that was never issued is being redeemed by nobody.
Issued == \A c \in Coupons : coupon[c] = Unissued => Redeemers(c) = {}

\* The row lock: one request is past the update of a coupon's counter, and the
\* unique index has told it that its user has no usage yet.
RowLockOK ==
    \A q \in Requests : req[q].pc = "book" /\ req[q].coupon # NoCoupon =>
      /\ usage[req[q].coupon][req[q].user] = NoBooking
      /\ \A s \in Requests : req[s].pc = "book" /\ req[s].coupon = req[q].coupon => s = q

UsersOf(c) == {u \in Users : usage[c][u] # NoBooking}

Usages == /\ UsageMatchesBookings
          /\ RowLockOK
          /\ \A c \in Coupons : IsFiniteSet(UsersOf(c))

\* What is used and what may still be used together stay within the limit and
\* the rivals.
LimitOK(c) ==
    LET limit == coupon[c].terms.usageLimit IN
    /\ IsFiniteSet(Redeemers(c))
    /\ c \notin lowered /\ limit > 0 =>
         coupon[c].usageCount + Cardinality(Redeemers(c)) <= limit + rivals[c]

Limits == Issued /\ \A c \in Coupons : LimitOK(c)

\* Booking b was held at the terms that the service has now.
AtTerms(b) ==
    /\ Valid(service)
    /\ booking[b].price = service.price
    /\ booking[b].deposit = Deposit(service, booking[b].discount)

\* What confirm is about to write fits the deposit of the booking.
Fits(b, status) ==
    /\ status = "PENDING" => booking[b].deposit > 0 \/ booking[b].price - booking[b].discount < 50
    /\ status = "CONFIRMED" => booking[b].deposit = 0 \/ b \in settled

Deposits ==
    /\ StatusFitsDeposit
    /\ \A b \in BookingIds \ edited : booking[b].status = "HOLD" => AtTerms(b)
    /\ \A q \in Requests : req[q].booking \in BookingIds \ edited =>
         /\ req[q].pc = "service" => AtTerms(req[q].booking)
         /\ req[q].pc = "confirm" => Fits(req[q].booking, req[q].status)

---------------------------------------------------------------------------
(* Arithmetic *)

LEMMA ProductNat ==
  ASSUME NEW m \in Nat, NEW n \in Nat
  PROVE  m * n \in Nat
  OBVIOUS

LEMMA ProductBounds ==
  ASSUME NEW m \in Nat, NEW n \in Nat, NEW k \in Nat
  PROVE  (n <= k => m * n <= k * m) /\ (n >= k => m * n >= k * m)
  OBVIOUS

\* Math.round is within half of what it rounds.
LEMMA RoundBounds ==
  ASSUME NEW n \in Nat, NEW d \in Nat \ {0}
  PROVE  /\ Round(n, d) \in Nat
         /\ 2 * d * Round(n, d) <= 2 * n + d
         /\ 2 * n + d < 2 * d * Round(n, d) + 2 * d
<1>1. PICK y \in Nat : y = 2 * n + d
  OBVIOUS
<1>2. PICK e \in Nat \ {0} : e = 2 * d
  OBVIOUS
<1>3. PICK c \in Nat : c = y \div e
  OBVIOUS
<1>4. e * c <= y /\ y < e * c + e
  BY <1>3
<1>5. e * c = 2 * d * c
  BY <1>2
<1>6. Round(n, d) = c
  BY <1>1, <1>2, <1>3 DEF Round
<1> QED BY <1>1, <1>2, <1>4, <1>5, <1>6

LEMMA RoundNat ==
  ASSUME NEW n \in Nat, NEW d \in Nat \ {0}
  PROVE  Round(n, d) \in Nat
  BY RoundBounds

\* A discount is at most the price, whatever the coupon says (checkAndCompute).
LEMMA DiscountBound ==
  ASSUME NEW terms \in Terms, NEW price \in Nat
  PROVE  Discount(terms, price) \in Nat /\ Discount(terms, price) <= price
<1>1. terms.value \in Nat
  BY TermsAssumption
<1>2. price * terms.value \in Nat
  BY <1>1, ProductNat
<1>3. Round(price * terms.value, 1000000) \in Nat /\ Round(terms.value, 100) \in Nat
  BY <1>1, <1>2, RoundNat, SMT
<1>4. RawDiscount(terms, price) \in Nat
  BY <1>3, SMT DEF RawDiscount
<1> QED BY <1>4 DEF Discount

\* A deposit is at most what the discount leaves of the price, and is due when the
\* service asks for one and half a toman is left.
LEMMA DepositBound ==
  ASSUME NEW offer \in Offers, NEW discount \in Nat, discount <= offer.price
  PROVE  /\ Deposit(offer, discount) \in Nat
         /\ Deposit(offer, discount) <= offer.price - discount
         /\ offer.requiresDeposit /\ Valid(offer) =>
              Deposit(offer, discount) > 0 \/ offer.price - discount < 50
         /\ ~offer.requiresDeposit => Deposit(offer, discount) = 0
<1>1. /\ offer.price \in Nat /\ offer.requiresDeposit \in BOOLEAN /\ offer.depositPercent \in Nat
  BY TermsAssumption, SMT
<1>0. \/ offer.depositPercent = 0
      \/ 100 <= offer.depositPercent /\ offer.depositPercent <= 10000
  BY TermsAssumption, SMT
<1>2. PICK left \in Nat : left = offer.price - discount
  BY <1>1, SMT
<1>3. PICK percent \in Nat : percent = offer.depositPercent /\ percent <= 10000
  BY <1>0, <1>1, SMT
<1>4. left * percent \in Nat
  BY ProductNat
<1>5. PICK x \in Nat : x = left * percent
  BY <1>4
<1>6. x <= 10000 * left /\ (percent >= 100 => x >= 100 * left)
  BY <1>3, <1>5, ProductBounds, SMT
<1>7. PICK d \in Nat : /\ d = Round(x, 10000)
                       /\ 20000 * d <= 2 * x + 10000 /\ 2 * x + 10000 < 20000 * d + 20000
  <2>1. PICK e \in Nat \ {0} : e = 10000
    BY SMT
  <2>2. PICK d \in Nat : d = Round(x, e)
    BY RoundNat
  <2>3. 2 * e * d <= 2 * x + e /\ 2 * x + e < 2 * e * d + 2 * e
    BY <2>2, RoundBounds
  <2>4. 20000 * d <= 2 * x + 10000 /\ 2 * x + 10000 < 20000 * d + 20000
    BY <2>1, <2>3, SMT
  <2> QED BY <2>1, <2>2, <2>4
<1>8. d <= left /\ (percent >= 100 => d > 0 \/ left < 50)
  BY <1>6, <1>7, SMT
<1>9. CASE offer.requiresDeposit
  <2>1. Deposit(offer, discount) = d
    BY <1>2, <1>3, <1>5, <1>7, <1>9, SMT DEF Deposit
  <2>2. Valid(offer) => percent >= 100
    <3>1. Valid(offer) => offer.depositPercent > 0
      BY <1>9, Zenon DEF Valid
    <3>2. offer.depositPercent > 0 => percent >= 100
      BY <1>0, <1>1, <1>3, SMT
    <3> QED BY <3>1, <3>2, Zenon
  <2> QED BY <1>2, <1>8, <1>9, <2>1, <2>2, SMT
<1>10. CASE ~offer.requiresDeposit
  BY <1>1, <1>2, <1>10, SMT DEF Deposit
<1> QED BY <1>9, <1>10

---------------------------------------------------------------------------
(* Types *)

\* A new record of locals for q.
LEMMA LocalsUpdate ==
  ASSUME TypeOK, NEW q \in Requests, NEW r \in Locals, req' = [req EXCEPT ![q] = r]
  PROVE  /\ req' \in [Requests -> Locals]
         /\ req'[q] = r
         /\ \A s \in Requests \ {q} : req'[s] = req[s]
  BY DEF TypeOK

LEMMA IdleTyped == Idle \in Locals /\ Done \in Locals
  BY DEF Idle, Done, Locals, PCs

\* A request is answered.
LEMMA FinishUpdate ==
  ASSUME TypeOK, NEW q \in Requests, Finish(q)
  PROVE  /\ req' \in [Requests -> Locals]
         /\ req'[q] = Done /\ req'[q].pc = "done"
         /\ \A s \in Requests \ {q} : req'[s] = req[s]
<1>1. Done.pc = "done"
  BY DEF Done, Idle
<1> QED BY <1>1, IdleTyped, LocalsUpdate DEF Finish

\* A request moves on within its handler.
LEMMA GotoUpdate ==
  ASSUME TypeOK, NEW q \in Requests, NEW pc \in PCs, Goto(q, pc)
  PROVE  /\ req' \in [Requests -> Locals]
         /\ req'[q] = [req[q] EXCEPT !.pc = pc] /\ req'[q].pc = pc
         /\ \A s \in Requests \ {q} : req'[s] = req[s]
<1>1. req[q] \in Locals
  BY DEF TypeOK
<1>2. [req[q] EXCEPT !.pc = pc] \in Locals /\ [req[q] EXCEPT !.pc = pc].pc = pc
  BY <1>1 DEF Locals
<1>3. req' = [req EXCEPT ![q] = [req[q] EXCEPT !.pc = pc]]
  BY DEF Goto, TypeOK
<1> QED BY <1>2, <1>3, LocalsUpdate

---------------------------------------------------------------------------
(* Shape: types, rows and locals *)

\* q works on its locals; the tables stay as they are.
LEMMA ShapeMove ==
  ASSUME Shape, NEW q \in Requests, req' \in [Requests -> Locals],
         \A s \in Requests \ {q} : req'[s] = req[s], LocalsOK(q)',
         UNCHANGED <<coupon, usage, service, booking, lowered, edited, settled>>,
         rivals' \in [Coupons -> Nat]
  PROVE  Shape'
<1>1. TypeOK' /\ IssuedTerms'
  BY DEF Shape, TypeOK, IssuedTerms
<1>2. DiscountWithinPrice' /\ \A b \in BookingIds : RowOK(b)'
  BY DEF Shape, DiscountWithinPrice, RowOK
<1>3. ASSUME NEW s \in Requests, s # q
      PROVE  LocalsOK(s)'
  <2>1. LocalsOK(s) /\ req'[s] = req[s] /\ booking' = booking
    BY <1>3 DEF Shape
  <2> QED BY <2>1 DEF LocalsOK
<1> QED BY <1>1, <1>2, <1>3 DEF Shape

\* Nothing but the tables changes, and no booking appears or disappears.
LEMMA ShapeTables ==
  ASSUME Shape, TypeOK', IssuedTerms', UNCHANGED req, DiscountWithinPrice',
         \A b \in BookingIds : RowOK(b)' /\ (booking[b].status # "NONE" => booking'[b].status # "NONE")
  PROVE  Shape'
<1>1. ASSUME NEW q \in Requests
      PROVE  LocalsOK(q)'
  <2>1. LocalsOK(q) /\ req'[q] = req[q]
    BY DEF Shape
  <2> QED BY <2>1 DEF LocalsOK
<1> QED BY <1>1 DEF Shape

LEMMA ShapeFinish ==
  ASSUME Shape, NEW q \in Requests, Finish(q), UNCHANGED <<coupon, usage, service, booking, history>>
  PROVE  Shape'
<1>1. TypeOK
  BY DEF Shape
<1>2. /\ req' \in [Requests -> Locals] /\ req'[q].pc = "done"
      /\ \A s \in Requests \ {q} : req'[s] = req[s]
  BY <1>1, FinishUpdate
<1>3. LocalsOK(q)'
  BY <1>2 DEF LocalsOK, Redeeming, Confirming, Writing
<1> QED BY <1>1, <1>2, <1>3, ShapeMove DEF history, TypeOK

LEMMA ShapeInit == Init => Shape
<1> SUFFICES ASSUME Init PROVE Shape
  OBVIOUS
<1>1. TypeOK
  <2>1. Unissued \in [terms : Terms \cup {NoTerms}, live : BOOLEAN, usageCount : Nat]
    BY DEF Unissued
  <2>2. NoRow \in Rows
    BY DEF NoRow, Rows
  <2> QED BY <2>1, <2>2, IdleTyped DEF Init, TypeOK
<1>2. \A b \in BookingIds : booking[b] = NoRow
  BY DEF Init
<1>3. DiscountWithinPrice /\ \A b \in BookingIds : RowOK(b)
  BY <1>2 DEF DiscountWithinPrice, RowOK, NoRow
<1>4. \A q \in Requests : req[q].pc = "idle"
  BY DEF Init, Idle
<1>5. \A q \in Requests : LocalsOK(q)
  BY <1>4 DEF LocalsOK, Redeeming, Confirming, Writing
<1>6. IssuedTerms
  BY DEF Init, IssuedTerms, Unissued
<1> QED BY <1>1, <1>3, <1>5, <1>6 DEF Shape

\* What BeginHold makes of its request.
LEMMA BeginHoldUpdate ==
  ASSUME TypeOK, NEW q \in Requests, NEW u \in Users, NEW c \in Coupons \cup {NoCoupon},
         BeginHold(q, u, c)
  PROVE  /\ req' \in [Requests -> Locals]
         /\ req'[q].pc = IF c = NoCoupon THEN "book" ELSE "check"
         /\ req'[q].user = u /\ req'[q].coupon = c /\ req'[q].offer = service
         /\ req'[q].discount = 0 /\ req'[q].booking = NoBooking
         /\ \A s \in Requests \ {q} : req'[s] = req[s]
<1> DEFINE r == [Idle EXCEPT !.pc = IF c = NoCoupon THEN "book" ELSE "check",
                             !.user = u, !.coupon = c, !.offer = service]
<1>1. r \in Locals
  BY DEF TypeOK, Idle, Locals, PCs
<1>2. /\ r.pc = IF c = NoCoupon THEN "book" ELSE "check"
      /\ r.user = u /\ r.coupon = c /\ r.offer = service
      /\ r.discount = 0 /\ r.booking = NoBooking
  BY DEF Idle
<1>3. req' = [req EXCEPT ![q] = r]
  BY DEF BeginHold
<1> HIDE DEF r
<1> QED BY <1>1, <1>2, <1>3, LocalsUpdate

\* The coupon passes the checks, and the discount is in the locals.
LEMMA CheckCouponUpdate ==
  ASSUME Shape, NEW q \in Requests, CheckCoupon(q), Redeemable(req[q].coupon, req[q].offer.price)
  PROVE  /\ req' \in [Requests -> Locals]
         /\ req[q].coupon \in Coupons
         /\ req'[q].pc = "used" /\ req'[q].coupon = req[q].coupon
         /\ req'[q].user = req[q].user /\ req'[q].offer = req[q].offer
         /\ req'[q].booking = req[q].booking
         /\ req'[q].discount <= req[q].offer.price
         /\ \A s \in Requests \ {q} : req'[s] = req[s]
<1> DEFINE c == req[q].coupon
           d == Discount(coupon[c].terms, req[q].offer.price)
           r == [req[q] EXCEPT !.pc = "used", !.discount = d]
<1>1. req[q].pc = "check" /\ req[q] \in Locals /\ req' = [req EXCEPT ![q] = r]
  BY DEF CheckCoupon, Shape, TypeOK
<1>2. c \in Coupons /\ req[q].offer \in Offers
  BY <1>1 DEF Shape, LocalsOK
<1>3. coupon[c].terms \in Terms
  <2>1. coupon[c].terms \in Terms \cup {NoTerms} /\ coupon[c].live
    BY <1>2 DEF Shape, TypeOK, Redeemable
  <2> QED BY <2>1, <1>2 DEF Shape, IssuedTerms
<1>4. req[q].offer.price \in Nat
  BY <1>2, TermsAssumption
<1>5. d \in Nat /\ d <= req[q].offer.price
  BY <1>3, <1>4, DiscountBound
<1> HIDE DEF d
<1>6. r \in Locals
  BY <1>1, <1>5 DEF Locals, PCs
<1>7. /\ r.pc = "used" /\ r.coupon = req[q].coupon /\ r.discount = d
      /\ r.user = req[q].user /\ r.offer = req[q].offer /\ r.booking = req[q].booking
  BY <1>1 DEF Locals
<1> HIDE DEF r
<1> QED BY <1>1, <1>2, <1>5, <1>6, <1>7, LocalsUpdate DEF Shape

\* CheckUsage and Redeem move their request on or end it.
LEMMA RedeemUpdate ==
  ASSUME Shape, NEW q \in Requests, CheckUsage(q) \/ Redeem(q)
  PROVE  /\ req' \in [Requests -> Locals]
         /\ req[q].coupon \in Coupons /\ req[q].user \in Users
         /\ req[q].pc \in {"used", "redeem"}
         /\ \/ req'[q] = Done /\ req'[q].pc = "done"
            \/ /\ req'[q] = [req[q] EXCEPT !.pc = IF req[q].pc = "used" THEN "redeem" ELSE "book"]
               /\ req'[q].pc = IF req[q].pc = "used" THEN "redeem" ELSE "book"
               /\ req'[q].user = req[q].user /\ req'[q].coupon = req[q].coupon
               /\ usage[req[q].coupon][req[q].user] = NoBooking
         /\ \A s \in Requests \ {q} : req'[s] = req[s]
         /\ UNCHANGED <<coupon, usage, service, booking, history>>
<1>1. TypeOK /\ req[q].pc \in {"used", "redeem"} /\ req[q] \in Locals
      /\ UNCHANGED <<coupon, usage, service, booking, history>>
  BY DEF Shape, TypeOK, CheckUsage, Redeem
<1>2. req[q].coupon \in Coupons /\ req[q].user \in Users
  BY <1>1 DEF Shape, LocalsOK, Redeeming
<1>3. CASE Finish(q)
  BY <1>1, <1>2, <1>3, FinishUpdate
<1>4. CASE /\ usage[req[q].coupon][req[q].user] = NoBooking
           /\ Goto(q, IF req[q].pc = "used" THEN "redeem" ELSE "book")
  <2>1. /\ req' \in [Requests -> Locals]
        /\ req'[q] = [req[q] EXCEPT !.pc = IF req[q].pc = "used" THEN "redeem" ELSE "book"]
        /\ req'[q].pc = IF req[q].pc = "used" THEN "redeem" ELSE "book"
        /\ \A s \in Requests \ {q} : req'[s] = req[s]
    BY <1>1, <1>4, GotoUpdate DEF PCs
  <2>2. req'[q].user = req[q].user /\ req'[q].coupon = req[q].coupon
    BY <1>1, <2>1 DEF Locals
  <2> QED BY <1>1, <1>2, <1>4, <2>1, <2>2
<1> QED BY <1>1, <1>3, <1>4 DEF CheckUsage, Redeem

\* ReadConfirm and ReadService: the booking, then the status to write.
LEMMA ReadConfirmUpdate ==
  ASSUME TypeOK, NEW q \in Requests, NEW b \in BookingIds, ReadConfirm(q, b)
  PROVE  /\ req' \in [Requests -> Locals]
         /\ req'[q].pc = "service" /\ req'[q].booking = b /\ req'[q].coupon = NoCoupon
         /\ \A s \in Requests \ {q} : req'[s] = req[s]
<1> DEFINE r == [Idle EXCEPT !.pc = "service", !.booking = b]
<1>1. r \in Locals /\ r.pc = "service" /\ r.booking = b /\ r.coupon = NoCoupon
  BY DEF Idle, Locals, PCs
<1>2. req' = [req EXCEPT ![q] = r]
  BY DEF ReadConfirm
<1> HIDE DEF r
<1> QED BY <1>1, <1>2, LocalsUpdate

LEMMA ReadStatusUpdate ==
  ASSUME TypeOK, NEW q \in Requests, NEW b \in BookingIds, NEW status \in {"CONFIRMED", "CLOSED"},
         ReadStatus(q, b, status)
  PROVE  /\ req' \in [Requests -> Locals]
         /\ req'[q].pc = "write" /\ req'[q].booking = b /\ req'[q].coupon = NoCoupon
         /\ req'[q].status = status
         /\ \A s \in Requests \ {q} : req'[s] = req[s]
         /\ booking[b].status # "NONE"
<1> DEFINE r == [Idle EXCEPT !.pc = "write", !.booking = b, !.status = status]
<1>1. r \in Locals /\ r.pc = "write" /\ r.booking = b /\ r.coupon = NoCoupon /\ r.status = status
  BY DEF Idle, Locals, PCs
<1>2. req' = [req EXCEPT ![q] = r] /\ booking[b].status # "NONE"
  BY DEF ReadStatus, Transitions
<1> HIDE DEF r
<1> QED BY <1>1, <1>2, LocalsUpdate

LEMMA ReadServiceUpdate ==
  ASSUME TypeOK, NEW q \in Requests, ReadService(q)
  PROVE  /\ req' \in [Requests -> Locals]
         /\ req'[q].pc = "confirm" /\ req'[q].booking = req[q].booking
         /\ req'[q].coupon = req[q].coupon
         /\ req'[q].status = IF service.requiresDeposit THEN "PENDING" ELSE "CONFIRMED"
         /\ \A s \in Requests \ {q} : req'[s] = req[s]
<1> DEFINE r == [req[q] EXCEPT !.pc = "confirm",
                   !.status = IF service.requiresDeposit THEN "PENDING" ELSE "CONFIRMED"]
<1>1. req[q] \in Locals
  BY DEF TypeOK
<1>2. /\ r \in Locals /\ r.pc = "confirm" /\ r.booking = req[q].booking
      /\ r.coupon = req[q].coupon
      /\ r.status = IF service.requiresDeposit THEN "PENDING" ELSE "CONFIRMED"
  BY <1>1 DEF Locals, PCs
<1>3. req' = [req EXCEPT ![q] = r]
  BY DEF ReadService, TypeOK
<1> HIDE DEF r
<1> QED BY <1>2, <1>3, LocalsUpdate

\* The booking that PlaceHold creates.
LEMMA PlaceHoldUpdate ==
  ASSUME Shape, NEW q \in Requests, NEW b \in BookingIds, PlaceHold(q, b)
  PROVE  /\ booking' \in [BookingIds -> Rows]
         /\ booking'[b].status = "HOLD"
         /\ booking'[b].user = req[q].user /\ booking'[b].coupon = req[q].coupon
         /\ booking'[b].price = req[q].offer.price
         /\ booking'[b].discount = req[q].discount
         /\ booking'[b].deposit = Deposit(req[q].offer, req[q].discount)
         /\ booking'[b].discount <= booking'[b].price
         /\ booking'[b].deposit <= booking'[b].price - booking'[b].discount
         /\ req[q].user \in Users /\ req[q].offer \in Offers
         /\ \A a \in BookingIds \ {b} : booking'[a] = booking[a]
<1> DEFINE r == req[q]
           row == [status |-> "HOLD", user |-> r.user, coupon |-> r.coupon,
                   price |-> r.offer.price, discount |-> r.discount,
                   deposit |-> Deposit(r.offer, r.discount)]
<1>1. r \in Locals /\ r.pc = "book" /\ booking' = [booking EXCEPT ![b] = row]
  BY DEF Shape, TypeOK, PlaceHold
<1>2. r.user \in Users /\ r.offer \in Offers /\ r.discount <= r.offer.price
  BY <1>1 DEF Shape, LocalsOK, Redeeming
<1>3. r.offer.price \in Nat /\ r.discount \in Nat /\ r.coupon \in Coupons \cup {NoCoupon}
  BY <1>1, <1>2, TermsAssumption DEF Locals
<1>4. /\ Deposit(r.offer, r.discount) \in Nat
      /\ Deposit(r.offer, r.discount) <= r.offer.price - r.discount
  BY <1>2, <1>3, DepositBound
<1>5. row \in Rows
  BY <1>2, <1>3, <1>4 DEF Rows, Statuses
<1>6. /\ row.status = "HOLD" /\ row.user = r.user /\ row.coupon = r.coupon
      /\ row.price = r.offer.price /\ row.discount = r.discount
      /\ row.deposit = Deposit(r.offer, r.discount)
  OBVIOUS
<1>7. /\ booking' \in [BookingIds -> Rows] /\ booking'[b] = row
      /\ \A a \in BookingIds \ {b} : booking'[a] = booking[a]
  BY <1>1, <1>5 DEF Shape, TypeOK
<1> HIDE DEF row
<1> QED BY <1>2, <1>4, <1>6, <1>7

\* WriteConfirm, WriteStatus, PayDeposit and Expire change the status of a booking.
StatusWritten(b, status) ==
    /\ booking[b].status # "NONE" /\ status \in Statuses
    /\ booking' = [booking EXCEPT ![b].status = status]

LEMMA StatusUpdate ==
  ASSUME TypeOK, NEW b \in BookingIds, NEW status, StatusWritten(b, status)
  PROVE  /\ booking' \in [BookingIds -> Rows]
         /\ booking'[b].status = status
         /\ booking'[b].user = booking[b].user /\ booking'[b].coupon = booking[b].coupon
         /\ booking'[b].price = booking[b].price /\ booking'[b].discount = booking[b].discount
         /\ booking'[b].deposit = booking[b].deposit
         /\ \A a \in BookingIds \ {b} : booking'[a] = booking[a]
<1> DEFINE row == [booking[b] EXCEPT !.status = status]
<1>1. booking[b] \in Rows /\ booking' = [booking EXCEPT ![b] = row] /\ status \in Statuses
  BY DEF TypeOK, StatusWritten
<1>2. /\ row \in Rows /\ row.status = status /\ row.user = booking[b].user
      /\ row.coupon = booking[b].coupon /\ row.price = booking[b].price
      /\ row.discount = booking[b].discount /\ row.deposit = booking[b].deposit
  BY <1>1 DEF Rows
<1> HIDE DEF row
<1> QED BY <1>1, <1>2 DEF TypeOK

LEMMA StatusSteps ==
  ASSUME Shape
  PROVE  /\ \A q \in Requests : WriteConfirm(q) =>
              /\ req[q].booking \in BookingIds
              /\ req[q].status \in {"PENDING", "CONFIRMED"}
              /\ StatusWritten(req[q].booking, req[q].status)
         /\ \A q \in Requests : WriteStatus(q) =>
              /\ req[q].booking \in BookingIds
              /\ req[q].status \in {"CONFIRMED", "CLOSED"}
              /\ StatusWritten(req[q].booking, req[q].status)
         /\ \A b \in BookingIds : /\ PayDeposit(b) => StatusWritten(b, "CONFIRMED")
                                  /\ Expire(b) => StatusWritten(b, "CLOSED")
<1>1. ASSUME NEW q \in Requests, WriteConfirm(q)
      PROVE  /\ req[q].booking \in BookingIds
             /\ req[q].status \in {"PENDING", "CONFIRMED"}
             /\ StatusWritten(req[q].booking, req[q].status)
  <2>1. req[q].pc = "confirm"
    BY <1>1 DEF WriteConfirm
  <2>2. /\ req[q].booking \in BookingIds /\ booking[req[q].booking].status # "NONE"
        /\ req[q].status \in {"PENDING", "CONFIRMED"}
    BY <2>1 DEF Shape, LocalsOK, Confirming, Writing
  <2> QED BY <1>1, <2>2 DEF WriteConfirm, StatusWritten, Statuses
<1>2. ASSUME NEW q \in Requests, WriteStatus(q)
      PROVE  /\ req[q].booking \in BookingIds
             /\ req[q].status \in {"CONFIRMED", "CLOSED"}
             /\ StatusWritten(req[q].booking, req[q].status)
  <2>1. req[q].pc = "write"
    BY <1>2 DEF WriteStatus
  <2>2. /\ req[q].booking \in BookingIds /\ booking[req[q].booking].status # "NONE"
        /\ req[q].status \in {"CONFIRMED", "CLOSED"}
    BY <2>1 DEF Shape, LocalsOK, Writing
  <2> QED BY <1>2, <2>2 DEF WriteStatus, StatusWritten, Statuses
<1>3. ASSUME NEW b \in BookingIds
      PROVE  /\ PayDeposit(b) => StatusWritten(b, "CONFIRMED")
             /\ Expire(b) => StatusWritten(b, "CLOSED")
  BY DEF PayDeposit, Payable, Expire, StatusWritten, Statuses
<1> QED BY <1>1, <1>2, <1>3

\* The row of a coupon is replaced, and the others stay.
LEMMA CouponUpdate ==
  ASSUME Shape, NEW c \in Coupons, NEW row,
         row \in [terms : Terms \cup {NoTerms}, live : BOOLEAN, usageCount : Nat],
         row.live => row.terms \in Terms, coupon' = [coupon EXCEPT ![c] = row]
  PROVE  /\ coupon' \in [Coupons -> [terms : Terms \cup {NoTerms}, live : BOOLEAN, usageCount : Nat]]
         /\ IssuedTerms'
         /\ coupon'[c] = row /\ \A d \in Coupons \ {c} : coupon'[d] = coupon[d]
<1>1. /\ coupon' \in [Coupons -> [terms : Terms \cup {NoTerms}, live : BOOLEAN, usageCount : Nat]]
      /\ coupon'[c] = row /\ \A d \in Coupons \ {c} : coupon'[d] = coupon[d]
  BY DEF Shape, TypeOK
<1> QED BY <1>1 DEF Shape, IssuedTerms

LEMMA CreateCouponUpdate ==
  ASSUME Shape, NEW c \in Coupons, NEW terms \in Terms, CreateCoupon(c, terms)
  PROVE  /\ coupon' \in [Coupons -> [terms : Terms \cup {NoTerms}, live : BOOLEAN, usageCount : Nat]]
         /\ IssuedTerms'
         /\ coupon'[c].usageCount = 0 /\ coupon[c].usageCount = 0 /\ coupon'[c].terms = terms
         /\ \A d \in Coupons \ {c} : coupon'[d] = coupon[d]
<1> DEFINE row == [terms |-> terms, live |-> TRUE, usageCount |-> 0]
<1>1. /\ row \in [terms : Terms \cup {NoTerms}, live : BOOLEAN, usageCount : Nat]
      /\ row.terms = terms /\ row.terms \in Terms /\ row.usageCount = 0
  OBVIOUS
<1>2. coupon' = [coupon EXCEPT ![c] = row] /\ coupon[c].usageCount = 0
  BY DEF CreateCoupon, Unissued
<1> HIDE DEF row
<1>3. /\ coupon' \in [Coupons -> [terms : Terms \cup {NoTerms}, live : BOOLEAN, usageCount : Nat]]
      /\ IssuedTerms' /\ coupon'[c] = row /\ \A d \in Coupons \ {c} : coupon'[d] = coupon[d]
  BY <1>1, <1>2, CouponUpdate
<1> QED BY <1>1, <1>2, <1>3

LEMMA UpdateCouponUpdate ==
  ASSUME Shape, NEW c \in Coupons, NEW terms \in Terms, NEW live \in BOOLEAN,
         UpdateCoupon(c, terms, live)
  PROVE  /\ coupon' \in [Coupons -> [terms : Terms \cup {NoTerms}, live : BOOLEAN, usageCount : Nat]]
         /\ IssuedTerms'
         /\ coupon'[c].usageCount = coupon[c].usageCount /\ coupon'[c].terms = terms
         /\ \A d \in Coupons \ {c} : coupon'[d] = coupon[d]
<1> DEFINE row == [coupon[c] EXCEPT !.terms = terms, !.live = live]
<1>1. coupon[c] \in [terms : Terms \cup {NoTerms}, live : BOOLEAN, usageCount : Nat]
  BY DEF Shape, TypeOK
<1>2. /\ row \in [terms : Terms \cup {NoTerms}, live : BOOLEAN, usageCount : Nat]
      /\ row.terms = terms /\ row.usageCount = coupon[c].usageCount
  BY <1>1
<1>3. coupon' = [coupon EXCEPT ![c] = row]
  BY DEF UpdateCoupon, Shape, TypeOK
<1>4. row.live => row.terms \in Terms
  BY <1>2
<1> HIDE DEF row
<1>5. /\ coupon' \in [Coupons -> [terms : Terms \cup {NoTerms}, live : BOOLEAN, usageCount : Nat]]
      /\ IssuedTerms' /\ coupon'[c] = row /\ \A d \in Coupons \ {c} : coupon'[d] = coupon[d]
  BY <1>2, <1>3, <1>4, CouponUpdate
<1> QED BY <1>2, <1>5

\* PlaceHold counts the use of its coupon and links it to the booking.
LEMMA UsageUpdate ==
  ASSUME Shape, NEW q \in Requests, NEW b \in BookingIds, PlaceHold(q, b),
         NEW c \in Coupons, req[q].coupon = c
  PROVE  /\ coupon' \in [Coupons -> [terms : Terms \cup {NoTerms}, live : BOOLEAN, usageCount : Nat]]
         /\ IssuedTerms'
         /\ coupon'[c].usageCount = coupon[c].usageCount + 1 /\ coupon'[c].terms = coupon[c].terms
         /\ \A d \in Coupons \ {c} : coupon'[d] = coupon[d]
         /\ usage' \in [Coupons -> [Users -> BookingIds \cup {NoBooking}]]
         /\ usage'[c][req[q].user] = b
         /\ \A u \in Users : u # req[q].user => usage'[c][u] = usage[c][u]
         /\ \A d \in Coupons \ {c} : usage'[d] = usage[d]
<1> DEFINE row == [coupon[c] EXCEPT !.usageCount = @ + 1]
<1>1. coupon[c] \in [terms : Terms \cup {NoTerms}, live : BOOLEAN, usageCount : Nat]
  BY DEF Shape, TypeOK
<1>2. /\ row \in [terms : Terms \cup {NoTerms}, live : BOOLEAN, usageCount : Nat]
      /\ row.terms = coupon[c].terms /\ row.usageCount = coupon[c].usageCount + 1
      /\ row.live = coupon[c].live
  BY <1>1
<1>3. c # NoCoupon
  BY NothingAssumption
<1>4. coupon' = [coupon EXCEPT ![c] = row]
  BY <1>3 DEF PlaceHold, Shape, TypeOK
<1>5. row.live => row.terms \in Terms
  BY <1>2 DEF Shape, IssuedTerms
<1> HIDE DEF row
<1>6. /\ coupon' \in [Coupons -> [terms : Terms \cup {NoTerms}, live : BOOLEAN, usageCount : Nat]]
      /\ IssuedTerms' /\ coupon'[c] = row /\ \A d \in Coupons \ {c} : coupon'[d] = coupon[d]
  BY <1>2, <1>4, <1>5, CouponUpdate
<1>7. req[q].user \in Users
  BY PlaceHoldUpdate
<1>8. usage' = [usage EXCEPT ![c][req[q].user] = b]
  BY <1>3 DEF PlaceHold
<1> QED BY <1>2, <1>6, <1>7, <1>8 DEF Shape, TypeOK

LEMMA NoUsageUpdate ==
  ASSUME NEW q, NEW b, PlaceHold(q, b), req[q].coupon = NoCoupon
  PROVE  UNCHANGED <<coupon, usage>>
  BY DEF PlaceHold

---------------------------------------------------------------------------
(* Every step keeps the shape *)

LEMMA HoldKeepsShape ==
  ASSUME Shape, NEW q \in Requests, NEW b \in BookingIds, PlaceHold(q, b)
  PROVE  Shape'
<1>1. TypeOK /\ Finish(q) /\ UNCHANGED <<service, rivals, lowered, settled>>
  BY DEF Shape, PlaceHold
<1>2. /\ req' \in [Requests -> Locals] /\ req'[q].pc = "done"
      /\ \A s \in Requests \ {q} : req'[s] = req[s]
  BY <1>1, FinishUpdate
<1>3. edited' \subseteq BookingIds
  BY <1>1 DEF PlaceHold, TypeOK
<1>4. /\ coupon' \in [Coupons -> [terms : Terms \cup {NoTerms}, live : BOOLEAN, usageCount : Nat]]
      /\ usage' \in [Coupons -> [Users -> BookingIds \cup {NoBooking}]]
      /\ IssuedTerms'
  <2>1. CASE req[q].coupon = NoCoupon
    BY <2>1, NoUsageUpdate DEF Shape, TypeOK, IssuedTerms
  <2>2. CASE req[q].coupon \in Coupons
    BY <2>2, UsageUpdate
  <2> QED BY <2>1, <2>2 DEF Shape, TypeOK, Locals
<1>5. TypeOK'
  BY <1>1, <1>2, <1>3, <1>4, PlaceHoldUpdate DEF TypeOK
<1>6. DiscountWithinPrice' /\ \A a \in BookingIds : RowOK(a)'
  <2>1. ASSUME NEW a \in BookingIds
        PROVE  /\ booking'[a].discount <= booking'[a].price
               /\ booking'[a].deposit <= booking'[a].price - booking'[a].discount
               /\ RowOK(a)'
    <3>1. CASE a = b
      BY <3>1, PlaceHoldUpdate DEF RowOK
    <3>2. CASE a # b
      BY <3>2, PlaceHoldUpdate DEF RowOK, Shape, DiscountWithinPrice
    <3> QED BY <3>1, <3>2
  <2> QED BY <2>1 DEF DiscountWithinPrice
<1>7. ASSUME NEW s \in Requests
      PROVE  LocalsOK(s)'
  <2>1. CASE s = q
    BY <1>2, <2>1 DEF LocalsOK, Redeeming, Confirming, Writing
  <2>2. CASE s # q
    <3>1. req'[s] = req[s] /\ LocalsOK(s)
      BY <1>2, <2>2 DEF Shape
    <3>2. \A a \in BookingIds : booking[a].status # "NONE" => booking'[a].status # "NONE"
      BY PlaceHoldUpdate
    <3> QED BY <3>1, <3>2 DEF LocalsOK
  <2> QED BY <2>1, <2>2
<1> QED BY <1>4, <1>5, <1>6, <1>7 DEF Shape

\* A status is written, by a request that ends or by nobody's.
LEMMA StatusKeepsShape ==
  ASSUME Shape, NEW b \in BookingIds, NEW status, StatusWritten(b, status),
         UNCHANGED <<coupon, usage, service, rivals, lowered, edited>>, settled' \subseteq BookingIds,
         UNCHANGED req \/ \E q \in Requests : Finish(q)
  PROVE  Shape'
<1>0. TypeOK
  BY DEF Shape
<1>1. /\ req' \in [Requests -> Locals]
      /\ \A s \in Requests : req'[s] = req[s] \/ req'[s].pc = "done"
  <2>1. CASE UNCHANGED req
    BY <1>0, <2>1 DEF TypeOK
  <2>2. ASSUME NEW q \in Requests, Finish(q)
        PROVE  /\ req' \in [Requests -> Locals]
               /\ \A s \in Requests : req'[s] = req[s] \/ req'[s].pc = "done"
    BY <1>0, <2>2, FinishUpdate
  <2> QED BY <2>1, <2>2
<1>2. TypeOK' /\ IssuedTerms'
  BY <1>0, <1>1, StatusUpdate DEF TypeOK, IssuedTerms, Shape
<1>3. DiscountWithinPrice' /\ \A a \in BookingIds : RowOK(a)'
  <2>1. ASSUME NEW a \in BookingIds
        PROVE  /\ booking'[a].discount <= booking'[a].price
               /\ booking'[a].deposit <= booking'[a].price - booking'[a].discount
               /\ RowOK(a)'
    <3>1. /\ booking[a].discount <= booking[a].price
          /\ booking[a].deposit <= booking[a].price - booking[a].discount
          /\ RowOK(a)
      BY DEF Shape, DiscountWithinPrice
    <3>2. CASE a = b
      BY <1>0, <3>1, <3>2, StatusUpdate DEF RowOK, StatusWritten, Statuses
    <3>3. CASE a # b
      BY <1>0, <3>1, <3>3, StatusUpdate DEF RowOK
    <3> QED BY <3>2, <3>3
  <2> QED BY <2>1 DEF DiscountWithinPrice
<1>4. ASSUME NEW s \in Requests
      PROVE  LocalsOK(s)'
  <2>1. \A a \in BookingIds : booking[a].status # "NONE" => booking'[a].status # "NONE"
    BY <1>0, StatusUpdate DEF StatusWritten, Statuses
  <2>2. CASE req'[s].pc = "done"
    BY <2>2 DEF LocalsOK, Redeeming, Confirming, Writing
  <2>3. CASE req'[s] = req[s]
    <3>1. LocalsOK(s)
      BY DEF Shape
    <3> QED BY <2>1, <2>3, <3>1 DEF LocalsOK
  <2> QED BY <1>1, <2>2, <2>3
<1> QED BY <1>2, <1>3, <1>4 DEF Shape

LEMMA ReadsKeepShape ==
  ASSUME Shape, NEW q \in Requests,
         \/ \E u \in Users, c \in Coupons \cup {NoCoupon} : BeginHold(q, u, c)
         \/ CheckCoupon(q) \/ CheckUsage(q) \/ Redeem(q)
         \/ \E b \in BookingIds : ReadConfirm(q, b)
         \/ \E b \in BookingIds, status \in {"CONFIRMED", "CLOSED"} : ReadStatus(q, b, status)
         \/ ReadService(q) \/ Fail(q)
  PROVE  Shape'
<1>0. TypeOK /\ req[q] \in Locals /\ LocalsOK(q)
  BY DEF Shape, TypeOK
<1>1. ASSUME NEW u \in Users, NEW c \in Coupons \cup {NoCoupon}, BeginHold(q, u, c)
      PROVE  Shape'
  <2>1. service \in Offers /\ service.price \in Nat
    BY <1>0, TermsAssumption DEF TypeOK
  <2>2. c # NoCoupon => c \in Coupons
    OBVIOUS
  <2>3. LocalsOK(q)'
    BY <1>0, <1>1, <2>1, <2>2, BeginHoldUpdate DEF LocalsOK, Redeeming, Confirming, Writing
  <2>4. UNCHANGED <<coupon, usage, service, booking, rivals, lowered, edited, settled>>
    BY <1>1 DEF BeginHold, history
  <2>5. /\ req' \in [Requests -> Locals] /\ rivals' \in [Coupons -> Nat]
        /\ \A s \in Requests \ {q} : req'[s] = req[s]
    BY <1>0, <1>1, <2>4, BeginHoldUpdate DEF TypeOK
  <2> QED BY <2>3, <2>4, <2>5, ShapeMove
<1>2. CASE CheckCoupon(q)
  <2>1. CASE Redeemable(req[q].coupon, req[q].offer.price)
    <3>1. LocalsOK(q)'
      <4>1. req[q].pc = "check" /\ req[q].user \in Users /\ req[q].offer \in Offers
        BY <1>0, <1>2 DEF LocalsOK, CheckCoupon, Redeeming
      <4> QED BY <1>2, <2>1, <4>1, CheckCouponUpdate DEF LocalsOK, Redeeming, Confirming, Writing
    <3>2. rivals' \in [Coupons -> Nat]
      BY <1>0, <1>2, <2>1, CheckCouponUpdate DEF CheckCoupon, TypeOK
    <3>3. UNCHANGED <<coupon, usage, service, booking, lowered, edited, settled>>
      BY <1>2 DEF CheckCoupon
    <3>4. /\ req' \in [Requests -> Locals]
          /\ \A s \in Requests \ {q} : req'[s] = req[s]
      BY <1>2, <2>1, CheckCouponUpdate
    <3> QED BY <3>1, <3>2, <3>3, <3>4, ShapeMove
  <2>2. CASE ~Redeemable(req[q].coupon, req[q].offer.price)
    BY <1>2, <2>2, ShapeFinish DEF CheckCoupon, history
  <2> QED BY <2>1, <2>2
<1>3. CASE CheckUsage(q) \/ Redeem(q)
  <2>1. LocalsOK(q)'
    <3>1. CASE req'[q].pc = "done"
      BY <3>1 DEF LocalsOK, Redeeming, Confirming, Writing
    <3>2. CASE req'[q] = [req[q] EXCEPT !.pc = IF req[q].pc = "used" THEN "redeem" ELSE "book"]
      <4>1. /\ req'[q].pc \in {"redeem", "book"} /\ req[q].pc \in {"used", "redeem"}
            /\ req'[q].user = req[q].user /\ req'[q].offer = req[q].offer
            /\ req'[q].coupon = req[q].coupon /\ req'[q].discount = req[q].discount
        BY <1>0, <1>3, <3>2, RedeemUpdate DEF Locals
      <4> QED BY <1>0, <4>1 DEF LocalsOK, Redeeming, Confirming, Writing
    <3> QED BY <1>3, <3>1, <3>2, RedeemUpdate
  <2>2. /\ req' \in [Requests -> Locals]
        /\ \A s \in Requests \ {q} : req'[s] = req[s]
        /\ UNCHANGED <<coupon, usage, service, booking, rivals, lowered, edited, settled>>
    BY <1>3, RedeemUpdate DEF history
  <2> QED BY <1>0, <2>1, <2>2, ShapeMove DEF TypeOK
<1>4. ASSUME NEW b \in BookingIds, ReadConfirm(q, b)
      PROVE  Shape'
  <2>1. UNCHANGED <<coupon, usage, service, booking, rivals, lowered, edited, settled>>
    BY <1>4 DEF ReadConfirm, history
  <2>2. booking'[b].status = "HOLD"
    BY <1>4, <2>1 DEF ReadConfirm
  <2>3. LocalsOK(q)'
    BY <1>0, <1>4, <2>2, ReadConfirmUpdate DEF LocalsOK, Redeeming, Confirming, Writing
  <2>4. /\ req' \in [Requests -> Locals]
        /\ \A s \in Requests \ {q} : req'[s] = req[s]
    BY <1>0, <1>4, ReadConfirmUpdate
  <2> QED BY <1>0, <2>1, <2>3, <2>4, ShapeMove DEF TypeOK
<1>5. CASE ReadService(q)
  <2>1. UNCHANGED <<coupon, usage, service, booking, rivals, lowered, edited, settled>>
    BY <1>5 DEF ReadService, history
  <2>2. req[q].booking \in BookingIds /\ booking[req[q].booking].status # "NONE"
    BY <1>0, <1>5 DEF ReadService, LocalsOK, Confirming, Writing
  <2>3. LocalsOK(q)'
    BY <1>0, <1>5, <2>1, <2>2, ReadServiceUpdate DEF LocalsOK, Redeeming, Confirming, Writing
  <2>4. /\ req' \in [Requests -> Locals]
        /\ \A s \in Requests \ {q} : req'[s] = req[s]
    BY <1>0, <1>5, ReadServiceUpdate
  <2> QED BY <1>0, <2>1, <2>3, <2>4, ShapeMove DEF TypeOK
<1>6. CASE Fail(q)
  BY <1>6, ShapeFinish DEF Fail
<1>7. ASSUME NEW b \in BookingIds, NEW status \in {"CONFIRMED", "CLOSED"}, ReadStatus(q, b, status)
      PROVE  Shape'
  <2>1. UNCHANGED <<coupon, usage, service, booking, rivals, lowered, edited, settled>>
    BY <1>7 DEF ReadStatus, history
  <2>2. LocalsOK(q)'
    BY <1>0, <1>7, <2>1, ReadStatusUpdate DEF LocalsOK, Redeeming, Confirming, Writing
  <2>3. /\ req' \in [Requests -> Locals]
        /\ \A s \in Requests \ {q} : req'[s] = req[s]
    BY <1>0, <1>7, ReadStatusUpdate
  <2> QED BY <1>0, <2>1, <2>2, <2>3, ShapeMove DEF TypeOK
<1> QED BY <1>1, <1>2, <1>3, <1>4, <1>5, <1>6, <1>7

LEMMA EditsKeepShape ==
  ASSUME Shape,
         \/ \E c \in Coupons, terms \in Terms :
              CreateCoupon(c, terms) \/ \E live \in BOOLEAN : UpdateCoupon(c, terms, live)
         \/ \E offer \in Offers : UpdateService(offer)
  PROVE  Shape'
<1>0. TypeOK
  BY DEF Shape
<1>1. UNCHANGED <<usage, booking, req, rivals, settled>>
  BY DEF CreateCoupon, UpdateCoupon, UpdateService, history
<1>2. TypeOK' /\ IssuedTerms'
  <2>1. ASSUME NEW c \in Coupons, NEW terms \in Terms, CreateCoupon(c, terms)
        PROVE  TypeOK' /\ IssuedTerms'
    BY <1>0, <1>1, <2>1, CreateCouponUpdate DEF CreateCoupon, TypeOK, history
  <2>2. ASSUME NEW c \in Coupons, NEW terms \in Terms, NEW live \in BOOLEAN,
               UpdateCoupon(c, terms, live)
        PROVE  TypeOK' /\ IssuedTerms'
    <3>1. lowered' \subseteq Coupons /\ UNCHANGED <<service, edited>>
      BY <1>0, <2>2 DEF UpdateCoupon, TypeOK
    <3> QED BY <1>0, <1>1, <2>2, <3>1, UpdateCouponUpdate DEF TypeOK
  <2>3. ASSUME NEW offer \in Offers, UpdateService(offer)
        PROVE  TypeOK' /\ IssuedTerms'
    BY <1>0, <1>1, <2>3 DEF UpdateService, TypeOK, IssuedTerms, Shape
  <2> QED BY <2>1, <2>2, <2>3
<1>3. /\ DiscountWithinPrice'
      /\ \A b \in BookingIds : RowOK(b)' /\ (booking[b].status # "NONE" => booking'[b].status # "NONE")
  BY <1>1 DEF Shape, DiscountWithinPrice, RowOK
<1> QED BY <1>1, <1>2, <1>3, ShapeTables

LEMMA ShapeStep == Shape /\ [Next]_vars => Shape'
<1> SUFFICES ASSUME Shape, [Next]_vars PROVE Shape'
  OBVIOUS
<1>0. settled \subseteq BookingIds
  BY DEF Shape, TypeOK
<1>1. ASSUME NEW q \in Requests, WriteConfirm(q) \/ WriteStatus(q)
      PROVE  Shape'
  <2>1. /\ UNCHANGED <<coupon, usage, service, rivals, lowered, edited>> /\ Finish(q)
        /\ settled' \in {settled, settled \cup {req[q].booking}}
    BY <1>1 DEF WriteConfirm, WriteStatus, history
  <2>2. req[q].booking \in BookingIds /\ StatusWritten(req[q].booking, req[q].status)
    BY <1>1, StatusSteps
  <2> QED BY <1>0, <2>1, <2>2, StatusKeepsShape
<1>2. ASSUME NEW b \in BookingIds, PayDeposit(b) \/ Expire(b)
      PROVE  Shape'
  <2>1. /\ UNCHANGED <<coupon, usage, service, rivals, lowered, edited, req>>
        /\ settled' \in {settled, settled \cup {b}}
    BY <1>2 DEF PayDeposit, Expire, history
  <2>2. \E status : StatusWritten(b, status)
    BY <1>2, StatusSteps
  <2> QED BY <1>0, <2>1, <2>2, StatusKeepsShape
<1>3. CASE UNCHANGED vars
  <2>1. UNCHANGED <<coupon, usage, service, booking, req, rivals, lowered, edited, settled>>
    BY <1>3 DEF vars, history
  <2>2. TypeOK' /\ IssuedTerms'
    BY <2>1 DEF Shape, TypeOK, IssuedTerms
  <2>3. /\ DiscountWithinPrice'
        /\ \A b \in BookingIds : RowOK(b)' /\ (booking[b].status # "NONE" => booking'[b].status # "NONE")
    BY <2>1 DEF Shape, DiscountWithinPrice, RowOK
  <2> QED BY <2>1, <2>2, <2>3, ShapeTables
<1> QED BY <1>1, <1>2, <1>3, ReadsKeepShape, HoldKeepsShape, EditsKeepShape DEF Next

LEMMA ShapeInvariant == Spec => []Shape
  BY ShapeInit, ShapeStep, PTL DEF Spec

\* Checkout keeps its types: in particular no deposit is negative (DepositOff).
THEOREM CheckoutTypes == Spec => []TypeOK
<1>1. Shape => TypeOK
  BY DEF Shape
<1> QED BY <1>1, ShapeInvariant, PTL

\* No discount exceeds the price and no deposit what is left, for all terms and
\* offers and however they are edited (checkAndCompute, hold).
THEOREM DiscountsBounded == Spec => []DiscountWithinPrice
<1>1. Shape => DiscountWithinPrice
  BY DEF Shape
<1> QED BY <1>1, ShapeInvariant, PTL

---------------------------------------------------------------------------
(* Usages: redemption is atomic with the booking *)

\* The booking for which a user redeemed a coupon.
LEMMA UsageLink ==
  ASSUME UsageMatchesBookings, NEW c \in Coupons, NEW u \in Users, NEW b \in BookingIds
  PROVE  usage[c][u] = b <=> booking[b].coupon = c /\ booking[b].user = u
<1>1. \A v \in Users, a \in BookingIds :
        usage[c][v] = a <=> booking[a].coupon = c /\ booking[a].user = v
  BY DEF UsageMatchesBookings
<1> QED BY <1>1

\* Nothing is redeemed, and no request gets as far as the lock of the row.
LEMMA UsagesFrame ==
  ASSUME Usages, UNCHANGED usage,
         \A c \in Coupons : coupon'[c].usageCount = coupon[c].usageCount,
         \A b \in BookingIds :
            \/ booking'[b].coupon = booking[b].coupon /\ booking'[b].user = booking[b].user
            \/ booking[b].coupon = NoCoupon /\ booking'[b].coupon = NoCoupon,
         \A q \in Requests : req'[q].pc = "book" /\ req'[q].coupon # NoCoupon =>
            /\ req[q].pc = "book" /\ req[q].coupon = req'[q].coupon /\ req[q].user = req'[q].user
  PROVE  Usages'
<1>1. RowLockOK'
  <2> SUFFICES ASSUME NEW q \in Requests, req'[q].pc = "book", req'[q].coupon # NoCoupon
               PROVE  /\ usage'[req'[q].coupon][req'[q].user] = NoBooking
                      /\ \A s \in Requests :
                           req'[s].pc = "book" /\ req'[s].coupon = req'[q].coupon => s = q
    BY DEF RowLockOK
  <2> QED BY DEF Usages, RowLockOK
<1>2. \A c \in Coupons : UsersOf(c)' = UsersOf(c)
  BY DEF UsersOf
<1>3. UsageMatchesBookings'
  <2>1. ASSUME NEW c \in Coupons
        PROVE  /\ coupon'[c].usageCount = Cardinality({u \in Users : usage'[c][u] # NoBooking})
               /\ \A u \in Users, b \in BookingIds :
                    usage'[c][u] = b <=> booking'[b].coupon = c /\ booking'[b].user = u
    <3>1. c # NoCoupon
      BY NothingAssumption
    <3>2. ASSUME NEW u \in Users, NEW b \in BookingIds
          PROVE  usage'[c][u] = b <=> booking'[b].coupon = c /\ booking'[b].user = u
      <4>1. usage[c][u] = b <=> booking[b].coupon = c /\ booking[b].user = u
        BY UsageLink DEF Usages
      <4>2. CASE booking'[b].coupon = booking[b].coupon /\ booking'[b].user = booking[b].user
        BY <4>1, <4>2
      <4>3. CASE booking[b].coupon = NoCoupon /\ booking'[b].coupon = NoCoupon
        BY <3>1, <4>1, <4>3
      <4> QED BY <4>2, <4>3
    <3>3. coupon[c].usageCount = Cardinality(UsersOf(c))
      BY DEF Usages, UsageMatchesBookings, UsersOf
    <3>4. coupon'[c].usageCount = Cardinality(UsersOf(c)')
      BY <1>2, <3>3
    <3> QED BY <3>2, <3>4 DEF UsersOf
  <2> QED BY <2>1 DEF UsageMatchesBookings
<1> QED BY <1>1, <1>2, <1>3 DEF Usages

LEMMA RedeemKeepsUsages ==
  ASSUME Shape, Usages, NEW q \in Requests, Redeem(q)
  PROVE  Usages'
<1>1. /\ \A s \in Requests : ~(req[s].pc = "book" /\ req[s].coupon = req[q].coupon)
      /\ req[q].pc = "redeem" /\ UNCHANGED <<coupon, usage, booking>>
  BY DEF Redeem, RowLocked
<1>2. RowLockOK'
  <2> SUFFICES ASSUME NEW p \in Requests, req'[p].pc = "book", req'[p].coupon # NoCoupon
               PROVE  /\ usage'[req'[p].coupon][req'[p].user] = NoBooking
                      /\ \A s \in Requests :
                           req'[s].pc = "book" /\ req'[s].coupon = req'[p].coupon => s = p
    BY DEF RowLockOK
  <2>0. /\ \A s \in Requests \ {q} : req'[s] = req[s]
        /\ \/ req'[q].pc = "done"
           \/ /\ req'[q].user = req[q].user /\ req'[q].coupon = req[q].coupon
              /\ usage[req[q].coupon][req[q].user] = NoBooking
    BY RedeemUpdate
  <2>1. CASE p = q
    BY <1>1, <2>0, <2>1
  <2>2. CASE p # q
    <3>1. /\ usage[req[p].coupon][req[p].user] = NoBooking /\ req'[p] = req[p]
          /\ \A s \in Requests : req[s].pc = "book" /\ req[s].coupon = req[p].coupon => s = p
      BY <2>0, <2>2 DEF Usages, RowLockOK
    <3> QED BY <1>1, <2>0, <2>2, <3>1
  <2> QED BY <2>1, <2>2
<1>3. UsageMatchesBookings' /\ \A c \in Coupons : UsersOf(c)' = UsersOf(c)
  BY <1>1 DEF Usages, UsageMatchesBookings, UsersOf
<1> QED BY <1>2, <1>3 DEF Usages

LEMMA HoldKeepsUsages ==
  ASSUME Shape, Usages, NEW q \in Requests, NEW b \in BookingIds, PlaceHold(q, b)
  PROVE  Usages'
<1>1. /\ req'[q].pc = "done" /\ \A s \in Requests \ {q} : req'[s] = req[s]
  BY FinishUpdate DEF Shape, PlaceHold
<1>2. booking[b] = NoRow /\ booking[b].coupon = NoCoupon /\ req[q].pc = "book"
  BY DEF Shape, RowOK, NoRow, PlaceHold
<1>3. CASE req[q].coupon = NoCoupon
  <2>1. UNCHANGED <<coupon, usage>>
    BY <1>3, NoUsageUpdate
  <2>2. \A a \in BookingIds :
          \/ booking'[a].coupon = booking[a].coupon /\ booking'[a].user = booking[a].user
          \/ booking[a].coupon = NoCoupon /\ booking'[a].coupon = NoCoupon
    BY <1>2, <1>3, PlaceHoldUpdate
  <2> QED BY <1>1, <2>1, <2>2, UsagesFrame
<1>4. ASSUME NEW c \in Coupons, req[q].coupon = c
      PROVE  Usages'
  <2> DEFINE u == req[q].user
  <2>0. c # NoCoupon /\ b # NoBooking
    BY NothingAssumption
  <2>1. u \in Users /\ usage[c][u] = NoBooking
    BY <1>2, <1>4, <2>0, PlaceHoldUpdate DEF Usages, RowLockOK
  <2>2. /\ usage'[c][u] = b /\ \A v \in Users : v # u => usage'[c][v] = usage[c][v]
        /\ \A d \in Coupons \ {c} : usage'[d] = usage[d] /\ coupon'[d] = coupon[d]
        /\ coupon'[c].usageCount = coupon[c].usageCount + 1
    BY <1>4, UsageUpdate
  <2>3. /\ booking'[b].coupon = c /\ booking'[b].user = u
        /\ \A a \in BookingIds \ {b} : booking'[a] = booking[a]
    BY <1>4, PlaceHoldUpdate
  <2> HIDE DEF u
  <2>4. RowLockOK'
    <3> SUFFICES ASSUME NEW p \in Requests, req'[p].pc = "book", req'[p].coupon # NoCoupon
                 PROVE  /\ usage'[req'[p].coupon][req'[p].user] = NoBooking
                        /\ \A s \in Requests :
                             req'[s].pc = "book" /\ req'[s].coupon = req'[p].coupon => s = p
      BY DEF RowLockOK
    <3>1. p # q /\ req'[p] = req[p]
      BY <1>1
    <3>2. /\ usage[req[p].coupon][req[p].user] = NoBooking
          /\ \A s \in Requests : req[s].pc = "book" /\ req[s].coupon = req[p].coupon => s = p
      BY <3>1 DEF Usages, RowLockOK
    <3>3. req[p].coupon \in Coupons \ {c}
      BY <1>2, <1>4, <3>1, <3>2 DEF Shape, TypeOK, Locals
    <3> QED BY <1>1, <2>2, <3>1, <3>2, <3>3
  <2>5. ASSUME NEW d \in Coupons
        PROVE  /\ \A v \in Users, a \in BookingIds :
                    usage'[d][v] = a <=> booking'[a].coupon = d /\ booking'[a].user = v
               /\ coupon'[d].usageCount = Cardinality(UsersOf(d)')
               /\ IsFiniteSet(UsersOf(d)')
    <3>0. /\ \A v \in Users, a \in BookingIds :
               usage[d][v] = a <=> booking[a].coupon = d /\ booking[a].user = v
          /\ coupon[d].usageCount = Cardinality(UsersOf(d)) /\ IsFiniteSet(UsersOf(d))
      BY DEF Usages, UsageMatchesBookings, UsersOf
    <3>1. \A v \in Users : usage[d][v] # b
      BY <1>2, <3>0, NothingAssumption
    <3>2. CASE d = c
      <4>1. UsersOf(c)' = UsersOf(c) \cup {u} /\ u \notin UsersOf(c)
        BY <2>0, <2>1, <2>2 DEF UsersOf
      <4>2. /\ IsFiniteSet(UsersOf(c)')
            /\ Cardinality(UsersOf(c)') = Cardinality(UsersOf(c)) + 1
        BY <3>0, <3>2, <4>1, FS_AddElement
      <4>3. \A v \in Users, a \in BookingIds :
              usage'[c][v] = a <=> booking'[a].coupon = c /\ booking'[a].user = v
        BY <2>0, <2>1, <2>2, <2>3, <3>0, <3>1, <3>2, NothingAssumption
      <4> QED BY <2>2, <3>0, <3>2, <4>2, <4>3
    <3>3. CASE d # c
      <4>1. UsersOf(d)' = UsersOf(d)
        BY <2>2, <3>3 DEF UsersOf
      <4>2. \A v \in Users, a \in BookingIds :
              usage'[d][v] = a <=> booking'[a].coupon = d /\ booking'[a].user = v
        BY <2>2, <2>3, <3>0, <3>1, <3>3
      <4> QED BY <2>2, <3>0, <3>3, <4>1, <4>2
    <3> QED BY <3>2, <3>3
  <2>6. UsageMatchesBookings' /\ \A d \in Coupons : IsFiniteSet(UsersOf(d)')
    BY <2>5 DEF UsageMatchesBookings, UsersOf
  <2> QED BY <2>4, <2>6 DEF Usages
<1> QED BY <1>3, <1>4 DEF Shape, TypeOK, Locals

LEMMA UsagesInit == Init => Usages
<1> SUFFICES ASSUME Init PROVE Usages
  OBVIOUS
<1>1. \A q \in Requests : req[q].pc = "idle"
  BY DEF Init, Idle
<1>2. \A c \in Coupons : UsersOf(c) = {} /\ coupon[c].usageCount = 0
  BY DEF Init, UsersOf, Unissued
<1>3. \A c \in Coupons : IsFiniteSet(UsersOf(c)) /\ coupon[c].usageCount = Cardinality(UsersOf(c))
  BY <1>2, FS_EmptySet
<1>4. \A c \in Coupons, u \in Users, b \in BookingIds :
        usage[c][u] # b /\ booking[b].coupon # c
  BY NothingAssumption DEF Init, NoRow
<1>5. UsageMatchesBookings
  BY <1>3, <1>4 DEF UsageMatchesBookings, UsersOf
<1>6. RowLockOK
  BY <1>1 DEF RowLockOK
<1> QED BY <1>3, <1>5, <1>6 DEF Usages

LEMMA UsagesStep == Shape /\ Usages /\ [Next]_vars => Usages'
<1> SUFFICES ASSUME Shape, Usages, [Next]_vars PROVE Usages'
  OBVIOUS
<1>0. TypeOK
  BY DEF Shape
\* A step that touches no table and brings no request with a coupon to the lock.
<1>1. ASSUME UNCHANGED <<coupon, usage, booking>>,
             NEW q \in Requests, \A s \in Requests \ {q} : req'[s] = req[s],
             req'[q].pc # "book" \/ req'[q].coupon = NoCoupon
      PROVE  Usages'
  BY <1>1, UsagesFrame
<1>2. ASSUME NEW q \in Requests, NEW u \in Users, NEW c \in Coupons \cup {NoCoupon},
             BeginHold(q, u, c)
      PROVE  Usages'
  <2>1. /\ req'[q].pc # "book" \/ req'[q].coupon = NoCoupon
        /\ \A s \in Requests \ {q} : req'[s] = req[s]
    BY <1>0, <1>2, BeginHoldUpdate
  <2>2. UNCHANGED <<coupon, usage, booking>>
    BY <1>2 DEF BeginHold
  <2> QED BY <1>1, <2>1, <2>2
<1>3. ASSUME NEW q \in Requests, CheckCoupon(q)
      PROVE  Usages'
  <2>1. req'[q].pc \in {"used", "done"} /\ \A s \in Requests \ {q} : req'[s] = req[s]
    BY <1>0, <1>3, CheckCouponUpdate, FinishUpdate DEF CheckCoupon
  <2> QED BY <1>1, <1>3, <2>1 DEF CheckCoupon
<1>4. ASSUME NEW q \in Requests, CheckUsage(q)
      PROVE  Usages'
  <2>1. req[q].pc = "used"
    BY <1>4 DEF CheckUsage
  <2>2. req'[q].pc \in {"redeem", "done"} /\ \A s \in Requests \ {q} : req'[s] = req[s]
    BY <1>4, <2>1, RedeemUpdate
  <2> QED BY <1>1, <1>4, <2>2 DEF CheckUsage
<1>5. ASSUME NEW q \in Requests, NEW b \in BookingIds, ReadConfirm(q, b)
      PROVE  Usages'
  BY <1>0, <1>1, <1>5, ReadConfirmUpdate DEF ReadConfirm
<1>6. ASSUME NEW q \in Requests, ReadService(q)
      PROVE  Usages'
  BY <1>0, <1>1, <1>6, ReadServiceUpdate DEF ReadService
<1>7. ASSUME NEW q \in Requests, Fail(q)
      PROVE  Usages'
  BY <1>0, <1>1, <1>7, FinishUpdate DEF Fail
<1>8. ASSUME NEW q \in Requests, WriteConfirm(q) \/ WriteStatus(q)
      PROVE  Usages'
  <2>1. \A a \in BookingIds : booking'[a].coupon = booking[a].coupon /\ booking'[a].user = booking[a].user
    BY <1>0, <1>8, StatusSteps, StatusUpdate
  <2>2. Finish(q) /\ UNCHANGED <<coupon, usage>>
    BY <1>8 DEF WriteConfirm, WriteStatus
  <2>3. req'[q].pc = "done" /\ \A s \in Requests \ {q} : req'[s] = req[s]
    BY <1>0, <2>2, FinishUpdate
  <2> QED BY <2>1, <2>2, <2>3, UsagesFrame
<1>9. ASSUME NEW b \in BookingIds, PayDeposit(b) \/ Expire(b)
      PROVE  Usages'
  <2>1. \A a \in BookingIds : booking'[a].coupon = booking[a].coupon /\ booking'[a].user = booking[a].user
    BY <1>0, <1>9, StatusSteps, StatusUpdate
  <2>2. UNCHANGED <<req, coupon, usage>>
    BY <1>9 DEF PayDeposit, Expire
  <2> QED BY <2>1, <2>2, UsagesFrame
<1>10. ASSUME NEW c \in Coupons, NEW terms \in Terms, CreateCoupon(c, terms)
       PROVE  Usages'
  <2>1. \A d \in Coupons : coupon'[d].usageCount = coupon[d].usageCount
    BY <1>10, CreateCouponUpdate
  <2> QED BY <1>10, <2>1, UsagesFrame DEF CreateCoupon
<1>11. ASSUME NEW c \in Coupons, NEW terms \in Terms, NEW live \in BOOLEAN,
              UpdateCoupon(c, terms, live)
       PROVE  Usages'
  <2>1. \A d \in Coupons : coupon'[d].usageCount = coupon[d].usageCount
    BY <1>11, UpdateCouponUpdate
  <2> QED BY <1>11, <2>1, UsagesFrame DEF UpdateCoupon
<1>12. ASSUME NEW offer \in Offers, UpdateService(offer)
       PROVE  Usages'
  BY <1>12, UsagesFrame DEF UpdateService
<1>13. CASE UNCHANGED vars
  BY <1>13, UsagesFrame DEF vars
<1>14. ASSUME NEW q \in Requests, NEW b \in BookingIds, NEW status \in {"CONFIRMED", "CLOSED"},
              ReadStatus(q, b, status)
       PROVE  Usages'
  BY <1>0, <1>1, <1>14, ReadStatusUpdate DEF ReadStatus
<1> QED
  BY <1>2, <1>3, <1>4, <1>5, <1>6, <1>7, <1>8, <1>9, <1>10, <1>11, <1>12, <1>13, <1>14,
     RedeemKeepsUsages, HoldKeepsUsages DEF Next

\* Redemption is atomic with the booking, for any number of concurrent holds:
\* usages and bookings correspond, and the counter counts them (checkAndRedeem).
THEOREM RedemptionAtomic == Spec => []UsageMatchesBookings
<1>1. Init => Shape /\ Usages
  BY ShapeInit, UsagesInit
<1>2. Shape /\ Usages /\ [Next]_vars => (Shape /\ Usages)'
  BY ShapeStep, UsagesStep
<1>3. Usages => UsageMatchesBookings
  BY DEF Usages
<1> QED BY <1>1, <1>2, <1>3, PTL DEF Spec

---------------------------------------------------------------------------
(* Limits: what a coupon is used beyond its limit *)

\* Fewer redeem coupon c, or as many, and it is as before.
LEMMA LimitFrame ==
  ASSUME Shape, NEW c \in Coupons, LimitOK(c), Redeemers(c)' \subseteq Redeemers(c),
         coupon'[c].usageCount = coupon[c].usageCount,
         coupon'[c].terms.usageLimit = coupon[c].terms.usageLimit,
         c \in lowered => c \in lowered', rivals'[c] = rivals[c]
  PROVE  LimitOK(c)'
<1>1. /\ IsFiniteSet(Redeemers(c)) /\ IsFiniteSet(Redeemers(c)')
      /\ Cardinality(Redeemers(c)') <= Cardinality(Redeemers(c))
  BY FS_Subset DEF LimitOK
<1>2. Cardinality(Redeemers(c)) \in Nat /\ Cardinality(Redeemers(c)') \in Nat
  BY <1>1, FS_CardinalityType
<1>3. coupon[c].usageCount \in Nat /\ coupon[c].terms.usageLimit \in Nat /\ rivals[c] \in Nat
  BY TermsAssumption DEF Shape, TypeOK, NoTerms
<1> QED BY <1>1, <1>2, <1>3 DEF LimitOK

\* A step of requests alone, in which nobody begins to redeem.
LEMMA LimitsFrame ==
  ASSUME Shape, Limits, UNCHANGED <<coupon, lowered, rivals>>,
         \A q \in Requests : req'[q].pc \in Redeeming =>
            \/ req'[q].coupon = NoCoupon
            \/ req[q].pc \in Redeeming /\ req[q].coupon = req'[q].coupon
  PROVE  Limits'
<1>1. \A c \in Coupons : Redeemers(c)' \subseteq Redeemers(c)
  BY NothingAssumption DEF Redeemers
<1>2. Issued'
  BY <1>1 DEF Limits, Issued
<1>3. \A c \in Coupons : LimitOK(c)'
  BY <1>1, LimitFrame DEF Limits
<1> QED BY <1>2, <1>3 DEF Limits

LEMMA CheckKeepsLimits ==
  ASSUME Shape, Limits, NEW q \in Requests, CheckCoupon(q),
         Redeemable(req[q].coupon, req[q].offer.price)
  PROVE  Limits'
<1>0. PICK c \in Coupons : c = req[q].coupon
  BY CheckCouponUpdate
<1>1. /\ c \in Coupons /\ req[q].pc = "check" /\ req'[q].pc = "used" /\ req'[q].coupon = c
      /\ \A s \in Requests \ {q} : req'[s] = req[s]
  BY <1>0, CheckCouponUpdate DEF CheckCoupon
<1>2. UNCHANGED <<coupon, lowered>>
  BY DEF CheckCoupon
<1>3. rivals' = IF Redeemers(c) # {} THEN [rivals EXCEPT ![c] = @ + 1] ELSE rivals
  BY <1>0 DEF CheckCoupon, Redeemers, Redeeming
<1>4. coupon[c].live /\ ~Exhausted(c)
  BY <1>0 DEF Redeemable
<1>5. Redeemers(c)' = Redeemers(c) \cup {q} /\ q \notin Redeemers(c)
  BY <1>1 DEF Redeemers, Redeeming
<1>6. \A d \in Coupons \ {c} : Redeemers(d)' = Redeemers(d)
  BY <1>1 DEF Redeemers, Redeeming
<1>7. Issued'
  <2>1. coupon[c] # Unissued
    BY <1>4 DEF Unissued
  <2> QED BY <1>2, <1>6, <2>1 DEF Limits, Issued
<1>8. LimitOK(c)'
  <2>1. IsFiniteSet(Redeemers(c))
    BY <1>1 DEF Limits, LimitOK
  <2>2. /\ IsFiniteSet(Redeemers(c)')
        /\ Cardinality(Redeemers(c)') = Cardinality(Redeemers(c)) + 1
    BY <1>5, <2>1, FS_AddElement
  <2>3. Cardinality(Redeemers(c)) \in Nat /\ (Redeemers(c) = {} => Cardinality(Redeemers(c)) = 0)
    BY <2>1, FS_CardinalityType, FS_EmptySet
  <2>4. coupon[c].usageCount \in Nat /\ coupon[c].terms.usageLimit \in Nat
    BY <1>1, TermsAssumption DEF Shape, TypeOK, NoTerms
  <2>5. rivals[c] \in Nat /\ rivals'[c] = IF Redeemers(c) # {} THEN rivals[c] + 1 ELSE rivals[c]
    BY <1>1, <1>3 DEF Shape, TypeOK
  <2>6. coupon[c].terms.usageLimit > 0 => coupon[c].usageCount < coupon[c].terms.usageLimit
    BY <1>4, <2>4 DEF Exhausted
  <2>7. c \notin lowered /\ coupon[c].terms.usageLimit > 0 =>
          coupon[c].usageCount + Cardinality(Redeemers(c)) <= coupon[c].terms.usageLimit + rivals[c]
    BY <1>1 DEF Limits, LimitOK
  <2>8. c \notin lowered /\ coupon[c].terms.usageLimit > 0 =>
          coupon[c].usageCount + Cardinality(Redeemers(c)') <= coupon[c].terms.usageLimit + rivals'[c]
    BY <2>2, <2>3, <2>4, <2>5, <2>6, <2>7
  <2> QED BY <1>2, <2>2, <2>8 DEF LimitOK
<1>9. ASSUME NEW d \in Coupons, d # c
      PROVE  LimitOK(d)'
  <2>1. rivals'[d] = rivals[d]
    BY <1>1, <1>3, <1>9 DEF Shape, TypeOK
  <2> QED BY <1>2, <1>6, <1>9, <2>1, LimitFrame DEF Limits
<1> QED BY <1>7, <1>8, <1>9 DEF Limits

LEMMA HoldKeepsLimits ==
  ASSUME Shape, Limits, NEW q \in Requests, NEW b \in BookingIds, PlaceHold(q, b)
  PROVE  Limits'
<1>1. /\ req'[q].pc = "done" /\ \A s \in Requests \ {q} : req'[s] = req[s]
  BY FinishUpdate DEF Shape, PlaceHold
<1>2. req[q].pc = "book" /\ UNCHANGED <<rivals, lowered>>
  BY DEF PlaceHold
<1>3. CASE req[q].coupon = NoCoupon
  <2>1. UNCHANGED coupon
    BY <1>3, NoUsageUpdate
  <2> QED BY <1>1, <1>2, <2>1, LimitsFrame DEF Redeeming
<1>4. ASSUME NEW c \in Coupons, req[q].coupon = c
      PROVE  Limits'
  <2>1. /\ coupon'[c].usageCount = coupon[c].usageCount + 1 /\ coupon'[c].terms = coupon[c].terms
        /\ \A d \in Coupons \ {c} : coupon'[d] = coupon[d]
    BY <1>4, UsageUpdate
  <2>2. /\ Redeemers(c)' = Redeemers(c) \ {q} /\ q \in Redeemers(c)
        /\ \A d \in Coupons : Redeemers(d)' \subseteq Redeemers(d)
    BY <1>1, <1>2, <1>4 DEF Redeemers, Redeeming
  <2>3. coupon[c].usageCount \in Nat /\ coupon[c].terms.usageLimit \in Nat /\ rivals[c] \in Nat
    BY TermsAssumption DEF Shape, TypeOK, NoTerms
  <2>4. Issued'
    <3>1. coupon'[c] # Unissued
      BY <2>1, <2>3 DEF Unissued
    <3> QED BY <2>1, <2>2, <3>1 DEF Limits, Issued
  <2>5. LimitOK(c)'
    <3>1. IsFiniteSet(Redeemers(c)) /\ Cardinality(Redeemers(c)) \in Nat
      BY FS_CardinalityType DEF Limits, LimitOK
    <3>2. /\ IsFiniteSet(Redeemers(c)')
          /\ Cardinality(Redeemers(c)') = Cardinality(Redeemers(c)) - 1
      BY <2>2, <3>1, FS_RemoveElement
    <3>3. c \notin lowered /\ coupon[c].terms.usageLimit > 0 =>
            coupon[c].usageCount + Cardinality(Redeemers(c)) <= coupon[c].terms.usageLimit + rivals[c]
      BY DEF Limits, LimitOK
    <3> QED BY <1>2, <2>1, <2>3, <3>1, <3>2, <3>3 DEF LimitOK
  <2>6. \A d \in Coupons \ {c} : LimitOK(d)'
    BY <1>2, <2>1, <2>2, LimitFrame DEF Limits
  <2> QED BY <2>4, <2>5, <2>6 DEF Limits
<1> QED BY <1>3, <1>4 DEF Shape, TypeOK, Locals

LEMMA EditsKeepLimits ==
  ASSUME Shape, Limits, NEW c \in Coupons, NEW terms \in Terms,
         CreateCoupon(c, terms) \/ \E live \in BOOLEAN : UpdateCoupon(c, terms, live)
  PROVE  Limits'
<1>1. UNCHANGED <<req, rivals>> /\ lowered \subseteq lowered' /\ lowered' \subseteq lowered \cup {c}
  BY DEF CreateCoupon, UpdateCoupon, history
<1>2. \A d \in Coupons : Redeemers(d)' = Redeemers(d)
  BY <1>1 DEF Redeemers
<1>3. /\ coupon'[c].terms = terms /\ coupon'[c].usageCount = coupon[c].usageCount
      /\ \A d \in Coupons \ {c} : coupon'[d] = coupon[d]
  BY CreateCouponUpdate, UpdateCouponUpdate
<1>4. terms.usageLimit \in Nat /\ terms # NoTerms
  BY TermsAssumption DEF NoTerms
<1>5. Issued'
  <2>1. coupon'[c] # Unissued
    BY <1>3, <1>4 DEF Unissued
  <2> QED BY <1>2, <1>3, <2>1 DEF Limits, Issued
<1>6. LimitOK(c)'
  <2>1. IsFiniteSet(Redeemers(c)) /\ Cardinality(Redeemers(c)) \in Nat
    BY FS_CardinalityType DEF Limits, LimitOK
  <2>2. coupon[c].usageCount \in Nat /\ coupon[c].terms.usageLimit \in Nat /\ rivals[c] \in Nat
    BY TermsAssumption DEF Shape, TypeOK, NoTerms
  <2>3. CASE CreateCoupon(c, terms)
    <3>1. coupon[c].usageCount = 0 /\ Redeemers(c) = {}
      BY <2>3 DEF CreateCoupon, Unissued, Limits, Issued
    <3>2. Cardinality(Redeemers(c)) = 0
      BY <3>1, FS_EmptySet
    <3>3. coupon[c].usageCount + Cardinality(Redeemers(c)) <= terms.usageLimit + rivals[c]
      BY <1>4, <2>2, <3>1, <3>2
    <3> QED BY <1>1, <1>2, <1>3, <2>1, <3>3 DEF LimitOK
  <2>4. ASSUME NEW live \in BOOLEAN, UpdateCoupon(c, terms, live)
        PROVE  LimitOK(c)'
    <3>1. c \notin lowered' /\ terms.usageLimit > 0 =>
            /\ c \notin lowered /\ coupon[c].terms.usageLimit > 0
            /\ coupon[c].terms.usageLimit <= terms.usageLimit
      BY <1>1, <1>4, <2>2, <2>4 DEF UpdateCoupon
    <3>2. c \notin lowered /\ coupon[c].terms.usageLimit > 0 =>
            coupon[c].usageCount + Cardinality(Redeemers(c)) <= coupon[c].terms.usageLimit + rivals[c]
      BY DEF Limits, LimitOK
    <3>3. c \notin lowered' /\ terms.usageLimit > 0 =>
            coupon[c].usageCount + Cardinality(Redeemers(c)) <= terms.usageLimit + rivals[c]
      BY <1>4, <2>1, <2>2, <3>1, <3>2
    <3> QED BY <1>1, <1>2, <1>3, <2>1, <3>3 DEF LimitOK
  <2> QED BY <2>3, <2>4
<1>7. \A d \in Coupons \ {c} : LimitOK(d)'
  BY <1>1, <1>2, <1>3, LimitFrame DEF Limits
<1> QED BY <1>5, <1>6, <1>7 DEF Limits

LEMMA LimitsInit == Init => Limits
<1> SUFFICES ASSUME Init PROVE Limits
  OBVIOUS
<1>1. \A c \in Coupons : Redeemers(c) = {}
  BY DEF Init, Idle, Redeemers, Redeeming
<1>2. \A c \in Coupons : IsFiniteSet(Redeemers(c)) /\ Cardinality(Redeemers(c)) = 0
  BY <1>1, FS_EmptySet
<1>3. \A c \in Coupons : coupon[c].terms.usageLimit = 0
  BY DEF Init, Unissued, NoTerms
<1> QED BY <1>1, <1>2, <1>3 DEF Limits, Issued, LimitOK

LEMMA LimitsStep == Shape /\ Limits /\ [Next]_vars => Limits'
<1> SUFFICES ASSUME Shape, Limits, [Next]_vars PROVE Limits'
  OBVIOUS
<1>0. TypeOK
  BY DEF Shape
\* A step of one request that does not begin to redeem a coupon.
<1>1. ASSUME UNCHANGED <<coupon, lowered, rivals>>,
             NEW q \in Requests, \A s \in Requests \ {q} : req'[s] = req[s],
             \/ req'[q].pc \notin Redeeming \/ req'[q].coupon = NoCoupon
             \/ req[q].pc \in Redeeming /\ req[q].coupon = req'[q].coupon
      PROVE  Limits'
  <2>1. \A s \in Requests : req'[s].pc \in Redeeming =>
            \/ req'[s].coupon = NoCoupon
            \/ req[s].pc \in Redeeming /\ req[s].coupon = req'[s].coupon
    BY <1>1
  <2> QED BY <1>1, <2>1, LimitsFrame
<1>2. ASSUME NEW q \in Requests, Finish(q), UNCHANGED <<coupon, lowered, rivals>>
      PROVE  Limits'
  <2>1. req'[q].pc \notin Redeeming /\ \A s \in Requests \ {q} : req'[s] = req[s]
    BY <1>0, <1>2, FinishUpdate DEF Redeeming
  <2> QED BY <1>1, <1>2, <2>1
<1>3. ASSUME NEW q \in Requests, NEW u \in Users, NEW c \in Coupons \cup {NoCoupon},
             BeginHold(q, u, c)
      PROVE  Limits'
  <2>1. /\ req'[q].pc \notin Redeeming \/ req'[q].coupon = NoCoupon
        /\ \A s \in Requests \ {q} : req'[s] = req[s]
    BY <1>0, <1>3, BeginHoldUpdate DEF Redeeming
  <2>2. UNCHANGED <<coupon, lowered, rivals>>
    BY <1>3 DEF BeginHold, history
  <2> QED BY <1>1, <2>1, <2>2
<1>4. ASSUME NEW q \in Requests, CheckCoupon(q)
      PROVE  Limits'
  <2>1. CASE Redeemable(req[q].coupon, req[q].offer.price)
    BY <1>4, <2>1, CheckKeepsLimits
  <2>2. CASE ~Redeemable(req[q].coupon, req[q].offer.price)
    BY <1>2, <1>4, <2>2 DEF CheckCoupon
  <2> QED BY <2>1, <2>2
<1>5. ASSUME NEW q \in Requests, CheckUsage(q) \/ Redeem(q)
      PROVE  Limits'
  <2>1. /\ req[q].pc \in {"used", "redeem"}
        /\ req'[q].pc = "done" \/ req'[q].coupon = req[q].coupon
        /\ \A s \in Requests \ {q} : req'[s] = req[s]
        /\ UNCHANGED <<coupon, history>>
    BY <1>5, RedeemUpdate
  <2>2. "done" \notin Redeeming /\ req[q].pc \in Redeeming /\ UNCHANGED <<lowered, rivals>>
    BY <2>1 DEF Redeeming, history
  <2> QED BY <1>1, <2>1, <2>2
<1>6. ASSUME NEW q \in Requests, NEW b \in BookingIds, ReadConfirm(q, b)
      PROVE  Limits'
  <2>1. req'[q].coupon = NoCoupon /\ \A s \in Requests \ {q} : req'[s] = req[s]
    BY <1>0, <1>6, ReadConfirmUpdate
  <2> QED BY <1>1, <1>6, <2>1 DEF ReadConfirm, history
<1>7. ASSUME NEW q \in Requests, ReadService(q)
      PROVE  Limits'
  <2>1. req'[q].pc \notin Redeeming /\ \A s \in Requests \ {q} : req'[s] = req[s]
    BY <1>0, <1>7, ReadServiceUpdate DEF Redeeming
  <2> QED BY <1>1, <1>7, <2>1 DEF ReadService, history
<1>8. ASSUME NEW q \in Requests, WriteConfirm(q) \/ WriteStatus(q) \/ Fail(q)
      PROVE  Limits'
  BY <1>2, <1>8 DEF WriteConfirm, WriteStatus, Fail, history
<1>9. ASSUME UNCHANGED <<coupon, lowered, rivals, req>>
      PROVE  Limits'
  BY <1>9, LimitsFrame
<1>10. ASSUME NEW b \in BookingIds, PayDeposit(b) \/ Expire(b)
       PROVE  Limits'
  BY <1>9, <1>10 DEF PayDeposit, Expire, history
<1>11. ASSUME NEW offer \in Offers, UpdateService(offer)
       PROVE  Limits'
  BY <1>9, <1>11 DEF UpdateService
<1>12. CASE UNCHANGED vars
  BY <1>9, <1>12 DEF vars, history
<1>13. ASSUME NEW q \in Requests, NEW b \in BookingIds, NEW status \in {"CONFIRMED", "CLOSED"},
              ReadStatus(q, b, status)
       PROVE  Limits'
  <2>1. req'[q].coupon = NoCoupon /\ \A s \in Requests \ {q} : req'[s] = req[s]
    BY <1>0, <1>13, ReadStatusUpdate
  <2> QED BY <1>1, <1>13, <2>1 DEF ReadStatus, history
<1> QED
  BY <1>3, <1>4, <1>5, <1>6, <1>7, <1>8, <1>10, <1>11, <1>12, <1>13,
     HoldKeepsLimits, EditsKeepLimits DEF Next

\* A coupon is used beyond its limit only as often as a hold checked it while
\* another was redeeming it, or after the limit was lowered (checkAndCompute).
THEOREM LimitsHold == Spec => []LimitKept
<1>1. Init => Shape /\ Limits
  BY ShapeInit, LimitsInit
<1>2. Shape /\ Limits /\ [Next]_vars => (Shape /\ Limits)'
  BY ShapeStep, LimitsStep
<1>3. Shape /\ Limits => LimitKept
  <2> SUFFICES ASSUME Shape, Limits, NEW c \in Coupons \ lowered, coupon[c].terms.usageLimit > 0
               PROVE  coupon[c].usageCount <= coupon[c].terms.usageLimit + rivals[c]
    BY DEF LimitKept
  <2>1. Cardinality(Redeemers(c)) \in Nat
    BY FS_CardinalityType DEF Limits, LimitOK
  <2>2. coupon[c].usageCount \in Nat /\ coupon[c].terms.usageLimit \in Nat /\ rivals[c] \in Nat
    BY TermsAssumption DEF Shape, TypeOK, NoTerms
  <2>3. coupon[c].usageCount + Cardinality(Redeemers(c)) <= coupon[c].terms.usageLimit + rivals[c]
    BY DEF Limits, LimitOK
  <2> QED BY <2>1, <2>2, <2>3
<1> QED BY <1>1, <1>2, <1>3, PTL DEF Spec

---------------------------------------------------------------------------
(* Deposits: confirm agrees with hold *)

\* What Deposits says of booking b, and of request q.
BookingFits(b) ==
    Fits(b, booking[b].status) /\ (booking[b].status = "HOLD" => AtTerms(b))

RequestFits(q) ==
    req[q].booking \in BookingIds \ edited =>
      /\ req[q].pc = "service" => AtTerms(req[q].booking)
      /\ req[q].pc = "confirm" => Fits(req[q].booking, req[q].status)

LEMMA DepositsParts ==
  Deposits <=> /\ \A b \in BookingIds \ edited : BookingFits(b)
               /\ \A q \in Requests : RequestFits(q)
  BY DEF Deposits, StatusFitsDeposit, Payable, BookingFits, RequestFits, Fits

LEMMA DepositsPartsPrime ==
  Deposits' <=> /\ \A b \in BookingIds \ edited' : BookingFits(b)'
                /\ \A q \in Requests : RequestFits(q)'
  BY DEF Deposits, StatusFitsDeposit, Payable, BookingFits, RequestFits, Fits

\* Bookings keep their terms and the service its own; q is a request that moves.
LEMMA DepositsMove ==
  ASSUME Deposits, NEW q \in Requests, UNCHANGED <<service, booking, edited, settled>>,
         \A s \in Requests \ {q} : req'[s] = req[s], RequestFits(q)'
  PROVE  Deposits'
<1>1. \A b \in BookingIds \ edited' : BookingFits(b)'
  BY DepositsParts DEF BookingFits, Fits, AtTerms
<1>2. \A s \in Requests \ {q} : RequestFits(s)'
  <2> SUFFICES ASSUME NEW s \in Requests \ {q} PROVE RequestFits(s)'
    OBVIOUS
  <2>1. RequestFits(s) /\ req'[s] = req[s]
    BY DepositsParts
  <2> QED BY <2>1 DEF RequestFits, Fits, AtTerms
<1> QED BY <1>1, <1>2, DepositsPartsPrime

\* A status is written that fits, or the booking is edited.
LEMMA DepositsStatus ==
  ASSUME Shape, Deposits, NEW b \in BookingIds, NEW status, StatusWritten(b, status),
         status # "HOLD", b \notin edited => Fits(b, status)', UNCHANGED <<service, edited>>,
         settled \subseteq settled',
         \A s \in Requests : req'[s] = req[s] \/ req'[s].pc = "done"
  PROVE  Deposits'
<1>0. /\ booking'[b].status = status
      /\ \A a \in BookingIds : /\ booking'[a].price = booking[a].price
                               /\ booking'[a].discount = booking[a].discount
                               /\ booking'[a].deposit = booking[a].deposit
                               /\ a # b => booking'[a] = booking[a]
  BY StatusUpdate DEF Shape
<1>1. \A a \in BookingIds : (AtTerms(a) => AtTerms(a)') /\ \A st : Fits(a, st) => Fits(a, st)'
  BY <1>0 DEF AtTerms, Fits
<1>2. ASSUME NEW a \in BookingIds \ edited'
      PROVE  BookingFits(a)'
  <2>1. BookingFits(a)
    BY <1>2, DepositsParts
  <2>2. CASE a = b
    BY <1>0, <1>1, <2>2 DEF BookingFits, Fits
  <2>3. CASE a # b
    BY <1>0, <1>1, <2>1, <2>3 DEF BookingFits, Fits
  <2> QED BY <2>2, <2>3
<1>3. ASSUME NEW s \in Requests
      PROVE  RequestFits(s)'
  <2>1. RequestFits(s)
    BY DepositsParts
  <2>2. CASE req'[s] = req[s]
    BY <1>0, <2>1, <2>2 DEF RequestFits, Fits, AtTerms
  <2>3. CASE req'[s].pc = "done"
    BY <2>3 DEF RequestFits
  <2> QED BY <2>2, <2>3
<1> QED BY <1>2, <1>3, DepositsPartsPrime

LEMMA ReadServiceKeepsDeposits ==
  ASSUME Shape, Deposits, NEW q \in Requests, ReadService(q)
  PROVE  Deposits'
<1>0. TypeOK /\ UNCHANGED <<service, booking, edited, settled>> /\ req[q].pc = "service"
  BY DEF Shape, ReadService, history
<1>1. PICK b \in BookingIds : b = req[q].booking
  BY <1>0 DEF Shape, LocalsOK, Confirming, Writing
<1>2. /\ req'[q].pc = "confirm" /\ req'[q].booking = b
      /\ req'[q].status = IF service.requiresDeposit THEN "PENDING" ELSE "CONFIRMED"
      /\ \A s \in Requests \ {q} : req'[s] = req[s]
  BY <1>0, <1>1, ReadServiceUpdate
<1>3. ASSUME b \notin edited
      PROVE  Fits(b, req'[q].status)
  <2>1. AtTerms(b)
    BY <1>0, <1>1, <1>3, DepositsParts DEF RequestFits
  <2>2. booking[b] \in Rows /\ booking[b].discount <= booking[b].price
    BY DEF Shape, TypeOK, DiscountWithinPrice
  <2>3. booking[b].discount \in Nat /\ service \in Offers
    BY <1>0, <2>2 DEF Rows, TypeOK
  <2>4. /\ service.requiresDeposit => booking[b].deposit > 0 \/ booking[b].price - booking[b].discount < 50
        /\ ~service.requiresDeposit => booking[b].deposit = 0
    BY <2>1, <2>2, <2>3, DepositBound DEF AtTerms
  <2> QED BY <1>2, <2>4 DEF Fits
<1>4. RequestFits(q)'
  BY <1>0, <1>2, <1>3 DEF RequestFits, Fits
<1> QED BY <1>0, <1>2, <1>4, DepositsMove

LEMMA HoldKeepsDeposits ==
  ASSUME Shape, Deposits, NEW q \in Requests, NEW b \in BookingIds, PlaceHold(q, b)
  PROVE  Deposits'
<1>0. TypeOK /\ Finish(q) /\ UNCHANGED <<service, settled>> /\ edited \subseteq edited' /\ booking[b].status = "NONE"
  BY DEF Shape, PlaceHold
<1>1. req'[q].pc = "done" /\ \A s \in Requests \ {q} : req'[s] = req[s]
  BY <1>0, FinishUpdate
<1>2. \A a \in BookingIds \ {b} : booking'[a] = booking[a]
  BY PlaceHoldUpdate
<1>3. ASSUME NEW a \in BookingIds \ edited'
      PROVE  BookingFits(a)'
  <2>1. CASE a = b
    <3>1. req[q].offer = service /\ Valid(service)
      BY <1>3, <2>1 DEF PlaceHold
    <3>2. AtTerms(b)'
      BY <1>0, <3>1, PlaceHoldUpdate DEF AtTerms, Valid, Deposit
    <3> QED BY <2>1, <3>2, PlaceHoldUpdate DEF BookingFits, Fits
  <2>2. CASE a # b
    <3>1. BookingFits(a) /\ booking'[a] = booking[a]
      BY <1>0, <1>2, <1>3, <2>2, DepositsParts
    <3> QED BY <1>0, <3>1 DEF BookingFits, Fits, AtTerms
  <2> QED BY <2>1, <2>2
<1>4. ASSUME NEW s \in Requests
      PROVE  RequestFits(s)'
  <2>1. CASE s = q
    BY <1>1, <2>1 DEF RequestFits
  <2>2. CASE s # q
    <3>1. RequestFits(s) /\ LocalsOK(s) /\ req'[s] = req[s]
      BY <1>1, <2>2, DepositsParts DEF Shape
    <3>2. req[s].pc \in Confirming => req[s].booking # b
      BY <1>0, <3>1 DEF LocalsOK, Writing
    <3> QED BY <1>0, <1>2, <3>1, <3>2 DEF RequestFits, Fits, AtTerms, Confirming
  <2> QED BY <2>1, <2>2
<1> QED BY <1>3, <1>4, DepositsPartsPrime

LEMMA UpdateServiceKeepsDeposits ==
  ASSUME Deposits, NEW offer \in Offers, UpdateService(offer)
  PROVE  Deposits'
<1>1. UNCHANGED <<booking, req, settled>> /\ edited \subseteq edited'
  BY DEF UpdateService
<1>2. /\ \A b \in BookingIds \ edited' : booking[b].status # "HOLD"
      /\ \A q \in Requests : req[q].booking \in BookingIds \ edited' => req[q].pc \notin Confirming
  BY DEF UpdateService, Confirming
<1>3. \A b \in BookingIds \ edited' : BookingFits(b)'
  BY <1>1, <1>2, DepositsParts DEF BookingFits, Fits
<1>4. \A q \in Requests : RequestFits(q)'
  BY <1>1, <1>2 DEF RequestFits, Confirming
<1> QED BY <1>3, <1>4, DepositsPartsPrime

LEMMA DepositsInit == Init => Deposits
<1> SUFFICES ASSUME Init PROVE Deposits
  OBVIOUS
<1>1. \A b \in BookingIds : booking[b].status = "NONE"
  BY DEF Init, NoRow
<1>2. \A q \in Requests : req[q].pc = "idle"
  BY DEF Init, Idle
<1> QED BY <1>1, <1>2, DepositsParts DEF BookingFits, RequestFits, Fits

LEMMA DepositsStep == Shape /\ Deposits /\ [Next]_vars => Deposits'
<1> SUFFICES ASSUME Shape, Deposits, [Next]_vars PROVE Deposits'
  OBVIOUS
<1>0. TypeOK
  BY DEF Shape
\* A step of one request that confirms nothing.
<1>1. ASSUME NEW q \in Requests, UNCHANGED <<service, booking, edited, settled>>,
             \A s \in Requests \ {q} : req'[s] = req[s], req'[q].pc \notin Confirming
      PROVE  Deposits'
  <2>1. RequestFits(q)'
    BY <1>1 DEF RequestFits, Confirming
  <2> QED BY <1>1, <2>1, DepositsMove
<1>2. ASSUME NEW q \in Requests, NEW u \in Users, NEW c \in Coupons \cup {NoCoupon},
             BeginHold(q, u, c)
      PROVE  Deposits'
  <2>1. req'[q].pc \notin Confirming /\ \A s \in Requests \ {q} : req'[s] = req[s]
    BY <1>0, <1>2, BeginHoldUpdate DEF Confirming
  <2> QED BY <1>1, <1>2, <2>1 DEF BeginHold, history
<1>3. ASSUME NEW q \in Requests, CheckCoupon(q)
      PROVE  Deposits'
  <2>1. req'[q].pc \notin Confirming /\ \A s \in Requests \ {q} : req'[s] = req[s]
    BY <1>0, <1>3, CheckCouponUpdate, FinishUpdate DEF CheckCoupon, Confirming
  <2> QED BY <1>1, <1>3, <2>1 DEF CheckCoupon
<1>4. ASSUME NEW q \in Requests, CheckUsage(q) \/ Redeem(q)
      PROVE  Deposits'
  <2>1. /\ req'[q].pc \in {"done", "redeem", "book"}
        /\ \A s \in Requests \ {q} : req'[s] = req[s]
        /\ UNCHANGED <<service, booking, history>>
    BY <1>4, RedeemUpdate
  <2> QED BY <1>1, <2>1 DEF Confirming, history
<1>5. ASSUME NEW q \in Requests, NEW b \in BookingIds, ReadConfirm(q, b)
      PROVE  Deposits'
  <2>1. /\ req'[q].pc = "service" /\ req'[q].booking = b
        /\ \A s \in Requests \ {q} : req'[s] = req[s]
    BY <1>0, <1>5, ReadConfirmUpdate
  <2>2. UNCHANGED <<service, booking, edited, settled>> /\ booking[b].status = "HOLD"
    BY <1>5 DEF ReadConfirm, history
  <2>3. b \notin edited => AtTerms(b)
    BY <2>2, DepositsParts DEF BookingFits
  <2>4. RequestFits(q)'
    BY <2>1, <2>2, <2>3 DEF RequestFits, AtTerms
  <2> QED BY <2>1, <2>2, <2>4, DepositsMove
<1>6. ASSUME NEW q \in Requests, WriteConfirm(q)
      PROVE  Deposits'
  <2>1. PICK b \in BookingIds : b = req[q].booking
    BY <1>6, StatusSteps
  <2>2. PICK status \in {"PENDING", "CONFIRMED"} : status = req[q].status
    BY <1>6, StatusSteps
  <2>3. StatusWritten(b, status)
    BY <1>6, <2>1, <2>2, StatusSteps
  <2>6. UNCHANGED <<service, edited, settled>>
    BY <1>6 DEF WriteConfirm, history
  <2>4. b \notin edited => Fits(b, status)
    BY <1>6, <2>1, <2>2, DepositsParts DEF RequestFits, WriteConfirm
  <2>7. b \notin edited => Fits(b, status)'
    BY <1>0, <2>3, <2>4, <2>6, StatusUpdate DEF Fits
  <2>5. \A s \in Requests : req'[s] = req[s] \/ req'[s].pc = "done"
    BY <1>0, <1>6, FinishUpdate DEF WriteConfirm
  <2> QED BY <2>2, <2>3, <2>5, <2>6, <2>7, DepositsStatus
<1>7. ASSUME NEW b \in BookingIds, PayDeposit(b) \/ Expire(b)
      PROVE  Deposits'
  <2>1. PICK status \in {"CONFIRMED", "CLOSED"} :
          StatusWritten(b, status) /\ (status = "CONFIRMED" => b \in settled')
    BY <1>7, StatusSteps DEF PayDeposit, Expire
  <2>2. Fits(b, status)'
    BY <2>1 DEF Fits
  <2>3. UNCHANGED <<service, edited, req>> /\ settled \subseteq settled'
    BY <1>7 DEF PayDeposit, Expire, history
  <2> QED BY <2>1, <2>2, <2>3, DepositsStatus
<1>8. ASSUME NEW q \in Requests, Fail(q)
      PROVE  Deposits'
  <2>1. req'[q].pc \notin Confirming /\ \A s \in Requests \ {q} : req'[s] = req[s]
    BY <1>0, <1>8, FinishUpdate DEF Fail, Confirming
  <2> QED BY <1>1, <1>8, <2>1 DEF Fail, history
<1>9. ASSUME UNCHANGED <<service, booking, edited, settled, req>>
      PROVE  Deposits'
  <2>1. \A b \in BookingIds \ edited' : BookingFits(b)'
    BY <1>9, DepositsParts DEF BookingFits, Fits, AtTerms
  <2>2. \A q \in Requests : RequestFits(q)'
    BY <1>9, DepositsParts DEF RequestFits, Fits, AtTerms
  <2> QED BY <2>1, <2>2, DepositsPartsPrime
<1>10. ASSUME NEW c \in Coupons, NEW terms \in Terms,
              CreateCoupon(c, terms) \/ \E live \in BOOLEAN : UpdateCoupon(c, terms, live)
       PROVE  Deposits'
  BY <1>9, <1>10 DEF CreateCoupon, UpdateCoupon, history
<1>11. CASE UNCHANGED vars
  BY <1>9, <1>11 DEF vars, history
<1>12. ASSUME NEW q \in Requests, NEW b \in BookingIds, NEW status \in {"CONFIRMED", "CLOSED"},
              ReadStatus(q, b, status)
       PROVE  Deposits'
  <2>1. req'[q].pc \notin Confirming /\ \A s \in Requests \ {q} : req'[s] = req[s]
    BY <1>0, <1>12, ReadStatusUpdate DEF Confirming
  <2> QED BY <1>1, <1>12, <2>1 DEF ReadStatus, history
<1>13. ASSUME NEW q \in Requests, WriteStatus(q)
       PROVE  Deposits'
  <2>1. PICK b \in BookingIds : b = req[q].booking
    BY <1>13, StatusSteps
  <2>2. PICK status \in {"CONFIRMED", "CLOSED"} : status = req[q].status
    BY <1>13, StatusSteps
  <2>3. StatusWritten(b, status)
    BY <1>13, <2>1, <2>2, StatusSteps
  <2>4. /\ UNCHANGED <<service, edited>> /\ settled \subseteq settled' /\ Finish(q)
        /\ status = "CONFIRMED" => b \in settled'
    BY <1>13, <2>1, <2>2 DEF WriteStatus
  <2>5. Fits(b, status)'
    BY <2>4 DEF Fits
  <2>6. \A s \in Requests : req'[s] = req[s] \/ req'[s].pc = "done"
    BY <1>0, <2>4, FinishUpdate
  <2> QED BY <2>2, <2>3, <2>4, <2>5, <2>6, DepositsStatus
<1> QED
  BY <1>2, <1>3, <1>4, <1>5, <1>6, <1>7, <1>8, <1>10, <1>11, <1>12, <1>13,
     ReadServiceKeepsDeposits, HoldKeepsDeposits, UpdateServiceKeepsDeposits DEF Next

\* A booking that waits for a payment can be paid, unless less than half a toman is
\* left to pay, and one that is confirmed owes nothing, was paid, or was confirmed
\* by updateStatus, unless the service was edited between hold and confirm; for all
\* prices and percentages of two places (round2).
THEOREM ConfirmFitsHold == Spec => []StatusFitsDeposit
<1>1. Init => Shape /\ Deposits
  BY ShapeInit, DepositsInit
<1>2. Shape /\ Deposits /\ [Next]_vars => (Shape /\ Deposits)'
  BY ShapeStep, DepositsStep
<1>3. Deposits => StatusFitsDeposit
  BY DEF Deposits
<1> QED BY <1>1, <1>2, <1>3, PTL DEF Spec

===========================================================================
