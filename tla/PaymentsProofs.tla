-------------------------- MODULE PaymentsProofs --------------------------
(***************************************************************************)
(* What Payments guarantees of money, for all sets of requests, users,     *)
(* payments and bookings and for all amounts.                              *)
(***************************************************************************)
EXTENDS Payments, TLAPS

---------------------------------------------------------------------------
(* The inductive invariant, in layers *)

Handling_pcs == Callback_pcs \cup Refund_pcs
Settling_pcs == {"settle", "credit", "confirm", "mark"}

\* A row that exists belongs to a user, and a deposit to a booking.
RowOK(x) ==
    IF payments[x].status = "NONE" THEN payments[x].ref = "null"
    ELSE /\ payments[x].user \in Users
         /\ payments[x].type = "DEPOSIT" => payments[x].booking \in BookingIds

\* What a request has in its locals, by its place in the handler.
LocalsOK(q) ==
    LET r == req[q] IN
    /\ r.pc \in {"wallet", "debit", "gateway"} => r.user \in Users
    /\ r.pc \in {"hold", "wallet", "debit", "gateway", "confirm"} => r.booking \in BookingIds
    /\ r.pc = "debit" => r.amount <= r.balance
    /\ r.pc \in Handling_pcs \cup {"session", "link"} =>
         r.pay \in PaymentIds /\ payments[r.pay].status # "NONE"
    /\ r.pc \in Handling_pcs => r.user \in Users
    /\ r.pc \in Callback_pcs => r.booking = payments[r.pay].booking
    /\ r.pc \in Callback_pcs \ {"fail"} => payments[r.pay].ref = "set"

Shape == /\ TypeOK
         /\ \A x \in PaymentIds : RowOK(x)
         /\ \A q \in Requests : LocalsOK(q)

Creating(q, x) == req[q].pay = x /\ req[q].pc \in {"session", "link"}

\* A payment's session is opened by one request, before any callback finds
\* the payment, and the one callback that uses it up is the one that credits.
CreditOK(x) ==
    /\ \A q, r \in Requests : Creating(q, x) /\ Creating(r, x) => q = r
    /\ \A q \in Requests : Creating(q, x) => payments[x].ref = "null"
    /\ x \in paid => payments[x].ref = "set" /\ session[x] # "open"
    /\ \A q, r \in Requests : Settling(q, x) /\ Settling(r, x) => q = r
    /\ \A q \in Requests : Settling(q, x) => x \in paid /\ credited[x] = 0
    /\ x \notin paid => credited[x] = 0
    /\ credited[x] <= 1

Credits == \A x \in PaymentIds : CreditOK(x)

\* A request that is not stale has the current balance in its locals.
SeenBalance(q) ==
    req[q].pc \in {"debit", "credit", "repay"} /\ q \notin stale =>
      req[q].balance = Balance(req[q].user)

Balances == DriftNeedsRace /\ \A q \in Requests : SeenBalance(q)

Handling(q, x) == req[q].pay = x /\ req[q].pc \in Handling_pcs

\* Unless it was contested, a payment has one handler at a time, which has
\* seen its current status.
HandlerOK(x) ==
    /\ \A q, r \in Requests : Handling(q, x) /\ Handling(r, x) => q = r
    /\ \A q \in Requests : Handling(q, x) =>
         payments[x].status = IF req[q].pc \in Refund_pcs THEN "SUCCESS" ELSE "INITIATED"
    /\ refunded[x] <= 1
    /\ payments[x].status # "REFUNDED" => refunded[x] = 0
    /\ x \in paid \ dropped => \/ payments[x].status \in {"SUCCESS", "REFUNDED"}
                               \/ \E q \in Requests : Settling(q, x)

Handlers == \A x \in PaymentIds \ contested : HandlerOK(x)

Paying(q, b) == req[q].booking = b /\ req[q].pc \in Paying_pcs

\* Unless two handlers met, a booking is about to be confirmed by one of them at
\* most, and has not been rewarded before.
AwardOK(b) ==
    /\ \A q, r \in Requests : Paying(q, b) /\ Paying(r, b) => q = r
    /\ \A q \in Requests : Paying(q, b) => awards[b] = 0
    /\ booking[b] \in {"HOLD", "PENDING"} => awards[b] = 0
    /\ awards[b] <= 1

Awards == \A b \in BookingIds \ copaid : AwardOK(b)

---------------------------------------------------------------------------
(* Types and locals *)

\* A request's locals are replaced.
LEMMA LocalsUpdate ==
  ASSUME TypeOK, NEW q \in Requests, NEW r \in Locals, req' = [req EXCEPT ![q] = r]
  PROVE  /\ req' \in [Requests -> Locals]
         /\ req'[q] = r
         /\ \A p \in Requests \ {q} : req'[p] = req[p]
  BY DEF TypeOK

\* A request ends.
LEMMA FinishUpdate ==
  ASSUME TypeOK, NEW q \in Requests, Finish(q)
  PROVE  /\ req' \in [Requests -> Locals]
         /\ req'[q].pc = "idle"
         /\ \A p \in Requests \ {q} : req'[p] = req[p]
<1>1. Idle \in Locals /\ Idle.pc = "idle"
  BY DEF Idle, Locals, PCs
<1> QED BY <1>1, LocalsUpdate DEF Finish

\* A request moves on and keeps its locals.
LEMMA GotoUpdate ==
  ASSUME TypeOK, NEW q \in Requests, NEW pc \in PCs, Goto(q, pc)
  PROVE  /\ req' \in [Requests -> Locals]
         /\ req'[q].pc = pc
         /\ req'[q].pay = req[q].pay /\ req'[q].user = req[q].user
         /\ req'[q].booking = req[q].booking /\ req'[q].amount = req[q].amount
         /\ req'[q].balance = req[q].balance
         /\ \A p \in Requests \ {q} : req'[p] = req[p]
<1> DEFINE r == [req[q] EXCEPT !.pc = pc]
<1>0. req[q] \in Locals
  BY DEF TypeOK
<1>1. /\ r \in Locals /\ r.pc = pc /\ r.pay = req[q].pay /\ r.user = req[q].user
      /\ r.booking = req[q].booking /\ r.amount = req[q].amount
      /\ r.balance = req[q].balance
  BY <1>0 DEF Locals
<1>2. req' = [req EXCEPT ![q] = r]
  BY DEF Goto, TypeOK
<1> HIDE DEF r
<1> QED BY <1>1, <1>2, LocalsUpdate

\* A request moves on with a balance it has read.
LEMMA ReadUpdate ==
  ASSUME TypeOK, NEW q \in Requests, NEW pc \in PCs, NEW n \in Nat,
         req' = [req EXCEPT ![q].pc = pc, ![q].balance = n]
  PROVE  /\ req' \in [Requests -> Locals]
         /\ req'[q].pc = pc
         /\ req'[q].pay = req[q].pay /\ req'[q].user = req[q].user
         /\ req'[q].booking = req[q].booking /\ req'[q].amount = req[q].amount
         /\ req'[q].balance = n
         /\ \A p \in Requests \ {q} : req'[p] = req[p]
<1> DEFINE r == [req[q] EXCEPT !.pc = pc, !.balance = n]
<1>0. req[q] \in Locals
  BY DEF TypeOK
<1>1. /\ r \in Locals /\ r.pc = pc /\ r.pay = req[q].pay /\ r.user = req[q].user
      /\ r.booking = req[q].booking /\ r.amount = req[q].amount
      /\ r.balance = n
  BY <1>0 DEF Locals
<1>2. req' = [req EXCEPT ![q] = r]
  BY DEF TypeOK
<1> HIDE DEF r
<1> QED BY <1>1, <1>2, LocalsUpdate

\* A payment changes its status.
LEMMA StatusUpdate ==
  ASSUME TypeOK, NEW x \in PaymentIds, NEW st \in PaymentStatuses, SetPayment(x, st)
  PROVE  /\ payments' \in [PaymentIds -> Rows]
         /\ payments'[x].status = st /\ payments'[x].ref = payments[x].ref
         /\ payments'[x].user = payments[x].user /\ payments'[x].type = payments[x].type
         /\ payments'[x].booking = payments[x].booking
         /\ \A y \in PaymentIds \ {x} : payments'[y] = payments[y]
<1> DEFINE r == [payments[x] EXCEPT !.status = st]
<1>0. payments[x] \in Rows
  BY DEF TypeOK
<1>1. /\ r \in Rows /\ r.status = st /\ r.ref = payments[x].ref /\ r.user = payments[x].user
      /\ r.type = payments[x].type /\ r.booking = payments[x].booking
  BY <1>0 DEF Rows
<1>2. payments' = [payments EXCEPT ![x] = r]
  BY DEF SetPayment, TypeOK
<1> HIDE DEF r
<1> QED BY <1>1, <1>2 DEF TypeOK

\* A payment receives its gatewayRefId.
LEMMA RefUpdate ==
  ASSUME TypeOK, NEW x \in PaymentIds, payments' = [payments EXCEPT ![x].ref = "set"]
  PROVE  /\ payments' \in [PaymentIds -> Rows]
         /\ payments'[x].ref = "set" /\ payments'[x].status = payments[x].status
         /\ payments'[x].user = payments[x].user /\ payments'[x].type = payments[x].type
         /\ payments'[x].booking = payments[x].booking
         /\ \A y \in PaymentIds \ {x} : payments'[y] = payments[y]
<1> DEFINE r == [payments[x] EXCEPT !.ref = "set"]
<1>0. payments[x] \in Rows
  BY DEF TypeOK
<1>1. /\ r \in Rows /\ r.ref = "set" /\ r.status = payments[x].status
      /\ r.user = payments[x].user /\ r.type = payments[x].type
      /\ r.booking = payments[x].booking
  BY <1>0 DEF Rows
<1>2. payments' = [payments EXCEPT ![x] = r]
  BY DEF TypeOK
<1> HIDE DEF r
<1> QED BY <1>1, <1>2 DEF TypeOK

\* A payment is created.
LEMMA RowUpdate ==
  ASSUME TypeOK, NEW x \in PaymentIds, NEW st \in PaymentStatuses,
         NEW ty \in {"DEPOSIT", "WALLET_TOPUP"}, NEW u \in Users,
         NEW b \in BookingIds \cup {NoBooking}, NEW n \in Nat,
         payments' = [payments EXCEPT ![x] = [status |-> st, type |-> ty, user |-> u,
                        booking |-> b, amount |-> n, ref |-> "null"]]
  PROVE  /\ payments' \in [PaymentIds -> Rows]
         /\ payments'[x].status = st /\ payments'[x].type = ty /\ payments'[x].user = u
         /\ payments'[x].booking = b /\ payments'[x].ref = "null"
         /\ \A y \in PaymentIds \ {x} : payments'[y] = payments[y]
<1> DEFINE r == [status |-> st, type |-> ty, user |-> u, booking |-> b,
                 amount |-> n, ref |-> "null"]
<1>1. /\ r \in Rows /\ r.status = st /\ r.type = ty /\ r.user = u
      /\ r.booking = b /\ r.ref = "null"
  BY DEF Rows
<1>2. payments' = [payments EXCEPT ![x] = r]
  OBVIOUS
<1> HIDE DEF r
<1> QED BY <1>1, <1>2 DEF TypeOK

\* The history variables keep their types.
LEMMA HistoryTypes ==
  ASSUME TypeOK
  PROVE  /\ \A x \in PaymentIds : Engages(x) => contested' \subseteq PaymentIds
         /\ \A b \in BookingIds : WillConfirm(b) => copaid' \subseteq BookingIds
         /\ \A q \in Requests, u \in Users : WalletWritten(q, u) =>
              stale' \subseteq Requests /\ raced' \subseteq Users
  BY DEF TypeOK, Engages, WillConfirm, WalletWritten

\* Rows are added and change their status or their ref, nothing else.
RowsKept ==
    /\ \A x \in PaymentIds : RowOK(x)'
    /\ \A x \in PaymentIds : payments[x].status # "NONE" =>
         /\ payments'[x].status # "NONE" /\ payments'[x].booking = payments[x].booking
         /\ payments[x].ref = "set" => payments'[x].ref = "set"

\* One request works on its locals and perhaps on a row.
LEMMA ShapeStep ==
  ASSUME Shape, TypeOK', NEW q \in Requests, LocalsOK(q)',
         \A p \in Requests \ {q} : req'[p] = req[p], RowsKept
  PROVE  Shape'
<1>1. ASSUME NEW p \in Requests \ {q}
      PROVE  LocalsOK(p)'
  <2>1. LocalsOK(p) /\ req'[p] = req[p]
    BY DEF Shape
  <2> QED BY <2>1 DEF LocalsOK, Handling_pcs, RowsKept
<1> QED BY <1>1 DEF Shape, RowsKept

\* The table is left alone ...
LEMMA SameRows ==
  ASSUME Shape, payments' = payments
  PROVE  RowsKept
  BY DEF Shape, RowOK, RowsKept

\* ... or a row changes its status.
LEMMA StatusRows ==
  ASSUME Shape, NEW x \in PaymentIds, payments[x].status # "NONE",
         NEW st \in PaymentStatuses, SetPayment(x, st)
  PROVE  RowsKept
<1>1. TypeOK /\ st # "NONE"
  BY DEF Shape, PaymentStatuses
<1>2. \A y \in PaymentIds : RowOK(y)
  BY DEF Shape
<1> QED BY <1>1, <1>2, StatusUpdate DEF RowOK, RowsKept

\* A request that ends keeps the shape.
LEMMA FinishShape ==
  ASSUME Shape, NEW q \in Requests, Finish(q), TypeOK', RowsKept
  PROVE  Shape'
<1>1. req'[q].pc = "idle" /\ \A p \in Requests \ {q} : req'[p] = req[p]
  BY FinishUpdate DEF Shape
<1>2. LocalsOK(q)'
  BY <1>1 DEF LocalsOK, Handling_pcs, Callback_pcs, Refund_pcs
<1> QED BY <1>1, <1>2, ShapeStep

---------------------------------------------------------------------------
(* Every step keeps the shape *)

\* The types of the fields of rows and locals, and of balances.
LEMMA FieldTypes ==
  ASSUME TypeOK
  PROVE  /\ \A x \in PaymentIds :
              /\ payments[x].user \in Users \cup {NoUser} /\ payments[x].amount \in Nat
              /\ payments[x].booking \in BookingIds \cup {NoBooking}
              /\ payments[x].type \in {"DEPOSIT", "WALLET_TOPUP", "NONE"}
              /\ payments[x].ref \in {"null", "set"}
         /\ \A q \in Requests : req[q].pc \in PCs /\ req[q].amount \in Nat /\ req[q].balance \in Nat
         /\ \A u \in Users : /\ wallet[u] \in Nat \cup {NoWallet}
                             /\ Balance(u) \in Nat /\ ledger[u] \in Int
  BY DEF TypeOK, Rows, Locals, Balance, NoWallet

\* The initial states satisfy Shape.
LEMMA InitShape == Init => Shape
<1> SUFFICES ASSUME Init PROVE Shape
  OBVIOUS
<1>1. Idle \in Locals /\ Idle.pc = "idle"
  BY DEF Idle, Locals, PCs
<1>2. NoRow \in Rows /\ NoRow.status = "NONE" /\ NoRow.ref = "null"
  BY DEF NoRow, Rows
<1>3. wallet \in [Users -> Nat \cup {NoWallet}]
  BY MoneyAssumption DEF Init
<1>4. ledger \in [Users -> Int]
  <2>1. \A u \in Users : Balance(u) \in Int
    BY <1>3 DEF Balance, NoWallet
  <2> QED BY <2>1 DEF Init
<1>5. TypeOK
  BY <1>1, <1>2, <1>3, <1>4 DEF Init, TypeOK, BookingStatuses
<1>6. \A x \in PaymentIds : RowOK(x)
  BY <1>2 DEF Init, RowOK
<1>7. \A q \in Requests : LocalsOK(q)
  BY <1>1 DEF Init, LocalsOK, Handling_pcs, Callback_pcs, Refund_pcs
<1> QED BY <1>5, <1>6, <1>7 DEF Shape

\* ReadHold keeps the types, the rows and the locals.
LEMMA ReadHoldShape ==
  ASSUME Shape, NEW q \in Requests, NEW b \in BookingIds, ReadHold(q, b)
  PROVE  Shape'
<1>0. TypeOK /\ Owner[b] \in Users
  BY MoneyAssumption DEF Shape
<1>1. /\ req' \in [Requests -> Locals]
      /\ req'[q].pc = "hold" /\ req'[q].booking = b
      /\ \A p \in Requests \ {q} : req'[p] = req[p]
  <2> DEFINE r == [pc |-> "hold", pay |-> NoPayment, user |-> Owner[b], booking |-> b,
                   amount |-> 0, balance |-> 0]
  <2>1. r \in Locals /\ r.pc = "hold" /\ r.booking = b
    BY <1>0 DEF Locals, PCs
  <2>2. req' = [req EXCEPT ![q] = r]
    BY DEF ReadHold, Begin
  <2> HIDE DEF r
  <2> QED BY <1>0, <2>1, <2>2, LocalsUpdate
<1>2. copaid' \subseteq BookingIds
  BY <1>0, HistoryTypes DEF ReadHold
<1>3. TypeOK'
  BY <1>0, <1>1, <1>2 DEF ReadHold, TypeOK, tables
<1>4. LocalsOK(q)'
  BY <1>0, <1>1 DEF LocalsOK, Handling_pcs, Callback_pcs, Refund_pcs
<1>5. RowsKept
  BY SameRows DEF ReadHold, tables
<1> QED BY <1>1, <1>3, <1>4, <1>5, ShapeStep

\* Confirm keeps the types, the rows and the locals.
LEMMA ConfirmShape ==
  ASSUME Shape, NEW q \in Requests, NEW s \in {"PENDING", "CONFIRMED"}, Confirm(q, s)
  PROVE  Shape'
<1>1. TypeOK /\ req[q].booking \in BookingIds
  BY DEF Shape, LocalsOK, Confirm
<1>2. awards' \in [BookingIds -> Nat] /\ booking' \in [BookingIds -> BookingStatuses]
  BY <1>1 DEF Confirm, TypeOK, BookingStatuses
<1>3. Finish(q) /\ req' \in [Requests -> Locals] /\ RowsKept
  BY <1>1, FinishUpdate, SameRows DEF Confirm
<1>4. TypeOK'
  BY <1>1, <1>2, <1>3 DEF Confirm, TypeOK, history
<1> QED BY <1>3, <1>4, FinishShape

\* Initiate keeps the types, the rows and the locals.
LEMMA InitiateShape ==
  ASSUME Shape, NEW q \in Requests, NEW b \in BookingIds,
         NEW method \in {"wallet", "gateway"}, Initiate(q, b, method)
  PROVE  Shape'
<1>0. TypeOK /\ method \in PCs /\ Owner[b] \in Users /\ Deposit[b] \in Nat
  BY MoneyAssumption DEF Shape, PCs
<1>1. /\ req' \in [Requests -> Locals]
      /\ req'[q].pc = method /\ req'[q].user = Owner[b] /\ req'[q].booking = b
      /\ \A p \in Requests \ {q} : req'[p] = req[p]
  <2> DEFINE r == [pc |-> method, pay |-> NoPayment, user |-> Owner[b], booking |-> b,
                   amount |-> Deposit[b], balance |-> 0]
  <2>1. r \in Locals /\ r.pc = method /\ r.user = Owner[b] /\ r.booking = b
    BY <1>0 DEF Locals
  <2>2. req' = [req EXCEPT ![q] = r]
    BY DEF Initiate, Begin
  <2> HIDE DEF r
  <2> QED BY <1>0, <2>1, <2>2, LocalsUpdate
<1>2. copaid' \subseteq BookingIds
  BY <1>0, HistoryTypes DEF Initiate, TypeOK
<1>3. TypeOK'
  BY <1>0, <1>1, <1>2 DEF Initiate, TypeOK, tables
<1>4. LocalsOK(q)'
  BY <1>0, <1>1 DEF LocalsOK, Handling_pcs, Callback_pcs, Refund_pcs
<1>5. RowsKept
  BY SameRows DEF Initiate, tables
<1> QED BY <1>1, <1>3, <1>4, <1>5, ShapeStep

\* ReadWallet keeps the types, the rows and the locals.
LEMMA ReadWalletShape ==
  ASSUME Shape, NEW q \in Requests, ReadWallet(q)
  PROVE  Shape'
<1>0. TypeOK /\ LocalsOK(q) /\ req[q].pc = "wallet" /\ req[q].user \in Users
  BY DEF Shape, ReadWallet, LocalsOK
<1>3. RowsKept
  BY SameRows DEF ReadWallet, tables
<1>1. CASE Finish(q)
  <2>1. req' \in [Requests -> Locals]
    BY <1>0, <1>1, FinishUpdate
  <2>2. TypeOK'
    BY <1>0, <2>1 DEF ReadWallet, TypeOK, tables, history
  <2> QED BY <1>1, <1>3, <2>2, FinishShape
<1>2. CASE ~ Finish(q)
  <2>0. /\ wallet[req[q].user] \in Nat /\ req[q].amount <= wallet[req[q].user]
        /\ req' = [req EXCEPT ![q].pc = "debit", ![q].balance = wallet[req[q].user]]
    BY <1>0, <1>2, FieldTypes DEF ReadWallet
  <2>1. /\ req' \in [Requests -> Locals] /\ req'[q].pc = "debit"
        /\ req'[q].user = req[q].user /\ req'[q].booking = req[q].booking
        /\ req'[q].amount = req[q].amount /\ req'[q].balance = wallet[req[q].user]
        /\ \A p \in Requests \ {q} : req'[p] = req[p]
    BY <1>0, <2>0, ReadUpdate DEF PCs
  <2>2. TypeOK'
    BY <1>0, <2>1 DEF ReadWallet, TypeOK, tables, history
  <2>3. LocalsOK(q)'
    BY <1>0, <2>0, <2>1 DEF LocalsOK, Handling_pcs, Callback_pcs, Refund_pcs
  <2> QED BY <1>3, <2>1, <2>2, <2>3, ShapeStep
<1> QED BY <1>1, <1>2

\* PayFromWallet keeps the types, the rows and the locals.
LEMMA PayFromWalletShape ==
  ASSUME Shape, NEW q \in Requests, NEW x \in PaymentIds, PayFromWallet(q, x)
  PROVE  Shape'
<1>0. /\ TypeOK /\ LocalsOK(q) /\ req[q].pc = "debit"
      /\ req[q].user \in Users /\ req[q].booking \in BookingIds
      /\ req[q].amount \in Nat /\ req[q].balance \in Nat /\ req[q].amount <= req[q].balance
  BY FieldTypes DEF Shape, PayFromWallet, LocalsOK
<1>1. /\ payments' \in [PaymentIds -> Rows]
      /\ payments'[x].status = "SUCCESS" /\ payments'[x].user \in Users
      /\ payments'[x].booking \in BookingIds
      /\ \A y \in PaymentIds \ {x} : payments'[y] = payments[y]
  <2> DEFINE r == [status |-> "SUCCESS", type |-> "DEPOSIT", user |-> req[q].user,
                   booking |-> req[q].booking, amount |-> req[q].amount, ref |-> "null"]
  <2>1. r \in Rows /\ r.status = "SUCCESS" /\ r.user \in Users /\ r.booking \in BookingIds
    BY <1>0 DEF Rows, PaymentStatuses
  <2>2. payments' = [payments EXCEPT ![x] = r]
    BY DEF PayFromWallet
  <2> HIDE DEF r
  <2> QED BY <1>0, <2>1, <2>2 DEF TypeOK
<1>2. RowsKept
  BY <1>1 DEF RowsKept, RowOK, Shape, PayFromWallet
<1>3. /\ wallet' \in [Users -> Nat \cup {NoWallet}] /\ ledger' \in [Users -> Int]
      /\ awards' \in [BookingIds -> Nat] /\ booking' \in [BookingIds -> BookingStatuses]
  <2>1. req[q].balance - req[q].amount \in Nat
    BY <1>0
  <2> QED BY <1>0, <2>1 DEF PayFromWallet, TypeOK, BookingStatuses
<1>4. Finish(q) /\ req' \in [Requests -> Locals]
  BY <1>0, FinishUpdate DEF PayFromWallet
<1>5. stale' \subseteq Requests /\ raced' \subseteq Users
  BY <1>0, HistoryTypes DEF PayFromWallet
<1>6. TypeOK'
  BY <1>0, <1>1, <1>3, <1>4, <1>5 DEF PayFromWallet, TypeOK
<1> QED BY <1>2, <1>4, <1>6, FinishShape

\* A new row and the locals of the request that created it.
LEMMA CreateRow ==
  ASSUME Shape, NEW q \in Requests, NEW x \in PaymentIds, payments[x].status = "NONE",
         NEW ty \in {"DEPOSIT", "WALLET_TOPUP"}, NEW u \in Users,
         NEW b \in BookingIds \cup {NoBooking}, NEW n \in Nat,
         ty = "DEPOSIT" => b \in BookingIds,
         payments' = [payments EXCEPT ![x] = [status |-> "INITIATED", type |-> ty, user |-> u,
                        booking |-> b, amount |-> n, ref |-> "null"]],
         Begin(q, "session", x, NoUser, NoBooking, 0),
         UNCHANGED <<booking, wallet, ledger, credited, refunded, awards, session, history>>
  PROVE  Shape'
<1>0. TypeOK /\ \A y \in PaymentIds : RowOK(y)
  BY DEF Shape
<1>1. /\ payments' \in [PaymentIds -> Rows]
      /\ payments'[x].status = "INITIATED" /\ payments'[x].user = u
      /\ payments'[x].type = ty /\ payments'[x].booking = b
      /\ \A y \in PaymentIds \ {x} : payments'[y] = payments[y]
  BY <1>0, RowUpdate DEF PaymentStatuses
<1>2. RowsKept
  BY <1>0, <1>1 DEF RowsKept, RowOK
<1>3. /\ req' \in [Requests -> Locals]
      /\ req'[q].pc = "session" /\ req'[q].pay = x
      /\ \A p \in Requests \ {q} : req'[p] = req[p]
  <2> DEFINE r == [pc |-> "session", pay |-> x, user |-> NoUser, booking |-> NoBooking,
                   amount |-> 0, balance |-> 0]
  <2>1. r \in Locals /\ r.pc = "session" /\ r.pay = x
    BY DEF Locals, PCs
  <2>2. req' = [req EXCEPT ![q] = r]
    BY DEF Begin
  <2> HIDE DEF r
  <2> QED BY <1>0, <2>1, <2>2, LocalsUpdate
<1>4. TypeOK'
  BY <1>0, <1>1, <1>3 DEF TypeOK, history
<1>5. LocalsOK(q)'
  BY <1>1, <1>3 DEF LocalsOK, Handling_pcs, Callback_pcs, Refund_pcs
<1> QED BY <1>2, <1>3, <1>4, <1>5, ShapeStep

\* CreateDeposit keeps the types, the rows and the locals.
LEMMA CreateDepositShape ==
  ASSUME Shape, NEW q \in Requests, NEW x \in PaymentIds, CreateDeposit(q, x)
  PROVE  Shape'
<1>1. req[q].user \in Users /\ req[q].booking \in BookingIds /\ req[q].amount \in Nat
  BY FieldTypes DEF Shape, CreateDeposit, LocalsOK
<1> DEFINE u == req[q].user
           b == req[q].booking
           n == req[q].amount
<1>2. /\ u \in Users /\ b \in BookingIds /\ b \in BookingIds \cup {NoBooking} /\ n \in Nat
      /\ payments[x].status = "NONE"
      /\ payments' = [payments EXCEPT ![x] = [status |-> "INITIATED", type |-> "DEPOSIT",
                        user |-> u, booking |-> b, amount |-> n, ref |-> "null"]]
      /\ Begin(q, "session", x, NoUser, NoBooking, 0)
      /\ UNCHANGED <<booking, wallet, ledger, credited, refunded, awards, session, history>>
  BY <1>1 DEF CreateDeposit
<1> HIDE DEF u, b, n
<1> QED BY <1>2, CreateRow

\* CreateTopup keeps the types, the rows and the locals.
LEMMA CreateTopupShape ==
  ASSUME Shape, NEW q \in Requests, NEW x \in PaymentIds, NEW u \in Users,
         NEW amount \in TopupAmounts, CreateTopup(q, x, u, amount)
  PROVE  Shape'
<1>1. /\ amount \in Nat /\ NoBooking \in BookingIds \cup {NoBooking}
      /\ payments[x].status = "NONE"
      /\ payments' = [payments EXCEPT ![x] = [status |-> "INITIATED", type |-> "WALLET_TOPUP",
                        user |-> u, booking |-> NoBooking, amount |-> amount, ref |-> "null"]]
      /\ Begin(q, "session", x, NoUser, NoBooking, 0)
      /\ UNCHANGED <<booking, wallet, ledger, credited, refunded, awards, session, history>>
  BY MoneyAssumption DEF CreateTopup
<1> QED BY <1>1, CreateRow

\* CreateSession keeps the types, the rows and the locals.
LEMMA CreateSessionShape ==
  ASSUME Shape, NEW q \in Requests, CreateSession(q)
  PROVE  Shape'
<1>0. /\ TypeOK /\ req[q].pay \in PaymentIds
      /\ payments[req[q].pay].status # "NONE" /\ payments' = payments
  BY DEF Shape, CreateSession, LocalsOK, tables
<1>1. /\ req' \in [Requests -> Locals] /\ req'[q].pc = "link" /\ req'[q].pay = req[q].pay
      /\ \A p \in Requests \ {q} : req'[p] = req[p]
  BY <1>0, GotoUpdate DEF CreateSession, PCs
<1>2. TypeOK'
  BY <1>0, <1>1 DEF CreateSession, TypeOK, tables, history
<1>3. LocalsOK(q)'
  BY <1>0, <1>1 DEF LocalsOK, Handling_pcs, Callback_pcs, Refund_pcs
<1> QED BY <1>0, <1>1, <1>2, <1>3, SameRows, ShapeStep

\* StoreRef keeps the types, the rows and the locals.
LEMMA StoreRefShape ==
  ASSUME Shape, NEW q \in Requests, StoreRef(q)
  PROVE  Shape'
<1> DEFINE x == req[q].pay
<1>0. TypeOK /\ x \in PaymentIds /\ payments[x].status # "NONE" /\ Finish(q)
  BY DEF Shape, StoreRef, LocalsOK
<1>1. payments' = [payments EXCEPT ![x].ref = "set"]
  BY DEF StoreRef
<1>2. req' \in [Requests -> Locals]
  BY <1>0, FinishUpdate
<1> HIDE DEF x
<1>3. /\ payments' \in [PaymentIds -> Rows]
      /\ payments'[x].ref = "set" /\ payments'[x].status = payments[x].status
      /\ payments'[x].user = payments[x].user /\ payments'[x].type = payments[x].type
      /\ payments'[x].booking = payments[x].booking
      /\ \A y \in PaymentIds \ {x} : payments'[y] = payments[y]
  BY <1>0, <1>1, RefUpdate
<1>4. RowsKept
  BY <1>0, <1>3 DEF RowsKept, RowOK, Shape
<1>5. TypeOK'
  BY <1>0, <1>2, <1>3 DEF StoreRef, TypeOK, history
<1> QED BY <1>0, <1>4, <1>5, FinishShape

\* Callback keeps the types, the rows and the locals.
LEMMA CallbackShape ==
  ASSUME Shape, NEW q \in Requests, NEW x \in PaymentIds, Callback(q, x)
  PROVE  Shape'
<1>0. /\ TypeOK /\ payments[x].status # "NONE" /\ payments[x].ref = "set"
      /\ payments' = payments /\ payments[x].user \in Users
      /\ payments[x].booking \in BookingIds \cup {NoBooking} /\ payments[x].amount \in Nat
  BY FieldTypes DEF Shape, Callback, RowOK, tables
<1>1. /\ req' \in [Requests -> Locals] /\ req'[q].pc = "verify" /\ req'[q].pay = x
      /\ req'[q].user = payments[x].user /\ req'[q].booking = payments[x].booking
      /\ \A p \in Requests \ {q} : req'[p] = req[p]
  <2> DEFINE r == [pc |-> "verify", pay |-> x, user |-> payments[x].user,
                   booking |-> payments[x].booking, amount |-> payments[x].amount,
                   balance |-> 0]
  <2>1. /\ r \in Locals /\ r.pc = "verify" /\ r.pay = x /\ r.user = payments[x].user
        /\ r.booking = payments[x].booking
    BY <1>0 DEF Locals, PCs, Callback_pcs
  <2>2. req' = [req EXCEPT ![q] = r]
    BY DEF Callback, Begin
  <2> HIDE DEF r
  <2> QED BY <1>0, <2>1, <2>2, LocalsUpdate
<1>2. contested' \subseteq PaymentIds
  BY <1>0, HistoryTypes DEF Callback
<1>3. TypeOK'
  BY <1>0, <1>1, <1>2 DEF Callback, TypeOK, tables
<1>4. LocalsOK(q)'
  BY <1>0, <1>1 DEF LocalsOK, Handling_pcs, Callback_pcs, Refund_pcs
<1> QED BY <1>0, <1>1, <1>3, <1>4, SameRows, ShapeStep

\* CallbackUnnamed keeps the types, the rows and the locals.
LEMMA CallbackUnnamedShape ==
  ASSUME Shape, NEW q \in Requests, NEW x \in PaymentIds, CallbackUnnamed(q, x)
  PROVE  Shape'
<1>0. /\ TypeOK /\ payments[x].status # "NONE"
      /\ payments' = payments /\ payments[x].user \in Users
      /\ payments[x].booking \in BookingIds \cup {NoBooking} /\ payments[x].amount \in Nat
  BY FieldTypes DEF Shape, CallbackUnnamed, RowOK, tables
<1>1. /\ req' \in [Requests -> Locals] /\ req'[q].pc = "fail" /\ req'[q].pay = x
      /\ req'[q].user = payments[x].user /\ req'[q].booking = payments[x].booking
      /\ \A p \in Requests \ {q} : req'[p] = req[p]
  <2> DEFINE r == [pc |-> "fail", pay |-> x, user |-> payments[x].user,
                   booking |-> payments[x].booking, amount |-> payments[x].amount,
                   balance |-> 0]
  <2>1. /\ r \in Locals /\ r.pc = "fail" /\ r.pay = x /\ r.user = payments[x].user
        /\ r.booking = payments[x].booking
    BY <1>0 DEF Locals, PCs, Callback_pcs
  <2>2. req' = [req EXCEPT ![q] = r]
    BY DEF CallbackUnnamed, Begin
  <2> HIDE DEF r
  <2> QED BY <1>0, <2>1, <2>2, LocalsUpdate
<1>2. contested' \subseteq PaymentIds
  BY <1>0, HistoryTypes DEF CallbackUnnamed
<1>3. TypeOK'
  BY <1>0, <1>1, <1>2 DEF CallbackUnnamed, TypeOK, tables
<1>4. LocalsOK(q)'
  BY <1>0, <1>1 DEF LocalsOK, Handling_pcs, Callback_pcs, Refund_pcs
<1> QED BY <1>0, <1>1, <1>3, <1>4, SameRows, ShapeStep

\* Refund keeps the types, the rows and the locals.
LEMMA RefundShape ==
  ASSUME Shape, NEW q \in Requests, NEW x \in PaymentIds, Refund(q, x)
  PROVE  Shape'
<1>0. /\ TypeOK /\ payments[x].status # "NONE"
      /\ payments' = payments /\ payments[x].user \in Users /\ payments[x].amount \in Nat
  BY FieldTypes DEF Shape, Refund, RowOK, tables
<1>1. /\ req' \in [Requests -> Locals] /\ req'[q].pc = "refund" /\ req'[q].pay = x
      /\ req'[q].user = payments[x].user
      /\ \A p \in Requests \ {q} : req'[p] = req[p]
  <2> DEFINE r == [pc |-> "refund", pay |-> x, user |-> payments[x].user,
                   booking |-> NoBooking, amount |-> payments[x].amount, balance |-> 0]
  <2>1. r \in Locals /\ r.pc = "refund" /\ r.pay = x /\ r.user = payments[x].user
    BY <1>0 DEF Locals, PCs, Refund_pcs
  <2>2. req' = [req EXCEPT ![q] = r]
    BY DEF Refund, Begin
  <2> HIDE DEF r
  <2> QED BY <1>0, <2>1, <2>2, LocalsUpdate
<1>2. contested' \subseteq PaymentIds
  BY <1>0, HistoryTypes DEF Refund
<1>3. TypeOK'
  BY <1>0, <1>1, <1>2 DEF Refund, TypeOK, tables
<1>4. LocalsOK(q)'
  BY <1>0, <1>1 DEF LocalsOK, Handling_pcs, Callback_pcs, Refund_pcs
<1> QED BY <1>0, <1>1, <1>3, <1>4, SameRows, ShapeStep

\* A handler moves on with the payment, the user and the booking it has.
LEMMA HandlerStep ==
  ASSUME Shape, NEW q \in Requests, payments' = payments, TypeOK',
         \/ req[q].pc \in Callback_pcs \ {"fail"} /\ req'[q].pc \in Callback_pcs
         \/ req[q].pc \in Refund_pcs /\ req'[q].pc \in Refund_pcs,
         req'[q].pay = req[q].pay, req'[q].user = req[q].user,
         req'[q].booking = req[q].booking,
         req'[q].pc = "confirm" => req[q].booking \in BookingIds,
         \A p \in Requests \ {q} : req'[p] = req[p]
  PROVE  Shape'
<1>1. LocalsOK(q)
  BY DEF Shape
<1>2. LocalsOK(q)'
  BY <1>1 DEF LocalsOK, Handling_pcs, Callback_pcs, Refund_pcs
<1> QED BY <1>2, SameRows, ShapeStep

\* Verify keeps the types, the rows and the locals.
LEMMA VerifyShape ==
  ASSUME Shape, NEW q \in Requests, Verify(q)
  PROVE  Shape'
<1>0. /\ TypeOK /\ req[q].pc = "verify" /\ req[q].pay \in PaymentIds
      /\ payments' = payments
  BY DEF Shape, Verify, LocalsOK, Handling_pcs, Callback_pcs, tables
<1>1. PICK pc \in {"settle", "fail"} : Goto(q, pc)
  BY DEF Verify
<1>2. /\ req' \in [Requests -> Locals] /\ req'[q].pc = pc
      /\ req'[q].pay = req[q].pay /\ req'[q].user = req[q].user
      /\ req'[q].booking = req[q].booking
      /\ \A p \in Requests \ {q} : req'[p] = req[p]
  <2>1. pc \in PCs
    BY DEF PCs, Callback_pcs
  <2> QED BY <1>0, <1>1, <2>1, GotoUpdate
<1>3. TypeOK'
  BY <1>0, <1>2 DEF Verify, TypeOK, tables
<1> QED BY <1>0, <1>2, <1>3, HandlerStep DEF Callback_pcs

\* A handler's payment exists, and the request ends.
LEMMA HandlerEnds ==
  ASSUME Shape, NEW q \in Requests, req[q].pc \in Handling_pcs, Finish(q),
         NEW st \in PaymentStatuses, SetPayment(req[q].pay, st)
  PROVE  /\ RowsKept /\ payments' \in [PaymentIds -> Rows] /\ req' \in [Requests -> Locals]
         /\ req[q].pay \in PaymentIds /\ req[q].user \in Users
         /\ req[q].amount \in Nat /\ req[q].balance \in Nat
<1> DEFINE x == req[q].pay
<1>1. TypeOK /\ x \in PaymentIds /\ payments[x].status # "NONE" /\ req[q].user \in Users
  BY DEF Shape, LocalsOK
<1>2. SetPayment(x, st)
  OBVIOUS
<1>3. req' \in [Requests -> Locals] /\ req[q].amount \in Nat /\ req[q].balance \in Nat
  BY <1>1, FinishUpdate, FieldTypes
<1> HIDE DEF x
<1>4. RowsKept /\ payments' \in [PaymentIds -> Rows]
  BY <1>1, <1>2, StatusRows, StatusUpdate
<1> QED BY <1>1, <1>3, <1>4 DEF x

\* RecordFailure keeps the types, the rows and the locals.
LEMMA RecordFailureShape ==
  ASSUME Shape, NEW q \in Requests, RecordFailure(q)
  PROVE  Shape'
<1>1. Finish(q) /\ RowsKept /\ payments' \in [PaymentIds -> Rows] /\ req' \in [Requests -> Locals]
  BY HandlerEnds DEF RecordFailure, Handling_pcs, Callback_pcs, PaymentStatuses
<1>2. TypeOK'
  BY <1>1 DEF Shape, RecordFailure, TypeOK, history
<1> QED BY <1>1, <1>2, FinishShape

\* CommitMark keeps the types, the rows and the locals.
LEMMA CommitMarkShape ==
  ASSUME Shape, NEW q \in Requests, CommitMark(q)
  PROVE  Shape'
<1>1. Finish(q) /\ RowsKept /\ payments' \in [PaymentIds -> Rows] /\ req' \in [Requests -> Locals]
  BY HandlerEnds DEF CommitMark, Handling_pcs, Callback_pcs, PaymentStatuses
<1>2. TypeOK'
  BY <1>1 DEF Shape, CommitMark, TypeOK, history
<1> QED BY <1>1, <1>2, FinishShape

\* CommitDeposit keeps the types, the rows and the locals.
LEMMA CommitDepositShape ==
  ASSUME Shape, NEW q \in Requests, CommitDeposit(q)
  PROVE  Shape'
<1>1. Finish(q) /\ RowsKept /\ payments' \in [PaymentIds -> Rows] /\ req' \in [Requests -> Locals]
  BY HandlerEnds DEF CommitDeposit, Handling_pcs, Callback_pcs, PaymentStatuses
<1>2. TypeOK /\ req[q].booking \in BookingIds
  BY DEF Shape, CommitDeposit, LocalsOK
<1>3. awards' \in [BookingIds -> Nat] /\ booking' \in [BookingIds -> BookingStatuses]
  BY <1>2 DEF CommitDeposit, TypeOK, BookingStatuses
<1>4. TypeOK'
  BY <1>1, <1>2, <1>3 DEF CommitDeposit, TypeOK, history
<1> QED BY <1>1, <1>4, FinishShape

\* CommitTopup keeps the types, the rows and the locals.
LEMMA CommitTopupShape ==
  ASSUME Shape, NEW q \in Requests, CommitTopup(q)
  PROVE  Shape'
<1>1. /\ Finish(q) /\ RowsKept /\ payments' \in [PaymentIds -> Rows]
      /\ req' \in [Requests -> Locals] /\ req[q].pay \in PaymentIds /\ req[q].user \in Users
      /\ req[q].amount \in Nat /\ req[q].balance \in Nat
  BY HandlerEnds DEF CommitTopup, Handling_pcs, Callback_pcs, PaymentStatuses
<1>2. /\ wallet' \in [Users -> Nat \cup {NoWallet}] /\ ledger' \in [Users -> Int]
      /\ credited' \in [PaymentIds -> Nat]
  <2>1. req[q].balance + req[q].amount \in Nat
    BY <1>1
  <2> QED BY <1>1, <2>1 DEF Shape, CommitTopup, TypeOK
<1>3. stale' \subseteq Requests /\ raced' \subseteq Users
  BY <1>1, HistoryTypes DEF Shape, CommitTopup
<1>4. TypeOK'
  BY <1>1, <1>2, <1>3 DEF Shape, CommitTopup, TypeOK
<1> QED BY <1>1, <1>4, FinishShape

\* CommitRefund keeps the types, the rows and the locals.
LEMMA CommitRefundShape ==
  ASSUME Shape, NEW q \in Requests, CommitRefund(q)
  PROVE  Shape'
<1>1. /\ Finish(q) /\ RowsKept /\ payments' \in [PaymentIds -> Rows]
      /\ req' \in [Requests -> Locals] /\ req[q].pay \in PaymentIds /\ req[q].user \in Users
      /\ req[q].amount \in Nat /\ req[q].balance \in Nat
  BY HandlerEnds DEF CommitRefund, Handling_pcs, Refund_pcs, PaymentStatuses
<1>2. /\ wallet' \in [Users -> Nat \cup {NoWallet}] /\ ledger' \in [Users -> Int]
      /\ refunded' \in [PaymentIds -> Nat]
  <2>1. req[q].balance + req[q].amount \in Nat
    BY <1>1
  <2> QED BY <1>1, <2>1 DEF Shape, CommitRefund, TypeOK
<1>3. stale' \subseteq Requests /\ raced' \subseteq Users
  BY <1>1, HistoryTypes DEF Shape, CommitRefund
<1>4. TypeOK'
  BY <1>1, <1>2, <1>3 DEF Shape, CommitRefund, TypeOK
<1> QED BY <1>1, <1>4, FinishShape

\* UpsertWallet keeps the types, the rows and the locals.
LEMMA UpsertWalletShape ==
  ASSUME Shape, NEW q \in Requests, UpsertWallet(q)
  PROVE  Shape'
<1>0. TypeOK /\ req[q].pc = "refund" /\ req[q].user \in Users /\ payments' = payments
  BY DEF Shape, UpsertWallet, LocalsOK, Handling_pcs, Refund_pcs, tables
<1> DEFINE n == Balance(req[q].user)
<1>1. n \in Nat /\ req' = [req EXCEPT ![q].pc = "repay", ![q].balance = n]
  BY <1>0, FieldTypes DEF UpsertWallet
<1> HIDE DEF n
<1>2. /\ req' \in [Requests -> Locals] /\ req'[q].pc = "repay"
      /\ req'[q].pay = req[q].pay /\ req'[q].user = req[q].user
      /\ req'[q].booking = req[q].booking
      /\ \A p \in Requests \ {q} : req'[p] = req[p]
  BY <1>0, <1>1, ReadUpdate DEF PCs, Refund_pcs
<1>3. TypeOK'
  BY <1>0, <1>2 DEF UpsertWallet, TypeOK, tables, history
<1> QED BY <1>0, <1>2, <1>3, HandlerStep DEF Refund_pcs

\* What Settle does to the locals of its request, by the three ways it can go.
LEMMA SettleUpdate ==
  ASSUME Shape, NEW q \in Requests, Settle(q)
  PROVE  /\ req' \in [Requests -> Locals]
         /\ req[q].pc = "settle" /\ req'[q].pc \in {"credit", "confirm", "mark"}
         /\ req'[q].pay = req[q].pay /\ req'[q].user = req[q].user
         /\ req'[q].booking = req[q].booking /\ req'[q].amount = req[q].amount
         /\ req'[q].pc = "confirm" => /\ req[q].booking \in BookingIds
                                      /\ booking[req[q].booking] = "PENDING"
                                      /\ WillConfirm(req[q].booking)
         /\ req'[q].pc # "confirm" => copaid' = copaid
         /\ req'[q].pc = "credit" => /\ req'[q].balance = wallet[req[q].user]
                                     /\ wallet[req[q].user] # NoWallet
         /\ \A p \in Requests \ {q} : req'[p] = req[p]
<1> DEFINE x == req[q].pay
           credits == payments[x].type = "WALLET_TOPUP" /\ wallet[req[q].user] # NoWallet
           confirms == payments[x].type = "DEPOSIT" /\ booking[req[q].booking] = "PENDING"
<1>0. /\ TypeOK /\ req[q].pc = "settle" /\ x \in PaymentIds /\ req[q].user \in Users
      /\ payments[x].type = "DEPOSIT" => req[q].booking \in BookingIds
  BY DEF Shape, Settle, LocalsOK, RowOK, Handling_pcs, Callback_pcs
<1>1. CASE credits
  <2> DEFINE n == wallet[req[q].user]
  <2>1. n \in Nat /\ req' = [req EXCEPT ![q].pc = "credit", ![q].balance = n]
    BY <1>0, <1>1, FieldTypes DEF Settle
  <2>2. copaid' = copaid /\ n # NoWallet
    BY <1>1 DEF Settle
  <2> HIDE DEF n
  <2>3. /\ req' \in [Requests -> Locals] /\ req'[q].pc = "credit"
        /\ req'[q].pay = req[q].pay /\ req'[q].user = req[q].user
        /\ req'[q].booking = req[q].booking /\ req'[q].amount = req[q].amount
        /\ req'[q].balance = n
        /\ \A p \in Requests \ {q} : req'[p] = req[p]
    BY <1>0, <2>1, ReadUpdate DEF PCs, Callback_pcs
  <2> QED BY <1>0, <2>2, <2>3 DEF n
<1>2. CASE ~ credits /\ confirms
  <2>1. Goto(q, "confirm") /\ WillConfirm(req[q].booking)
    BY <1>2 DEF Settle
  <2>2. /\ req' \in [Requests -> Locals] /\ req'[q].pc = "confirm"
        /\ req'[q].pay = req[q].pay /\ req'[q].user = req[q].user
        /\ req'[q].booking = req[q].booking /\ req'[q].amount = req[q].amount
        /\ \A p \in Requests \ {q} : req'[p] = req[p]
    BY <1>0, <2>1, GotoUpdate DEF PCs, Callback_pcs
  <2> QED BY <1>0, <1>2, <2>1, <2>2
<1>3. CASE ~ credits /\ ~ confirms
  <2>1. Goto(q, "mark") /\ copaid' = copaid
    BY <1>3 DEF Settle
  <2>2. /\ req' \in [Requests -> Locals] /\ req'[q].pc = "mark"
        /\ req'[q].pay = req[q].pay /\ req'[q].user = req[q].user
        /\ req'[q].booking = req[q].booking /\ req'[q].amount = req[q].amount
        /\ \A p \in Requests \ {q} : req'[p] = req[p]
    BY <1>0, <2>1, GotoUpdate DEF PCs, Callback_pcs
  <2> QED BY <1>0, <2>1, <2>2
<1> QED BY <1>1, <1>2, <1>3

\* Settle keeps the handler's payment and booking.
LEMMA SettleShape ==
  ASSUME Shape, NEW q \in Requests, Settle(q)
  PROVE  Shape'
<1>1. /\ req' \in [Requests -> Locals]
      /\ req[q].pc = "settle" /\ req'[q].pc \in {"credit", "confirm", "mark"}
      /\ req'[q].pay = req[q].pay /\ req'[q].user = req[q].user
      /\ req'[q].booking = req[q].booking
      /\ req'[q].pc = "confirm" => req[q].booking \in BookingIds /\ WillConfirm(req[q].booking)
      /\ req'[q].pc # "confirm" => copaid' = copaid
      /\ \A p \in Requests \ {q} : req'[p] = req[p]
  BY SettleUpdate
<1>2. copaid' \subseteq BookingIds
  BY <1>1, HistoryTypes DEF Shape, TypeOK
<1>3. TypeOK' /\ payments' = payments
  BY <1>1, <1>2 DEF Shape, Settle, TypeOK, tables
<1> QED BY <1>1, <1>3, HandlerStep DEF Callback_pcs

\* The requests are left alone ...
LEMMA OtherShape ==
  ASSUME Shape, TypeOK', UNCHANGED <<payments, req>>
  PROVE  Shape'
  BY DEF Shape, RowOK, LocalsOK

\* GetMine keeps the types, the rows and the locals.
LEMMA GetMineShape ==
  ASSUME Shape, NEW u \in Users, GetMine(u)
  PROVE  Shape'
<1>1. TypeOK'
  BY DEF Shape, TypeOK, GetMine, history
<1> QED BY <1>1, OtherShape DEF GetMine

\* WriteBooking keeps the types, the rows and the locals.
LEMMA WriteBookingShape ==
  ASSUME Shape, NEW b \in BookingIds, NEW s \in {"CONFIRMED", "CANCELLED"}, WriteBooking(b, s)
  PROVE  Shape'
<1>1. TypeOK'
  BY DEF Shape, TypeOK, WriteBooking, BookingStatuses, history
<1> QED BY <1>1, OtherShape DEF WriteBooking

\* ... or end: only a handler past verify has a payment to lose.
LEMMA EndedTypes ==
  ASSUME Shape, NEW Q \in SUBSET Requests, Ended(Q)
  PROVE  dropped' \subseteq PaymentIds /\ stale' \subseteq Requests
<1>1. \A r \in Requests : req[r].pc \in Settling_pcs => req[r].pay \in PaymentIds
  BY DEF Shape, LocalsOK, Settling_pcs, Handling_pcs, Callback_pcs
<1> QED BY <1>1 DEF Shape, TypeOK, Ended, Settling_pcs

\* Fail keeps the types, the rows and the locals.
LEMMA FailShape ==
  ASSUME Shape, NEW q \in Requests, Fail(q)
  PROVE  Shape'
<1>1. dropped' \subseteq PaymentIds /\ stale' \subseteq Requests
  <2>1. {q} \in SUBSET Requests /\ Ended({q})
    BY DEF Fail
  <2> QED BY <2>1, EndedTypes
<1>2. Finish(q) /\ req' \in [Requests -> Locals] /\ payments' = payments
  BY FinishUpdate DEF Shape, Fail, tables
<1>3. TypeOK'
  BY <1>1, <1>2 DEF Shape, TypeOK, Fail, Ended, tables
<1> QED BY <1>2, <1>3, SameRows, FinishShape

\* Restart keeps the types, the rows and the locals.
LEMMA RestartShape ==
  ASSUME Shape, Restart
  PROVE  Shape'
<1>1. dropped' \subseteq PaymentIds /\ stale' \subseteq Requests
  BY EndedTypes DEF Restart
<1>2. Idle \in Locals /\ Idle.pc = "idle"
  BY DEF Idle, Locals, PCs
<1>3. /\ req' \in [Requests -> Locals] /\ session' \in [PaymentIds -> {"none", "open", "used"}]
      /\ payments' = payments /\ \A q \in Requests : req'[q].pc = "idle"
  BY <1>2 DEF Restart, tables
<1>4. TypeOK'
  BY <1>1, <1>3 DEF Shape, TypeOK, Restart, Ended, tables
<1>5. \A q \in Requests : LocalsOK(q)'
  BY <1>3 DEF LocalsOK, Handling_pcs, Callback_pcs, Refund_pcs
<1> QED BY <1>3, <1>4, <1>5, SameRows DEF Shape, RowsKept

\* Every step keeps the types, the rows and the locals.
LEMMA NextShape == Shape /\ [Next]_vars => Shape'
<1> SUFFICES ASSUME Shape, [Next]_vars PROVE Shape'
  OBVIOUS
<1>1. CASE UNCHANGED vars
  <2>1. UNCHANGED <<payments, req>>
    BY <1>1 DEF vars, tables
  <2>2. TypeOK'
    BY <1>1 DEF Shape, TypeOK, vars, tables, history
  <2> QED BY <2>1, <2>2, OtherShape
<1>2. CASE Next
  BY <1>2, ReadHoldShape, ConfirmShape, CallbackUnnamedShape, InitiateShape, ReadWalletShape, PayFromWalletShape, CreateDepositShape,
     CreateTopupShape, CreateSessionShape, StoreRefShape, CallbackShape, VerifyShape,
     RecordFailureShape, SettleShape, CommitTopupShape, CommitDepositShape,
     CommitMarkShape, RefundShape, UpsertWalletShape, CommitRefundShape, GetMineShape,
     WriteBookingShape, FailShape, RestartShape DEF Next
<1> QED BY <1>1, <1>2

\* Every variable of Payments keeps to its type: in particular a balance never
\* goes below zero and a handler's payment, user and booking exist.
THEOREM MoneyTypes == Spec => []TypeOK
<1>1. Shape => TypeOK
  BY DEF Shape
<1> QED BY <1>1, InitShape, NextShape, PTL DEF Spec

---------------------------------------------------------------------------
(* A top-up is credited once *)

\* Nothing happens that matters to the credit of payment x.
LEMMA CreditFrame ==
  ASSUME NEW x \in PaymentIds, CreditOK(x),
         payments'[x].ref = payments[x].ref, x \in paid' <=> x \in paid,
         credited'[x] = credited[x], session'[x] = "open" => session[x] = "open",
         \A q \in Requests : (Settling(q, x)' => Settling(q, x)) /\ (Creating(q, x)' => Creating(q, x))
  PROVE  CreditOK(x)'
  BY DEF CreditOK

\* A request moves without starting to settle or to create.
LEMMA CreditStep ==
  ASSUME Credits, NEW q \in Requests, \A p \in Requests \ {q} : req'[p] = req[p],
         \/ req'[q].pc \notin Settling_pcs \cup {"session", "link"}
         \/ /\ req'[q].pay = req[q].pay
            /\ req[q].pc \in Settling_pcs /\ req'[q].pc \in Settling_pcs,
         UNCHANGED <<paid, credited, session>>,
         \A x \in PaymentIds : payments'[x].ref = payments[x].ref
  PROVE  Credits'
<1>1. \A x \in PaymentIds, p \in Requests :
        (Settling(p, x)' => Settling(p, x)) /\ (Creating(p, x)' => Creating(p, x))
  BY DEF Settling, Creating, Settling_pcs
<1> QED BY <1>1, CreditFrame DEF Credits

\* A request ends.
LEMMA CreditFinish ==
  ASSUME Shape, Credits, NEW q \in Requests, Finish(q), UNCHANGED <<paid, credited, session>>,
         \A x \in PaymentIds : payments'[x].ref = payments[x].ref
  PROVE  Credits'
<1>1. req'[q].pc = "idle" /\ \A p \in Requests \ {q} : req'[p] = req[p]
  BY FinishUpdate DEF Shape
<1> QED BY <1>1, CreditStep DEF Settling_pcs

\* A handler ends and leaves a status.
LEMMA CreditHandlerEnds ==
  ASSUME Shape, Credits, NEW q \in Requests, req[q].pc \in Handling_pcs, Finish(q),
         NEW st \in PaymentStatuses, SetPayment(req[q].pay, st),
         UNCHANGED <<paid, credited, session>>
  PROVE  Credits'
<1> DEFINE y == req[q].pay
<1>1. TypeOK /\ y \in PaymentIds /\ SetPayment(y, st)
  BY DEF Shape, LocalsOK
<1> HIDE DEF y
<1>2. \A x \in PaymentIds : payments'[x].ref = payments[x].ref
  BY <1>1, StatusUpdate
<1> QED BY <1>2, CreditFinish

\* The initial states satisfy Credits.
LEMMA InitCredits == Init => Credits
<1> SUFFICES ASSUME Init PROVE Credits
  OBVIOUS
<1>1. \A q \in Requests : req[q].pc = "idle"
  BY DEF Init, Idle
<1> QED BY <1>1 DEF Init, Credits, CreditOK, Settling, Creating

\* A payment from the wallet has no session and no ref.
LEMMA PayFromWalletCredits ==
  ASSUME Shape, Credits, NEW q \in Requests, NEW x \in PaymentIds, PayFromWallet(q, x)
  PROVE  Credits'
<1>1. \A y \in PaymentIds : payments'[y].ref = payments[y].ref
  BY DEF Shape, TypeOK, RowOK, PayFromWallet
<1> QED BY <1>1, CreditFinish DEF PayFromWallet

\* Reading a wallet touches no payment.
LEMMA ReadWalletCredits ==
  ASSUME Shape, Credits, NEW q \in Requests, ReadWallet(q)
  PROVE  Credits'
<1>1. req'[q].pc \in {"idle", "debit"} /\ \A p \in Requests \ {q} : req'[p] = req[p]
  BY DEF Shape, TypeOK, Locals, ReadWallet, Finish, Idle
<1> QED BY <1>1, CreditStep DEF ReadWallet, Settling_pcs, tables, history

\* A payment is created by one request.
LEMMA CreateCredits ==
  ASSUME Shape, Credits, NEW q \in Requests, NEW x \in PaymentIds,
         payments[x].status = "NONE", payments'[x].ref = "null",
         \A y \in PaymentIds \ {x} : payments'[y] = payments[y],
         Begin(q, "session", x, NoUser, NoBooking, 0), UNCHANGED <<paid, credited, session>>
  PROVE  Credits'
<1>1. /\ req'[q].pc = "session" /\ req'[q].pay = x
      /\ \A p \in Requests \ {q} : req'[p] = req[p]
  BY DEF Shape, TypeOK, Begin
<1>2. payments[x].ref = "null" /\ x \notin paid
  BY DEF Shape, RowOK, Credits, CreditOK
<1>3. \A p \in Requests : ~ Creating(p, x) /\ ~ Settling(p, x)
  BY DEF Shape, LocalsOK, Creating, Settling, Handling_pcs, Callback_pcs
<1>4. CreditOK(x)'
  <2>1. \A p \in Requests : (Creating(p, x)' => p = q) /\ ~ Settling(p, x)'
    BY <1>1, <1>3 DEF Creating, Settling
  <2> QED BY <1>2, <2>1 DEF Credits, CreditOK
<1>5. ASSUME NEW y \in PaymentIds \ {x}
      PROVE  CreditOK(y)'
  <2>1. \A p \in Requests : (Settling(p, y)' => Settling(p, y)) /\ (Creating(p, y)' => Creating(p, y))
    BY <1>1 DEF Settling, Creating
  <2> QED BY <2>1, CreditFrame DEF Credits
<1> QED BY <1>4, <1>5 DEF Credits

\* payFromGateway creates a payment, and topup creates one:
LEMMA CreateDepositCredits ==
  ASSUME Shape, Credits, NEW q \in Requests, NEW x \in PaymentIds, CreateDeposit(q, x)
  PROVE  Credits'
<1>1. payments'[x].ref = "null" /\ \A y \in PaymentIds \ {x} : payments'[y] = payments[y]
  BY DEF Shape, TypeOK, CreateDeposit
<1> QED BY <1>1, CreateCredits DEF CreateDeposit, history

\* neither has a session or a ref yet.
LEMMA CreateTopupCredits ==
  ASSUME Shape, Credits, NEW q \in Requests, NEW x \in PaymentIds, NEW u \in Users,
         NEW amount \in TopupAmounts, CreateTopup(q, x, u, amount)
  PROVE  Credits'
<1>1. payments'[x].ref = "null" /\ \A y \in PaymentIds \ {x} : payments'[y] = payments[y]
  BY DEF Shape, TypeOK, CreateTopup
<1> QED BY <1>1, CreateCredits DEF CreateTopup, history

\* The session is opened before the payment can be found, hence before it is paid.
LEMMA CreateSessionCredits ==
  ASSUME Shape, Credits, NEW q \in Requests, CreateSession(q)
  PROVE  Credits'
<1>p. PICK x \in PaymentIds : x = req[q].pay
  BY DEF Shape, CreateSession, LocalsOK, Handling_pcs, Callback_pcs
<1>0. /\ TypeOK /\ x \in PaymentIds /\ Creating(q, x)
      /\ UNCHANGED <<paid, credited, payments>>
  BY <1>p DEF Shape, CreateSession, LocalsOK, Creating, tables, history
<1>1. /\ req'[q].pc = "link" /\ req'[q].pay = x
      /\ \A p \in Requests \ {q} : req'[p] = req[p]
  BY <1>0, <1>p, GotoUpdate DEF CreateSession, PCs
<1>2. \A y \in PaymentIds, p \in Requests :
        (Settling(p, y)' => Settling(p, y)) /\ (Creating(p, y)' => Creating(p, y))
  BY <1>0, <1>1 DEF Settling, Creating
<1>3. \A y \in PaymentIds \ {x} : session'[y] = session[y]
  BY <1>0, <1>p DEF CreateSession, TypeOK
<1>4. x \notin paid /\ CreditOK(x)
  BY <1>0 DEF Credits, CreditOK
<1>5. CreditOK(x)'
  BY <1>0, <1>2, <1>4 DEF CreditOK
<1> QED BY <1>0, <1>2, <1>3, <1>5, CreditFrame DEF Credits

\* Once the ref is stored, the request that created the payment is done with it.
LEMMA StoreRefCredits ==
  ASSUME Shape, Credits, NEW q \in Requests, StoreRef(q)
  PROVE  Credits'
<1>p. PICK x \in PaymentIds : x = req[q].pay
  BY DEF Shape, StoreRef, LocalsOK, Handling_pcs, Callback_pcs
<1>0. TypeOK /\ x \in PaymentIds /\ Creating(q, x) /\ UNCHANGED <<paid, credited, session>>
  BY <1>p DEF Shape, StoreRef, LocalsOK, Creating, history
<1>1. payments' = [payments EXCEPT ![x].ref = "set"] /\ Finish(q)
  BY <1>p DEF StoreRef
<1>2. req'[q].pc = "idle" /\ \A p \in Requests \ {q} : req'[p] = req[p]
  BY <1>0, <1>1, FinishUpdate
<1>3. \A y \in PaymentIds, p \in Requests :
        (Settling(p, y)' => Settling(p, y)) /\ (Creating(p, y)' => p # q /\ Creating(p, y))
  BY <1>2 DEF Settling, Creating
<1>4. payments'[x].ref = "set" /\ \A y \in PaymentIds \ {x} : payments'[y] = payments[y]
  BY <1>0, <1>1, RefUpdate
<1>5. CreditOK(x)'
  <2>1. \A p \in Requests : ~ Creating(p, x)'
    BY <1>0, <1>3 DEF Credits, CreditOK
  <2> QED BY <1>0, <1>3, <1>4, <2>1 DEF Credits, CreditOK
<1> QED BY <1>0, <1>3, <1>4, <1>5, CreditFrame DEF Credits

\* verify answers true once per session, so that one callback at most settles.
LEMMA VerifyCredits ==
  ASSUME Shape, Credits, NEW q \in Requests, Verify(q)
  PROVE  Credits'
<1>p. PICK x \in PaymentIds : x = req[q].pay
  BY DEF Shape, Verify, LocalsOK, Handling_pcs, Callback_pcs
<1>0. /\ TypeOK /\ x \in PaymentIds /\ payments[x].ref = "set"
      /\ UNCHANGED <<credited, payments>>
  BY <1>p DEF Shape, Verify, LocalsOK, Handling_pcs, Callback_pcs, tables
<1>1. CASE session[x] = "open"
  <2>1. /\ req'[q].pc = "settle" /\ req'[q].pay = x
        /\ \A p \in Requests \ {q} : req'[p] = req[p]
    BY <1>0, <1>1, <1>p, GotoUpdate DEF Verify, PCs, Callback_pcs
  <2>2. /\ paid' = paid \cup {x} /\ session'[x] = "used"
        /\ \A y \in PaymentIds \ {x} : session'[y] = session[y]
    BY <1>0, <1>1, <1>p DEF Verify, TypeOK
  <2>3. \A y \in PaymentIds, p \in Requests :
          /\ Settling(p, y)' => Settling(p, y) \/ (p = q /\ y = x)
          /\ Creating(p, y)' => Creating(p, y)
    <3> SUFFICES ASSUME NEW y \in PaymentIds, NEW p \in Requests
                 PROVE  /\ Settling(p, y)' => Settling(p, y) \/ (p = q /\ y = x)
                        /\ Creating(p, y)' => Creating(p, y)
      OBVIOUS
    <3>1. CASE p = q
      BY <2>1, <3>1 DEF Settling, Creating
    <3>2. CASE p # q
      BY <2>1, <3>2 DEF Settling, Creating
    <3> QED BY <3>1, <3>2
  <2>4. CreditOK(x) /\ x \notin paid /\ (\A p \in Requests : ~ Settling(p, x)) /\ credited[x] = 0
    BY <1>0, <1>1 DEF Credits, CreditOK
  <2>5. CreditOK(x)'
    BY <1>0, <2>2, <2>3, <2>4 DEF CreditOK
  <2>6. \A y \in PaymentIds \ {x} : CreditOK(y)'
    BY <1>0, <2>2, <2>3, CreditFrame DEF Credits
  <2> QED BY <2>5, <2>6 DEF Credits
<1>2. CASE session[x] # "open"
  <2>1. req'[q].pc = "fail" /\ \A p \in Requests \ {q} : req'[p] = req[p]
    BY <1>0, <1>2, <1>p, GotoUpdate DEF Verify, PCs, Callback_pcs
  <2>2. UNCHANGED <<paid, session>>
    BY <1>2, <1>p DEF Verify
  <2> QED BY <1>0, <2>1, <2>2, CreditStep DEF Settling_pcs
<1> QED BY <1>1, <1>2

\* The one handler that settles a payment is the one that credits it.
LEMMA CommitTopupCredits ==
  ASSUME Shape, Credits, NEW q \in Requests, CommitTopup(q)
  PROVE  Credits'
<1>p. PICK x \in PaymentIds : x = req[q].pay
  BY DEF Shape, CommitTopup, LocalsOK, Handling_pcs, Callback_pcs
<1>0. /\ TypeOK /\ x \in PaymentIds /\ Settling(q, x)
      /\ SetPayment(x, "SUCCESS") /\ Finish(q) /\ UNCHANGED <<paid, session>>
      /\ credited' = [credited EXCEPT ![x] = @ + 1]
  BY <1>p DEF Shape, CommitTopup, LocalsOK, Settling, Handling_pcs, Callback_pcs
<1>1. req'[q].pc = "idle" /\ \A p \in Requests \ {q} : req'[p] = req[p]
  BY <1>0, FinishUpdate
<1>2. \A y \in PaymentIds, p \in Requests :
        (Settling(p, y)' => p # q /\ Settling(p, y)) /\ (Creating(p, y)' => Creating(p, y))
  BY <1>1 DEF Settling, Creating
<1>3. \A y \in PaymentIds : payments'[y].ref = payments[y].ref
  BY <1>0, StatusUpdate DEF PaymentStatuses
<1>4. CreditOK(x) /\ x \in paid /\ credited[x] = 0 /\ \A p \in Requests : ~ Settling(p, x)'
  BY <1>0, <1>2 DEF Credits, CreditOK
<1>5. credited'[x] = 1 /\ \A y \in PaymentIds \ {x} : credited'[y] = credited[y]
  BY <1>0, <1>4 DEF TypeOK
<1>6. CreditOK(x)'
  BY <1>0, <1>2, <1>3, <1>4, <1>5 DEF CreditOK
<1> QED BY <1>0, <1>2, <1>3, <1>5, <1>6, CreditFrame DEF Credits

\* No request moves, or all of them end.
LEMMA CreditOther ==
  ASSUME Credits, \/ req' = req
                  \/ \A q \in Requests : req'[q].pc = "idle",
         UNCHANGED <<paid, credited, payments>>,
         \A x \in PaymentIds : session'[x] = "open" => session[x] = "open"
  PROVE  Credits'
<1>1. \A x \in PaymentIds, p \in Requests :
        (Settling(p, x)' => Settling(p, x)) /\ (Creating(p, x)' => Creating(p, x))
  BY DEF Settling, Creating
<1> QED BY <1>1, CreditFrame DEF Credits

\* Every step keeps the credits in order.
LEMMA NextCredits == Shape /\ Credits /\ [Next]_vars => Credits'
<1> SUFFICES ASSUME Shape, Credits, [Next]_vars PROVE Credits'
  OBVIOUS
<1>1. ASSUME NEW q \in Requests, NEW b \in BookingIds, NEW method \in {"wallet", "gateway"},
             Initiate(q, b, method)
      PROVE  Credits'
  <2>1. req'[q].pc = method /\ \A p \in Requests \ {q} : req'[p] = req[p]
    BY <1>1 DEF Shape, TypeOK, Initiate, Begin
  <2> QED BY <1>1, <2>1, CreditStep DEF Initiate, Settling_pcs, tables
<1>2. ASSUME NEW q \in Requests, NEW x \in PaymentIds, Callback(q, x)
      PROVE  Credits'
  <2>1. req'[q].pc = "verify" /\ \A p \in Requests \ {q} : req'[p] = req[p]
    BY <1>2 DEF Shape, TypeOK, Callback, Begin
  <2> QED BY <1>2, <2>1, CreditStep DEF Callback, Settling_pcs, tables
<1>3. ASSUME NEW q \in Requests, NEW x \in PaymentIds, Refund(q, x)
      PROVE  Credits'
  <2>1. req'[q].pc = "refund" /\ \A p \in Requests \ {q} : req'[p] = req[p]
    BY <1>3 DEF Shape, TypeOK, Refund, Begin
  <2> QED BY <1>3, <2>1, CreditStep DEF Refund, Settling_pcs, tables
<1>4. ASSUME NEW q \in Requests, UpsertWallet(q)
      PROVE  Credits'
  <2>1. req'[q].pc = "repay" /\ \A p \in Requests \ {q} : req'[p] = req[p]
    BY <1>4 DEF Shape, TypeOK, Locals, UpsertWallet
  <2> QED BY <1>4, <2>1, CreditStep DEF UpsertWallet, Settling_pcs, tables, history
<1>5. ASSUME NEW q \in Requests, Settle(q)
      PROVE  Credits'
  <2>1. /\ req[q].pc \in Settling_pcs /\ req'[q].pc \in Settling_pcs
        /\ req'[q].pay = req[q].pay /\ \A p \in Requests \ {q} : req'[p] = req[p]
    BY <1>5, SettleUpdate DEF Settling_pcs
  <2> QED BY <1>5, <2>1, CreditStep DEF Settle, tables
<1>6. ASSUME NEW q \in Requests, RecordFailure(q)
      PROVE  Credits'
  BY <1>6, CreditHandlerEnds
     DEF RecordFailure, Handling_pcs, Callback_pcs, PaymentStatuses, history
<1>7. ASSUME NEW q \in Requests, CommitDeposit(q)
      PROVE  Credits'
  BY <1>7, CreditHandlerEnds
     DEF CommitDeposit, Handling_pcs, Callback_pcs, PaymentStatuses, history
<1>8. ASSUME NEW q \in Requests, CommitMark(q)
      PROVE  Credits'
  BY <1>8, CreditHandlerEnds
     DEF CommitMark, Handling_pcs, Callback_pcs, PaymentStatuses, history
<1>9. ASSUME NEW q \in Requests, CommitRefund(q)
      PROVE  Credits'
  BY <1>9, CreditHandlerEnds DEF CommitRefund, Handling_pcs, Refund_pcs, PaymentStatuses
<1>10. ASSUME NEW q \in Requests, Fail(q)
       PROVE  Credits'
  BY <1>10, CreditFinish DEF Fail, Ended, tables
<1>11. ASSUME NEW u \in Users, GetMine(u)
       PROVE  Credits'
  BY <1>11, CreditOther DEF GetMine, history
<1>12. ASSUME NEW b \in BookingIds, NEW s \in {"CONFIRMED", "CANCELLED"}, WriteBooking(b, s)
       PROVE  Credits'
  BY <1>12, CreditOther DEF WriteBooking, history
<1>13. CASE Restart
  <2>1. /\ \A q \in Requests : req'[q].pc = "idle"
        /\ \A x \in PaymentIds : session'[x] = "none"
        /\ UNCHANGED <<paid, credited, payments>>
    BY <1>13 DEF Restart, Ended, Idle, tables
  <2> QED BY <2>1, CreditOther
<1>14. CASE UNCHANGED vars
  BY <1>14, CreditOther DEF vars, tables, history
<1>15. ASSUME NEW q \in Requests, NEW b \in BookingIds, ReadHold(q, b)
       PROVE  Credits'
  <2>1. req'[q].pc = "hold" /\ \A p \in Requests \ {q} : req'[p] = req[p]
    BY <1>15 DEF Shape, TypeOK, ReadHold, Begin
  <2> QED BY <1>15, <2>1, CreditStep DEF ReadHold, Settling_pcs, tables
<1>16. ASSUME NEW q \in Requests, NEW s \in {"PENDING", "CONFIRMED"}, Confirm(q, s)
       PROVE  Credits'
  BY <1>16, CreditFinish DEF Confirm, history
<1>17. ASSUME NEW q \in Requests, NEW x \in PaymentIds, CallbackUnnamed(q, x)
       PROVE  Credits'
  <2>1. req'[q].pc = "fail" /\ \A p \in Requests \ {q} : req'[p] = req[p]
    BY <1>17 DEF Shape, TypeOK, CallbackUnnamed, Begin
  <2> QED BY <1>17, <2>1, CreditStep DEF CallbackUnnamed, Settling_pcs, tables
<1> QED
  BY <1>15, <1>16, <1>17, <1>1, <1>2, <1>3, <1>4, <1>5, <1>6, <1>7, <1>8, <1>9, <1>10, <1>11, <1>12, <1>13, <1>14,
     PayFromWalletCredits, ReadWalletCredits, CreateDepositCredits, CreateTopupCredits,
     CreateSessionCredits, StoreRefCredits, VerifyCredits, CommitTopupCredits DEF Next

\* A top-up is credited to the wallet at most once, however many callbacks
\* the gateway sends, at once, again, or after a restart.
THEOREM TopupCreditedOnce == Spec => []CreditedOnce
<1>1. Credits => CreditedOnce
  BY DEF Credits, CreditOK, CreditedOnce
<1>2. Init => Shape /\ Credits
  BY InitShape, InitCredits
<1>3. Shape /\ Credits /\ [Next]_vars => (Shape /\ Credits)'
  BY NextShape, NextCredits
<1> QED BY <1>1, <1>2, <1>3, PTL DEF Spec

---------------------------------------------------------------------------
(* A balance drifts from its transactions only by a race *)

\* No wallet is written: the request that moves has read the balance, or has
\* none to write.
LEMMA BalanceRead ==
  ASSUME Balances, UNCHANGED <<wallet, ledger, raced>>,
         \A p \in Requests : SeenBalance(p)' \/ (req'[p] = req[p] /\ (p \in stale => p \in stale'))
  PROVE  Balances'
<1>1. \A u : Balance(u)' = Balance(u)
  BY DEF Balance
<1>2. \A p \in Requests : SeenBalance(p)'
  BY <1>1 DEF Balances, SeenBalance
<1> QED BY <1>1, <1>2 DEF Balances, DriftNeedsRace

\* The request that moves holds no balance.
LEMMA BalanceFree ==
  ASSUME Balances, UNCHANGED <<wallet, ledger, raced>>, NEW q \in Requests,
         req'[q].pc \notin {"debit", "credit", "repay"},
         \A p \in Requests \ {q} : req'[p] = req[p] /\ (p \in stale => p \in stale')
  PROVE  Balances'
  BY BalanceRead DEF SeenBalance

\* A wallet is written from the balance that was read, and the ledger with it.
LEMMA BalanceWrite ==
  ASSUME Shape, Balances, NEW q \in Requests, NEW n \in Nat, NEW d \in Int,
         req[q].user \in Users, req[q].pc \in {"debit", "credit", "repay"},
         n = req[q].balance + d,
         wallet' = [wallet EXCEPT ![req[q].user] = n],
         ledger' = [ledger EXCEPT ![req[q].user] = @ + d],
         WalletWritten(q, req[q].user), Finish(q)
  PROVE  Balances'
<1>p. PICK u \in Users : u = req[q].user
  OBVIOUS
<1>0. TypeOK /\ req[q].balance \in Int /\ ledger[u] \in Int
  BY FieldTypes DEF Shape
<1>1. req'[q].pc = "idle" /\ \A p \in Requests \ {q} : req'[p] = req[p]
  BY <1>0, FinishUpdate
<1>2. /\ wallet'[u] = n /\ ledger'[u] = ledger[u] + d
      /\ \A v \in Users \ {u} : wallet'[v] = wallet[v] /\ ledger'[v] = ledger[v]
  BY <1>0, <1>p DEF TypeOK
<1>3. Balance(u)' = n /\ \A v \in Users \ {u} : Balance(v)' = Balance(v)
  BY <1>2 DEF Balance, NoWallet
<1>4. \A v \in Users \ raced' : ledger'[v] = Balance(v)'
  <2>1. \A v \in Users \ (raced' \cup {u}) : ledger'[v] = Balance(v)'
    BY <1>2, <1>3 DEF Balances, DriftNeedsRace, WalletWritten
  <2>2. ASSUME u \notin raced' PROVE ledger'[u] = Balance(u)'
    <3>1. q \notin stale /\ u \notin raced
      BY <1>p, <2>2 DEF WalletWritten
    <3>2. req[q].balance = Balance(u) /\ ledger[u] = Balance(u)
      BY <1>p, <3>1 DEF Balances, SeenBalance, DriftNeedsRace
    <3> QED BY <1>0, <1>2, <1>3, <3>2
  <2> QED BY <2>1, <2>2
<1>5. ASSUME NEW p \in Requests PROVE SeenBalance(p)'
  <2>1. CASE p = q
    BY <1>1, <2>1 DEF SeenBalance
  <2>2. CASE p # q
    <3> SUFFICES ASSUME req[p].pc \in {"debit", "credit", "repay"}, p \notin stale'
                 PROVE  req[p].balance = Balance(req[p].user)'
      BY <1>1, <2>2 DEF SeenBalance
    <3>1. p \notin stale /\ req[p].user # u
      BY <1>p, <2>2 DEF WalletWritten
    <3>2. req[p].balance = Balance(req[p].user) /\ req[p].user \in Users
      BY <3>1 DEF Balances, SeenBalance, Shape, LocalsOK, Handling_pcs, Callback_pcs, Refund_pcs
    <3>3. PICK v \in Users \ {u} : v = req[p].user
      BY <3>1, <3>2
    <3>4. req'[p].user = v /\ wallet'[v] = wallet[v]
      BY <1>1, <1>2, <2>2, <3>3
    <3>5. (IF wallet'[req[p].user] = NoWallet THEN 0 ELSE wallet'[req[p].user]) = req[p].balance
      BY <3>2, <3>3, <3>4 DEF Balance
    <3> QED BY <1>1, <2>2, <3>5 DEF Balance
  <2> QED BY <2>1, <2>2
<1> QED BY <1>4, <1>5 DEF Balances, DriftNeedsRace

\* The initial states satisfy Balances.
LEMMA InitBalances == Init => Balances
<1> SUFFICES ASSUME Init PROVE Balances
  OBVIOUS
<1>1. \A q \in Requests : req[q].pc = "idle"
  BY DEF Init, Idle
<1> QED BY <1>1 DEF Init, Balances, DriftNeedsRace, SeenBalance

\* The debit is taken off the balance and entered in the ledger.
LEMMA PayFromWalletBalances ==
  ASSUME Shape, Balances, NEW q \in Requests, NEW x \in PaymentIds, PayFromWallet(q, x)
  PROVE  Balances'
<1>1. /\ req[q].user \in Users /\ req[q].pc = "debit" /\ req[q].amount \in Nat
      /\ req[q].balance \in Nat /\ req[q].amount <= req[q].balance
      /\ ledger[req[q].user] \in Int
  BY FieldTypes DEF Shape, PayFromWallet, LocalsOK
<1>2. /\ wallet' = [wallet EXCEPT ![req[q].user] = req[q].balance - req[q].amount]
      /\ ledger' = [ledger EXCEPT ![req[q].user] = @ - req[q].amount]
      /\ WalletWritten(q, req[q].user) /\ Finish(q)
  BY DEF PayFromWallet
<1> DEFINE n == req[q].balance - req[q].amount
           d == - req[q].amount
<1>3. n \in Nat /\ d \in Int /\ n = req[q].balance + d
  BY <1>1
<1>4. ledger' = [ledger EXCEPT ![req[q].user] = @ + d]
  BY <1>1, <1>2
<1>5. wallet' = [wallet EXCEPT ![req[q].user] = n]
  BY <1>2
<1> HIDE DEF n, d
<1> QED BY <1>1, <1>2, <1>3, <1>4, <1>5, BalanceWrite

\* A top-up or a refund is added.
LEMMA AddedBalances ==
  ASSUME Shape, Balances, NEW q \in Requests, req[q].pc \in {"credit", "repay"},
         wallet' = [wallet EXCEPT ![req[q].user] = req[q].balance + req[q].amount],
         ledger' = [ledger EXCEPT ![req[q].user] = @ + req[q].amount],
         WalletWritten(q, req[q].user), Finish(q)
  PROVE  Balances'
<1>1. req[q].user \in Users /\ req[q].amount \in Nat /\ req[q].balance \in Nat
  BY FieldTypes DEF Shape, LocalsOK, Handling_pcs, Callback_pcs, Refund_pcs
<1> DEFINE n == req[q].balance + req[q].amount
           d == req[q].amount
<1>2. /\ n \in Nat /\ d \in Int /\ n = req[q].balance + d
      /\ ledger' = [ledger EXCEPT ![req[q].user] = @ + d]
      /\ wallet' = [wallet EXCEPT ![req[q].user] = n]
  BY <1>1
<1> HIDE DEF n, d
<1> QED BY <1>1, <1>2, BalanceWrite

\* A wallet opened with 0 has the balance that none stands for.
LEMMA GetMineBalances ==
  ASSUME Shape, Balances, NEW u \in Users, GetMine(u)
  PROVE  Balances'
<1>1. \A v \in Users : Balance(v)' = Balance(v)
  BY DEF Shape, TypeOK, GetMine, Balance, NoWallet
<1>2. \A q \in Requests : SeenBalance(q)'
  <2> SUFFICES ASSUME NEW q \in Requests PROVE SeenBalance(q)'
    OBVIOUS
  <2>1. UNCHANGED <<req, stale>> /\ SeenBalance(q)
    BY DEF GetMine, Balances, history
  <2>2. req[q].pc \in {"debit", "credit", "repay"} => req[q].user \in Users
    BY DEF Shape, LocalsOK, Handling_pcs, Callback_pcs, Refund_pcs
  <2>3. req[q].user \in Users =>
          Balance(req[q].user) = IF wallet'[req[q].user] = NoWallet THEN 0 ELSE wallet'[req[q].user]
    BY <1>1 DEF Balance
  <2> QED BY <2>1, <2>2, <2>3 DEF SeenBalance, Balance
<1> QED BY <1>1, <1>2 DEF Balances, DriftNeedsRace, GetMine, history

\* payFromWallet has the current balance after its read.
LEMMA ReadWalletBalances ==
  ASSUME Shape, Balances, NEW q \in Requests, ReadWallet(q)
  PROVE  Balances'
<1>0. TypeOK /\ req[q].pc = "wallet" /\ req[q].user \in Users
  BY DEF Shape, LocalsOK, ReadWallet
<1>u. UNCHANGED <<wallet, ledger, raced, stale>>
  BY DEF ReadWallet, tables, history
<1>1. CASE Finish(q)
  <2>1. req'[q].pc = "idle" /\ \A p \in Requests \ {q} : req'[p] = req[p]
    BY <1>0, <1>1, FinishUpdate
  <2> QED BY <1>u, <2>1, BalanceFree
<1>2. CASE ~ Finish(q)
  <2> DEFINE n == wallet[req[q].user]
  <2>1. /\ n # NoWallet /\ n \in Nat
        /\ req' = [req EXCEPT ![q].pc = "debit", ![q].balance = n]
    BY <1>0, <1>2, FieldTypes DEF ReadWallet
  <2> HIDE DEF n
  <2>2. /\ req' \in [Requests -> Locals]
        /\ req'[q].pc = "debit" /\ req'[q].pay = req[q].pay /\ req'[q].user = req[q].user
        /\ req'[q].booking = req[q].booking /\ req'[q].amount = req[q].amount
        /\ req'[q].balance = n
        /\ \A p \in Requests \ {q} : req'[p] = req[p]
    BY <1>0, <2>1, ReadUpdate DEF PCs
  <2>3. SeenBalance(q)'
    BY <1>u, <2>1, <2>2 DEF SeenBalance, Balance, n
  <2> QED BY <1>u, <2>2, <2>3, BalanceRead
<1> QED BY <1>1, <1>2

\* refund has the current balance after its upsert.
LEMMA UpsertWalletBalances ==
  ASSUME Shape, Balances, NEW q \in Requests, UpsertWallet(q)
  PROVE  Balances'
<1>0. TypeOK /\ req[q].pc = "refund" /\ req[q].user \in Users
  BY DEF Shape, LocalsOK, UpsertWallet, Handling_pcs, Refund_pcs
<1>u. UNCHANGED <<wallet, ledger, raced, stale>>
  BY DEF UpsertWallet, tables, history
<1> DEFINE n == Balance(req[q].user)
<1>1. n \in Nat /\ req' = [req EXCEPT ![q].pc = "repay", ![q].balance = n]
  BY <1>0, FieldTypes DEF UpsertWallet
<1> HIDE DEF n
<1>2. /\ req' \in [Requests -> Locals]
      /\ req'[q].pc = "repay" /\ req'[q].pay = req[q].pay /\ req'[q].user = req[q].user
      /\ req'[q].booking = req[q].booking /\ req'[q].amount = req[q].amount
      /\ req'[q].balance = n
      /\ \A p \in Requests \ {q} : req'[p] = req[p]
  BY <1>0, <1>1, ReadUpdate DEF PCs, Refund_pcs
<1>3. SeenBalance(q)'
  BY <1>u, <1>2 DEF SeenBalance, Balance, n
<1> QED BY <1>u, <1>2, <1>3, BalanceRead

\* Every step keeps the balances in order.
LEMMA NextBalances == Shape /\ Balances /\ [Next]_vars => Balances'
<1> SUFFICES ASSUME Shape, Balances, [Next]_vars PROVE Balances'
  OBVIOUS
<1>0. TypeOK
  BY DEF Shape
<1>1. ASSUME NEW q \in Requests, NEW b \in BookingIds, NEW method \in {"wallet", "gateway"},
             Initiate(q, b, method)
      PROVE  Balances'
  <2>1. req'[q].pc = method /\ \A p \in Requests \ {q} : req'[p] = req[p]
    BY <1>0, <1>1 DEF TypeOK, Initiate, Begin
  <2> QED BY <1>1, <2>1, BalanceFree DEF Initiate, tables
<1>2. ASSUME NEW q \in Requests, NEW x \in PaymentIds, CreateDeposit(q, x)
      PROVE  Balances'
  <2>1. req'[q].pc = "session" /\ \A p \in Requests \ {q} : req'[p] = req[p]
    BY <1>0, <1>2 DEF TypeOK, CreateDeposit, Begin
  <2> QED BY <1>2, <2>1, BalanceFree DEF CreateDeposit, history
<1>3. ASSUME NEW q \in Requests, NEW x \in PaymentIds, NEW u \in Users,
             NEW amount \in TopupAmounts, CreateTopup(q, x, u, amount)
      PROVE  Balances'
  <2>1. req'[q].pc = "session" /\ \A p \in Requests \ {q} : req'[p] = req[p]
    BY <1>0, <1>3 DEF TypeOK, CreateTopup, Begin
  <2> QED BY <1>3, <2>1, BalanceFree DEF CreateTopup, history
<1>4. ASSUME NEW q \in Requests, NEW x \in PaymentIds,
             Callback(q, x) \/ CallbackUnnamed(q, x) \/ Refund(q, x)
      PROVE  Balances'
  <2>1. /\ req'[q].pc \in {"verify", "fail", "refund"}
        /\ \A p \in Requests \ {q} : req'[p] = req[p]
    BY <1>0, <1>4 DEF TypeOK, Callback, CallbackUnnamed, Refund, Begin
  <2> QED BY <1>4, <2>1, BalanceFree DEF Callback, CallbackUnnamed, Refund, tables
<1>5. ASSUME NEW q \in Requests, CreateSession(q) \/ Verify(q)
      PROVE  Balances'
  <2>1. req'[q].pc \in {"link", "settle", "fail"} /\ \A p \in Requests \ {q} : req'[p] = req[p]
    BY <1>0, <1>5 DEF TypeOK, Locals, CreateSession, Verify, Goto
  <2>2. UNCHANGED <<wallet, ledger, raced, stale>>
    BY <1>5 DEF CreateSession, Verify, tables, history
  <2> QED BY <2>1, <2>2, BalanceFree
<1>6. ASSUME NEW q \in Requests, Settle(q)
      PROVE  Balances'
  <2>1. UNCHANGED <<wallet, ledger, raced, stale>>
    BY <1>6 DEF Settle, tables
  <2>2. SeenBalance(q)'
    BY <1>6, <2>1, SettleUpdate DEF SeenBalance, Balance
  <2>3. \A p \in Requests \ {q} : req'[p] = req[p]
    BY <1>6, SettleUpdate
  <2> QED BY <2>1, <2>2, <2>3, BalanceRead
<1>7. ASSUME NEW q \in Requests, StoreRef(q) \/ RecordFailure(q) \/ CommitDeposit(q) \/ CommitMark(q)
      PROVE  Balances'
  <2>1. Finish(q) /\ UNCHANGED <<wallet, ledger, raced, stale>>
    BY <1>7 DEF StoreRef, RecordFailure, CommitDeposit, CommitMark, history
  <2>2. req'[q].pc = "idle" /\ \A p \in Requests \ {q} : req'[p] = req[p]
    BY <1>0, <2>1, FinishUpdate
  <2> QED BY <2>1, <2>2, BalanceFree
<1>8. ASSUME NEW q \in Requests, CommitTopup(q) \/ CommitRefund(q)
       PROVE  Balances'
  BY <1>8, AddedBalances DEF CommitTopup, CommitRefund
<1>9. ASSUME NEW q \in Requests, Fail(q)
       PROVE  Balances'
  <2>1. req'[q].pc = "idle" /\ \A p \in Requests \ {q} : req'[p] = req[p]
    BY <1>0, <1>9, FinishUpdate DEF Fail
  <2> QED BY <1>9, <2>1, BalanceFree DEF Fail, Ended, tables
<1>10. ASSUME NEW b \in BookingIds, NEW s \in {"CONFIRMED", "CANCELLED"}, WriteBooking(b, s)
       PROVE  Balances'
  BY <1>10, BalanceRead DEF WriteBooking, history
<1>11. CASE Restart
  <2>1. \A q \in Requests : SeenBalance(q)'
    BY <1>11 DEF Restart, Idle, SeenBalance
  <2> QED BY <1>11, <2>1, BalanceRead DEF Restart, Ended, tables
<1>12. CASE UNCHANGED vars
  BY <1>12, BalanceRead DEF vars, tables, history
<1>13. ASSUME NEW q \in Requests, NEW b \in BookingIds, ReadHold(q, b)
       PROVE  Balances'
  <2>1. req'[q].pc = "hold" /\ \A p \in Requests \ {q} : req'[p] = req[p]
    BY <1>0, <1>13 DEF TypeOK, ReadHold, Begin
  <2> QED BY <1>13, <2>1, BalanceFree DEF ReadHold, tables
<1>14. ASSUME NEW q \in Requests, NEW s \in {"PENDING", "CONFIRMED"}, Confirm(q, s)
       PROVE  Balances'
  <2>1. req'[q].pc = "idle" /\ \A p \in Requests \ {q} : req'[p] = req[p]
    BY <1>0, <1>14, FinishUpdate DEF Confirm
  <2> QED BY <1>14, <2>1, BalanceFree DEF Confirm, history
<1> QED
  BY <1>13, <1>14, <1>1, <1>2, <1>3, <1>4, <1>5, <1>6, <1>7, <1>8, <1>9, <1>10, <1>11, <1>12,
     ReadWalletBalances, UpsertWalletBalances, PayFromWalletBalances, GetMineBalances DEF Next

\* A wallet's balance is the sum of its transactions until some handler
\* writes it from a balance that another one has changed since: the
\* read-modify-write race is the only source of drift.
THEOREM OnlyRacesDrift == Spec => []DriftNeedsRace
<1>1. Balances => DriftNeedsRace
  BY DEF Balances
<1>2. Init => Shape /\ Balances
  BY InitShape, InitBalances
<1>3. Shape /\ Balances /\ [Next]_vars => (Shape /\ Balances)'
  BY NextShape, NextBalances
<1> QED BY <1>1, <1>2, <1>3, PTL DEF Spec

---------------------------------------------------------------------------
(* A payment with one handler at a time *)

\* Nothing happens that matters to the handlers of payment x, but for one
\* that ends and is recorded as dropped.
LEMMA HandlerFrame ==
  ASSUME NEW x \in PaymentIds, HandlerOK(x),
         payments'[x].status = payments[x].status, refunded'[x] = refunded[x],
         x \in paid' \ dropped' => x \in paid \ dropped,
         \A q \in Requests :
           /\ Handling(q, x)' => /\ Handling(q, x)
                                 /\ req'[q].pc \in Refund_pcs <=> req[q].pc \in Refund_pcs
           /\ Settling(q, x) => Settling(q, x)' \/ x \in dropped'
  PROVE  HandlerOK(x)'
<1>1. \A q \in Requests : Handling(q, x)' =>
        payments'[x].status = IF req'[q].pc \in Refund_pcs THEN "SUCCESS" ELSE "INITIATED"
  BY DEF HandlerOK
<1>2. \A q, r \in Requests : Handling(q, x)' /\ Handling(r, x)' => q = r
  BY DEF HandlerOK
<1>3. x \in paid' \ dropped' => \/ payments'[x].status \in {"SUCCESS", "REFUNDED"}
                                \/ \E q \in Requests : Settling(q, x)'
  BY DEF HandlerOK
<1> QED BY <1>1, <1>2, <1>3 DEF HandlerOK

\* One request moves: no handler before and after, or within its handler.
LEMMA HandlersMove ==
  ASSUME Handlers, NEW q \in Requests, \A p \in Requests \ {q} : req'[p] = req[p],
         \/ req[q].pc \notin Handling_pcs /\ req'[q].pc \notin Handling_pcs
         \/ /\ req'[q].pay = req[q].pay
            /\ \/ req[q].pc \in Refund_pcs /\ req'[q].pc \in Refund_pcs
               \/ req[q].pc \in Settling_pcs /\ req'[q].pc \in Settling_pcs,
         UNCHANGED <<paid, dropped, contested, refunded>>
  PROVE  \A x \in PaymentIds \ contested' :
           payments'[x].status = payments[x].status => HandlerOK(x)'
<1> SUFFICES ASSUME NEW x \in PaymentIds \ contested', payments'[x].status = payments[x].status
             PROVE  HandlerOK(x)'
  OBVIOUS
<1>1. ASSUME NEW p \in Requests
      PROVE  /\ Handling(p, x)' => /\ Handling(p, x)
                                   /\ req'[p].pc \in Refund_pcs <=> req[p].pc \in Refund_pcs
             /\ Settling(p, x) => Settling(p, x)'
  <2>1. CASE p # q
    BY <2>1 DEF Handling, Settling
  <2>2. CASE p = q
    BY <2>2 DEF Handling, Settling, Handling_pcs, Callback_pcs, Refund_pcs, Settling_pcs
  <2> QED BY <2>1, <2>2
<1> QED BY <1>1, HandlerFrame DEF Handlers

\* The initial states satisfy Handlers.
LEMMA InitHandlers == Init => Handlers
<1> SUFFICES ASSUME Init PROVE Handlers
  OBVIOUS
<1>1. \A q \in Requests : req[q].pc = "idle"
  BY DEF Init, Idle
<1> QED
  BY <1>1 DEF Init, Handlers, HandlerOK, Handling, Handling_pcs, Callback_pcs, Refund_pcs

\* A new payment has no handler and no money to account for.
LEMMA HandlersCreate ==
  ASSUME Shape, Credits, Handlers, NEW q \in Requests, NEW x \in PaymentIds,
         payments[x].status = "NONE", payments'[x].status \in {"INITIATED", "SUCCESS"},
         \A y \in PaymentIds \ {x} : payments'[y] = payments[y],
         req[q].pc \notin Handling_pcs, req'[q].pc \notin Handling_pcs,
         \A p \in Requests \ {q} : req'[p] = req[p],
         UNCHANGED <<paid, dropped, contested, refunded>>
  PROVE  Handlers'
<1>1. \A p \in Requests : ~ Handling(p, x)
  BY DEF Shape, LocalsOK, Handling
<1>2. \A p \in Requests : ~ Handling(p, x)'
  BY <1>1 DEF Handling
<1>3. x \notin paid
  BY DEF Shape, RowOK, Credits, CreditOK
<1>4. x \notin contested => HandlerOK(x)'
  BY <1>2, <1>3 DEF Handlers, HandlerOK
<1> QED BY <1>4, HandlersMove DEF Handlers

\* A handler starts on a payment that no other one works on, or contests it.
LEMMA HandlersEngage ==
  ASSUME Shape, Handlers, NEW q \in Requests, NEW x \in PaymentIds, Engages(x),
         req[q].pc = "idle", req'[q].pay = x,
         \/ req'[q].pc \in {"verify", "fail"} /\ payments[x].status = "INITIATED"
         \/ req'[q].pc = "refund" /\ payments[x].status = "SUCCESS",
         \A p \in Requests \ {q} : req'[p] = req[p],
         UNCHANGED <<payments, paid, dropped, refunded>>
  PROVE  Handlers'
<1>1. ASSUME x \notin contested'
      PROVE  HandlerOK(x)'
  <2>1. x \notin contested /\ \A p \in Requests : ~ Handling(p, x)
    BY <1>1 DEF Engages, Handling, Handling_pcs
  <2>2. \A p \in Requests : Handling(p, x)' => p = q
    BY <2>1 DEF Handling
  <2>3. \A p \in Requests : Settling(p, x) => Settling(p, x)'
    BY <2>1 DEF Settling, Handling, Handling_pcs, Callback_pcs
  <2>4. payments[x].status = IF req'[q].pc \in Refund_pcs THEN "SUCCESS" ELSE "INITIATED"
    BY DEF Refund_pcs
  <2>5. HandlerOK(x)
    BY <2>1 DEF Handlers
  <2> QED BY <2>2, <2>3, <2>4, <2>5 DEF HandlerOK
<1>2. ASSUME NEW y \in PaymentIds \ contested', y # x
      PROVE  HandlerOK(y)'
  <2>1. y \notin contested
    BY <1>2 DEF Engages
  <2>2. ASSUME NEW p \in Requests
        PROVE  /\ Handling(p, y)' => /\ Handling(p, y)
                                     /\ req'[p].pc \in Refund_pcs <=> req[p].pc \in Refund_pcs
               /\ Settling(p, y) => Settling(p, y)'
    BY <1>2 DEF Handling, Settling
  <2> QED BY <2>1, <2>2, HandlerFrame DEF Handlers
<1> QED BY <1>1, <1>2 DEF Handlers

\* A verified payment has a handler that settles it.
LEMMA VerifyHandlers ==
  ASSUME Shape, Handlers, NEW q \in Requests, Verify(q)
  PROVE  Handlers'
<1>0. /\ TypeOK /\ req[q].pay \in PaymentIds /\ req[q].pc = "verify"
      /\ UNCHANGED <<payments, dropped, contested, refunded>>
  BY DEF Shape, Verify, LocalsOK, Handling_pcs, Callback_pcs, tables
<1>1. PICK x \in PaymentIds : x = req[q].pay
  BY <1>0
<1>2. /\ req'[q].pc \in {"settle", "fail"} /\ req'[q].pay = x
      /\ \A p \in Requests \ {q} : req'[p] = req[p]
  BY <1>0, <1>1 DEF TypeOK, Locals, Verify, Goto
<1>3. paid' = paid \/ (paid' = paid \cup {x} /\ req'[q].pc = "settle")
  BY <1>0, <1>1 DEF TypeOK, Locals, Verify, Goto
<1>4. \A y \in PaymentIds, p \in Requests :
        /\ Handling(p, y)' => /\ Handling(p, y)
                              /\ req'[p].pc \in Refund_pcs <=> req[p].pc \in Refund_pcs
        /\ Settling(p, y) => Settling(p, y)'
  <2> SUFFICES ASSUME NEW y \in PaymentIds, NEW p \in Requests
               PROVE  /\ Handling(p, y)' => /\ Handling(p, y)
                                            /\ req'[p].pc \in Refund_pcs <=> req[p].pc \in Refund_pcs
                      /\ Settling(p, y) => Settling(p, y)'
    OBVIOUS
  <2>1. CASE p # q
    BY <1>2, <2>1 DEF Handling, Settling
  <2>2. CASE p = q
    BY <1>0, <1>1, <1>2, <2>2
       DEF Handling, Settling, Handling_pcs, Callback_pcs, Refund_pcs
  <2> QED BY <2>1, <2>2
<1>5. CASE paid' = paid
  BY <1>0, <1>4, <1>5, HandlerFrame DEF Handlers
<1>6. CASE paid' = paid \cup {x} /\ req'[q].pc = "settle"
  <2>1. Settling(q, x)'
    BY <1>2, <1>6 DEF Settling
  <2>2. x \notin contested => HandlerOK(x)'
    BY <1>0, <1>4, <2>1 DEF Handlers, HandlerOK
  <2>3. \A y \in PaymentIds \ contested' : y # x => HandlerOK(y)'
    BY <1>0, <1>4, <1>6, HandlerFrame DEF Handlers
  <2> QED BY <1>0, <2>2, <2>3 DEF Handlers
<1> QED BY <1>3, <1>5, <1>6

\* A handler ends with its commit, or with the failure it records.
LEMMA HandlersEnd ==
  ASSUME Shape, Handlers, NEW q \in Requests, NEW x \in PaymentIds, x = req[q].pay,
         NEW st \in PaymentStatuses, SetPayment(x, st), Finish(q),
         \/ req[q].pc = "fail" /\ st = "FAILED" /\ refunded' = refunded
         \/ req[q].pc \in {"credit", "confirm", "mark"} /\ st = "SUCCESS" /\ refunded' = refunded
         \/ req[q].pc = "repay" /\ st = "REFUNDED" /\ refunded' = [refunded EXCEPT ![x] = @ + 1],
         UNCHANGED <<paid, dropped, contested>>
  PROVE  Handlers'
<1>0. TypeOK
  BY DEF Shape
<1>1. req'[q].pc = "idle" /\ \A p \in Requests \ {q} : req'[p] = req[p]
  BY <1>0, FinishUpdate
<1>2. payments'[x].status = st /\ \A y \in PaymentIds \ {x} : payments'[y] = payments[y]
  BY <1>0, StatusUpdate
<1>3. /\ \A y \in PaymentIds \ {x} : refunded'[y] = refunded[y]
      /\ refunded'[x] = IF st = "REFUNDED" THEN refunded[x] + 1 ELSE refunded[x]
  BY <1>0 DEF TypeOK
<1>4. Handling(q, x)
  BY DEF Handling, Handling_pcs, Callback_pcs, Refund_pcs
<1>5. ASSUME x \notin contested
      PROVE  HandlerOK(x)'
  <2>1. /\ \A p \in Requests : Handling(p, x) => p = q
        /\ payments[x].status = IF req[q].pc \in Refund_pcs THEN "SUCCESS" ELSE "INITIATED"
        /\ payments[x].status # "REFUNDED" => refunded[x] = 0
        /\ x \in paid \ dropped => \/ payments[x].status \in {"SUCCESS", "REFUNDED"}
                                   \/ \E p \in Requests : Settling(p, x)
    BY <1>4, <1>5 DEF Handlers, HandlerOK
  <2>2. \A p \in Requests : ~ Handling(p, x)'
    BY <1>1, <2>1 DEF Handling, Handling_pcs, Callback_pcs, Refund_pcs
  <2>3. refunded[x] = 0
    BY <2>1
  <2>4. x \in paid' \ dropped' => payments'[x].status \in {"SUCCESS", "REFUNDED"}
    <3>1. CASE req[q].pc = "fail"
      <4>1. payments[x].status = "INITIATED"
        BY <2>1, <3>1 DEF Refund_pcs
      <4>2. \A p \in Requests : Settling(p, x) => p = q
        BY <2>1 DEF Settling, Handling, Handling_pcs, Callback_pcs
      <4>3. x \notin paid \ dropped
        BY <2>1, <3>1, <4>1, <4>2 DEF Settling
      <4> QED BY <4>3
    <3>2. CASE req[q].pc # "fail"
      BY <1>2, <3>2
    <3> QED BY <3>1, <3>2
  <2>5. refunded'[x] <= 1 /\ (payments'[x].status # "REFUNDED" => refunded'[x] = 0)
    BY <1>2, <1>3, <2>3
  <2> QED BY <2>2, <2>4, <2>5 DEF HandlerOK
<1>6. ASSUME NEW y \in PaymentIds \ contested', y # x
      PROVE  HandlerOK(y)'
  <2>1. ASSUME NEW p \in Requests
        PROVE  /\ Handling(p, y)' => /\ Handling(p, y)
                                     /\ req'[p].pc \in Refund_pcs <=> req[p].pc \in Refund_pcs
               /\ Settling(p, y) => Settling(p, y)'
    <3>1. CASE p = q
      BY <1>1, <1>6, <3>1 DEF Handling, Settling, Handling_pcs, Callback_pcs, Refund_pcs
    <3>2. CASE p # q
      BY <1>1, <3>2 DEF Handling, Settling
    <3> QED BY <3>1, <3>2
  <2> QED BY <1>2, <1>3, <1>6, <2>1, HandlerFrame DEF Handlers
<1> QED BY <1>5, <1>6 DEF Handlers

\* A handler that ends without a commit is recorded if money is at stake.
LEMMA HandlersDropped ==
  ASSUME Handlers, NEW Q \in SUBSET Requests, Ended(Q),
         \A q \in Q : req'[q].pc = "idle",
         \A p \in Requests \ Q : req'[p] = req[p], UNCHANGED <<payments, refunded>>
  PROVE  Handlers'
<1> SUFFICES ASSUME NEW x \in PaymentIds \ contested PROVE HandlerOK(x)'
  BY DEF Handlers, Ended
<1>1. x \in paid' \ dropped' => x \in paid \ dropped
  BY DEF Ended
<1>2. ASSUME NEW p \in Requests
      PROVE  /\ Handling(p, x)' => /\ Handling(p, x)
                                   /\ req'[p].pc \in Refund_pcs <=> req[p].pc \in Refund_pcs
             /\ Settling(p, x) => Settling(p, x)' \/ x \in dropped'
  <2>1. CASE p \in Q
    BY <2>1 DEF Handling, Settling, Ended, Handling_pcs, Callback_pcs, Refund_pcs
  <2>2. CASE p \notin Q
    BY <2>2 DEF Handling, Settling
  <2> QED BY <2>1, <2>2
<1> QED BY <1>1, <1>2, HandlerFrame DEF Handlers

\* Every step keeps the handlers in order.
LEMMA NextHandlers == Shape /\ Credits /\ Handlers /\ [Next]_vars => Handlers'
<1> SUFFICES ASSUME Shape, Credits, Handlers, [Next]_vars PROVE Handlers'
  OBVIOUS
<1>0. TypeOK
  BY DEF Shape
<1> USE DEF Handling_pcs, Callback_pcs, Refund_pcs
<1>1. ASSUME NEW q \in Requests, NEW b \in BookingIds, NEW method \in {"wallet", "gateway"},
             Initiate(q, b, method)
      PROVE  Handlers'
  <2>1. req'[q].pc = method /\ \A p \in Requests \ {q} : req'[p] = req[p]
    BY <1>0, <1>1 DEF TypeOK, Initiate, Begin
  <2> QED BY <1>1, <2>1, HandlersMove DEF Handlers, Initiate, tables
<1>2. ASSUME NEW q \in Requests, ReadWallet(q)
      PROVE  Handlers'
  <2>1. /\ req[q].pc = "wallet" /\ req'[q].pc \in {"idle", "debit"}
        /\ \A p \in Requests \ {q} : req'[p] = req[p]
    BY <1>0, <1>2 DEF TypeOK, Locals, ReadWallet, Finish, Idle
  <2> QED BY <1>2, <2>1, HandlersMove DEF Handlers, ReadWallet, tables, history
<1>3. ASSUME NEW q \in Requests, NEW x \in PaymentIds, PayFromWallet(q, x)
      PROVE  Handlers'
  <2>1. req'[q].pc = "idle" /\ \A p \in Requests \ {q} : req'[p] = req[p]
    BY <1>0, <1>3, FinishUpdate DEF PayFromWallet
  <2>2. payments'[x].status = "SUCCESS" /\ \A y \in PaymentIds \ {x} : payments'[y] = payments[y]
    BY <1>0, <1>3 DEF TypeOK, PayFromWallet
  <2> QED BY <1>3, <2>1, <2>2, HandlersCreate DEF PayFromWallet
<1>4. ASSUME NEW q \in Requests, NEW x \in PaymentIds, CreateDeposit(q, x)
      PROVE  Handlers'
  <2>1. req'[q].pc = "session" /\ \A p \in Requests \ {q} : req'[p] = req[p]
    BY <1>0, <1>4 DEF TypeOK, CreateDeposit, Begin
  <2>2. payments'[x].status = "INITIATED" /\ \A y \in PaymentIds \ {x} : payments'[y] = payments[y]
    BY <1>0, <1>4 DEF TypeOK, CreateDeposit
  <2> QED BY <1>4, <2>1, <2>2, HandlersCreate DEF CreateDeposit, history
<1>5. ASSUME NEW q \in Requests, NEW x \in PaymentIds, NEW u \in Users,
             NEW amount \in TopupAmounts, CreateTopup(q, x, u, amount)
      PROVE  Handlers'
  <2>1. req'[q].pc = "session" /\ \A p \in Requests \ {q} : req'[p] = req[p]
    BY <1>0, <1>5 DEF TypeOK, CreateTopup, Begin
  <2>2. payments'[x].status = "INITIATED" /\ \A y \in PaymentIds \ {x} : payments'[y] = payments[y]
    BY <1>0, <1>5 DEF TypeOK, CreateTopup
  <2> QED BY <1>5, <2>1, <2>2, HandlersCreate DEF CreateTopup, history
<1>6. ASSUME NEW q \in Requests, CreateSession(q)
      PROVE  Handlers'
  <2>1. /\ req[q].pc = "session" /\ req'[q].pc = "link"
        /\ \A p \in Requests \ {q} : req'[p] = req[p]
    BY <1>0, <1>6 DEF TypeOK, Locals, CreateSession, Goto
  <2> QED BY <1>6, <2>1, HandlersMove DEF Handlers, CreateSession, tables, history
<1>7. ASSUME NEW q \in Requests, StoreRef(q)
      PROVE  Handlers'
  <2>1. req'[q].pc = "idle" /\ \A p \in Requests \ {q} : req'[p] = req[p]
    BY <1>0, <1>7, FinishUpdate DEF StoreRef
  <2>2. PICK y \in PaymentIds : y = req[q].pay
    BY <1>7 DEF Shape, LocalsOK, StoreRef
  <2>3. payments' = [payments EXCEPT ![y].ref = "set"]
    BY <1>7, <2>2 DEF StoreRef
  <2>4. \A x \in PaymentIds : payments'[x].status = payments[x].status
    BY <1>0, <2>3, RefUpdate
  <2> QED BY <1>7, <2>1, <2>4, HandlersMove DEF Handlers, StoreRef, history
<1>8. ASSUME NEW q \in Requests, NEW x \in PaymentIds, Callback(q, x)
      PROVE  Handlers'
  <2>1. /\ req'[q].pc = "verify" /\ req'[q].pay = x
        /\ \A p \in Requests \ {q} : req'[p] = req[p]
    BY <1>0, <1>8 DEF TypeOK, Callback, Begin
  <2> QED BY <1>8, <2>1, HandlersEngage DEF Callback, tables
<1>9. ASSUME NEW q \in Requests, NEW x \in PaymentIds, Refund(q, x)
      PROVE  Handlers'
  <2>1. /\ req'[q].pc = "refund" /\ req'[q].pay = x
        /\ \A p \in Requests \ {q} : req'[p] = req[p]
    BY <1>0, <1>9 DEF TypeOK, Refund, Begin
  <2> QED BY <1>9, <2>1, HandlersEngage DEF Refund, tables
<1>10. ASSUME NEW q \in Requests, Settle(q)
       PROVE  Handlers'
  <2>1. /\ req[q].pc \in Settling_pcs /\ req'[q].pc \in Settling_pcs
        /\ req'[q].pay = req[q].pay /\ \A p \in Requests \ {q} : req'[p] = req[p]
    BY <1>10, SettleUpdate DEF Settling_pcs
  <2> QED BY <1>10, <2>1, HandlersMove DEF Handlers, Settle, tables
<1>11. ASSUME NEW q \in Requests, UpsertWallet(q)
       PROVE  Handlers'
  <2>1. /\ req[q].pc = "refund" /\ req'[q].pc = "repay" /\ req'[q].pay = req[q].pay
        /\ \A p \in Requests \ {q} : req'[p] = req[p]
    BY <1>0, <1>11 DEF TypeOK, Locals, UpsertWallet
  <2> QED BY <1>11, <2>1, HandlersMove DEF Handlers, UpsertWallet, tables, history
<1>12. ASSUME NEW q \in Requests,
              RecordFailure(q) \/ CommitTopup(q) \/ CommitDeposit(q) \/ CommitMark(q) \/ CommitRefund(q)
       PROVE  Handlers'
  <2>1. req[q].pc \in Handling_pcs
    BY <1>12 DEF RecordFailure, CommitTopup, CommitDeposit, CommitMark, CommitRefund
  <2>2. PICK x \in PaymentIds : x = req[q].pay
    BY <2>1 DEF Shape, LocalsOK
  <2>3. Finish(q) /\ UNCHANGED <<paid, dropped, contested>>
    BY <1>12 DEF RecordFailure, CommitTopup, CommitDeposit, CommitMark, CommitRefund, history
  <2>4. PICK st \in {"FAILED", "SUCCESS", "REFUNDED"} :
          /\ SetPayment(x, st)
          /\ \/ req[q].pc = "fail" /\ st = "FAILED" /\ refunded' = refunded
             \/ req[q].pc \in {"credit", "confirm", "mark"} /\ st = "SUCCESS" /\ refunded' = refunded
             \/ req[q].pc = "repay" /\ st = "REFUNDED" /\ refunded' = [refunded EXCEPT ![x] = @ + 1]
    BY <1>12, <2>2 DEF RecordFailure, CommitTopup, CommitDeposit, CommitMark, CommitRefund
  <2>5. st \in PaymentStatuses
    BY DEF PaymentStatuses
  <2> QED BY <2>2, <2>3, <2>4, <2>5, HandlersEnd
<1>13. ASSUME NEW q \in Requests, Fail(q)
       PROVE  Handlers'
  <2>1. /\ \A r \in {q} : req'[r].pc = "idle"
        /\ \A p \in Requests \ {q} : req'[p] = req[p]
    BY <1>0, <1>13, FinishUpdate DEF Fail
  <2>2. {q} \in SUBSET Requests /\ Ended({q}) /\ UNCHANGED <<payments, refunded>>
    BY <1>13 DEF Fail, tables
  <2> QED BY <2>1, <2>2, HandlersDropped
<1>14. CASE Restart
  <2>1. /\ \A r \in Requests : req'[r].pc = "idle"
        /\ Requests \in SUBSET Requests /\ Ended(Requests) /\ UNCHANGED <<payments, refunded>>
    BY <1>14 DEF Restart, Idle, tables
  <2> QED BY <2>1, HandlersDropped
<1>15. ASSUME UNCHANGED <<payments, req, paid, dropped, contested, refunded>>
       PROVE  Handlers'
  BY <1>15 DEF Handlers, HandlerOK, Handling, Settling
<1>16. ASSUME NEW u \in Users, GetMine(u)
       PROVE  Handlers'
  BY <1>15, <1>16 DEF GetMine, history
<1>17. ASSUME NEW b \in BookingIds, NEW s \in {"CONFIRMED", "CANCELLED"}, WriteBooking(b, s)
       PROVE  Handlers'
  BY <1>15, <1>17 DEF WriteBooking, history
<1>18. CASE UNCHANGED vars
  BY <1>15, <1>18 DEF vars, tables, history
<1>19. ASSUME NEW q \in Requests, NEW b \in BookingIds, ReadHold(q, b)
       PROVE  Handlers'
  <2>1. req'[q].pc = "hold" /\ \A p \in Requests \ {q} : req'[p] = req[p]
    BY <1>0, <1>19 DEF TypeOK, ReadHold, Begin
  <2> QED BY <1>19, <2>1, HandlersMove DEF Handlers, ReadHold, tables
<1>20. ASSUME NEW q \in Requests, NEW s \in {"PENDING", "CONFIRMED"}, Confirm(q, s)
       PROVE  Handlers'
  <2>1. req'[q].pc = "idle" /\ \A p \in Requests \ {q} : req'[p] = req[p]
    BY <1>0, <1>20, FinishUpdate DEF Confirm
  <2> QED BY <1>20, <2>1, HandlersMove DEF Handlers, Confirm, history
<1>21. ASSUME NEW q \in Requests, NEW x \in PaymentIds, CallbackUnnamed(q, x)
       PROVE  Handlers'
  <2>1. /\ req'[q].pc = "fail" /\ req'[q].pay = x
        /\ \A p \in Requests \ {q} : req'[p] = req[p]
    BY <1>0, <1>21 DEF TypeOK, CallbackUnnamed, Begin
  <2> QED BY <1>21, <2>1, HandlersEngage DEF CallbackUnnamed, tables
<1> QED
  BY <1>19, <1>20, <1>21, <1>1, <1>2, <1>3, <1>4, <1>5, <1>6, <1>7, <1>8, <1>9, <1>10, <1>11, <1>12, <1>13, <1>14,
     <1>16, <1>17, <1>18, VerifyHandlers DEF Next

\* The three layers together are an invariant.
LEMMA HandlersInvariant == Spec => [](Shape /\ Credits /\ Handlers)
<1>1. Init => Shape /\ Credits /\ Handlers
  BY InitShape, InitCredits, InitHandlers
<1>2. Shape /\ Credits /\ Handlers /\ [Next]_vars => (Shape /\ Credits /\ Handlers)'
  BY NextShape, NextCredits, NextHandlers
<1> QED BY <1>1, <1>2, PTL DEF Spec

\* A payment is refunded twice only if two handlers overlapped on it.
THEOREM OnlyRacesRefundTwice == Spec => []DoubleRefundNeedsRace
<1>1. Shape /\ Credits /\ Handlers => DoubleRefundNeedsRace
  BY DEF Handlers, HandlerOK, DoubleRefundNeedsRace
<1> QED BY <1>1, HandlersInvariant, PTL

\* What the gateway has been paid is SUCCESS, REFUNDED or about to be, unless
\* the handler died between verify and commit or was not alone.
THEOREM PaidPaymentsRecorded == Spec => []PaidIsRecorded
<1>1. Shape /\ Credits /\ Handlers => PaidIsRecorded
  <2> SUFFICES ASSUME Shape, Handlers, NEW x \in paid \ (dropped \cup contested)
               PROVE  \/ payments[x].status \in {"SUCCESS", "REFUNDED"}
                      \/ \E q \in Requests : Settling(q, x)
    BY DEF PaidIsRecorded
  <2>1. x \in PaymentIds
    BY DEF Shape, TypeOK
  <2> QED BY <2>1 DEF Handlers, HandlerOK
<1> QED BY <1>1, HandlersInvariant, PTL

---------------------------------------------------------------------------
(* A booking that one handler at a time may confirm *)

\* Nothing happens that matters to the rewards of booking b.
LEMMA AwardFrame ==
  ASSUME NEW b \in BookingIds, AwardOK(b), awards'[b] = awards[b],
         booking'[b] \in {"HOLD", "PENDING"} => booking[b] \in {"HOLD", "PENDING"},
         \A q \in Requests : Paying(q, b)' => Paying(q, b)
  PROVE  AwardOK(b)'
  BY DEF AwardOK

\* A request moves without starting to pay.
LEMMA AwardsMove ==
  ASSUME Awards, NEW q \in Requests, \A p \in Requests \ {q} : req'[p] = req[p],
         \/ req'[q].pc \notin Paying_pcs
         \/ req[q].pc \in Paying_pcs /\ req'[q].booking = req[q].booking,
         UNCHANGED <<booking, awards, copaid>>
  PROVE  Awards'
<1>1. \A b \in BookingIds, p \in Requests : Paying(p, b)' => Paying(p, b)
  BY DEF Paying
<1> QED BY <1>1, AwardFrame DEF Awards

\* A request has found a booking it will confirm: alone, or the two are noted.
LEMMA AwardsStart ==
  ASSUME Awards, NEW q \in Requests, NEW b \in BookingIds, booking[b] \in {"HOLD", "PENDING"},
         WillConfirm(b), req[q].pc \notin Paying_pcs, req'[q].booking = b,
         \A p \in Requests \ {q} : req'[p] = req[p], UNCHANGED <<booking, awards>>
  PROVE  Awards'
<1>1. ASSUME b \notin copaid'
      PROVE  AwardOK(b)'
  <2>1. b \notin copaid /\ \A p \in Requests : ~ Paying(p, b)
    BY <1>1 DEF WillConfirm, Paying
  <2>2. \A p \in Requests : Paying(p, b)' => p = q
    BY <2>1 DEF Paying
  <2>3. awards[b] = 0
    BY <2>1 DEF Awards, AwardOK
  <2> QED BY <2>2, <2>3 DEF AwardOK
<1>2. ASSUME NEW c \in BookingIds \ copaid', c # b
      PROVE  AwardOK(c)'
  <2>1. c \notin copaid
    BY <1>2 DEF WillConfirm
  <2>2. \A p \in Requests : Paying(p, c)' => Paying(p, c)
    BY <1>2 DEF Paying
  <2> QED BY <2>1, <2>2, AwardFrame DEF Awards
<1> QED BY <1>1, <1>2 DEF Awards

\* The handler of a booking writes it, and rewards it if it is confirmed.
LEMMA AwardsWritten ==
  ASSUME Shape, Awards, NEW q \in Requests, req[q].pc \in Paying_pcs,
         NEW b \in BookingIds, b = req[q].booking, NEW s \in {"PENDING", "CONFIRMED"},
         booking' = [booking EXCEPT ![b] = s],
         \A c \in BookingIds \ {b} : awards'[c] = awards[c],
         awards'[b] = IF s = "CONFIRMED" THEN awards[b] + 1 ELSE awards[b],
         Finish(q), UNCHANGED copaid
  PROVE  Awards'
<1>0. TypeOK
  BY DEF Shape
<1>1. req'[q].pc = "idle" /\ \A p \in Requests \ {q} : req'[p] = req[p]
  BY <1>0, FinishUpdate
<1>2. booking'[b] = s /\ \A c \in BookingIds \ {b} : booking'[c] = booking[c]
  BY <1>0 DEF TypeOK
<1>3. \A c \in BookingIds, p \in Requests : Paying(p, c)' => p # q /\ Paying(p, c)
  BY <1>1 DEF Paying, Paying_pcs
<1>4. ASSUME b \notin copaid
      PROVE  AwardOK(b)'
  <2>1. Paying(q, b) /\ AwardOK(b)
    BY <1>4 DEF Paying, Awards
  <2>2. awards[b] = 0 /\ \A p \in Requests : ~ Paying(p, b)'
    BY <1>3, <2>1 DEF AwardOK
  <2> QED BY <1>2, <2>2 DEF AwardOK
<1>5. ASSUME NEW c \in BookingIds \ copaid, c # b
      PROVE  AwardOK(c)'
  BY <1>2, <1>3, <1>5, AwardFrame DEF Awards
<1> QED BY <1>4, <1>5 DEF Awards

\* The initial states satisfy Awards.
LEMMA InitAwards == Init => Awards
<1> SUFFICES ASSUME Init PROVE Awards
  OBVIOUS
<1>1. \A q \in Requests : req[q].pc = "idle"
  BY DEF Init, Idle
<1> QED BY <1>1 DEF Init, Awards, AwardOK, Paying, Paying_pcs

\* Every step keeps the awards in order.
LEMMA NextAwards == Shape /\ Awards /\ [Next]_vars => Awards'
<1> SUFFICES ASSUME Shape, Awards, [Next]_vars PROVE Awards'
  OBVIOUS
<1>0. TypeOK
  BY DEF Shape
<1> USE DEF Paying_pcs
<1>1. ASSUME NEW q \in Requests, NEW b \in BookingIds, NEW method \in {"wallet", "gateway"},
             Initiate(q, b, method)
      PROVE  Awards'
  <2>1. /\ req[q].pc = "idle" /\ req'[q].pc = method /\ req'[q].booking = b
        /\ \A p \in Requests \ {q} : req'[p] = req[p]
    BY <1>0, <1>1 DEF TypeOK, Initiate, Begin
  <2>2. CASE method = "wallet"
    BY <1>1, <2>1, <2>2, AwardsStart DEF Initiate, tables
  <2>3. CASE method = "gateway"
    BY <1>1, <2>1, <2>3, AwardsMove DEF Initiate, tables
  <2> QED BY <2>2, <2>3
<1>2. ASSUME NEW q \in Requests, ReadWallet(q)
      PROVE  Awards'
  <2>1. /\ req[q].pc = "wallet"
        /\ req'[q].pc = "idle" \/ req'[q].booking = req[q].booking
        /\ \A p \in Requests \ {q} : req'[p] = req[p]
    BY <1>0, <1>2 DEF TypeOK, Locals, ReadWallet, Finish, Idle
  <2> QED BY <1>2, <2>1, AwardsMove DEF ReadWallet, tables, history
<1>3. ASSUME NEW q \in Requests, NEW x \in PaymentIds, PayFromWallet(q, x)
      PROVE  Awards'
  <2>1. PICK b \in BookingIds : b = req[q].booking
    BY <1>3 DEF Shape, LocalsOK, PayFromWallet
  <2>2. /\ awards'[b] = awards[b] + 1 /\ \A c \in BookingIds \ {b} : awards'[c] = awards[c]
        /\ booking' = [booking EXCEPT ![b] = "CONFIRMED"]
    BY <1>0, <1>3, <2>1 DEF TypeOK, PayFromWallet
  <2>3. req[q].pc \in Paying_pcs /\ Finish(q) /\ UNCHANGED copaid
    BY <1>3 DEF PayFromWallet
  <2> QED BY <2>1, <2>2, <2>3, AwardsWritten
<1>4. ASSUME NEW q \in Requests, NEW x \in PaymentIds, CreateDeposit(q, x)
      PROVE  Awards'
  <2>1. req'[q].pc = "session" /\ \A p \in Requests \ {q} : req'[p] = req[p]
    BY <1>0, <1>4 DEF TypeOK, CreateDeposit, Begin
  <2> QED BY <1>4, <2>1, AwardsMove DEF CreateDeposit, history
<1>5. ASSUME NEW q \in Requests, NEW x \in PaymentIds, NEW u \in Users,
             NEW amount \in TopupAmounts, CreateTopup(q, x, u, amount)
      PROVE  Awards'
  <2>1. req'[q].pc = "session" /\ \A p \in Requests \ {q} : req'[p] = req[p]
    BY <1>0, <1>5 DEF TypeOK, CreateTopup, Begin
  <2> QED BY <1>5, <2>1, AwardsMove DEF CreateTopup, history
<1>6. ASSUME NEW q \in Requests, CreateSession(q) \/ Verify(q)
      PROVE  Awards'
  <2>1. req'[q].pc \in {"link", "settle", "fail"} /\ \A p \in Requests \ {q} : req'[p] = req[p]
    BY <1>0, <1>6 DEF TypeOK, Locals, CreateSession, Verify, Goto
  <2>2. UNCHANGED <<booking, awards, copaid>>
    BY <1>6 DEF CreateSession, Verify, tables, history
  <2> QED BY <2>1, <2>2, AwardsMove
<1>7. ASSUME NEW q \in Requests, NEW x \in PaymentIds,
             Callback(q, x) \/ CallbackUnnamed(q, x) \/ Refund(q, x)
      PROVE  Awards'
  <2>1. /\ req'[q].pc \in {"verify", "fail", "refund"}
        /\ \A p \in Requests \ {q} : req'[p] = req[p]
    BY <1>0, <1>7 DEF TypeOK, Callback, CallbackUnnamed, Refund, Begin
  <2> QED BY <1>7, <2>1, AwardsMove DEF Callback, CallbackUnnamed, Refund, tables
<1>8. ASSUME NEW q \in Requests, Settle(q)
      PROVE  Awards'
  <2>0. UNCHANGED <<booking, awards>>
    BY <1>8 DEF Settle, tables
  <2>1. /\ req[q].pc = "settle" /\ req'[q].pc \in {"credit", "confirm", "mark"}
        /\ req'[q].booking = req[q].booking /\ \A p \in Requests \ {q} : req'[p] = req[p]
    BY <1>8, SettleUpdate
  <2>2. CASE req'[q].pc = "confirm"
    <3>1. PICK b \in BookingIds : b = req[q].booking
      BY <1>8, <2>2, SettleUpdate
    <3>2. booking[b] = "PENDING" /\ WillConfirm(b)
      BY <1>8, <2>2, <3>1, SettleUpdate
    <3> QED BY <2>0, <2>1, <3>1, <3>2, AwardsStart
  <2>3. CASE req'[q].pc # "confirm"
    <3>1. copaid' = copaid
      BY <1>8, <2>3, SettleUpdate
    <3> QED BY <2>0, <2>1, <2>3, <3>1, AwardsMove
  <2> QED BY <2>2, <2>3
<1>9. ASSUME NEW q \in Requests, UpsertWallet(q)
      PROVE  Awards'
  <2>1. req'[q].pc = "repay" /\ \A p \in Requests \ {q} : req'[p] = req[p]
    BY <1>0, <1>9 DEF TypeOK, Locals, UpsertWallet
  <2> QED BY <1>9, <2>1, AwardsMove DEF UpsertWallet, tables, history
<1>10. ASSUME NEW q \in Requests, CommitDeposit(q)
       PROVE  Awards'
  <2>1. PICK b \in BookingIds : b = req[q].booking
    BY <1>10 DEF Shape, LocalsOK, CommitDeposit
  <2>2. /\ awards'[b] = awards[b] + 1 /\ \A c \in BookingIds \ {b} : awards'[c] = awards[c]
        /\ booking' = [booking EXCEPT ![b] = "CONFIRMED"]
    BY <1>0, <1>10, <2>1 DEF TypeOK, CommitDeposit
  <2>3. req[q].pc \in Paying_pcs /\ Finish(q) /\ UNCHANGED copaid
    BY <1>10 DEF CommitDeposit, history
  <2> QED BY <2>1, <2>2, <2>3, AwardsWritten
<1>11. ASSUME NEW q \in Requests,
              \/ StoreRef(q) \/ RecordFailure(q) \/ CommitTopup(q) \/ CommitMark(q)
              \/ CommitRefund(q) \/ Fail(q)
       PROVE  Awards'
  <2>1. Finish(q) /\ UNCHANGED <<booking, awards, copaid>>
    BY <1>11
       DEF StoreRef, RecordFailure, CommitTopup, CommitMark, CommitRefund, Fail, Ended, tables, history
  <2>2. req'[q].pc = "idle" /\ \A p \in Requests \ {q} : req'[p] = req[p]
    BY <1>0, <2>1, FinishUpdate
  <2> QED BY <2>1, <2>2, AwardsMove
<1>12. ASSUME NEW b \in BookingIds, NEW s \in {"CONFIRMED", "CANCELLED"}, WriteBooking(b, s)
       PROVE  Awards'
  <2>1. \A c \in BookingIds :
          booking'[c] \in {"HOLD", "PENDING"} => booking[c] \in {"HOLD", "PENDING"}
    BY <1>0, <1>12 DEF TypeOK, WriteBooking
  <2>2. UNCHANGED <<req, awards, copaid>>
    BY <1>12 DEF WriteBooking, history
  <2>3. \A c \in BookingIds, p \in Requests : Paying(p, c)' => Paying(p, c)
    BY <2>2 DEF Paying
  <2> QED BY <2>1, <2>2, <2>3, AwardFrame DEF Awards
<1>13. CASE Restart
  <2>1. \A c \in BookingIds, p \in Requests : ~ Paying(p, c)'
    BY <1>13 DEF Restart, Idle, Paying
  <2> QED BY <1>13, <2>1, AwardFrame DEF Awards, Restart, Ended, tables
<1>14. ASSUME UNCHANGED <<booking, req, awards, copaid>>
       PROVE  Awards'
  BY <1>14 DEF Awards, AwardOK, Paying
<1>15. ASSUME NEW u \in Users, GetMine(u)
       PROVE  Awards'
  BY <1>14, <1>15 DEF GetMine, history
<1>16. CASE UNCHANGED vars
  BY <1>14, <1>16 DEF vars, tables, history
<1>17. ASSUME NEW q \in Requests, NEW b \in BookingIds, ReadHold(q, b)
       PROVE  Awards'
  <2>1. /\ req[q].pc = "idle" /\ req'[q].booking = b
        /\ \A p \in Requests \ {q} : req'[p] = req[p]
    BY <1>0, <1>17 DEF TypeOK, ReadHold, Begin
  <2> QED BY <1>17, <2>1, AwardsStart DEF ReadHold, tables
<1>18. ASSUME NEW q \in Requests, NEW s \in {"PENDING", "CONFIRMED"}, Confirm(q, s)
       PROVE  Awards'
  <2>1. PICK b \in BookingIds : b = req[q].booking
    BY <1>18 DEF Shape, LocalsOK, Confirm
  <2>2. /\ awards'[b] = IF s = "CONFIRMED" THEN awards[b] + 1 ELSE awards[b]
        /\ \A c \in BookingIds \ {b} : awards'[c] = awards[c]
        /\ booking' = [booking EXCEPT ![b] = s]
    BY <1>0, <1>18, <2>1 DEF TypeOK, Confirm
  <2>3. req[q].pc \in Paying_pcs /\ Finish(q) /\ UNCHANGED copaid
    BY <1>18 DEF Confirm, history
  <2> QED BY <2>1, <2>2, <2>3, AwardsWritten
<1> QED
  BY <1>17, <1>18, <1>1, <1>2, <1>3, <1>4, <1>5, <1>6, <1>7, <1>8, <1>9, <1>10, <1>11, <1>12, <1>13,
     <1>15, <1>16 DEF Next

\* A purchase is rewarded twice only if two handlers that complete it, confirms or
\* payments, were at work on the booking at once.
THEOREM OnlyRacesAwardTwice == Spec => []DoubleAwardNeedsRace
<1>1. Awards => DoubleAwardNeedsRace
  BY DEF Awards, AwardOK, DoubleAwardNeedsRace
<1>2. Init => Shape /\ Awards
  BY InitShape, InitAwards
<1>3. Shape /\ Awards /\ [Next]_vars => (Shape /\ Awards)'
  BY NextShape, NextAwards
<1> QED BY <1>1, <1>2, <1>3, PTL DEF Spec

===========================================================================
