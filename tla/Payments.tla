----------------------------- MODULE Payments -----------------------------
(***************************************************************************)
(* PaymentService, WalletService and MockPaymentGateway (modules/payment,  *)
(* modules/wallet, common/payment-gateway): deposits and top-ups, from the *)
(* wallet or through the gateway, callbacks and refunds.                   *)
(*                                                                         *)
(* Requests are processes, as in Bookings: reads return what is committed, *)
(* a wallet is written back as the absolute balance computed from the read *)
(* one, and several callbacks or refunds may be at work on one payment.    *)
(* An interactive transaction shows its writes at commit; the row lock it  *)
(* takes on the payment it updates first is modelled by RowFree.           *)
(*                                                                         *)
(* The WalletTransaction table is kept as the sums and counts that the     *)
(* properties need.  Of BookingService there is confirm, whose purchases   *)
(* are rewarded like paid ones, and what else writes a booking's status.   *)
(* Left out: the audit log, gateway urls, failure reasons, and calls that  *)
(* only answer (an unknown payment, alreadyProcessed).                     *)
(***************************************************************************)
EXTENDS Integers, FiniteSets

CONSTANTS
    Requests, Users, PaymentIds, BookingIds,
    Owner,          \* the user of a booking
    Deposit,        \* its depositRequired
    TopupAmounts,
    Openings,       \* balances a wallet may start with
    Unnamed,        \* whether callbacks without a gatewayRefId arrive
    NoPayment, NoUser, NoBooking

ASSUME MoneyAssumption ==
    /\ Owner \in [BookingIds -> Users]
    /\ Deposit \in [BookingIds -> Nat]
    /\ TopupAmounts \subseteq Nat \ {0}
    /\ Openings \subseteq Nat
    /\ Unnamed \in BOOLEAN

ASSUME NoneAssumption ==
    NoPayment \notin PaymentIds /\ NoUser \notin Users /\ NoBooking \notin BookingIds

VARIABLES
    booking,    \* status of a booking
    payments,   \* the Payment table; status "NONE" for a row not yet created
    session,    \* the gateway's map of sessions, in the memory of the process
    wallet,     \* balances; NoWallet before the row exists
    req,        \* every request's place in its handler, and its locals
    ledger,     \* WalletTransaction: the sum of a user's rows,
    credited,   \* the number of TOPUP rows for a payment,
    refunded,   \* the number of REFUND rows for a payment
    awards,     \* how often awardPostPurchaseRewards ran for a booking
    \* History, read by no action:
    paid,       \* payments that the gateway verified
    dropped,    \* payments whose handler ended between verify and commit
    contested,  \* payments that two handlers worked on at once
    copaid,     \* bookings that two handlers were about to confirm at once
    stale,      \* requests whose wallet was written since they read it
    raced       \* users whose wallet was written by a stale request

tables  == <<booking, payments, wallet, ledger, credited, refunded, awards>>
history == <<paid, dropped, contested, copaid, stale, raced>>
vars    == <<tables, session, req, history>>

NoWallet == -1

BookingStatuses == {"HOLD", "PENDING", "CONFIRMED", "CANCELLED"}
PaymentStatuses == {"INITIATED", "SUCCESS", "FAILED", "REFUNDED"}

NoRow == [status |-> "NONE", type |-> "NONE", user |-> NoUser, booking |-> NoBooking,
          amount |-> 0, ref |-> "null"]

Idle == [pc |-> "idle", pay |-> NoPayment, user |-> NoUser, booking |-> NoBooking,
         amount |-> 0, balance |-> 0]

Balance(u) == IF wallet[u] = NoWallet THEN 0 ELSE wallet[u]

Init ==
    /\ booking = [b \in BookingIds |-> "HOLD"]
    /\ payments = [x \in PaymentIds |-> NoRow]
    /\ session = [x \in PaymentIds |-> "none"]
    /\ wallet \in [Users -> Openings \cup {NoWallet}]
    /\ req = [q \in Requests |-> Idle]
    /\ ledger = [u \in Users |-> Balance(u)]
    /\ credited = [x \in PaymentIds |-> 0]
    /\ refunded = [x \in PaymentIds |-> 0]
    /\ awards = [b \in BookingIds |-> 0]
    /\ paid = {} /\ dropped = {} /\ contested = {} /\ copaid = {}
    /\ stale = {} /\ raced = {}

\* A request starts its handler, with what it was sent and has read.
Begin(q, pc, x, u, b, amount) ==
    req' = [req EXCEPT ![q] = [pc |-> pc, pay |-> x, user |-> u, booking |-> b,
                               amount |-> amount, balance |-> 0]]

Finish(q)   == req' = [req EXCEPT ![q] = Idle]
Goto(q, pc) == req' = [req EXCEPT ![q].pc = pc]

---------------------------------------------------------------------------
(* History *)

Callback_pcs == {"verify", "fail", "settle", "credit", "confirm", "mark"}
Refund_pcs   == {"refund", "repay"}
Paying_pcs   == {"hold", "wallet", "debit", "confirm"}

\* A handler starts to work on payment x.
Engages(x) ==
    contested' = IF \E r \in Requests : /\ req[r].pay = x
                                        /\ req[r].pc \in Callback_pcs \cup Refund_pcs
                 THEN contested \cup {x} ELSE contested

\* A handler has seen booking b as HOLD or PENDING and will confirm it.
WillConfirm(b) ==
    copaid' = IF \E r \in Requests : req[r].booking = b /\ req[r].pc \in Paying_pcs
              THEN copaid \cup {b} ELSE copaid

\* q writes the wallet of user u, which others may have read.
WalletWritten(q, u) ==
    /\ stale' = (stale \ {q}) \cup {r \in Requests \ {q} :
                   req[r].user = u /\ req[r].pc \in {"debit", "credit", "repay"}}
    /\ raced' = IF q \in stale THEN raced \cup {u} ELSE raced

\* The handlers in Q end without a commit.
Ended(Q) ==
    /\ dropped' = dropped \cup {req[r].pay : r \in
                    {r \in Q : req[r].pc \in {"settle", "credit", "confirm", "mark"}}}
    /\ stale' = stale \ Q
    /\ UNCHANGED <<paid, contested, copaid, raced>>

---------------------------------------------------------------------------
(* BookingService *)

\* confirm reads a hold ...
ReadHold(q, b) ==
    /\ req[q].pc = "idle"
    /\ booking[b] = "HOLD"
    /\ Begin(q, "hold", NoPayment, Owner[b], b, 0)
    /\ WillConfirm(b)
    /\ UNCHANGED <<tables, session, paid, dropped, contested, stale, raced>>

\* ... and writes it by id, late or not; s depends on whether the service requires
\* a deposit by now.  Without one the purchase is complete and rewarded.
Confirm(q, s) ==
    LET b == req[q].booking IN
    /\ req[q].pc = "hold"
    /\ booking' = [booking EXCEPT ![b] = s]
    /\ awards' = IF s = "CONFIRMED" THEN [awards EXCEPT ![b] = @ + 1] ELSE awards
    /\ Finish(q)
    /\ UNCHANGED <<payments, wallet, ledger, credited, refunded, session, history>>

\* updateStatus, the cancellations and the cron job, which reward nobody; they check
\* the status they read, which may have changed since.
WriteBooking(b, s) ==
    /\ booking[b] # s
    /\ booking' = [booking EXCEPT ![b] = s]
    /\ UNCHANGED <<payments, wallet, ledger, credited, refunded, awards, session, req,
                   history>>

---------------------------------------------------------------------------
(* initiate, payFromWallet *)

\* initiate: the booking is PENDING and asks for a deposit.
Initiate(q, b, method) ==
    /\ req[q].pc = "idle"
    /\ booking[b] = "PENDING" /\ Deposit[b] > 0
    /\ Begin(q, method, NoPayment, Owner[b], b, Deposit[b])
    /\ IF method = "wallet" THEN WillConfirm(b) ELSE UNCHANGED copaid
    /\ UNCHANGED <<tables, session, paid, dropped, contested, stale, raced>>

ReadWalletUnchecked(q) ==           \* mutant: the balance is not looked at
    /\ req[q].pc = "wallet"
    /\ req' = [req EXCEPT ![q].pc = "debit", ![q].balance = wallet[req[q].user]]
    /\ UNCHANGED <<tables, session, history>>

\* payFromWallet reads the wallet in its transaction ...
ReadWallet(q) ==
    LET balance == wallet[req[q].user] IN
    /\ req[q].pc = "wallet"
    /\ IF balance = NoWallet \/ balance < req[q].amount
       THEN Finish(q)
       ELSE req' = [req EXCEPT ![q].pc = "debit", ![q].balance = balance]
    /\ UNCHANGED <<tables, session, history>>

\* ... and commits the debit, a payment and the confirmed booking together.
PayFromWallet(q, x) ==
    LET r == req[q] IN
    /\ r.pc = "debit"
    /\ payments[x].status = "NONE"
    /\ wallet' = [wallet EXCEPT ![r.user] = r.balance - r.amount]
    /\ ledger' = [ledger EXCEPT ![r.user] = @ - r.amount]
    /\ payments' = [payments EXCEPT ![x] =
         [status |-> "SUCCESS", type |-> "DEPOSIT", user |-> r.user,
          booking |-> r.booking, amount |-> r.amount, ref |-> "null"]]
    /\ booking' = [booking EXCEPT ![r.booking] = "CONFIRMED"]
    /\ awards' = [awards EXCEPT ![r.booking] = @ + 1]
    /\ WalletWritten(q, r.user)
    /\ Finish(q)
    /\ UNCHANGED <<session, credited, refunded, paid, dropped, contested, copaid>>

---------------------------------------------------------------------------
(* payFromGateway, topup: a row, a session, the session's id in the row *)

CreateDeposit(q, x) ==
    LET r == req[q] IN
    /\ r.pc = "gateway"
    /\ payments[x].status = "NONE"
    /\ payments' = [payments EXCEPT ![x] =
         [status |-> "INITIATED", type |-> "DEPOSIT", user |-> r.user,
          booking |-> r.booking, amount |-> r.amount, ref |-> "null"]]
    /\ Begin(q, "session", x, NoUser, NoBooking, 0)
    /\ UNCHANGED <<booking, wallet, ledger, credited, refunded, awards, session, history>>

CreateTopup(q, x, u, amount) ==
    /\ req[q].pc = "idle"
    /\ payments[x].status = "NONE"
    /\ payments' = [payments EXCEPT ![x] =
         [status |-> "INITIATED", type |-> "WALLET_TOPUP", user |-> u,
          booking |-> NoBooking, amount |-> amount, ref |-> "null"]]
    /\ Begin(q, "session", x, NoUser, NoBooking, 0)
    /\ UNCHANGED <<booking, wallet, ledger, credited, refunded, awards, session, history>>

\* createSession ...
CreateSession(q) ==
    /\ req[q].pc = "session"
    /\ session' = [session EXCEPT ![req[q].pay] = "open"]
    /\ Goto(q, "link")
    /\ UNCHANGED <<tables, history>>

\* ... and gatewayRefId is stored: from here on a callback finds the payment.
StoreRef(q) ==
    /\ req[q].pc = "link"
    /\ payments' = [payments EXCEPT ![req[q].pay].ref = "set"]
    /\ Finish(q)
    /\ UNCHANGED <<booking, wallet, ledger, credited, refunded, awards, session, history>>

---------------------------------------------------------------------------
(* handleCallback: called by the gateway, any number of times *)

CallbackUnchecked(q, x) ==          \* mutant: no look at the status
    /\ req[q].pc = "idle"
    /\ payments[x].ref = "set"
    /\ Begin(q, "verify", x, payments[x].user, payments[x].booking, payments[x].amount)
    /\ Engages(x)
    /\ UNCHANGED <<tables, session, paid, dropped, copaid, stale, raced>>

\* The payment is found by its gatewayRefId and has not been processed yet.
Callback(q, x) ==
    /\ req[q].pc = "idle"
    /\ payments[x].ref = "set"
    /\ payments[x].status = "INITIATED"
    /\ Begin(q, "verify", x, payments[x].user, payments[x].booking, payments[x].amount)
    /\ Engages(x)
    /\ UNCHANGED <<tables, session, paid, dropped, copaid, stale, raced>>

\* Without a gatewayRefId Prisma drops the condition and findFirst returns some
\* payment of the gateway; verify knows no such session.
CallbackUnnamed(q, x) ==
    /\ Unnamed
    /\ req[q].pc = "idle"
    /\ payments[x].status = "INITIATED"
    /\ Begin(q, "fail", x, payments[x].user, payments[x].booking, payments[x].amount)
    /\ Engages(x)
    /\ UNCHANGED <<tables, session, paid, dropped, copaid, stale, raced>>

VerifyReusable(q) ==                \* mutant: session.used is not looked at
    /\ req[q].pc = "verify"
    /\ \/ /\ session[req[q].pay] # "none"
          /\ session' = [session EXCEPT ![req[q].pay] = "used"]
          /\ paid' = paid \cup {req[q].pay}
          /\ Goto(q, "settle")
       \/ /\ session[req[q].pay] = "none"
          /\ Goto(q, "fail")
          /\ UNCHANGED <<session, paid>>
    /\ UNCHANGED <<tables, dropped, contested, copaid, stale, raced>>

\* verify succeeds once per session.  The amounts always agree: neither the
\* session's nor the payment's is ever changed.
Verify(q) ==
    /\ req[q].pc = "verify"
    /\ \/ /\ session[req[q].pay] = "open"
          /\ session' = [session EXCEPT ![req[q].pay] = "used"]
          /\ paid' = paid \cup {req[q].pay}
          /\ Goto(q, "settle")
       \/ /\ session[req[q].pay] # "open"
          /\ Goto(q, "fail")
          /\ UNCHANGED <<session, paid>>
    /\ UNCHANGED <<tables, dropped, contested, copaid, stale, raced>>

\* No open transaction has updated the row of payment x.
RowFree(x) == \A r \in Requests :
    req[r].pay = x => req[r].pc \notin {"credit", "confirm", "mark", "repay"}

SetPayment(x, status) == payments' = [payments EXCEPT ![x].status = status]

\* Not verified: the row is updated outside any transaction.
RecordFailure(q) ==
    /\ req[q].pc = "fail"
    /\ RowFree(req[q].pay)
    /\ SetPayment(req[q].pay, "FAILED")
    /\ Finish(q)
    /\ UNCHANGED <<booking, wallet, ledger, credited, refunded, awards, session, history>>

SettleAnyBooking(q) ==              \* mutant: no look at the booking's status
    LET r == req[q]
        type == payments[r.pay].type
    IN  /\ r.pc = "settle"
        /\ RowFree(r.pay)
        /\ IF type = "WALLET_TOPUP" /\ wallet[r.user] # NoWallet
           THEN req' = [req EXCEPT ![q].pc = "credit", ![q].balance = wallet[r.user]]
           ELSE Goto(q, IF type = "DEPOSIT" THEN "confirm" ELSE "mark")
        /\ IF type = "DEPOSIT" THEN WillConfirm(r.booking) ELSE UNCHANGED copaid
        /\ UNCHANGED <<tables, session, paid, dropped, contested, stale, raced>>

\* Verified: the transaction updates the payment, then reads the wallet or
\* the booking ...
Settle(q) ==
    LET r == req[q]
        type == payments[r.pay].type
        confirms == type = "DEPOSIT" /\ booking[r.booking] = "PENDING"
    IN  /\ r.pc = "settle"
        /\ RowFree(r.pay)
        /\ IF type = "WALLET_TOPUP" /\ wallet[r.user] # NoWallet
           THEN req' = [req EXCEPT ![q].pc = "credit", ![q].balance = wallet[r.user]]
           ELSE Goto(q, IF confirms THEN "confirm" ELSE "mark")
        /\ IF confirms THEN WillConfirm(r.booking) ELSE UNCHANGED copaid
        /\ UNCHANGED <<tables, session, paid, dropped, contested, stale, raced>>

CommitTopupOverwrite(q) ==          \* mutant: the old balance is forgotten
    LET r == req[q] IN
    /\ r.pc = "credit"
    /\ SetPayment(r.pay, "SUCCESS")
    /\ wallet' = [wallet EXCEPT ![r.user] = r.amount]
    /\ ledger' = [ledger EXCEPT ![r.user] = @ + r.amount]
    /\ credited' = [credited EXCEPT ![r.pay] = @ + 1]
    /\ WalletWritten(q, r.user)
    /\ Finish(q)
    /\ UNCHANGED <<booking, refunded, awards, session, paid, dropped, contested, copaid>>

\* ... and commits: the top-up,
CommitTopup(q) ==
    LET r == req[q] IN
    /\ r.pc = "credit"
    /\ SetPayment(r.pay, "SUCCESS")
    /\ wallet' = [wallet EXCEPT ![r.user] = r.balance + r.amount]
    /\ ledger' = [ledger EXCEPT ![r.user] = @ + r.amount]
    /\ credited' = [credited EXCEPT ![r.pay] = @ + 1]
    /\ WalletWritten(q, r.user)
    /\ Finish(q)
    /\ UNCHANGED <<booking, refunded, awards, session, paid, dropped, contested, copaid>>

\* the booking and its rewards,
CommitDeposit(q) ==
    LET r == req[q] IN
    /\ r.pc = "confirm"
    /\ SetPayment(r.pay, "SUCCESS")
    /\ booking' = [booking EXCEPT ![r.booking] = "CONFIRMED"]
    /\ awards' = [awards EXCEPT ![r.booking] = @ + 1]
    /\ Finish(q)
    /\ UNCHANGED <<wallet, ledger, credited, refunded, session, history>>

\* or the payment alone: no wallet, or a booking that is not PENDING any more.
CommitMark(q) ==
    /\ req[q].pc = "mark"
    /\ SetPayment(req[q].pay, "SUCCESS")
    /\ Finish(q)
    /\ UNCHANGED <<booking, wallet, ledger, credited, refunded, awards, session, history>>

---------------------------------------------------------------------------
(* refund *)

RefundUnchecked(q, x) ==            \* mutant: any settled payment will do
    /\ req[q].pc = "idle"
    /\ payments[x].status \in {"SUCCESS", "REFUNDED"}
    /\ Begin(q, "refund", x, payments[x].user, NoBooking, payments[x].amount)
    /\ Engages(x)
    /\ refunded[x] < 2
    /\ UNCHANGED <<tables, session, paid, dropped, copaid, stale, raced>>

Refund(q, x) ==
    /\ req[q].pc = "idle"
    /\ payments[x].status = "SUCCESS"
    /\ Begin(q, "refund", x, payments[x].user, NoBooking, payments[x].amount)
    /\ Engages(x)
    /\ UNCHANGED <<tables, session, paid, dropped, copaid, stale, raced>>

\* The transaction updates the payment and upserts the wallet ...
UpsertWallet(q) ==
    /\ req[q].pc = "refund"
    /\ RowFree(req[q].pay)
    /\ req' = [req EXCEPT ![q].pc = "repay", ![q].balance = Balance(req[q].user)]
    /\ UNCHANGED <<tables, session, history>>

\* ... and commits the refund.
CommitRefund(q) ==
    LET r == req[q] IN
    /\ r.pc = "repay"
    /\ SetPayment(r.pay, "REFUNDED")
    /\ wallet' = [wallet EXCEPT ![r.user] = r.balance + r.amount]
    /\ ledger' = [ledger EXCEPT ![r.user] = @ + r.amount]
    /\ refunded' = [refunded EXCEPT ![r.pay] = @ + 1]
    /\ WalletWritten(q, r.user)
    /\ Finish(q)
    /\ UNCHANGED <<booking, credited, awards, session, paid, dropped, contested, copaid>>

---------------------------------------------------------------------------
(* The rest of the system *)

\* GET /wallet/me opens a missing wallet.
GetMine(u) ==
    /\ wallet[u] = NoWallet
    /\ wallet' = [wallet EXCEPT ![u] = 0]
    /\ UNCHANGED <<booking, payments, ledger, credited, refunded, awards,
                   session, req, history>>

\* A handler fails: a database error or Prisma's timeout rolls it back.
Fail(q) ==
    /\ req[q].pc # "idle"
    /\ Finish(q)
    /\ Ended({q})
    /\ UNCHANGED <<tables, session>>

\* The process restarts: its requests and the gateway's sessions are gone.
Restart ==
    /\ req' = [q \in Requests |-> Idle]
    /\ session' = [x \in PaymentIds |-> "none"]
    /\ Ended(Requests)
    /\ UNCHANGED tables

Next ==
    \/ \E q \in Requests :
         \/ \E b \in BookingIds : ReadHold(q, b)
         \/ \E s \in {"PENDING", "CONFIRMED"} : Confirm(q, s)
         \/ \E b \in BookingIds, method \in {"wallet", "gateway"} : Initiate(q, b, method)
         \/ \E x \in PaymentIds :
              \/ PayFromWallet(q, x) \/ CreateDeposit(q, x)
              \/ \E u \in Users, amount \in TopupAmounts : CreateTopup(q, x, u, amount)
              \/ Callback(q, x) \/ CallbackUnnamed(q, x) \/ Refund(q, x)
         \/ ReadWallet(q) \/ CreateSession(q) \/ StoreRef(q)
         \/ Verify(q) \/ RecordFailure(q) \/ Settle(q)
         \/ CommitTopup(q) \/ CommitDeposit(q) \/ CommitMark(q)
         \/ UpsertWallet(q) \/ CommitRefund(q)
         \/ Fail(q)
    \/ \E u \in Users : GetMine(u)
    \/ \E b \in BookingIds, s \in {"CONFIRMED", "CANCELLED"} : WriteBooking(b, s)
    \/ Restart

Spec == Init /\ [][Next]_vars

---------------------------------------------------------------------------
(* Properties *)

PCs == {"idle", "hold", "wallet", "debit", "gateway", "session", "link"}
         \cup Callback_pcs \cup Refund_pcs

Rows == [status : PaymentStatuses \cup {"NONE"},
         type : {"DEPOSIT", "WALLET_TOPUP", "NONE"},
         user : Users \cup {NoUser}, booking : BookingIds \cup {NoBooking},
         amount : Nat, ref : {"null", "set"}]

Locals == [pc : PCs, pay : PaymentIds \cup {NoPayment}, user : Users \cup {NoUser},
           booking : BookingIds \cup {NoBooking}, amount : Nat, balance : Nat]

TypeOK ==
    /\ booking \in [BookingIds -> BookingStatuses]
    /\ payments \in [PaymentIds -> Rows]
    /\ session \in [PaymentIds -> {"none", "open", "used"}]
    /\ wallet \in [Users -> Nat \cup {NoWallet}]
    /\ req \in [Requests -> Locals]
    /\ ledger \in [Users -> Int]
    /\ credited \in [PaymentIds -> Nat] /\ refunded \in [PaymentIds -> Nat]
    /\ awards \in [BookingIds -> Nat]
    /\ paid \subseteq PaymentIds /\ dropped \subseteq PaymentIds
    /\ contested \subseteq PaymentIds /\ copaid \subseteq BookingIds
    /\ stale \subseteq Requests /\ raced \subseteq Users

\* However many callbacks arrive, at once or after a restart, a top-up is
\* credited to the wallet at most once: the gateway's single-use verify, the
\* "second line of defence" in handleCallback, does its work.
CreditedOnce == \A x \in PaymentIds : credited[x] <= 1

Settling(q, x) == req[q].pay = x /\ req[q].pc \in {"settle", "credit", "confirm", "mark"}

\* Money that the gateway has taken is accounted for (SUCCESS, perhaps
\* refunded since, or about to be), unless the handler died between verify
\* and commit or two handlers of the payment overlapped (handleCallback).
PaidIsRecorded ==
    \A x \in paid \ (dropped \cup contested) :
      payments[x].status \in {"SUCCESS", "REFUNDED"} \/ \E q \in Requests : Settling(q, x)

\* The balance of a wallet is the sum of its transactions, unless one handler
\* wrote it from a balance that another one had changed meanwhile (the
\* read-modify-write of payFromWallet, handleCallback and refund).
DriftNeedsRace == \A u \in Users \ raced : ledger[u] = Balance(u)

\* A payment is refunded twice only by refunds that overlap (the check of
\* refund is made before its transaction).
DoubleRefundNeedsRace == \A x \in PaymentIds \ contested : refunded[x] <= 1

\* A purchase is rewarded twice only if two of the handlers that complete it were
\* at work on the booking at once: confirms that read the hold, payments from the
\* wallet, callbacks.  Each of them writes by id what it decided from its own read,
\* and a late confirm may write PENDING over a booking that was paid for.
DoubleAwardNeedsRace == \A b \in BookingIds \ copaid : awards[b] <= 1

\* What docs/api-contract.md and the comment in handleCallback promise: a
\* callback leaves a payment alone that has been processed before.
CallbackIdempotent ==
    [][\A x \in PaymentIds :
         payments[x].status \in {"SUCCESS", "REFUNDED"} =>
           payments'[x].status \in {"SUCCESS", "REFUNDED"}]_vars
===========================================================================
