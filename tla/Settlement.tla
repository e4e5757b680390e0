---------------------------- MODULE Settlement ----------------------------
(***************************************************************************)
(* SettlementService (modules/settlement) on top of the directory: a clerk *)
(* (an administrator's request) settles one business or all the approved   *)
(* ones for a period, while deposits are paid and refunded and businesses  *)
(* are reviewed.  How payments are made is in Payments; here only their    *)
(* status and their times count, and a status may be overwritten as it is  *)
(* there.  Amounts are in hundredths of a toman, percentages in hundredths *)
(* (the columns are decimals of two places); instants count from 1.        *)
(***************************************************************************)
EXTENDS Directory, FiniteSetsExt

CONSTANTS
    Clerks, PaymentIds,
    BusinessOf,             \* the business whose booking a payment is for,
    Amount,                 \* and what is paid
    Periods,                \* [start, end] to settle
    CommissionPercent,      \* no code writes this column
    Horizon                 \* bound: the last instant

ASSUME SettlementAssumption ==
    /\ BusinessOf \in [PaymentIds -> Businesses] /\ Amount \in [PaymentIds -> Nat]
    /\ IsFiniteSet(PaymentIds)
    /\ Periods \subseteq [start : Nat, end : Nat]
    /\ CommissionPercent \in 0..10000 /\ Horizon \in Nat

VARIABLES
    now,        \* the clock of the database and of the server
    payment,    \* Payment: status, gateway, createdAt, callbackVerifiedAt (0: null)
    settlement, \* Settlement, by clerk and business
    clerk       \* every clerk's place in runBatch, and its locals

settling == <<now, payment, settlement, clerk>>
allVars  == <<vars, settling>>

NoPayment == [status |-> "NONE", gateway |-> "mock", createdAt |-> 0, verifiedAt |-> 0]

\* read and readAt, which no column keeps: what findMany returned, and when.
NoSettlement == [period |-> [start |-> 0, end |-> 0], read |-> {}, readAt |-> 0,
                 gross |-> 0, commission |-> 0, net |-> 0, made |-> FALSE]

Off == [pc |-> "done", todo |-> {}, business |-> NoBusiness, read |-> {}, readAt |-> 0,
        period |-> NoSettlement.period]

SettlementInit ==
    /\ Init
    /\ now = 1
    /\ payment = [p \in PaymentIds |-> NoPayment]
    /\ settlement = [k \in Clerks |-> [b \in Businesses |-> NoSettlement]]
    /\ clerk \in [Clerks -> {Off, [Off EXCEPT !.pc = "idle"]}]

---------------------------------------------------------------------------
(* The payments meanwhile *)

Tick ==
    /\ now < Horizon
    /\ now' = now + 1
    /\ UNCHANGED <<vars, payment, settlement, clerk>>

PutPayment(p, row) ==
    /\ payment' = [payment EXCEPT ![p] = row]
    /\ UNCHANGED <<vars, now, settlement, clerk>>

\* A payment from the wallet is made as it succeeds ...
PayFromWallet(p) ==
    /\ payment[p].status = "NONE"
    /\ PutPayment(p, [status |-> "SUCCESS", gateway |-> "wallet", createdAt |-> now, verifiedAt |-> now])

\* ... and one through the gateway before.
PayFromGateway(p) ==
    /\ payment[p].status = "NONE"
    /\ PutPayment(p, [status |-> "INITIATED", gateway |-> "mock", createdAt |-> now, verifiedAt |-> 0])

\* The one callback that is verified, perhaps after another that was not.
Succeed(p) ==
    /\ payment[p].status \in {"INITIATED", "FAILED"} /\ payment[p].verifiedAt = 0
    /\ PutPayment(p, [payment[p] EXCEPT !.status = "SUCCESS", !.verifiedAt = now])

\* A callback that read INITIATED and is not verified, whatever the row says now.
RejectPayment(p) ==
    /\ payment[p].status # "NONE" /\ payment[p].gateway = "mock"
    /\ PutPayment(p, [payment[p] EXCEPT !.status = "FAILED"])

\* A refund that read SUCCESS.
Refund(p) ==
    /\ payment[p].verifiedAt > 0
    /\ PutPayment(p, [payment[p] EXCEPT !.status = "REFUNDED"])

---------------------------------------------------------------------------
(* runBatch *)

\* For one business, or for those that are approved.
BeginBatch(k, period, todo) ==
    /\ clerk[k].pc = "idle"
    /\ clerk' = [clerk EXCEPT ![k] = [Off EXCEPT !.pc = "next", !.todo = todo, !.period = period]]
    /\ UNCHANGED <<vars, now, payment, settlement>>

RunBatch(k, period) ==
    \/ \E b \in Businesses : BeginBatch(k, period, {b})
    \/ BeginBatch(k, period, {b \in Businesses : business[b].status = "APPROVED"})

ToSettleEver(b, period) ==          \* mutant: the end of the period is not looked at
    {p \in PaymentIds : /\ BusinessOf[p] = b
                        /\ payment[p].status = "SUCCESS"
                        /\ payment[p].createdAt >= period.start}

\* The payments of the period, both ends included.
ToSettle(b, period) ==
    {p \in PaymentIds : /\ BusinessOf[p] = b
                        /\ payment[p].status = "SUCCESS"
                        /\ payment[p].createdAt \in period.start..period.end}

\* runForBusiness reads the business and its payments ...
ReadPayments(k, b) ==
    /\ clerk[k].pc = "next" /\ b \in clerk[k].todo
    /\ clerk' = [clerk EXCEPT ![k] =
         IF business[b].status = "NONE" THEN Off
         ELSE [@ EXCEPT !.pc = "create", !.business = b, !.readAt = now,
                        !.read = ToSettle(b, clerk[k].period)]]
    /\ UNCHANGED <<vars, now, payment, settlement>>

Gross(read) == MapThenSumSet(LAMBDA p : Amount[p], read)

\* Math.round to whole toman.
Commission(gross) == 100 * ((2 * gross * CommissionPercent + 1000000) \div 2000000)

\* ... and creates the settlement, whether or not there is one for the period.
CreateSettlement(k) ==
    LET c     == clerk[k]
        gross == Gross(c.read)
    IN
    /\ c.pc = "create"
    /\ settlement' = [settlement EXCEPT ![k][c.business] =
         [period |-> c.period, read |-> c.read, readAt |-> c.readAt, gross |-> gross,
          commission |-> Commission(gross), net |-> gross - Commission(gross), made |-> TRUE]]
    /\ clerk' = [clerk EXCEPT ![k].pc = "next", ![k].todo = @ \ {c.business},
                   ![k].business = NoBusiness, ![k].read = {}, ![k].readAt = 0]
    /\ UNCHANGED <<vars, now, payment>>

\* All are settled, or one fails: the settlements made so far stay.
EndBatch(k) ==
    /\ clerk[k].pc \in {"next", "create"}
    /\ clerk' = [clerk EXCEPT ![k] = Off]
    /\ UNCHANGED <<vars, now, payment, settlement>>

SettlementNext ==
    \/ Next /\ UNCHANGED settling
    \/ Tick
    \/ \E p \in PaymentIds : \/ PayFromWallet(p) \/ PayFromGateway(p)
                             \/ Succeed(p) \/ RejectPayment(p) \/ Refund(p)
    \/ \E k \in Clerks : \/ \E period \in Periods : RunBatch(k, period)
                         \/ \E b \in Businesses : ReadPayments(k, b)
                         \/ CreateSettlement(k) \/ EndBatch(k)

SettlementSpec == SettlementInit /\ [][SettlementNext]_allVars

---------------------------------------------------------------------------
(* Properties *)

Overlap(p, q) == p.start <= q.end /\ q.start <= p.end

\* A payment is settled twice, by a run that is repeated or by two at once, only
\* for its own business and only for periods that overlap.
TwiceOnlyByOverlap ==
    \A k, l \in Clerks, b, c \in Businesses :
      LET s == settlement[k][b]
          t == settlement[l][c]
      IN  s.read \cap t.read # {} => b = c /\ Overlap(s.period, t.period)

\* A payment of the period that has succeeded and is not in the settlement was
\* confirmed by the gateway, or made, no earlier than runForBusiness read the
\* payments, although it counts by the time when it was initiated; and one that is
\* in the settlement was confirmed by then, whatever became of it since.
MissedOnlyWhenLate ==
    \A k \in Clerks, b \in Businesses, p \in PaymentIds :
      LET s == settlement[k][b] IN
      s.made =>
        IF p \in s.read THEN payment[p].verifiedAt \in 1..s.readAt
        ELSE /\ BusinessOf[p] = b /\ payment[p].status = "SUCCESS"
             /\ payment[p].createdAt \in s.period.start..s.period.end
             => payment[p].verifiedAt >= s.readAt

\* The rounded commission exceeds what the payments brought by at most half a
\* toman: a settlement of a few hundredths may cost the business something.
CostsAtMostRounding ==
    \A k \in Clerks, b \in Businesses : settlement[k][b].net >= -50

\* What runs of runBatch pay for, at whatever moment of the life of the payments.
SettledByPeriod == TwiceOnlyByOverlap /\ MissedOnlyWhenLate /\ CostsAtMostRounding
===========================================================================
