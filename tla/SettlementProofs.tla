------------------------- MODULE SettlementProofs -------------------------
(***************************************************************************)
(* What Settlement promises, for any number of clerks, businesses,         *)
(* payments and periods, and any amounts.                                  *)
(*                                                                         *)
(* Once a payment has left SUCCESS it never comes back to it, and it gets  *)
(* there at the time that callbackVerifiedAt keeps.  So what a clerk has   *)
(* read tells, from then on, which payments of the period succeeded        *)
(* before (Known), and that is carried over to the settlement.             *)
(***************************************************************************)
EXTENDS Settlement, FiniteSetTheorems, TLAPS

PaymentRows ==
    [status : {"NONE", "INITIATED", "SUCCESS", "FAILED", "REFUNDED"},
     gateway : {"mock", "wallet"}, createdAt : Nat, verifiedAt : Nat]

ClerkRows ==
    [pc : {"idle", "next", "create", "done"}, todo : SUBSET Businesses,
     business : Businesses \cup {NoBusiness}, read : SUBSET PaymentIds, readAt : Nat,
     period : [start : Nat, end : Nat]]

Shape ==
    /\ now \in Nat \ {0}
    /\ payment \in [PaymentIds -> PaymentRows]
    /\ clerk \in [Clerks -> ClerkRows]
    /\ DOMAIN settlement = Clerks /\ \A k \in Clerks : DOMAIN settlement[k] = Businesses

\* callbackVerifiedAt is in the past, and set when a payment succeeds.
Timed ==
    \A p \in PaymentIds :
      /\ payment[p].verifiedAt <= now
      /\ payment[p].status = "SUCCESS" => payment[p].verifiedAt > 0
      /\ payment[p].status = "NONE" => payment[p].verifiedAt = 0

Counted(p, b, readAt, period) ==
    /\ BusinessOf[p] = b
    /\ payment[p].createdAt \in period.start..period.end
    /\ payment[p].verifiedAt \in 1..readAt

Missed(p, b, readAt, period) ==
    /\ BusinessOf[p] = b /\ payment[p].status = "SUCCESS"
    /\ payment[p].createdAt \in period.start..period.end
    => payment[p].verifiedAt >= readAt

\* What was read at readAt says of the payments now.
Known(b, read, readAt, period) ==
    /\ readAt \in Nat /\ readAt <= now /\ read \in SUBSET PaymentIds
    /\ period \in [start : Nat, end : Nat]
    /\ \A p \in read : Counted(p, b, readAt, period)
    /\ \A p \in PaymentIds \ read : Missed(p, b, readAt, period)

AtWork ==
    \A k \in Clerks : clerk[k].pc = "create" =>
      /\ clerk[k].business \in Businesses
      /\ Known(clerk[k].business, clerk[k].read, clerk[k].readAt, clerk[k].period)

\* A settlement is not made, or of what was read.
Filed(s, b) ==
    \/ s = NoSettlement
    \/ /\ Known(b, s.read, s.readAt, s.period)
       /\ s.net = Gross(s.read) - Commission(Gross(s.read))

OnFile == \A k \in Clerks, b \in Businesses : Filed(settlement[k][b], b)

IInv == Shape /\ Timed /\ AtWork /\ OnFile

---------------------------------------------------------------------------

LEMMA OffRow ==
    /\ Off \in ClerkRows /\ Off.pc = "done"
    /\ [Off EXCEPT !.pc = "idle"] \in ClerkRows
    /\ [Off EXCEPT !.pc = "idle"].pc = "idle"
  <1>1. Off \in ClerkRows /\ Off.pc = "done"
    BY DEF Off, NoSettlement, ClerkRows
  <1> QED BY <1>1 DEF ClerkRows

LEMMA Initially == SettlementInit => IInv
  <1> SUFFICES ASSUME SettlementInit PROVE IInv
    OBVIOUS
  <1>1. NoPayment \in PaymentRows /\ NoPayment.verifiedAt = 0 /\ NoPayment.status = "NONE"
    BY DEF NoPayment, PaymentRows
  <1>2. /\ payment \in [PaymentIds -> PaymentRows] /\ now = 1
        /\ \A p \in PaymentIds : payment[p] = NoPayment
    BY <1>1 DEF SettlementInit
  <1>3. clerk \in [Clerks -> ClerkRows] /\ \A k \in Clerks : clerk[k].pc \in {"done", "idle"}
    BY OffRow DEF SettlementInit
  <1>4. DOMAIN settlement = Clerks /\ \A k \in Clerks : DOMAIN settlement[k] = Businesses
    BY DEF SettlementInit
  <1>5. \A k \in Clerks, b \in Businesses : settlement[k][b] = NoSettlement
    BY DEF SettlementInit
  <1>6. Timed
    BY <1>1, <1>2 DEF Timed
  <1> QED BY <1>2, <1>3, <1>4, <1>5, <1>6 DEF IInv, Shape, AtWork, OnFile, Filed

\* Time passes, or the payments change: what is known of them stays known.
LEMMA KnownKept ==
    ASSUME Shape, Shape', Timed', UNCHANGED <<clerk, settlement>>, AtWork, OnFile,
           \A b \in Businesses : \A read, readAt, period :
              Known(b, read, readAt, period) => Known(b, read, readAt, period)'
    PROVE  IInv'
  <1>1. AtWork'
    <2> SUFFICES ASSUME NEW k \in Clerks, clerk'[k].pc = "create"
                 PROVE  /\ clerk'[k].business \in Businesses
                        /\ Known(clerk[k].business, clerk[k].read, clerk[k].readAt, clerk[k].period)'
      BY DEF AtWork
    <2>1. PICK c \in ClerkRows : c = clerk[k] /\ c = clerk'[k]
      BY DEF Shape
    <2>2. c.business \in Businesses /\ Known(c.business, c.read, c.readAt, c.period)
      BY <2>1 DEF AtWork
    <2>3. Known(c.business, c.read, c.readAt, c.period)'
      BY <2>2
    <2> QED BY <2>1, <2>2, <2>3
  <1>2. OnFile'
    <2> SUFFICES ASSUME NEW k \in Clerks, NEW b \in Businesses
                 PROVE  Filed(settlement[k][b], b)'
      BY DEF OnFile
    <2>1. PICK s : s = settlement[k][b] /\ s = settlement'[k][b]
      OBVIOUS
    <2>2. Filed(s, b)
      BY <2>1 DEF OnFile
    <2>3. Filed(s, b)'
      BY <2>2 DEF Filed
    <2> QED BY <2>1, <2>3
  <1> QED BY <1>1, <1>2 DEF IInv

LEMMA TickStep ==
    ASSUME IInv, Tick
    PROVE  IInv'
  <1>1. now' = now + 1 /\ UNCHANGED <<payment, clerk, settlement>>
    BY DEF Tick
  <1>2. Shape' /\ Timed'
    BY <1>1 DEF IInv, Shape, Timed, PaymentRows
  <1>3. ASSUME NEW b \in Businesses, NEW read, NEW readAt, NEW period, Known(b, read, readAt, period)
        PROVE  Known(b, read, readAt, period)'
    <2>1. /\ readAt \in Nat /\ readAt <= now' /\ read \in SUBSET PaymentIds
          /\ period \in [start : Nat, end : Nat]
      BY <1>1, <1>3 DEF Known, IInv, Shape
    <2>2. \A p \in read : Counted(p, b, readAt, period)'
      BY <1>1, <1>3 DEF Known, Counted
    <2>3. \A p \in PaymentIds \ read : Missed(p, b, readAt, period)'
      BY <1>1, <1>3 DEF Known, Missed
    <2> QED BY <2>1, <2>2, <2>3 DEF Known
  <1> QED BY <1>1, <1>2, <1>3, KnownKept DEF IInv

\* A payment gets a row that succeeds now, for the first time, or no more than it did.
Later(p, row) ==
    /\ row \in PaymentRows
    /\ row.verifiedAt <= now /\ (row.status = "SUCCESS" => row.verifiedAt > 0)
    /\ row.status # "NONE"
    /\ \/ /\ row.verifiedAt = payment[p].verifiedAt /\ row.createdAt = payment[p].createdAt
          /\ row.status = "SUCCESS" => payment[p].status = "SUCCESS"
       \/ payment[p].verifiedAt = 0 /\ row.verifiedAt \in {0, now}

LEMMA PaymentStep ==
    ASSUME IInv, NEW p \in PaymentIds, NEW row, Later(p, row), PutPayment(p, row)
    PROVE  IInv'
  <1>1. /\ payment' \in [PaymentIds -> PaymentRows] /\ payment'[p] = row
        /\ \A o \in PaymentIds \ {p} : payment'[o] = payment[o]
        /\ UNCHANGED <<now, clerk, settlement>>
    BY DEF PutPayment, Later, IInv, Shape
  <1>2. Shape' /\ Timed'
    BY <1>1 DEF IInv, Shape, Timed, Later
  <1>3. ASSUME NEW b \in Businesses, NEW read, NEW readAt, NEW period, Known(b, read, readAt, period)
        PROVE  Known(b, read, readAt, period)'
    <2>1. /\ readAt \in Nat /\ readAt <= now' /\ read \in SUBSET PaymentIds /\ readAt <= now
          /\ period \in [start : Nat, end : Nat]
      BY <1>1, <1>3 DEF Known
    <2>2. ASSUME NEW o \in read
          PROVE  Counted(o, b, readAt, period)'
      <3>1. Counted(o, b, readAt, period) /\ o \in PaymentIds
        BY <1>3, <2>1 DEF Known
      <3>2. CASE o = p
        <4>1. payment[p].verifiedAt \in 1..readAt
          BY <3>1, <3>2 DEF Counted
        <4>2. row.verifiedAt = payment[p].verifiedAt /\ row.createdAt = payment[p].createdAt
          BY <2>1, <4>1 DEF Later
        <4> QED BY <1>1, <3>1, <3>2, <4>2 DEF Counted
      <3>3. CASE o # p
        BY <1>1, <3>1, <3>3 DEF Counted
      <3> QED BY <3>2, <3>3
    <2>3. ASSUME NEW o \in PaymentIds \ read
          PROVE  Missed(o, b, readAt, period)'
      <3>1. Missed(o, b, readAt, period)
        BY <1>3 DEF Known
      <3>2. CASE o = p
        <4>1. CASE payment[p].verifiedAt = 0 /\ row.verifiedAt \in {0, now}
          BY <1>1, <2>1, <3>2, <4>1 DEF Missed, Later, IInv, Shape
        <4>2. CASE /\ row.verifiedAt = payment[p].verifiedAt /\ row.createdAt = payment[p].createdAt
                   /\ row.status = "SUCCESS" => payment[p].status = "SUCCESS"
          BY <1>1, <3>1, <3>2, <4>2 DEF Missed
        <4> QED BY <4>1, <4>2 DEF Later
      <3>3. CASE o # p
        BY <1>1, <3>1, <3>3 DEF Missed
      <3> QED BY <3>2, <3>3
    <2> QED BY <2>1, <2>2, <2>3 DEF Known
  <1> QED BY <1>1, <1>2, <1>3, KnownKept DEF IInv

LEMMA PaymentSteps ==
    ASSUME IInv, NEW p \in PaymentIds,
           \/ PayFromWallet(p) \/ PayFromGateway(p)
           \/ Succeed(p) \/ RejectPayment(p) \/ Refund(p)
    PROVE  IInv'
  <1>0. PICK o \in PaymentRows : o = payment[p]
    BY DEF IInv, Shape
  <1>1. /\ o.verifiedAt <= now /\ now \in Nat \ {0}
        /\ o.status = "SUCCESS" => o.verifiedAt > 0
        /\ o.status = "NONE" => o.verifiedAt = 0
    BY <1>0 DEF IInv, Timed, Shape
  <1>2. o.verifiedAt \in Nat /\ o.createdAt \in Nat /\ o.gateway \in {"mock", "wallet"}
    BY DEF PaymentRows
  <1>3. CASE PayFromWallet(p)
    <2>1. PICK row : row = [status |-> "SUCCESS", gateway |-> "wallet", createdAt |-> now,
                            verifiedAt |-> now]
      OBVIOUS
    <2>2. o.verifiedAt = 0 /\ PutPayment(p, row)
      BY <1>0, <1>1, <1>3, <2>1 DEF PayFromWallet
    <2>3. row \in PaymentRows /\ row.status = "SUCCESS" /\ row.verifiedAt = now
      BY <1>1, <2>1 DEF PaymentRows
    <2>4. Later(p, row)
      BY <1>0, <1>1, <2>2, <2>3 DEF Later
    <2> QED BY <2>2, <2>4, PaymentStep
  <1>4. CASE PayFromGateway(p)
    <2>1. PICK row : row = [status |-> "INITIATED", gateway |-> "mock", createdAt |-> now,
                            verifiedAt |-> 0]
      OBVIOUS
    <2>2. o.verifiedAt = 0 /\ PutPayment(p, row)
      BY <1>0, <1>1, <1>4, <2>1 DEF PayFromGateway
    <2>3. row \in PaymentRows /\ row.status = "INITIATED" /\ row.verifiedAt = 0
      BY <1>1, <2>1 DEF PaymentRows
    <2>4. Later(p, row)
      BY <1>0, <1>1, <2>2, <2>3 DEF Later
    <2> QED BY <2>2, <2>4, PaymentStep
  <1>5. CASE Succeed(p)
    <2>1. PICK row : row = [o EXCEPT !.status = "SUCCESS", !.verifiedAt = now]
      OBVIOUS
    <2>2. o.verifiedAt = 0 /\ PutPayment(p, row)
      BY <1>0, <1>5, <2>1 DEF Succeed
    <2>3. row \in PaymentRows /\ row.status = "SUCCESS" /\ row.verifiedAt = now
      BY <1>1, <2>1 DEF PaymentRows
    <2>4. Later(p, row)
      BY <1>0, <1>1, <2>2, <2>3 DEF Later
    <2> QED BY <2>2, <2>4, PaymentStep
  <1>6. CASE RejectPayment(p) \/ Refund(p)
    <2>1. PICK status \in {"FAILED", "REFUNDED"} : PutPayment(p, [o EXCEPT !.status = status])
      BY <1>0, <1>6 DEF RejectPayment, Refund
    <2>2. PICK row : row = [o EXCEPT !.status = status]
      OBVIOUS
    <2>3. /\ row \in PaymentRows /\ row.status = status
          /\ row.verifiedAt = o.verifiedAt /\ row.createdAt = o.createdAt
      BY <2>2 DEF PaymentRows
    <2>4. Later(p, row)
      BY <1>0, <1>1, <2>3 DEF Later
    <2> QED BY <2>1, <2>2, <2>4, PaymentStep
  <1> QED BY <1>3, <1>4, <1>5, <1>6

---------------------------------------------------------------------------
(* Steps of the clerks *)

\* What is known depends on the clock and the payments only.
LEMMA KnownSame ==
    ASSUME UNCHANGED <<now, payment>>
    PROVE  \A b, read, readAt, period : Known(b, read, readAt, period)' <=> Known(b, read, readAt, period)
  BY DEF Known, Counted, Missed

\* A clerk takes a step, to c, and makes no settlement.
LEMMA ClerkMoves ==
    ASSUME IInv, NEW k \in Clerks, NEW c \in ClerkRows, clerk' = [clerk EXCEPT ![k] = c],
           c.pc = "create" => c.business \in Businesses /\ Known(c.business, c.read, c.readAt, c.period),
           UNCHANGED <<now, payment, settlement>>
    PROVE  IInv'
  <1>1. clerk' \in [Clerks -> ClerkRows] /\ clerk'[k] = c
        /\ \A l \in Clerks \ {k} : clerk'[l] = clerk[l]
    BY DEF IInv, Shape
  <1>2. Shape' /\ Timed'
    BY <1>1 DEF IInv, Shape, Timed
  <1>3. AtWork'
    <2> SUFFICES ASSUME NEW l \in Clerks, clerk'[l].pc = "create"
                 PROVE  /\ clerk'[l].business \in Businesses
                        /\ Known(clerk[l].business, clerk[l].read, clerk[l].readAt, clerk[l].period)'
      BY DEF AtWork
    <2>1. PICK d \in ClerkRows : d = clerk'[l]
      BY <1>1
    <2>2. d.business \in Businesses /\ Known(d.business, d.read, d.readAt, d.period)
      BY <1>1, <2>1 DEF IInv, AtWork
    <2>3. Known(d.business, d.read, d.readAt, d.period)'
      BY <2>2, KnownSame
    <2> QED BY <2>1, <2>2, <2>3
  <1>4. OnFile'
    <2> SUFFICES ASSUME NEW l \in Clerks, NEW b \in Businesses
                 PROVE  Filed(settlement[l][b], b)'
      BY DEF OnFile
    <2>1. PICK s : s = settlement[l][b] /\ s = settlement'[l][b]
      OBVIOUS
    <2>2. Filed(s, b)
      BY <2>1 DEF IInv, OnFile
    <2>3. Filed(s, b)'
      BY <2>2, KnownSame DEF Filed
    <2> QED BY <2>1, <2>3
  <1> QED BY <1>2, <1>3, <1>4 DEF IInv

LEMMA BeginStep ==
    ASSUME IInv, NEW k \in Clerks, NEW period \in Periods, NEW todo \in SUBSET Businesses,
           BeginBatch(k, period, todo)
    PROVE  IInv'
  <1> DEFINE c == [Off EXCEPT !.pc = "next", !.todo = todo, !.period = period]
  <1>1. c \in ClerkRows /\ c.pc = "next"
    <2>1. PICK o \in ClerkRows : o = Off
      BY OffRow
    <2>2. period \in [start : Nat, end : Nat]
      BY SettlementAssumption
    <2> QED BY <2>1, <2>2 DEF ClerkRows
  <1>2. clerk' = [clerk EXCEPT ![k] = c] /\ UNCHANGED <<now, payment, settlement>>
    BY DEF BeginBatch
  <1> HIDE DEF c
  <1> QED BY <1>1, <1>2, ClerkMoves

LEMMA EndStep ==
    ASSUME IInv, NEW k \in Clerks, clerk' = [clerk EXCEPT ![k] = Off],
           UNCHANGED <<now, payment, settlement>>
    PROVE  IInv'
  BY OffRow, ClerkMoves

\* What is read is known.
LEMMA ReadStep ==
    ASSUME IInv, NEW k \in Clerks, NEW b \in Businesses, ReadPayments(k, b)
    PROVE  IInv'
  <1>0. UNCHANGED <<now, payment, settlement>>
    BY DEF ReadPayments
  <1>1. CASE business[b].status = "NONE"
    <2>1. clerk' = [clerk EXCEPT ![k] = Off]
      BY <1>1 DEF ReadPayments
    <2> QED BY <1>0, <2>1, EndStep
  <1>2. CASE business[b].status # "NONE"
    <2>1. PICK o \in ClerkRows : o = clerk[k]
      BY DEF IInv, Shape
    <2>2. PICK c : c = [o EXCEPT !.pc = "create", !.business = b, !.readAt = now,
                                 !.read = ToSettle(b, o.period)]
      OBVIOUS
    <2>3. clerk' = [clerk EXCEPT ![k] = c]
      BY <1>2, <2>1, <2>2 DEF ReadPayments
    <2>4. /\ c \in ClerkRows /\ c.business = b /\ c.readAt = now
          /\ c.read = ToSettle(b, o.period) /\ c.period = o.period
      BY <2>2 DEF ClerkRows, ToSettle, IInv, Shape
    <2>5. PICK period \in [start : Nat, end : Nat] : period = o.period
      BY DEF ClerkRows
    <2>6. Known(b, ToSettle(b, period), now, period)
      <3>1. ToSettle(b, period) \in SUBSET PaymentIds /\ now \in Nat \ {0}
        BY DEF ToSettle, IInv, Shape
      <3>2. \A p \in ToSettle(b, period) : Counted(p, b, now, period)
        BY <3>1 DEF ToSettle, Counted, IInv, Timed, Shape, PaymentRows
      <3>3. \A p \in PaymentIds \ ToSettle(b, period) : Missed(p, b, now, period)
        BY DEF ToSettle, Missed
      <3> QED BY <3>1, <3>2, <3>3 DEF Known
    <2> QED BY <1>0, <2>3, <2>4, <2>5, <2>6, ClerkMoves
  <1> QED BY <1>1, <1>2

\* A settlement of what was read.
LEMMA CreateStep ==
    ASSUME IInv, NEW k \in Clerks, CreateSettlement(k)
    PROVE  IInv'
  <1>1. PICK o \in ClerkRows : o = clerk[k]
    BY DEF IInv, Shape
  <1>2. /\ o.pc = "create" /\ UNCHANGED <<now, payment>>
        /\ o.business \in Businesses /\ Known(o.business, o.read, o.readAt, o.period)
    BY <1>1 DEF CreateSettlement, IInv, AtWork
  <1>3. PICK b \in Businesses : b = o.business
    BY <1>2
  <1>4. PICK c : c = [o EXCEPT !.pc = "next", !.todo = o.todo \ {b}, !.business = NoBusiness,
                               !.read = {}, !.readAt = 0]
    OBVIOUS
  <1>5. c \in ClerkRows /\ c.pc = "next"
    BY <1>4 DEF ClerkRows
  <1>6. clerk' = [clerk EXCEPT ![k] = c]
    BY <1>1, <1>3, <1>4 DEF CreateSettlement
  <1>7. clerk' \in [Clerks -> ClerkRows] /\ clerk'[k] = c
        /\ \A l \in Clerks \ {k} : clerk'[l] = clerk[l]
    BY <1>5, <1>6 DEF IInv, Shape
  <1>8. PICK row : /\ row.read = o.read /\ row.readAt = o.readAt /\ row.period = o.period
                   /\ row.net = Gross(o.read) - Commission(Gross(o.read))
                   /\ settlement' = [settlement EXCEPT ![k][b] = row]
    <2>1. PICK g : g = Gross(o.read)
      OBVIOUS
    <2>2. PICK row : row = [period |-> o.period, read |-> o.read, readAt |-> o.readAt, gross |-> g,
                            commission |-> Commission(g), net |-> g - Commission(g), made |-> TRUE]
      OBVIOUS
    <2>3. settlement' = [settlement EXCEPT ![k][b] = row]
      BY <1>1, <1>3, <2>1, <2>2 DEF CreateSettlement
    <2>4. row.read = o.read /\ row.readAt = o.readAt /\ row.period = o.period
          /\ row.net = g - Commission(g)
      BY <2>2
    <2> QED BY <2>1, <2>3, <2>4
  <1>9. /\ DOMAIN settlement' = Clerks
        /\ \A l \in Clerks : DOMAIN settlement'[l] = Businesses
        /\ settlement'[k][b] = row
        /\ \A l \in Clerks, d \in Businesses :
             <<l, d>> # <<k, b>> => settlement'[l][d] = settlement[l][d]
    BY <1>8 DEF IInv, Shape
  <1>10. Shape' /\ Timed'
    BY <1>2, <1>7, <1>9 DEF IInv, Shape, Timed
  <1>11. AtWork'
    <2> SUFFICES ASSUME NEW l \in Clerks, clerk'[l].pc = "create"
                 PROVE  /\ clerk'[l].business \in Businesses
                        /\ Known(clerk[l].business, clerk[l].read, clerk[l].readAt, clerk[l].period)'
      BY DEF AtWork
    <2>1. PICK d \in ClerkRows : d = clerk[l] /\ d = clerk'[l]
      BY <1>5, <1>7 DEF IInv, Shape
    <2>2. d.business \in Businesses /\ Known(d.business, d.read, d.readAt, d.period)
      BY <2>1 DEF IInv, AtWork
    <2>3. Known(d.business, d.read, d.readAt, d.period)'
      BY <1>2, <2>2, KnownSame
    <2> QED BY <2>1, <2>2, <2>3
  <1>12. OnFile'
    <2> SUFFICES ASSUME NEW l \in Clerks, NEW d \in Businesses
                 PROVE  Filed(settlement[l][d], d)'
      BY DEF OnFile
    <2>1. PICK s : s = settlement'[l][d]
      OBVIOUS
    <2>2. Filed(s, d)
      <3>1. CASE l = k /\ d = b
        BY <1>2, <1>3, <1>8, <1>9, <2>1, <3>1 DEF Filed
      <3>2. CASE <<l, d>> # <<k, b>>
        BY <1>9, <2>1, <3>2 DEF IInv, OnFile
      <3> QED BY <3>1, <3>2
    <2>3. Filed(s, d)'
      BY <1>2, <2>2, KnownSame DEF Filed
    <2> QED BY <2>1, <2>3
  <1> QED BY <1>10, <1>11, <1>12 DEF IInv

LEMMA SettlingSame ==
    ASSUME IInv, UNCHANGED settling
    PROVE  IInv'
  <1>1. UNCHANGED <<now, payment, settlement, clerk>>
    BY DEF settling
  <1>2. Shape' /\ Timed'
    BY <1>1 DEF IInv, Shape, Timed
  <1> QED BY <1>1, <1>2, KnownSame, KnownKept DEF IInv

LEMMA Step ==
    ASSUME IInv, [SettlementNext]_allVars
    PROVE  IInv'
  <1>1. CASE UNCHANGED settling
    BY <1>1, SettlingSame
  <1>2. ASSUME NEW k \in Clerks, NEW period \in Periods, RunBatch(k, period)
        PROVE  IInv'
    <2>1. PICK todo \in SUBSET Businesses : BeginBatch(k, period, todo)
      BY <1>2 DEF RunBatch
    <2> QED BY <2>1, BeginStep
  <1>3. ASSUME NEW k \in Clerks, EndBatch(k)
        PROVE  IInv'
    BY <1>3, EndStep DEF EndBatch
  <1> QED BY <1>1, <1>2, <1>3, TickStep, PaymentSteps, ReadStep, CreateStep
          DEF SettlementNext, allVars

LEMMA Inductive == SettlementSpec => []IInv
  BY Initially, Step, PTL DEF SettlementSpec

-------------------------------------------------------------
(* The sum of the payments, which the library computes by a recursive      *)
(* function on the subsets of a set.                                       *)

Pick(s) == CHOOSE x \in s : TRUE

Sums(f, R) ==
    f = [s \in SUBSET R |-> IF s = {} THEN 0 ELSE Amount[Pick(s)] + f[s \ {Pick(s)}]]

LEMMA GrossIs ==
    ASSUME NEW R
    PROVE  Gross(R) = (CHOOSE f : Sums(f, R))[R]
  BY DEF Gross, MapThenSumSet, MapThenFoldSet, Sums, Pick

\* A set of finite subsets has a member none of whose subsets is in it.
LEMMA Smallest ==
    ASSUME NEW R, IsFiniteSet(R), NEW T \in SUBSET (SUBSET R), T # {}
    PROVE  \E s \in T : \A t \in SUBSET s : t # s => t \notin T
  <1>1. IsWellFoundedOn(StrictSubsetOrdering(R), SUBSET R)
    BY FS_StrictSubsetOrderingWellFounded, FS_FiniteSubsetsOfFinite
  <1>2. PICK s \in T : \A t \in T : ~ (<<t, s>> \in StrictSubsetOrdering(R))
    BY <1>1, WFMin
  <1>3. ASSUME NEW t \in T, t \subseteq s, t # s
        PROVE  <<t, s>> \in StrictSubsetOrdering(R)
    BY <1>3 DEF StrictSubsetOrdering
  <1>4. \A t \in SUBSET s : t # s => t \notin T
    BY <1>2, <1>3
  <1> QED BY <1>4

LEMMA Picked ==
    ASSUME NEW s, s # {}
    PROVE  Pick(s) \in s /\ s \ {Pick(s)} \subseteq s /\ s \ {Pick(s)} # s
  BY DEF Pick

LEMMA SumsAt ==
    ASSUME NEW R, NEW f, Sums(f, R), NEW s \in SUBSET R
    PROVE  /\ s = {} => f[s] = 0
           /\ s # {} => f[s] = Amount[Pick(s)] + f[s \ {Pick(s)}]
  BY DEF Sums

LEMMA SumsAgree ==
    ASSUME NEW R, IsFiniteSet(R), NEW U \in SUBSET R, NEW f, NEW g, Sums(f, R), Sums(g, U)
    PROVE  f[U] = g[U]
  <1> DEFINE T == {s \in SUBSET U : f[s] # g[s]}
  <1> SUFFICES ASSUME T # {} PROVE FALSE
    OBVIOUS
  <1>1. IsFiniteSet(U) /\ T \in SUBSET (SUBSET U)
    BY FS_Subset
  <1> HIDE DEF T
  <1>2. PICK s \in T : \A t \in SUBSET s : t # s => t \notin T
    BY <1>1, Smallest
  <1> USE DEF T
  <1>3. CASE s = {}
    BY <1>3, SumsAt
  <1>4. CASE s # {}
    <2>1. s \ {Pick(s)} \in SUBSET s /\ s \ {Pick(s)} # s
      BY <1>4, Picked
    <2>2. f[s \ {Pick(s)}] = g[s \ {Pick(s)}]
      BY <1>2, <2>1
    <2>3. f[s] = Amount[Pick(s)] + f[s \ {Pick(s)}]
      BY <1>4, SumsAt
    <2>4. g[s] = Amount[Pick(s)] + g[s \ {Pick(s)}]
      BY <1>4, SumsAt
    <2> QED BY <2>2, <2>3, <2>4
  <1> QED BY <1>3, <1>4

LEMMA SumsExist ==
    ASSUME NEW R, IsFiniteSet(R)
    PROVE  \E f : Sums(f, R)
  <1> DEFINE T == {s \in SUBSET R : ~ \E f : Sums(f, s)}
  <1> SUFFICES ASSUME T # {} PROVE FALSE
    OBVIOUS
  <1>0. T \in SUBSET (SUBSET R)
    OBVIOUS
  <1> HIDE DEF T
  <1>1. PICK m \in T : \A t \in SUBSET m : t # m => t \notin T
    BY <1>0, Smallest
  <1> USE DEF T
  <1> DEFINE G(t) == CHOOSE f : Sums(f, t)
             h == [s \in SUBSET m |->
                     IF s = {} THEN 0 ELSE Amount[Pick(s)] + G(s \ {Pick(s)})[s \ {Pick(s)}]]
  <1>2. \A t \in SUBSET m : t # m => Sums(G(t), t)
    BY <1>1
  <1> HIDE DEF G
  <1>3. \A s \in SUBSET m :
          h[s] = IF s = {} THEN 0 ELSE Amount[Pick(s)] + G(s \ {Pick(s)})[s \ {Pick(s)}]
    OBVIOUS
  <1>4. h = [s \in SUBSET m |-> h[s]]
    OBVIOUS
  <1> HIDE DEF h
  <1>5. ASSUME NEW t \in SUBSET m, t # m
        PROVE  h[t] = G(t)[t]
    <2>1. Sums(G(t), t) /\ IsFiniteSet(t)
      BY <1>2, <1>5, FS_Subset
    <2>2. CASE t = {}
      BY <1>3, <2>1, <2>2, SumsAt
    <2>3. CASE t # {}
      <3>1. t \ {Pick(t)} \in SUBSET t /\ t \ {Pick(t)} \in SUBSET m /\ t \ {Pick(t)} # m
        BY <1>5, <2>3, Picked
      <3>2. Sums(G(t \ {Pick(t)}), t \ {Pick(t)})
        BY <1>2, <3>1
      <3>3. G(t)[t \ {Pick(t)}] = G(t \ {Pick(t)})[t \ {Pick(t)}]
        BY <2>1, <3>1, <3>2, SumsAgree
      <3>4. G(t)[t] = Amount[Pick(t)] + G(t)[t \ {Pick(t)}]
        BY <2>1, <2>3, SumsAt
      <3> QED BY <1>3, <2>3, <3>3, <3>4
    <2> QED BY <2>2, <2>3
  <1>6. ASSUME NEW s \in SUBSET m, s # {}
        PROVE  h[s \ {Pick(s)}] = G(s \ {Pick(s)})[s \ {Pick(s)}]
    <2>1. s \ {Pick(s)} \in SUBSET m /\ s \ {Pick(s)} # m
      BY <1>6, Picked
    <2> QED BY <1>5, <2>1
  <1>7. \A s \in SUBSET m :
          h[s] = IF s = {} THEN 0 ELSE Amount[Pick(s)] + h[s \ {Pick(s)}]
    BY <1>3, <1>6
  <1>8. Sums(h, m)
    BY <1>4, <1>7 DEF Sums
  <1> QED BY <1>1, <1>8

LEMMA SumsNat ==
    ASSUME NEW R \in SUBSET PaymentIds, IsFiniteSet(R), NEW f, Sums(f, R)
    PROVE  f[R] \in Nat
  <1> DEFINE T == {s \in SUBSET R : f[s] \notin Nat}
  <1> SUFFICES ASSUME T # {} PROVE FALSE
    OBVIOUS
  <1>0. T \in SUBSET (SUBSET R)
    OBVIOUS
  <1> HIDE DEF T
  <1>1. PICK s \in T : \A t \in SUBSET s : t # s => t \notin T
    BY <1>0, Smallest
  <1> USE DEF T
  <1>2. /\ s \in SUBSET R /\ f[s] \notin Nat
        /\ s = {} => f[s] = 0
        /\ s # {} => f[s] = Amount[Pick(s)] + f[s \ {Pick(s)}]
    <2>1. s \in SUBSET R /\ f[s] \notin Nat
      BY <1>1
    <2> HIDE DEF T
    <2>2. s = {} => f[s] = 0
      BY <2>1, SumsAt, Zenon
    <2>3. ASSUME s # {}
          PROVE  f[s] = Amount[Pick(s)] + f[s \ {Pick(s)}]
      BY <2>1, <2>3, SumsAt
    <2> QED BY <2>1, <2>2, <2>3
  <1>3. s # {}
    BY <1>2
  <1>4. Pick(s) \in R /\ s \ {Pick(s)} \in SUBSET s /\ s \ {Pick(s)} # s
    BY <1>3, Picked
  <1>5. f[s \ {Pick(s)}] \in Nat
    BY <1>1, <1>4
  <1>6. Amount[Pick(s)] \in Nat
    BY <1>4, SettlementAssumption
  <1>7. f[s] = Amount[Pick(s)] + f[s \ {Pick(s)}]
    BY <1>3, <1>2
  <1> QED BY <1>5, <1>6, <1>7, <1>2

LEMMA GrossNat ==
    ASSUME NEW R \in SUBSET PaymentIds, IsFiniteSet(R)
    PROVE  Gross(R) \in Nat
  <1>1. Sums(CHOOSE f : Sums(f, R), R)
    BY SumsExist
  <1> QED BY <1>1, SumsNat, GrossIs

---------------------------------------------------------------------------
(* The amounts *)

\* Math.round of at most the whole amount exceeds it by at most half a toman.
LEMMA Rounding ==
    ASSUME NEW g \in Nat
    PROVE  g - Commission(g) \in Int /\ g - Commission(g) >= -50
  <1>1. CommissionPercent \in 0..10000
    BY SettlementAssumption
  <1>2. g * CommissionPercent \in Nat /\ g * CommissionPercent <= 10000 * g
    BY <1>1
  <1>3. PICK x \in Nat : x = g * CommissionPercent
    BY <1>2
  <1>4. 2 * g * CommissionPercent = 2 * x
    BY <1>1, <1>3
  <1>5. PICK c \in Int : c = (2 * x + 1000000) \div 2000000
    BY <1>3
  <1>6. Commission(g) = 100 * c
    BY <1>4, <1>5 DEF Commission
  <1>7. 2000000 * c <= 2 * x + 1000000
    BY <1>5
  <1>8. x <= 10000 * g
    BY <1>2, <1>3
  <1>9. 100 * c <= g + 50
    BY <1>7, <1>8
  <1> QED BY <1>6, <1>9

---------------------------------------------------------------------------

LEMMA FiledPeriods ==
    ASSUME IInv
    PROVE  TwiceOnlyByOverlap
  <1> SUFFICES ASSUME NEW k \in Clerks, NEW l \in Clerks, NEW b \in Businesses, NEW c \in Businesses,
                      settlement[k][b].read \cap settlement[l][c].read # {}
               PROVE  b = c /\ Overlap(settlement[k][b].period, settlement[l][c].period)
    BY DEF TwiceOnlyByOverlap
  <1>1. PICK s, t : s = settlement[k][b] /\ t = settlement[l][c]
    OBVIOUS
  <1>2. PICK p : p \in s.read /\ p \in t.read
    BY <1>1
  <1>3. NoSettlement.read = {}
    BY DEF NoSettlement
  <1>4. Known(b, s.read, s.readAt, s.period) /\ Known(c, t.read, t.readAt, t.period)
    BY <1>1, <1>2, <1>3 DEF IInv, OnFile, Filed
  <1>5. Counted(p, b, s.readAt, s.period) /\ Counted(p, c, t.readAt, t.period) /\ p \in PaymentIds
    BY <1>2, <1>4 DEF Known
  <1>6. b = c
    BY <1>5 DEF Counted
  <1>7. PICK i \in Int : i \in s.period.start..s.period.end /\ i \in t.period.start..t.period.end
    <2>1. payment[p].createdAt \in Nat
      BY <1>5 DEF IInv, Shape, PaymentRows
    <2> QED BY <1>5, <2>1 DEF Counted
  <1>8. Overlap(s.period, t.period)
    <2>1. s.period \in [start : Nat, end : Nat] /\ t.period \in [start : Nat, end : Nat]
      BY <1>4 DEF Known
    <2> QED BY <1>7, <2>1 DEF Overlap
  <1> QED BY <1>1, <1>6, <1>8

LEMMA FiledTimes ==
    ASSUME IInv
    PROVE  MissedOnlyWhenLate
  <1> SUFFICES ASSUME NEW k \in Clerks, NEW b \in Businesses, NEW p \in PaymentIds,
                      settlement[k][b].made
               PROVE  LET s == settlement[k][b] IN
                      IF p \in s.read THEN payment[p].verifiedAt \in 1..s.readAt
                      ELSE /\ BusinessOf[p] = b /\ payment[p].status = "SUCCESS"
                           /\ payment[p].createdAt \in s.period.start..s.period.end
                           => payment[p].verifiedAt >= s.readAt
    BY DEF MissedOnlyWhenLate
  <1>1. PICK s : s = settlement[k][b]
    OBVIOUS
  <1>2. ~NoSettlement.made
    BY DEF NoSettlement
  <1>3. Known(b, s.read, s.readAt, s.period)
    BY <1>1, <1>2 DEF IInv, OnFile, Filed
  <1>4. CASE p \in s.read
    BY <1>1, <1>3, <1>4 DEF Known, Counted
  <1>5. CASE p \notin s.read
    BY <1>1, <1>3, <1>5 DEF Known, Missed
  <1> QED BY <1>4, <1>5

LEMMA FiledAmounts ==
    ASSUME IInv
    PROVE  CostsAtMostRounding
  <1> SUFFICES ASSUME NEW k \in Clerks, NEW b \in Businesses
               PROVE  settlement[k][b].net >= -50
    BY DEF CostsAtMostRounding
  <1>1. PICK s : s = settlement[k][b]
    OBVIOUS
  <1>2. CASE s = NoSettlement
    BY <1>1, <1>2 DEF NoSettlement
  <1>3. CASE s # NoSettlement
    <2>1. s.read \in SUBSET PaymentIds /\ s.net = Gross(s.read) - Commission(Gross(s.read))
      BY <1>1, <1>3 DEF IInv, OnFile, Filed, Known
    <2>2. IsFiniteSet(s.read)
      BY <2>1, FS_Subset, SettlementAssumption
    <2>3. PICK g \in Nat : g = Gross(s.read)
      BY <2>1, <2>2, GrossNat
    <2> QED BY <1>1, <2>1, <2>3, Rounding
  <1> QED BY <1>2, <1>3

\* For any number of clerks at once, any payments and any periods: a payment is
\* settled twice only by runs of overlapping periods, one that succeeded in a
\* period is left out of its settlement only if the gateway confirmed it after
\* runForBusiness had read the payments, and rounding costs a business at most half
\* a toman beyond what it took.
THEOREM SettlementsByPeriod == SettlementSpec => []SettledByPeriod
  <1>1. IInv => SettledByPeriod
    BY FiledPeriods, FiledTimes, FiledAmounts DEF SettledByPeriod
  <1> QED BY <1>1, Inductive, PTL

===========================================================================
