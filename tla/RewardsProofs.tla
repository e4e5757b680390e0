--------------------------- MODULE RewardsProofs ---------------------------
(***************************************************************************)
(* What Rewards guarantees of points, referrals and the order in which     *)
(* purchases lock accounts, for all sets of users and purchases, all       *)
(* amounts, rates and thresholds.                                          *)
(***************************************************************************)
EXTENDS Rewards, FiniteSetTheorems, SequenceTheorems, TLAPS

---------------------------------------------------------------------------
(* The inductive invariant, in layers *)

PCs == {"idle", "read", "write", "referral", "commit", "done"}

Locals == [pc : PCs, buyer : Users \cup {NoUser}, todo : Seq(Adds), read : Nat,
           mine : [Users -> Nat], added : [Users -> Nat], pays : BOOLEAN]

\* What a purchase has in its locals, by its place in the transaction.
LocalsOK(t) ==
    LET r == tx[t] IN
    /\ IF Open(t) THEN r.buyer \in Users ELSE r.added = Zero /\ ~r.pays
    /\ r.pc \in {"read", "write"} => r.todo # <<>>
    /\ r.pc = "referral" => ~r.pays
    /\ r.pays => referral[r.buyer].referrer \in Users
    /\ Len(r.todo) <= 2

\* A referral has a referrer.
Referred == \A u \in Users : referral[u].status # "NONE" => referral[u].referrer \in Users

Shape == /\ TypeOK /\ Referred
         /\ tx \in [Purchases -> Locals] /\ \A t \in Purchases : LocalsOK(t)

\* The row lock: one purchase at a time has updated an account.
Exclusive == \A s, t \in Purchases, u \in Users : Holds(s, u) /\ Holds(t, u) => s = t

\* n is what the ledger of u comes to, or less when u is one of the users lost.
Sums(lost, u, n, ledger) == n <= ledger /\ (u \notin lost => n = ledger)

\* What a purchase has read and written of an account agrees with the ledger.
BalanceOK(t) ==
    LET r == tx[t] IN
    /\ \A u \in Users : Holds(t, u) => Sums(raced, u, r.mine[u], earned[u] + r.added[u])
    /\ r.pc = "write" =>
         Sums(raced, Head(r.todo).user, r.read, earned[Head(r.todo).user] + r.added[Head(r.todo).user])

Ledger == PointsMatchLedger /\ Exclusive /\ \A t \in Purchases : BalanceOK(t)

Payers(u) == {t \in Purchases : tx[t].pays /\ tx[t].buyer = u}

\* What was paid and what is being paid stay within one reward and the rivals.
PayOK(u) ==
    /\ rewarded[u] + Cardinality(Payers(u)) <= 1 + rivals[u]
    /\ rewarded[u] > 0 <=> referral[u].status = "REWARDED"

Paid == \A u \in Users : PayOK(u)

Referrer(t) == referral[tx[t].buyer].referrer

\* What a purchase holds and is about to lock: first its buyer's account; then, of
\* a reward, the referrer's and the buyer's.
First(t)  == tx[t].pays /\ Len(tx[t].todo) = 2
Second(t) == tx[t].pays /\ Len(tx[t].todo) = 1

StageOK(t) ==
    LET r == tx[t] IN
    /\ r.pc \in {"read", "write"} /\ ~r.pays =>
         /\ Len(r.todo) = 1 /\ r.todo[1].user = r.buyer
         /\ \A v \in Users : ~Holds(t, v)
    /\ r.pc \in {"read", "write"} /\ First(t) =>
         /\ r.todo[1].user = Referrer(t) /\ r.todo[2].user = r.buyer
         /\ \A v \in Users : Holds(t, v) => v = r.buyer
    /\ r.pc \in {"read", "write"} /\ Second(t) =>
         /\ r.todo[1].user = r.buyer /\ Holds(t, Referrer(t))
         /\ \A v \in Users : Holds(t, v) => v \in {r.buyer, Referrer(t)}
    /\ r.pc = "referral" => \A v \in Users : Holds(t, v) => v = r.buyer

\* Users are numbered so that a code is always that of one with a smaller number.
Numbers(rank) ==
    \A u \in Users :
      /\ referral[u].referrer \in Users => rank[referral[u].referrer] < rank[u]
      /\ code[u] \in Users => rank[code[u]] < rank[u]

Unknown(u) == \A v \in Users : code[v] # u /\ referral[v].referrer # u

\* A user who has not joined is nobody's referrer and has none.
Members ==
    \A u \in Users : signup[u] = "new" =>
      Unknown(u) /\ code[u] = NoUser /\ referral[u] = NoReferral

Ranked == \E max \in Nat : \E rank \in [Users -> 0..max] : Numbers(rank)

Order ==
    /\ Members /\ Ranked
    /\ \A t \in Purchases : StageOK(t)

---------------------------------------------------------------------------
(* Least elements, and permutations of finite sets *)

LEMMA LeastNatural ==
  ASSUME NEW S \in SUBSET Nat, S # {}
  PROVE  \E n \in S : \A m \in S : n <= m
<1>1. PICK n \in S : \A m \in S : ~(<<m, n>> \in OpToRel(<, Nat))
  BY WFMin, NatLessThanWellFounded
<1>2. \A m \in S : ~(m < n)
  BY <1>1 DEF OpToRel
<1> QED BY <1>2

LEMMA Least ==
  ASSUME NEW S, NEW f \in [S -> Nat], NEW T \in SUBSET S, T # {}
  PROVE  \E x \in T : \A y \in T : f[x] <= f[y]
<1> DEFINE values == {f[x] : x \in T}
<1>1. values \in SUBSET Nat /\ values # {}
  OBVIOUS
<1>2. PICK n \in values : \A m \in values : n <= m
  <2> HIDE DEF values
  <2> QED BY <1>1, LeastNatural
<1>3. PICK x \in T : f[x] = n
  OBVIOUS
<1>4. \A y \in T : f[y] \in values
  OBVIOUS
<1> QED BY <1>2, <1>3, <1>4

\* A function from a finite set onto itself takes no value twice.
LEMMA OntoIsOneToOne ==
  ASSUME NEW D, IsFiniteSet(D), NEW f \in [D -> D], \A t \in D : \E s \in D : f[s] = t,
         NEW s \in D, NEW t \in D, f[s] = f[t]
  PROVE  s = t
<1>1. f \in Surjection(D, D)
  BY DEF Surjection
<1>2. f \in Injection(D, D)
  BY <1>1, FS_Surjection
<1> QED BY <1>2 DEF Injection, IsInjective

---------------------------------------------------------------------------
(* The locals of the purchase that takes a step *)

Alone(t) ==
    /\ tx' \in [Purchases -> Locals]
    /\ \A s \in Purchases \ {t} : tx'[s] = tx[s]

LEMMA LocalsUpdate ==
  ASSUME Shape, NEW t \in Purchases, NEW r \in Locals, tx' = [tx EXCEPT ![t] = r]
  PROVE  Alone(t) /\ tx'[t] = r
  BY DEF Shape, Alone

LEMMA IdleFields ==
  /\ Idle \in Locals /\ Idle.pc = "idle" /\ Idle.added = Zero /\ Idle.pays = FALSE
  /\ Idle.todo = <<>> /\ Zero \in [Users -> Nat]
  /\ [Idle EXCEPT !.pc = "done"] \in Locals
  /\ [Idle EXCEPT !.pc = "done"].pc = "done" /\ [Idle EXCEPT !.pc = "done"].added = Zero
  /\ [Idle EXCEPT !.pc = "done"].pays = FALSE /\ [Idle EXCEPT !.pc = "done"].todo = <<>>
<1>1. Zero \in [Users -> Nat] /\ <<>> \in Seq(Adds)
  BY DEF Zero
<1> QED BY <1>1 DEF Idle, Locals, PCs

LEMMA CloseUpdate ==
  ASSUME Shape, NEW t \in Purchases, Close(t)
  PROVE  /\ Alone(t) /\ tx'[t].pc = "done" /\ tx'[t].added = Zero /\ tx'[t].pays = FALSE
         /\ tx'[t].todo = <<>>
  BY IdleFields, LocalsUpdate DEF Close

LEMMA BeginUpdate ==
  ASSUME Shape, NEW t \in Purchases, NEW u \in Users, NEW amount \in Amounts,
         BeginPurchase(t, u, amount)
  PROVE  /\ Alone(t) /\ tx[t].pc = "idle" /\ tx'[t].buyer = u
         /\ tx'[t].pc \in {"read", "referral"}
         /\ tx'[t].pc = "read" => Len(tx'[t].todo) = 1 /\ tx'[t].todo[1].user = u
         /\ tx'[t].added = tx[t].added /\ tx'[t].mine = tx[t].mine /\ tx'[t].pays = tx[t].pays
         /\ Len(tx'[t].todo) <= 2
<1> DEFINE points == amount \div TOMAN_PER_POINT
           pc     == IF points > 0 THEN "read" ELSE "referral"
           todo   == IF points > 0 THEN <<[user |-> u, points |-> points]>> ELSE <<>>
           r      == [tx[t] EXCEPT !.buyer = u, !.pc = pc, !.todo = todo]
<1>1. points \in Nat
  BY RewardsAssumption
<1>2. tx[t].pc = "idle" /\ tx[t] \in Locals /\ tx' = [tx EXCEPT ![t] = r]
  BY DEF BeginPurchase, Shape
<1> HIDE DEF points
<1>3. /\ pc \in {"read", "referral"} /\ todo \in Seq(Adds) /\ Len(todo) <= 2
      /\ pc = "read" => Len(todo) = 1 /\ todo[1].user = u
  <2>1. CASE points > 0
    <3>1. [user |-> u, points |-> points] \in Adds
      BY <1>1, <2>1 DEF Adds
    <3> QED BY <2>1, <3>1
  <2>2. CASE ~(points > 0)
    BY <2>2
  <2> QED BY <2>1, <2>2
<1> HIDE DEF pc, todo
<1>4. /\ r \in Locals /\ r.buyer = u /\ r.pc = pc /\ r.todo = todo /\ r.added = tx[t].added
      /\ r.mine = tx[t].mine /\ r.pays = tx[t].pays
  BY <1>2, <1>3 DEF Locals, PCs
<1> HIDE DEF r
<1> QED BY <1>2, <1>3, <1>4, LocalsUpdate

LEMMA NextAdd ==
  ASSUME Shape, NEW t \in Purchases, tx[t].pc \in {"read", "write"}
  PROVE  /\ Head(tx[t].todo) \in Adds /\ Head(tx[t].todo) = tx[t].todo[1]
         /\ Tail(tx[t].todo) \in Seq(Adds) /\ Len(Tail(tx[t].todo)) = Len(tx[t].todo) - 1
         /\ Len(tx[t].todo) \in {1, 2}
         /\ Len(tx[t].todo) = 2 => Tail(tx[t].todo)[1] = tx[t].todo[2]
<1>1. tx[t].todo \in Seq(Adds) /\ tx[t].todo # <<>> /\ Len(tx[t].todo) <= 2
  BY DEF Shape, LocalsOK, Locals
<1>2. Len(tx[t].todo) \in Nat /\ Len(tx[t].todo) # 0
  BY <1>1, EmptySeq
<1>3. /\ Head(tx[t].todo) \in Adds /\ Tail(tx[t].todo) \in Seq(Adds)
      /\ Len(Tail(tx[t].todo)) = Len(tx[t].todo) - 1
      /\ \A i \in 1..Len(Tail(tx[t].todo)) : Tail(tx[t].todo)[i] = tx[t].todo[i + 1]
  BY <1>1, HeadTailProperties
<1>4. Head(tx[t].todo) = tx[t].todo[1]
  BY <1>1
<1>5. Len(tx[t].todo) \in {1, 2}
  <2>1. \A n \in Nat : n # 0 /\ n <= 2 => n \in {1, 2}
    OBVIOUS
  <2> QED BY <1>1, <1>2, <2>1
<1>6. ASSUME Len(tx[t].todo) = 2
      PROVE  Tail(tx[t].todo)[1] = tx[t].todo[2]
  BY <1>3, <1>6
<1> QED BY <1>3, <1>4, <1>5, <1>6

LEMMA ReadUpdate ==
  ASSUME Shape, NEW t \in Purchases, ReadPoints(t)
  PROVE  /\ Alone(t) /\ tx[t].pc = "read" /\ tx'[t].pc = "write"
         /\ tx'[t].read = LET u == Head(tx[t].todo).user
                          IN  IF tx[t].added[u] > 0 THEN tx[t].mine[u] ELSE account[u].points
         /\ tx'[t].added = tx[t].added /\ tx'[t].mine = tx[t].mine /\ tx'[t].pays = tx[t].pays
         /\ tx'[t].todo = tx[t].todo /\ tx'[t].buyer = tx[t].buyer
<1> DEFINE u == Head(tx[t].todo).user
           n == IF tx[t].added[u] > 0 THEN tx[t].mine[u] ELSE account[u].points
           r == [tx[t] EXCEPT !.pc = "write", !.read = n]
<1>1. tx[t].pc = "read" /\ tx[t] \in Locals /\ tx' = [tx EXCEPT ![t] = r]
  BY DEF ReadPoints, Shape
<1>2. u \in Users
  BY <1>1, NextAdd DEF Adds
<1>3. n \in Nat
  BY <1>1, <1>2 DEF Locals, Shape, TypeOK
<1> HIDE DEF n
<1>4. /\ r \in Locals /\ r.buyer = tx[t].buyer /\ r.pc = "write" /\ r.todo = tx[t].todo
      /\ r.read = n /\ r.added = tx[t].added /\ r.mine = tx[t].mine /\ r.pays = tx[t].pays
  BY <1>1, <1>3 DEF Locals, PCs
<1> HIDE DEF r
<1>5. Alone(t) /\ tx'[t] = r
  BY <1>1, <1>4, LocalsUpdate
<1> QED BY <1>1, <1>4, <1>5 DEF n

LEMMA WriteUpdate ==
  ASSUME Shape, NEW t \in Purchases, WritePoints(t)
  PROVE  /\ Alone(t) /\ tx[t].pc = "write"
         /\ Head(tx[t].todo) \in Adds
         /\ tx'[t].mine = [tx[t].mine EXCEPT ![Head(tx[t].todo).user] =
                             tx[t].read + Head(tx[t].todo).points]
         /\ tx'[t].added = [tx[t].added EXCEPT ![Head(tx[t].todo).user] =
                             tx[t].added[Head(tx[t].todo).user] + Head(tx[t].todo).points]
         /\ tx'[t].todo = Tail(tx[t].todo) /\ tx'[t].buyer = tx[t].buyer
         /\ tx'[t].pays = tx[t].pays
         /\ tx'[t].pc = IF Len(tx[t].todo) > 1 THEN "read"
                        ELSE IF tx[t].pays THEN "commit" ELSE "referral"
<1> DEFINE next  == Head(tx[t].todo)
           mine  == [tx[t].mine EXCEPT ![next.user] = tx[t].read + next.points]
           added == [tx[t].added EXCEPT ![next.user] = tx[t].added[next.user] + next.points]
           pc    == IF Len(tx[t].todo) > 1 THEN "read"
                    ELSE IF tx[t].pays THEN "commit" ELSE "referral"
           r     == [tx[t] EXCEPT !.mine = mine, !.added = added, !.todo = Tail(tx[t].todo),
                                  !.pc = pc]
<1>1. tx[t].pc = "write" /\ tx[t] \in Locals
  BY DEF WritePoints, Shape
<1>2. next \in Adds /\ Tail(tx[t].todo) \in Seq(Adds)
  BY <1>1, NextAdd
<1>3. next.user \in Users /\ next.points \in Nat
  BY <1>2 DEF Adds
<1>4. Written(t) = r
  BY <1>1 DEF Written, Locals
<1>5. tx' = [tx EXCEPT ![t] = r]
  BY <1>4 DEF WritePoints
<1>6. mine \in [Users -> Nat] /\ added \in [Users -> Nat] /\ pc \in PCs
  <2>1. tx[t].mine \in [Users -> Nat] /\ tx[t].added \in [Users -> Nat] /\ tx[t].read \in Nat
    BY <1>1 DEF Locals
  <2>2. /\ tx[t].read + next.points \in Nat
        /\ tx[t].added[next.user] + next.points \in Nat
    BY <1>3, <2>1
  <2>3. pc \in PCs
    BY DEF PCs
  <2> HIDE DEF next, pc
  <2> QED BY <1>3, <2>1, <2>2, <2>3
<1>7. /\ r \in Locals /\ r.buyer = tx[t].buyer /\ r.pc = pc /\ r.todo = Tail(tx[t].todo)
      /\ r.added = added /\ r.mine = mine /\ r.pays = tx[t].pays
  <2> HIDE DEF mine, added, pc, next
  <2> QED BY <1>1, <1>2, <1>6 DEF Locals
<1> HIDE DEF r
<1> QED BY <1>1, <1>2, <1>5, <1>7, LocalsUpdate

LEMMA RewardUpdate ==
  ASSUME Shape, NEW t \in Purchases, tx[t].pc = "referral", NEW w \in Users, Reward(t, w)
  PROVE  /\ Alone(t) /\ tx'[t].pc = "read" /\ tx'[t].pays = TRUE /\ tx'[t].buyer = tx[t].buyer
         /\ tx'[t].added = tx[t].added /\ tx'[t].mine = tx[t].mine
         /\ Len(tx'[t].todo) = 2 /\ tx'[t].todo[1].user = w /\ tx'[t].todo[2].user = tx[t].buyer
<1> DEFINE todo == <<[user |-> w, points |-> REFERRAL_REWARD_POINTS],
                     [user |-> tx[t].buyer, points |-> REFERRAL_REWARD_POINTS]>>
           r    == [tx[t] EXCEPT !.pc = "read", !.pays = TRUE, !.todo = todo]
<1>1. tx[t] \in Locals /\ tx[t].buyer \in Users /\ tx' = [tx EXCEPT ![t] = r]
  BY DEF Reward, Shape, LocalsOK, Open
<1>2. /\ todo \in Seq(Adds) /\ Len(todo) = 2 /\ todo[1].user = w
      /\ todo[2].user = tx[t].buyer
  BY <1>1, RewardsAssumption DEF Adds
<1> HIDE DEF todo
<1>4. /\ r \in Locals /\ r.buyer = tx[t].buyer /\ r.pc = "read" /\ r.todo = todo /\ r.pays = TRUE
      /\ r.added = tx[t].added /\ r.mine = tx[t].mine
  BY <1>1, <1>2 DEF Locals, PCs
<1> HIDE DEF r
<1> QED BY <1>1, <1>2, <1>4, LocalsUpdate

LEMMA NoRewardUpdate ==
  ASSUME Shape, NEW t \in Purchases, tx' = [tx EXCEPT ![t].pc = "commit"]
  PROVE  /\ Alone(t) /\ tx'[t].pc = "commit" /\ tx'[t].pays = tx[t].pays
         /\ tx'[t].buyer = tx[t].buyer /\ tx'[t].added = tx[t].added
         /\ tx'[t].mine = tx[t].mine /\ tx'[t].todo = tx[t].todo
<1> DEFINE r == [tx[t] EXCEPT !.pc = "commit"]
<1>1. tx[t] \in Locals /\ tx' = [tx EXCEPT ![t] = r]
  BY DEF Shape
<1>2. /\ r \in Locals /\ r.buyer = tx[t].buyer /\ r.pc = "commit" /\ r.todo = tx[t].todo
      /\ r.added = tx[t].added /\ r.mine = tx[t].mine /\ r.pays = tx[t].pays
  BY <1>1 DEF Locals, PCs
<1> HIDE DEF r
<1> QED BY <1>1, <1>2, LocalsUpdate

---------------------------------------------------------------------------
(* Shape: types and locals *)

RowsTyped ==
    /\ signup \in [Users -> {"new", "joining", "joined"}]
    /\ code \in [Users -> Users \cup {NoUser}]
    /\ account \in [Users -> [points : Nat, tier : {"BRONZE", "SILVER", "GOLD"}]]
    /\ earned \in [Users -> Nat]
    /\ referral \in [Users -> [referrer : Users \cup {NoUser},
                               status : {"NONE", "PENDING", "REWARDED"}]]
    /\ raced \subseteq Users /\ rewarded \in [Users -> Nat] /\ rivals \in [Users -> Nat]
    /\ Referred

\* Who referred a user never changes.
ReferrersStay ==
    \A u \in Users : referral[u].referrer \in Users => referral'[u].referrer = referral[u].referrer

LEMMA ShapeTyped ==
  ASSUME Shape
  PROVE  RowsTyped /\ tx \in [Purchases -> Locals] /\ \A t \in Purchases : LocalsOK(t)
  BY DEF Shape, TypeOK, RowsTyped

\* The locals of every purchase keep TypeOK's promises.
LEMMA LocalsTyped ==
  ASSUME NEW r \in Locals, Len(r.todo) <= 2
  PROVE  /\ r.pc \in PCs /\ r.buyer \in Users \cup {NoUser}
         /\ Len(r.todo) <= 2 /\ \A i \in DOMAIN r.todo : r.todo[i] \in Adds
         /\ r.read \in Nat /\ r.pays \in BOOLEAN
         /\ r.mine \in [Users -> Nat] /\ r.added \in [Users -> Nat]
<1>1. r.todo \in Seq(Adds)
  BY DEF Locals
<1>2. \A i \in DOMAIN r.todo : r.todo[i] \in Adds
  BY <1>1
<1> QED BY <1>2 DEF Locals

LEMMA NotEmpty ==
  ASSUME NEW t \in Purchases, Alone(t), Len(tx'[t].todo) \in {1, 2}
  PROVE  tx'[t].todo # <<>>
<1>1. Len(<<>>) = 0
  BY EmptySeq
<1>2. \A n \in {1, 2} : n # 0
  OBVIOUS
<1> QED BY <1>1, <1>2

LEMMA ShapeMove ==
  ASSUME Shape, NEW t \in Purchases, Alone(t), LocalsOK(t)', RowsTyped', ReferrersStay
  PROVE  Shape'
<1>1. ASSUME NEW s \in Purchases
      PROVE  LocalsOK(s)'
  <2>1. CASE s = t
    BY <2>1
  <2>2. CASE s # t
    <3>1. LocalsOK(s) /\ tx'[s] = tx[s]
      BY <2>2 DEF Shape, Alone
    <3>2. tx[s].pays => tx[s].buyer \in Users
      BY <3>1 DEF LocalsOK
    <3> QED BY <3>1, <3>2 DEF LocalsOK, Open, ReferrersStay
  <2> QED BY <2>1, <2>2
<1>2. \A s \in Purchases : tx'[s] \in Locals /\ Len(tx'[s].todo) <= 2
  BY <1>1 DEF Alone, LocalsOK
<1>3. \A s \in Purchases : tx'[s].pc \in {"read", "write"} => tx'[s].todo # <<>>
  BY <1>1 DEF LocalsOK
<1>4. TypeOK'
  <2>1. ASSUME NEW s \in Purchases
        PROVE  /\ tx'[s].pc \in PCs /\ tx'[s].buyer \in Users \cup {NoUser}
               /\ Len(tx'[s].todo) <= 2 /\ \A i \in DOMAIN tx'[s].todo : tx'[s].todo[i] \in Adds
               /\ tx'[s].read \in Nat /\ tx'[s].pays \in BOOLEAN
               /\ tx'[s].mine \in [Users -> Nat] /\ tx'[s].added \in [Users -> Nat]
    BY <1>2, LocalsTyped
  <2> QED BY <1>3, <2>1 DEF TypeOK, RowsTyped, PCs
<1> QED BY <1>1, <1>4 DEF Shape, Alone, RowsTyped

\* Registrations leave the purchases alone.
LEMMA ShapeRows ==
  ASSUME Shape, RowsTyped', UNCHANGED tx, ReferrersStay
  PROVE  Shape'
<1>1. ASSUME NEW s \in Purchases
      PROVE  LocalsOK(s)'
  <2>1. LocalsOK(s) /\ tx'[s] = tx[s]
    BY DEF Shape
  <2>2. tx[s].pays => tx[s].buyer \in Users
    BY <2>1 DEF LocalsOK
  <2> QED BY <2>1, <2>2 DEF LocalsOK, Open, ReferrersStay
<1>2. TypeOK'
  BY DEF Shape, TypeOK, RowsTyped
<1> QED BY <1>1, <1>2 DEF Shape, RowsTyped

LEMMA ShapeInit == Init => Shape
<1> SUFFICES ASSUME Init PROVE Shape
  OBVIOUS
<1>1. \A t \in Purchases : tx[t] = Idle
  BY DEF Init
<1>2. tx \in [Purchases -> Locals]
  BY IdleFields DEF Init
<1>3. \A t \in Purchases : LocalsOK(t)
  BY <1>1, IdleFields DEF LocalsOK, Open
<1>4. RowsTyped
  BY IdleFields DEF Init, RowsTyped, NoReferral, Referred
<1>5. TypeOK
  <2>1. ASSUME NEW s \in Purchases
        PROVE  /\ tx[s].pc \in PCs /\ tx[s].buyer \in Users \cup {NoUser}
               /\ Len(tx[s].todo) <= 2 /\ \A i \in DOMAIN tx[s].todo : tx[s].todo[i] \in Adds
               /\ tx[s].read \in Nat /\ tx[s].pays \in BOOLEAN
               /\ tx[s].mine \in [Users -> Nat] /\ tx[s].added \in [Users -> Nat]
    <3>1. tx[s] \in Locals /\ Len(tx[s].todo) <= 2
      BY <1>1, <1>3, IdleFields DEF LocalsOK
    <3> QED BY <3>1, LocalsTyped
  <2>2. \A s \in Purchases : tx[s].pc \in {"read", "write"} => tx[s].todo # <<>>
    BY <1>3 DEF LocalsOK
  <2> QED BY <1>4, <2>1, <2>2 DEF TypeOK, RowsTyped, PCs
<1> QED BY <1>2, <1>3, <1>4, <1>5 DEF Shape, RowsTyped

\* An account's points and tier as Commit writes them.
LEMMA TierTyped ==
  ASSUME NEW n \in Nat
  PROVE  TierOf(n) \in {"BRONZE", "SILVER", "GOLD"}
<1>1. CASE n >= GoldPoints
  BY <1>1, RewardsAssumption DEF TierOf
<1>2. CASE ~(n >= GoldPoints)
  BY <1>2, RewardsAssumption DEF TierOf
<1> QED BY <1>1, <1>2

LEMMA ShapeCommit ==
  ASSUME Shape, NEW t \in Purchases, Commit(t)
  PROVE  RowsTyped' /\ ReferrersStay
<1>1. /\ tx[t].mine \in [Users -> Nat] /\ tx[t].added \in [Users -> Nat]
      /\ tx[t].buyer \in Users /\ RowsTyped
  BY ShapeTyped DEF Commit, Locals, LocalsOK, Open
<1>2. account' \in [Users -> [points : Nat, tier : {"BRONZE", "SILVER", "GOLD"}]]
  <2>1. ASSUME NEW v \in Users
        PROVE  account'[v] \in [points : Nat, tier : {"BRONZE", "SILVER", "GOLD"}]
    <3>1. account'[v] = IF Holds(t, v) THEN [points |-> tx[t].mine[v], tier |-> TierOf(tx[t].mine[v])]
                                       ELSE account[v]
      BY DEF Commit
    <3>2. TierOf(tx[t].mine[v]) \in {"BRONZE", "SILVER", "GOLD"} /\ tx[t].mine[v] \in Nat
      BY <1>1, TierTyped
    <3> QED BY <1>1, <3>1, <3>2 DEF RowsTyped
  <2>2. account' = [v \in Users |-> account'[v]]
    BY DEF Commit
  <2> QED BY <2>1, <2>2
<1>3. earned' \in [Users -> Nat] /\ raced' \subseteq Users /\ rewarded' \in [Users -> Nat]
  BY <1>1 DEF Commit, RowsTyped
<1>4. /\ referral' \in [Users -> [referrer : Users \cup {NoUser},
                                   status : {"NONE", "PENDING", "REWARDED"}]]
      /\ Referred' /\ ReferrersStay
  <2>1. CASE ~tx[t].pays
    BY <1>1, <2>1 DEF Commit, RowsTyped, Referred, ReferrersStay
  <2>2. CASE tx[t].pays
    <3>1. PICK u \in Users : u = tx[t].buyer
      BY <1>1
    <3> DEFINE row == [referral[u] EXCEPT !.status = "REWARDED"]
    <3>2. referral[u].referrer \in Users
      BY <2>2, <3>1, ShapeTyped DEF LocalsOK
    <3>3. referral' = [referral EXCEPT ![u] = row]
      BY <1>1, <2>2, <3>1 DEF Commit, RowsTyped
    <3>4. /\ row \in [referrer : Users \cup {NoUser}, status : {"NONE", "PENDING", "REWARDED"}]
          /\ row.referrer = referral[u].referrer
      BY <1>1 DEF RowsTyped
    <3> HIDE DEF row
    <3> QED BY <1>1, <3>2, <3>3, <3>4 DEF RowsTyped, Referred, ReferrersStay
  <2> QED BY <2>1, <2>2
<1> QED BY <1>1, <1>2, <1>3, <1>4 DEF Commit, RowsTyped

LEMMA ShapeNext ==
  ASSUME Shape, [Next]_vars
  PROVE  Shape'
<1> USE ShapeTyped
<1>1. ASSUME NEW u \in Users, NEW c \in Users \cup {NoUser}, Join(u, c)
      PROVE  Shape'
  BY <1>1, ShapeRows DEF Join, RowsTyped, Referred, ReferrersStay, history
<1>2. ASSUME NEW u \in Users, RegisterReferral(u)
      PROVE  Shape'
  <2>1. /\ referral' \in [Users -> [referrer : Users \cup {NoUser},
                                     status : {"NONE", "PENDING", "REWARDED"}]]
        /\ Referred' /\ ReferrersStay
    <3>1. CASE referral' = referral
      BY <3>1 DEF RowsTyped, Referred, ReferrersStay
    <3>2. CASE /\ code[u] \in Users \ {u} /\ referral[u] = NoReferral
               /\ referral' = [referral EXCEPT ![u] = [referrer |-> code[u], status |-> "PENDING"]]
      <4>1. referral[u].referrer \notin Users
        BY <3>2, RewardsAssumption DEF NoReferral
      <4> QED BY <3>2, <4>1 DEF RowsTyped, Referred, ReferrersStay
    <3> QED BY <1>2, <3>1, <3>2 DEF RegisterReferral
  <2>2. RowsTyped' /\ tx' = tx
    BY <1>2, <2>1 DEF RegisterReferral, RowsTyped, history
  <2> QED BY <2>1, <2>2, ShapeRows
<1>3. ASSUME NEW t \in Purchases, NEW u \in Users, NEW amount \in Amounts,
             BeginPurchase(t, u, amount)
      PROVE  Shape'
  <2>1. RowsTyped' /\ ReferrersStay /\ referral' = referral
    BY <1>3 DEF BeginPurchase, RowsTyped, Referred, ReferrersStay, history
  <2>2. /\ Alone(t) /\ tx'[t].buyer = u /\ tx'[t].pc \in {"read", "referral"}
        /\ (tx'[t].pc = "read" => Len(tx'[t].todo) = 1)
        /\ Len(tx'[t].todo) <= 2 /\ tx'[t].pays = tx[t].pays /\ tx[t].pc = "idle"
    BY <1>3, BeginUpdate
  <2>3. ~tx[t].pays
    BY <2>2 DEF LocalsOK, Open
  <2>4. tx'[t].pc = "read" => tx'[t].todo # <<>>
    BY <2>2, NotEmpty
  <2>5. LocalsOK(t)'
    BY <2>2, <2>3, <2>4 DEF LocalsOK, Open
  <2> QED BY <2>1, <2>2, <2>5, ShapeMove
<1>4. ASSUME NEW t \in Purchases, ReadPoints(t)
      PROVE  Shape'
  <2>1. RowsTyped' /\ ReferrersStay /\ referral' = referral
    BY <1>4 DEF ReadPoints, RowsTyped, Referred, ReferrersStay, history
  <2>2. Alone(t) /\ LocalsOK(t)'
    <3>1. LocalsOK(t)
      OBVIOUS
    <3>2. /\ Alone(t) /\ tx[t].pc = "read" /\ tx'[t].pc = "write" /\ tx'[t].pays = tx[t].pays
          /\ tx'[t].todo = tx[t].todo /\ tx'[t].buyer = tx[t].buyer
      BY <1>4, ReadUpdate
    <3> QED BY <2>1, <3>1, <3>2 DEF LocalsOK, Open
  <2> QED BY <2>1, <2>2, ShapeMove
<1>5. ASSUME NEW t \in Purchases, WritePoints(t)
      PROVE  Shape'
  <2>1. RowsTyped' /\ ReferrersStay /\ referral' = referral
    BY <1>5 DEF WritePoints, RowsTyped, Referred, ReferrersStay, history
  <2>2. /\ Alone(t) /\ tx[t].pc = "write" /\ tx'[t].todo = Tail(tx[t].todo)
        /\ tx'[t].buyer = tx[t].buyer /\ tx'[t].pays = tx[t].pays
        /\ tx'[t].pc = IF Len(tx[t].todo) > 1 THEN "read"
                       ELSE IF tx[t].pays THEN "commit" ELSE "referral"
    BY <1>5, WriteUpdate
  <2>3. /\ Len(Tail(tx[t].todo)) = Len(tx[t].todo) - 1 /\ Len(tx[t].todo) \in {1, 2}
        /\ tx[t].pays \in BOOLEAN
    BY <2>2, NextAdd DEF Locals
  <2>4. tx'[t].pc = "read" => tx'[t].todo # <<>>
    <3> SUFFICES ASSUME tx'[t].pc = "read" PROVE tx'[t].todo # <<>>
      OBVIOUS
    <3>1. Len(tx[t].todo) > 1
      BY <2>2
    <3>2. \A n \in {1, 2} : n > 1 => n - 1 = 1
      OBVIOUS
    <3>3. Len(tx'[t].todo) = 1
      BY <2>2, <2>3, <3>1, <3>2
    <3> QED BY <2>2, <3>3, NotEmpty
  <2>5. LocalsOK(t)
    OBVIOUS
  <2>6. tx'[t].pc \in {"read", "commit", "referral"} /\ (tx'[t].pc = "referral" => ~tx'[t].pays)
    BY <2>2, <2>3
  <2>7. Len(tx'[t].todo) <= 2
    <3>1. \A n \in {1, 2} : n - 1 <= 2
      OBVIOUS
    <3> QED BY <2>2, <2>3, <3>1
  <2>8. tx'[t].buyer \in Users /\ (tx'[t].pays => referral'[tx'[t].buyer].referrer \in Users)
    BY <2>1, <2>2, <2>5 DEF LocalsOK, Open
  <2>9. LocalsOK(t)'
    BY <2>4, <2>6, <2>7, <2>8 DEF LocalsOK, Open
  <2> QED BY <2>1, <2>2, <2>9, ShapeMove
<1>6. ASSUME NEW t \in Purchases, ReadReferral(t)
      PROVE  Shape'
  <2>0. /\ tx[t].pc = "referral" /\ LocalsOK(t) /\ tx[t].buyer \in Users
        /\ referral' = referral /\ UNCHANGED <<signup, code, account, earned, raced, rewarded>>
    BY <1>6 DEF ReadReferral, LocalsOK, Open
  <2>1. CASE tx' = [tx EXCEPT ![t].pc = "commit"] /\ UNCHANGED rivals
    <3>1. RowsTyped' /\ ReferrersStay
      BY <2>0, <2>1 DEF RowsTyped, Referred, ReferrersStay
    <3>2. Alone(t) /\ LocalsOK(t)'
      BY <2>0, <2>1, NoRewardUpdate DEF LocalsOK, Open
    <3> QED BY <3>1, <3>2, ShapeMove
  <2>2. CASE referral[tx[t].buyer].status = "PENDING" /\ Reward(t, referral[tx[t].buyer].referrer)
    <3>1. rivals' \in [Users -> Nat]
      BY <2>0, <2>2 DEF Reward, RowsTyped
    <3>2. RowsTyped' /\ ReferrersStay
      BY <2>0, <3>1 DEF RowsTyped, Referred, ReferrersStay
    <3>3. PICK w \in Users : w = referral[tx[t].buyer].referrer
      BY <2>0, <2>2 DEF RowsTyped, Referred
    <3>4. /\ Alone(t) /\ tx'[t].pc = "read" /\ tx'[t].buyer = tx[t].buyer
          /\ Len(tx'[t].todo) = 2
      BY <2>0, <2>2, <3>3, RewardUpdate
    <3>5. tx'[t].todo # <<>>
      BY <3>4, NotEmpty
    <3>6. LocalsOK(t)'
      BY <2>0, <3>3, <3>4, <3>5 DEF LocalsOK, Open
    <3> QED BY <3>2, <3>4, <3>6, ShapeMove
  <2> QED BY <1>6, <2>1, <2>2 DEF ReadReferral
<1>7. ASSUME NEW t \in Purchases, Commit(t) \/ Rollback(t) \/ DeadlockVictim(t)
      PROVE  Shape'
  <2>1. RowsTyped' /\ ReferrersStay
    <3>1. CASE Commit(t)
      BY <3>1, ShapeCommit
    <3>2. CASE Rollback(t) \/ DeadlockVictim(t)
      BY <3>2 DEF Rollback, DeadlockVictim, RowsTyped, Referred, ReferrersStay, history
    <3> QED BY <1>7, <3>1, <3>2
  <2>2. Close(t)
    BY <1>7 DEF Commit, Rollback, DeadlockVictim
  <2>3. /\ Alone(t) /\ tx'[t].pc = "done" /\ tx'[t].added = Zero /\ tx'[t].pays = FALSE
        /\ tx'[t].todo = <<>>
    BY <2>2, CloseUpdate
  <2>4. LocalsOK(t)'
    <3>1. Len(<<>>) = 0
      BY EmptySeq
    <3> QED BY <2>3, <3>1 DEF LocalsOK, Open
  <2> QED BY <2>1, <2>3, <2>4, ShapeMove
<1>8. ASSUME UNCHANGED vars
      PROVE  Shape'
  BY <1>8, ShapeRows DEF vars, RowsTyped, Referred, ReferrersStay, history
<1> QED BY <1>1, <1>2, <1>3, <1>4, <1>5, <1>6, <1>7, <1>8 DEF Next, Step

---------------------------------------------------------------------------
(* Ledger: the points of an account *)

\* The numbers that the ledger is about.
LEMMA NumbersTyped ==
  ASSUME Shape, NEW t \in Purchases, NEW u \in Users
  PROVE  /\ tx[t].mine[u] \in Nat /\ tx[t].added[u] \in Nat /\ tx[t].read \in Nat
         /\ earned[u] \in Nat /\ account[u].points \in Nat
  BY DEF Shape, TypeOK

LEMMA HoldsNothing ==
  ASSUME Shape, NEW t \in Purchases, NEW u \in Users, ~Holds(t, u)
  PROVE  tx[t].added[u] = 0 /\ earned[u] + tx[t].added[u] = earned[u]
<1>1. tx[t].added[u] \in Nat /\ earned[u] \in Nat
  BY NumbersTyped
<1> QED BY <1>1 DEF Holds

\* A purchase holds no more accounts than before, and the tables stay as they are.
LEMMA LedgerMove ==
  ASSUME Shape, Ledger, NEW t \in Purchases, Alone(t), UNCHANGED <<account, earned, raced>>,
         \A u \in Users : Holds(t, u)' => Holds(t, u), BalanceOK(t)'
  PROVE  Ledger'
<1>1. PointsMatchLedger'
  BY DEF Ledger, PointsMatchLedger
<1>2. \A s \in Purchases, u \in Users : Holds(s, u)' => Holds(s, u)
  BY DEF Alone, Holds
<1>3. Exclusive'
  BY <1>2 DEF Ledger, Exclusive
<1>4. ASSUME NEW s \in Purchases, s # t
      PROVE  BalanceOK(s)'
  <2>1. tx'[s] = tx[s] /\ BalanceOK(s)
    BY <1>4 DEF Alone, Ledger
  <2> QED BY <2>1 DEF BalanceOK, Sums, Holds
<1> QED BY <1>1, <1>3, <1>4 DEF Ledger

\* The same, when what it has read and written stays as it is.
LEMMA LedgerStay ==
  ASSUME Shape, Ledger, NEW t \in Purchases, Alone(t), UNCHANGED <<account, earned, raced>>,
         tx'[t].added = tx[t].added, tx'[t].mine = tx[t].mine, tx'[t].pc # "write"
  PROVE  Ledger'
<1>1. BalanceOK(t)
  BY DEF Ledger
<1>2. BalanceOK(t)' /\ \A u \in Users : Holds(t, u)' => Holds(t, u)
  BY <1>1 DEF BalanceOK, Sums, Holds
<1> QED BY <1>2, LedgerMove

LEMMA LedgerClose ==
  ASSUME Shape, Ledger, NEW t \in Purchases, Close(t), UNCHANGED <<account, earned, raced>>
  PROVE  Ledger'
<1>1. Alone(t) /\ tx'[t].pc = "done" /\ tx'[t].added = Zero
  BY CloseUpdate
<1>2. \A u \in Users : ~Holds(t, u)'
  BY <1>1 DEF Holds, Zero
<1>3. BalanceOK(t)'
  BY <1>1, <1>2 DEF BalanceOK
<1> QED BY <1>1, <1>2, <1>3, LedgerMove

LEMMA LedgerRead ==
  ASSUME Shape, Ledger, NEW t \in Purchases, ReadPoints(t)
  PROVE  Ledger'
<1>1. /\ Alone(t) /\ tx[t].pc = "read" /\ tx'[t].added = tx[t].added /\ tx'[t].mine = tx[t].mine
      /\ tx'[t].todo = tx[t].todo
      /\ tx'[t].read = LET u == Head(tx[t].todo).user
                       IN  IF tx[t].added[u] > 0 THEN tx[t].mine[u] ELSE account[u].points
  BY ReadUpdate
<1>2. PICK u \in Users : u = Head(tx[t].todo).user
  BY <1>1, NextAdd DEF Adds
<1>3. UNCHANGED <<account, earned, raced>>
  BY DEF ReadPoints, history
<1>4. BalanceOK(t) /\ PointsMatchLedger
  BY DEF Ledger
<1>5. Sums(raced, u, tx'[t].read, earned[u] + tx[t].added[u])
  <2>1. CASE tx[t].added[u] > 0
    BY <1>1, <1>2, <1>4, <2>1 DEF BalanceOK, Holds
  <2>2. CASE ~(tx[t].added[u] > 0)
    <3>1. tx'[t].read = account[u].points /\ tx[t].added[u] = 0 /\ earned[u] \in Nat
      <4>1. tx[t].added[u] \in Nat /\ earned[u] \in Nat
        BY NumbersTyped
      <4>2. tx[t].added[u] = 0
        BY <2>2, <4>1
      <4>3. tx'[t].read = IF tx[t].added[u] > 0 THEN tx[t].mine[u] ELSE account[u].points
        BY <1>1, <1>2
      <4> QED BY <2>2, <4>1, <4>2, <4>3
    <3>2. account[u].points <= earned[u] /\ (u \notin raced => account[u].points = earned[u])
      <4>1. /\ account[u].points <= earned[u]
            /\ u \notin raced => account[u] = [points |-> earned[u], tier |-> TierOf(earned[u])]
        BY <1>4 DEF PointsMatchLedger
      <4> QED BY <4>1
    <3> QED BY <3>1, <3>2 DEF Sums
  <2> QED BY <2>1, <2>2
<1>6. \A v \in Users : Holds(t, v)' => Holds(t, v)
  BY <1>1 DEF Holds
<1>7. ASSUME NEW v \in Users, Holds(t, v)'
      PROVE  Sums(raced', v, tx'[t].mine[v], earned'[v] + tx'[t].added[v])
  BY <1>1, <1>3, <1>4, <1>7 DEF BalanceOK, Holds, Sums
<1>8. BalanceOK(t)'
  BY <1>1, <1>2, <1>3, <1>5, <1>7 DEF BalanceOK, Sums
<1> QED BY <1>1, <1>3, <1>6, <1>8, LedgerMove

LEMMA LedgerWrite ==
  ASSUME Shape, Ledger, NEW t \in Purchases, WritePoints(t)
  PROVE  Ledger'
<1>1. UNCHANGED <<account, earned, raced>>
  BY DEF WritePoints, history
<1>2. PICK u \in Users, n \in Nat \ {0} : u = Head(tx[t].todo).user /\ n = Head(tx[t].todo).points
  BY WriteUpdate DEF Adds
<1>3. /\ Alone(t) /\ tx[t].pc = "write" /\ tx'[t].pc # "write"
      /\ tx'[t].mine = [tx[t].mine EXCEPT ![u] = tx[t].read + n]
      /\ tx'[t].added = [tx[t].added EXCEPT ![u] = tx[t].added[u] + n]
  BY <1>2, WriteUpdate
<1>4. tx[t].mine \in [Users -> Nat] /\ tx[t].added \in [Users -> Nat] /\ tx[t].read \in Nat
  BY DEF Shape, TypeOK
<1>5. /\ tx'[t].mine[u] = tx[t].read + n /\ tx'[t].added[u] = tx[t].added[u] + n
      /\ \A v \in Users \ {u} : tx'[t].mine[v] = tx[t].mine[v] /\ tx'[t].added[v] = tx[t].added[v]
  BY <1>3, <1>4
<1>6. PointsMatchLedger'
  BY <1>1 DEF Ledger, PointsMatchLedger
<1>7. \A s \in Purchases \ {t} : ~Holds(s, u)
  BY <1>2, <1>3 DEF WritePoints, WaitsFor
<1>8. Exclusive'
  <2>1. \A s \in Purchases, v \in Users : Holds(s, v)' => Holds(s, v) \/ (s = t /\ v = u)
    BY <1>3, <1>5 DEF Alone, Holds
  <2> QED BY <1>7, <2>1 DEF Ledger, Exclusive
<1>9. ASSUME NEW s \in Purchases
      PROVE  BalanceOK(s)'
  <2>1. BalanceOK(s)
    BY DEF Ledger
  <2>2. CASE s # t
    <3>1. tx'[s] = tx[s]
      BY <1>3, <2>2 DEF Alone
    <3> QED BY <1>1, <2>1, <3>1 DEF BalanceOK, Sums, Holds
  <2>3. CASE s = t
    <3>1. Sums(raced, u, tx[t].read, earned[u] + tx[t].added[u]) /\ earned[u] \in Nat
      BY <1>2, <1>3, <2>1, <2>3, NumbersTyped DEF BalanceOK
    <3>2. Sums(raced, u, tx[t].read + n, earned[u] + (tx[t].added[u] + n))
      BY <1>4, <3>1 DEF Sums
    <3>3. ASSUME NEW v \in Users, tx'[t].added[v] > 0
          PROVE  Sums(raced, v, tx'[t].mine[v], earned[v] + tx'[t].added[v])
      <4>1. CASE v = u
        BY <1>5, <3>2, <4>1
      <4>2. CASE v # u
        BY <1>5, <2>1, <2>3, <3>3, <4>2 DEF BalanceOK, Holds
      <4> QED BY <4>1, <4>2
    <3> QED BY <1>1, <1>3, <2>3, <3>3 DEF BalanceOK, Sums, Holds
  <2> QED BY <2>2, <2>3
<1> QED BY <1>6, <1>8, <1>9 DEF Ledger

LEMMA LedgerCommit ==
  ASSUME Shape, Ledger, NEW t \in Purchases, Commit(t)
  PROVE  Ledger'
<1>1. Alone(t) /\ tx'[t].pc = "done" /\ tx'[t].added = Zero
  BY CloseUpdate DEF Commit
<1>2. ASSUME NEW v \in Users
      PROVE  /\ account'[v] = IF Holds(t, v)
                              THEN [points |-> tx[t].mine[v], tier |-> TierOf(tx[t].mine[v])]
                              ELSE account[v]
             /\ earned'[v] = earned[v] + tx[t].added[v]
             /\ v \in raced => v \in raced'
             /\ \A s \in Purchases : Holds(t, v) /\ WaitsFor(s, t) /\ Head(tx[s].todo).user = v =>
                  v \in raced'
  BY DEF Commit
<1>3. ASSUME NEW v \in Users
      PROVE  /\ account'[v].points <= earned'[v]
             /\ v \notin raced' =>
                  account'[v] = [points |-> earned'[v], tier |-> TierOf(earned'[v])]
  <2>1. /\ account[v].points <= earned[v]
        /\ v \notin raced => account[v] = [points |-> earned[v], tier |-> TierOf(earned[v])]
    BY DEF Ledger, PointsMatchLedger
  <2>2. CASE Holds(t, v)
    <3>1. Sums(raced, v, tx[t].mine[v], earned[v] + tx[t].added[v])
      BY <2>2 DEF Ledger, BalanceOK
    <3>2. account'[v] = [points |-> tx[t].mine[v], tier |-> TierOf(tx[t].mine[v])]
      BY <1>2, <2>2
    <3>3. earned'[v] = earned[v] + tx[t].added[v] /\ (v \notin raced' => v \notin raced)
      BY <1>2
    <3>4. account'[v].points = tx[t].mine[v]
      BY <3>2
    <3>5. account'[v].points <= earned'[v]
      BY <3>1, <3>3, <3>4 DEF Sums
    <3>6. v \notin raced' => tx[t].mine[v] = earned'[v]
      BY <3>1, <3>3 DEF Sums
    <3> QED BY <3>2, <3>5, <3>6
  <2>3. CASE ~Holds(t, v)
    <3>1. earned'[v] = earned[v]
      BY <1>2, <2>3, HoldsNothing
    <3> QED BY <1>2, <2>1, <2>3, <3>1
  <2> QED BY <2>2, <2>3
<1>4. PointsMatchLedger'
  BY <1>3 DEF PointsMatchLedger
<1>5. \A u \in Users : ~Holds(t, u)'
  BY <1>1 DEF Holds, Zero
<1>6. Exclusive'
  <2>1. \A s \in Purchases, v \in Users : Holds(s, v)' => Holds(s, v)
    BY <1>1, <1>5 DEF Alone, Holds
  <2> QED BY <2>1 DEF Ledger, Exclusive
<1>7. ASSUME NEW s \in Purchases
      PROVE  BalanceOK(s)'
  <2>1. CASE s = t
    BY <1>1, <1>5, <2>1 DEF BalanceOK
  <2>2. CASE s # t
    <3>1. tx'[s] = tx[s] /\ BalanceOK(s)
      BY <1>1, <2>2 DEF Alone, Ledger
    <3>2. ASSUME NEW v \in Users, Holds(s, v)
          PROVE  Sums(raced', v, tx'[s].mine[v], earned'[v] + tx'[s].added[v])
      <4>1. ~Holds(t, v)
        BY <2>2, <3>2 DEF Ledger, Exclusive
      <4>2. earned'[v] = earned[v]
        BY <1>2, <4>1, HoldsNothing
      <4>3. Sums(raced, v, tx[s].mine[v], earned[v] + tx[s].added[v])
        BY <3>1, <3>2 DEF BalanceOK
      <4> QED BY <1>2, <3>1, <4>2, <4>3 DEF Sums
    <3>3. ASSUME NEW v \in Users, tx[s].pc = "write", v = Head(tx[s].todo).user
          PROVE  Sums(raced', v, tx'[s].read, earned'[v] + tx'[s].added[v])
      <4>1. Sums(raced, v, tx[s].read, earned[v] + tx[s].added[v])
        BY <3>1, <3>3 DEF BalanceOK
      <4>2. CASE ~Holds(t, v)
        <5>1. earned'[v] = earned[v]
          BY <1>2, <4>2, HoldsNothing
        <5> QED BY <1>2, <3>1, <4>1, <5>1 DEF Sums
      <4>3. CASE Holds(t, v)
        <5>1. v \in raced'
          BY <1>2, <2>2, <3>3, <4>3 DEF WaitsFor
        <5>2. earned'[v] = earned[v] + tx[t].added[v]
          BY <1>2
        <5>3. /\ tx[t].added[v] \in Nat /\ tx[s].added[v] \in Nat /\ earned[v] \in Nat
              /\ tx[s].read \in Nat
          BY NumbersTyped
        <5> QED BY <3>1, <4>1, <5>1, <5>2, <5>3 DEF Sums
      <4> QED BY <4>2, <4>3
    <3>4. tx[s].pc = "write" => Head(tx[s].todo).user \in Users
      BY NextAdd DEF Adds
    <3> QED BY <3>1, <3>2, <3>3, <3>4 DEF BalanceOK, Holds, Sums
  <2> QED BY <2>1, <2>2
<1> QED BY <1>4, <1>6, <1>7 DEF Ledger

LEMMA TierOfNothing == TierOf(0) = "BRONZE"
<1>1. ~(0 >= GoldPoints) /\ 0 \notin SilverPoints..(GoldPoints - 1)
  BY RewardsAssumption
<1> QED BY <1>1 DEF TierOf

LEMMA LedgerInit == Init => Ledger
<1> SUFFICES ASSUME Init PROVE Ledger
  OBVIOUS
<1>1. \A t \in Purchases : tx[t].pc = "idle" /\ tx[t].added = Zero
  BY IdleFields DEF Init
<1>2. \A t \in Purchases, u \in Users : ~Holds(t, u)
  BY <1>1 DEF Holds, Zero
<1>3. ASSUME NEW u \in Users
      PROVE  /\ account[u].points <= earned[u]
             /\ account[u] = [points |-> earned[u], tier |-> TierOf(earned[u])]
  <2>1. account[u] = [points |-> 0, tier |-> "BRONZE"] /\ earned[u] = 0
    BY DEF Init, Zero
  <2> QED BY <2>1, TierOfNothing
<1>4. PointsMatchLedger
  BY <1>3 DEF PointsMatchLedger
<1>5. \A t \in Purchases : BalanceOK(t)
  BY <1>1, <1>2 DEF BalanceOK
<1> QED BY <1>2, <1>4, <1>5 DEF Ledger, Exclusive

LEMMA LedgerFrame ==
  ASSUME Ledger, UNCHANGED <<account, earned, raced, tx>>
  PROVE  Ledger'
  BY DEF Ledger, PointsMatchLedger, Exclusive, Holds, BalanceOK, Sums

LEMMA LedgerNext ==
  ASSUME Shape, Ledger, [Next]_vars
  PROVE  Ledger'
<1>1. ASSUME NEW u \in Users, NEW c \in Users \cup {NoUser}, Join(u, c) \/ RegisterReferral(u)
      PROVE  Ledger'
  BY <1>1, LedgerFrame DEF Join, RegisterReferral, history
<1>2. ASSUME NEW t \in Purchases, NEW u \in Users, NEW amount \in Amounts,
             BeginPurchase(t, u, amount)
      PROVE  Ledger'
  <2>1. UNCHANGED <<account, earned, raced>>
    BY <1>2 DEF BeginPurchase, history
  <2>2. /\ Alone(t) /\ tx'[t].pc \in {"read", "referral"}
        /\ tx'[t].added = tx[t].added /\ tx'[t].mine = tx[t].mine
    BY <1>2, BeginUpdate
  <2> QED BY <2>1, <2>2, LedgerStay
<1>3. ASSUME NEW t \in Purchases, ReadReferral(t)
      PROVE  Ledger'
  <2>1. UNCHANGED <<account, earned, raced>> /\ tx[t].pc = "referral" /\ tx[t].buyer \in Users
    BY <1>3 DEF ReadReferral, Shape, LocalsOK, Open
  <2>2. CASE tx' = [tx EXCEPT ![t].pc = "commit"]
    <3>1. /\ Alone(t) /\ tx'[t].pc = "commit" /\ tx'[t].added = tx[t].added
          /\ tx'[t].mine = tx[t].mine
      BY <2>2, NoRewardUpdate
    <3> QED BY <2>1, <3>1, LedgerStay
  <2>3. CASE referral[tx[t].buyer].status = "PENDING" /\ Reward(t, referral[tx[t].buyer].referrer)
    <3>1. PICK w \in Users : w = referral[tx[t].buyer].referrer
      BY <2>1, <2>3 DEF Shape, Referred
    <3>2. /\ Alone(t) /\ tx'[t].pc = "read" /\ tx'[t].added = tx[t].added
          /\ tx'[t].mine = tx[t].mine
      BY <2>1, <2>3, <3>1, RewardUpdate
    <3> QED BY <2>1, <3>2, LedgerStay
  <2> QED BY <1>3, <2>2, <2>3 DEF ReadReferral
<1>4. ASSUME NEW t \in Purchases, Rollback(t) \/ DeadlockVictim(t)
      PROVE  Ledger'
  BY <1>4, LedgerClose DEF Rollback, DeadlockVictim, history
<1>5. ASSUME UNCHANGED vars
      PROVE  Ledger'
  BY <1>5, LedgerFrame DEF vars, history
<1> QED BY <1>1, <1>2, <1>3, <1>4, <1>5, LedgerRead, LedgerWrite, LedgerCommit DEF Next, Step

---------------------------------------------------------------------------
(* Paid: the rewards of a referral *)

LEMMA PayersFinite ==
  ASSUME NEW u
  PROVE  IsFiniteSet(Payers(u)) /\ Cardinality(Payers(u)) \in Nat
<1>1. Payers(u) \subseteq Purchases /\ IsFiniteSet(Purchases)
  BY RewardsAssumption DEF Payers
<1> QED BY <1>1, FS_Subset, FS_CardinalityType

\* No payment begins or ends.
LEMMA PaidMove ==
  ASSUME Paid, UNCHANGED <<rewarded, rivals>>,
         \A u \in Users : (referral'[u].status = "REWARDED") <=> (referral[u].status = "REWARDED"),
         \A u \in Users : Payers(u)' = Payers(u)
  PROVE  Paid'
  BY DEF Paid, PayOK

LEMMA PaidStay ==
  ASSUME Shape, Paid, NEW t \in Purchases, Alone(t), UNCHANGED <<rewarded, rivals, referral>>,
         tx'[t].pays = tx[t].pays, ~tx[t].pays \/ tx'[t].buyer = tx[t].buyer
  PROVE  Paid'
<1>1. \A s \in Purchases : tx'[s].pays = tx[s].pays /\ (tx[s].pays => tx'[s].buyer = tx[s].buyer)
  BY DEF Alone
<1>2. \A u \in Users : Payers(u)' = Payers(u)
  BY <1>1 DEF Payers
<1> QED BY <1>2, PaidMove

\* A transaction that fails pays nothing.
LEMMA PaidClose ==
  ASSUME Shape, Paid, NEW t \in Purchases, Close(t), UNCHANGED <<rewarded, rivals, referral>>
  PROVE  Paid'
<1>1. Alone(t) /\ tx'[t].pays = FALSE
  BY CloseUpdate
<1>2. ASSUME NEW u \in Users
      PROVE  PayOK(u)'
  <2>1. Payers(u)' \subseteq Payers(u)
    BY <1>1 DEF Payers, Alone
  <2>2. Cardinality(Payers(u)') <= Cardinality(Payers(u)) /\ Cardinality(Payers(u)') \in Nat
    BY <2>1, PayersFinite, FS_Subset, FS_CardinalityType
  <2>3. PayOK(u) /\ rewarded[u] \in Nat /\ rivals[u] \in Nat
    BY DEF Paid, Shape, TypeOK
  <2> QED BY <2>2, <2>3, PayersFinite DEF PayOK
<1> QED BY <1>2 DEF Paid

LEMMA PaidReward ==
  ASSUME Shape, Paid, NEW t \in Purchases, tx[t].pc = "referral",
         referral[tx[t].buyer].status = "PENDING", NEW w \in Users, Reward(t, w),
         UNCHANGED <<rewarded, referral>>
  PROVE  Paid'
<1>1. PICK b \in Users : b = tx[t].buyer
  BY DEF Shape, LocalsOK, Open
<1>2. Alone(t) /\ tx'[t].pays = TRUE /\ tx'[t].buyer = b /\ ~tx[t].pays
  <2>1. ~tx[t].pays
    BY DEF Shape, LocalsOK
  <2> QED BY <1>1, <2>1, RewardUpdate
<1>3. rivals' = IF \E s \in Purchases : tx[s].pays /\ tx[s].buyer = b
                THEN [rivals EXCEPT ![b] = rivals[b] + 1] ELSE rivals
  BY <1>1 DEF Reward
<1>4. rivals \in [Users -> Nat] /\ rewarded \in [Users -> Nat]
  BY DEF Shape, TypeOK
<1>5. ASSUME NEW u \in Users
      PROVE  PayOK(u)'
  <2>1. PayOK(u)
    BY DEF Paid
  <2>2. CASE u # b
    <3>1. Payers(u)' = Payers(u)
      BY <1>2, <2>2 DEF Payers, Alone
    <3>2. rivals'[u] = rivals[u]
      BY <1>3, <1>4, <2>2
    <3> QED BY <2>1, <3>1, <3>2 DEF PayOK
  <2>3. CASE u = b
    <3>1. Payers(u)' = Payers(u) \cup {t} /\ t \notin Payers(u)
      BY <1>2, <2>3 DEF Payers, Alone
    <3>2. Cardinality(Payers(u)') = Cardinality(Payers(u)) + 1
      BY <3>1, PayersFinite, FS_AddElement
    <3>3. rewarded[u] = 0 /\ rewarded'[u] = 0
      BY <1>1, <1>4, <2>1, <2>3 DEF PayOK
    <3>4. rewarded'[u] + Cardinality(Payers(u)') <= 1 + rivals'[u]
      <4>1. CASE Payers(u) = {}
        <5>1. Cardinality(Payers(u)') = 1
          BY <3>2, <4>1, FS_EmptySet
        <5>2. rivals'[u] \in Nat
          BY <1>3, <1>4
        <5> QED BY <3>3, <5>1, <5>2
      <4>2. CASE Payers(u) # {}
        <5>1. \E s \in Purchases : tx[s].pays /\ tx[s].buyer = b
          BY <2>3, <4>2 DEF Payers
        <5>2. rivals'[u] = rivals[u] + 1
          BY <1>3, <1>4, <2>3, <5>1
        <5>3. rewarded[u] + Cardinality(Payers(u)) <= 1 + rivals[u]
          BY <2>1 DEF PayOK
        <5> QED BY <1>4, <3>2, <3>3, <5>2, <5>3, PayersFinite
      <4> QED BY <4>1, <4>2
    <3> QED BY <2>1, <3>3, <3>4 DEF PayOK
  <2> QED BY <2>2, <2>3
<1> QED BY <1>5 DEF Paid

LEMMA PaidCommit ==
  ASSUME Shape, Paid, NEW t \in Purchases, Commit(t), tx[t].pays
  PROVE  Paid'
<1>1. PICK b \in Users : b = tx[t].buyer
  BY DEF Shape, LocalsOK, Open, Commit
<1>2. Alone(t) /\ tx'[t].pays = FALSE
  BY CloseUpdate DEF Commit
<1>3. rivals \in [Users -> Nat] /\ rewarded \in [Users -> Nat]
  BY DEF Shape, TypeOK
<1>4. /\ rivals' = rivals /\ rewarded' = [rewarded EXCEPT ![b] = rewarded[b] + 1]
      /\ referral'[b].status = "REWARDED"
      /\ \A u \in Users \ {b} : referral'[u] = referral[u]
  <2>1. referral \in [Users -> [referrer : Users \cup {NoUser},
                                 status : {"NONE", "PENDING", "REWARDED"}]]
    BY DEF Shape, TypeOK
  <2>2. referral' = [referral EXCEPT ![b] = [referral[b] EXCEPT !.status = "REWARDED"]]
    BY <1>1, <2>1 DEF Commit
  <2>3. rivals' = rivals /\ rewarded' = [rewarded EXCEPT ![b] = rewarded[b] + 1]
    BY <1>1 DEF Commit
  <2> QED BY <2>1, <2>2, <2>3
<1>5. ASSUME NEW u \in Users
      PROVE  PayOK(u)'
  <2>1. PayOK(u)
    BY DEF Paid
  <2>2. CASE u # b
    <3>1. Payers(u)' = Payers(u)
      BY <1>1, <1>2, <2>2 DEF Payers, Alone
    <3>2. rewarded'[u] = rewarded[u] /\ referral'[u] = referral[u]
      BY <1>3, <1>4, <2>2
    <3> QED BY <1>4, <2>1, <3>1, <3>2 DEF PayOK
  <2>3. CASE u = b
    <3>1. Payers(u)' = Payers(u) \ {t} /\ t \in Payers(u)
      BY <1>1, <1>2, <2>3 DEF Payers, Alone
    <3>2. Cardinality(Payers(u)') = Cardinality(Payers(u)) - 1
      BY <3>1, PayersFinite, FS_RemoveElement
    <3>3. rewarded'[u] = rewarded[u] + 1 /\ referral'[u].status = "REWARDED"
      BY <1>3, <1>4, <2>3
    <3>4. rewarded[u] + Cardinality(Payers(u)) <= 1 + rivals[u]
      BY <2>1 DEF PayOK
    <3>5. rewarded'[u] + Cardinality(Payers(u)') <= 1 + rivals'[u] /\ rewarded'[u] > 0
      BY <1>3, <1>4, <3>2, <3>3, <3>4, PayersFinite
    <3> QED BY <3>3, <3>5 DEF PayOK
  <2> QED BY <2>2, <2>3
<1> QED BY <1>5 DEF Paid

LEMMA PaidInit == Init => Paid
<1> SUFFICES ASSUME Init, NEW u \in Users PROVE PayOK(u)
  BY DEF Paid
<1>1. Payers(u) = {}
  BY IdleFields DEF Init, Payers
<1>2. Cardinality(Payers(u)) = 0
  BY <1>1, FS_EmptySet
<1>3. rewarded[u] = 0 /\ rivals[u] = 0 /\ referral[u].status = "NONE"
  BY DEF Init, Zero, NoReferral
<1> QED BY <1>2, <1>3 DEF PayOK

LEMMA PaidNext ==
  ASSUME Shape, Paid, [Next]_vars
  PROVE  Paid'
<1>1. ASSUME NEW u \in Users, NEW c \in Users \cup {NoUser}, Join(u, c)
      PROVE  Paid'
  BY <1>1, PaidMove DEF Join, Payers, history
<1>2. ASSUME NEW u \in Users, RegisterReferral(u)
      PROVE  Paid'
  <2>1. UNCHANGED <<rewarded, rivals, tx>>
    BY <1>2 DEF RegisterReferral, history
  <2>2. \A v \in Users : (referral'[v].status = "REWARDED") <=> (referral[v].status = "REWARDED")
    <3>1. CASE referral' = referral
      BY <3>1
    <3>2. CASE /\ referral[u] = NoReferral
               /\ referral' = [referral EXCEPT ![u] = [referrer |-> code[u], status |-> "PENDING"]]
      BY <3>2 DEF NoReferral, Shape, TypeOK
    <3> QED BY <1>2, <3>1, <3>2 DEF RegisterReferral
  <2>3. \A v \in Users : Payers(v)' = Payers(v)
    BY <2>1 DEF Payers
  <2> QED BY <2>1, <2>2, <2>3, PaidMove
<1>3. ASSUME NEW t \in Purchases, NEW u \in Users, NEW amount \in Amounts,
             BeginPurchase(t, u, amount)
      PROVE  Paid'
  <2>1. UNCHANGED <<rewarded, rivals, referral>>
    BY <1>3 DEF BeginPurchase, history
  <2>2. Alone(t) /\ tx[t].pc = "idle" /\ tx'[t].pays = tx[t].pays
    BY <1>3, BeginUpdate
  <2>3. ~tx[t].pays
    BY <2>2 DEF Shape, LocalsOK, Open
  <2> QED BY <2>1, <2>2, <2>3, PaidStay
<1>4. ASSUME NEW t \in Purchases, ReadPoints(t)
      PROVE  Paid'
  <2>1. UNCHANGED <<rewarded, rivals, referral>>
    BY <1>4 DEF ReadPoints, history
  <2>2. Alone(t) /\ tx'[t].pays = tx[t].pays /\ tx'[t].buyer = tx[t].buyer
    BY <1>4, ReadUpdate
  <2> QED BY <2>1, <2>2, PaidStay
<1>5. ASSUME NEW t \in Purchases, WritePoints(t)
      PROVE  Paid'
  <2>1. UNCHANGED <<rewarded, rivals, referral>>
    BY <1>5 DEF WritePoints, history
  <2>2. Alone(t) /\ tx'[t].pays = tx[t].pays /\ tx'[t].buyer = tx[t].buyer
    BY <1>5, WriteUpdate
  <2> QED BY <2>1, <2>2, PaidStay
<1>6. ASSUME NEW t \in Purchases, ReadReferral(t)
      PROVE  Paid'
  <2>1. UNCHANGED <<rewarded, referral>> /\ tx[t].pc = "referral" /\ tx[t].buyer \in Users
    BY <1>6 DEF ReadReferral, Shape, LocalsOK, Open
  <2>2. CASE tx' = [tx EXCEPT ![t].pc = "commit"] /\ UNCHANGED rivals
    <3>1. Alone(t) /\ tx'[t].pays = tx[t].pays /\ tx'[t].buyer = tx[t].buyer
      BY <2>2, NoRewardUpdate
    <3> QED BY <2>1, <2>2, <3>1, PaidStay
  <2>3. CASE referral[tx[t].buyer].status = "PENDING" /\ Reward(t, referral[tx[t].buyer].referrer)
    <3>1. PICK w \in Users : w = referral[tx[t].buyer].referrer
      BY <2>1, <2>3 DEF Shape, Referred
    <3> QED BY <2>1, <2>3, <3>1, PaidReward
  <2> QED BY <1>6, <2>2, <2>3 DEF ReadReferral
<1>7. ASSUME NEW t \in Purchases, Commit(t)
      PROVE  Paid'
  <2>1. CASE tx[t].pays
    BY <1>7, <2>1, PaidCommit
  <2>2. CASE ~tx[t].pays
    <3>1. Close(t) /\ UNCHANGED <<rewarded, rivals, referral>>
      BY <1>7, <2>2 DEF Commit
    <3> QED BY <3>1, PaidClose
  <2> QED BY <2>1, <2>2
<1>8. ASSUME NEW t \in Purchases, Rollback(t) \/ DeadlockVictim(t)
      PROVE  Paid'
  BY <1>8, PaidClose DEF Rollback, DeadlockVictim, history
<1>9. ASSUME UNCHANGED vars
      PROVE  Paid'
  BY <1>9, PaidMove DEF vars, history, Payers
<1> QED BY <1>1, <1>2, <1>3, <1>4, <1>5, <1>6, <1>7, <1>8, <1>9 DEF Next, Step

---------------------------------------------------------------------------
(* Order: who referred whom, and which account is locked next *)

\* Referrers and codes are those there were, of the same user.
LEMMA RankedStay ==
  ASSUME Ranked,
         \A u \in Users : \A w \in Users :
           w \in {referral'[u].referrer, code'[u]} => w \in {referral[u].referrer, code[u]}
  PROVE  Ranked'
<1>1. PICK max \in Nat : \E rank \in [Users -> 0..max] : Numbers(rank)
  BY DEF Ranked
<1>2. PICK rank \in [Users -> 0..max] : Numbers(rank)
  BY <1>1
<1>3. Numbers(rank)'
  BY <1>2 DEF Numbers
<1> QED BY <1>3 DEF Ranked

\* Who joins gets a number larger than all others.
LEMMA RankedJoin ==
  ASSUME Shape, Members, Ranked, NEW u \in Users, NEW c \in Users \cup {NoUser}, Join(u, c)
  PROVE  Ranked'
<1>1. PICK max \in Nat : \E rank \in [Users -> 0..max] : Numbers(rank)
  BY DEF Ranked
<1>2. PICK rank \in [Users -> 0..max] : Numbers(rank)
  BY <1>1
<1>3. PICK next \in [Users -> 0..(max + 1)] : next = [rank EXCEPT ![u] = max + 1]
  <2>1. max + 1 \in 0..(max + 1) /\ \A v \in Users : rank[v] \in 0..(max + 1)
    OBVIOUS
  <2>2. [rank EXCEPT ![u] = max + 1] \in [Users -> 0..(max + 1)]
    BY <2>1
  <2> QED BY <2>2
<1>4. next[u] = max + 1 /\ \A v \in Users \ {u} : next[v] = rank[v] /\ next[v] < next[u]
  BY <1>3
<1>5. /\ Unknown(u) /\ referral[u].referrer \notin Users /\ (c \in Users => c # u)
      /\ referral' = referral /\ code' = [code EXCEPT ![u] = c]
  BY RewardsAssumption DEF Join, Members, NoReferral
<1>6. code \in [Users -> Users \cup {NoUser}]
  BY DEF Shape, TypeOK
<1>7. Numbers(next)'
  <2>1. ASSUME NEW v \in Users, referral'[v].referrer \in Users
        PROVE  next[referral'[v].referrer] < next[v]
    <3>1. PICK w \in Users : w = referral[v].referrer /\ w = referral'[v].referrer
      BY <1>5, <2>1
    <3>2. w # u /\ v # u
      BY <1>5, <2>1, <3>1 DEF Unknown
    <3>3. rank[w] < rank[v]
      BY <1>2, <3>1 DEF Numbers
    <3> QED BY <1>4, <3>1, <3>2, <3>3
  <2>2. ASSUME NEW v \in Users, code'[v] \in Users
        PROVE  next[code'[v]] < next[v]
    <3>1. CASE v = u
      BY <1>4, <1>5, <1>6, <2>2, <3>1
    <3>2. CASE v # u
      <4>1. PICK w \in Users : w = code[v] /\ w = code'[v]
        BY <1>5, <1>6, <2>2, <3>2
      <4>2. w # u
        BY <1>5, <4>1 DEF Unknown
      <4>3. rank[w] < rank[v]
        BY <1>2, <4>1 DEF Numbers
      <4> QED BY <1>4, <3>2, <4>1, <4>2, <4>3
    <3> QED BY <3>1, <3>2
  <2> QED BY <2>1, <2>2 DEF Numbers
<1>8. max + 1 \in Nat
  OBVIOUS
<1> QED BY <1>7, <1>8 DEF Ranked

LEMMA StageMove ==
  ASSUME Shape, NEW t \in Purchases, \A s \in Purchases : StageOK(s),
         Alone(t), ReferrersStay, StageOK(t)'
  PROVE  \A s \in Purchases : StageOK(s)'
<1> SUFFICES ASSUME NEW s \in Purchases, s # t PROVE StageOK(s)'
  OBVIOUS
<1>1. StageOK(s) /\ tx'[s] = tx[s]
  BY DEF Alone
<1>2. tx[s].pays => tx[s].buyer \in Users /\ Referrer(s) \in Users
  BY DEF Shape, LocalsOK, Referrer
<1>3. tx[s].pays => Referrer(s)' = Referrer(s)
  BY <1>1, <1>2 DEF ReferrersStay, Referrer
<1> QED BY <1>1, <1>3 DEF StageOK, Holds, First, Second

LEMMA StageFrame ==
  ASSUME Shape, \A s \in Purchases : StageOK(s), UNCHANGED tx, ReferrersStay
  PROVE  \A s \in Purchases : StageOK(s)'
<1> SUFFICES ASSUME NEW s \in Purchases PROVE StageOK(s)'
  OBVIOUS
<1>1. StageOK(s) /\ tx'[s] = tx[s]
  OBVIOUS
<1>2. tx[s].pays => tx[s].buyer \in Users /\ Referrer(s) \in Users
  BY DEF Shape, LocalsOK, Referrer
<1>3. tx[s].pays => Referrer(s)' = Referrer(s)
  BY <1>1, <1>2 DEF ReferrersStay, Referrer
<1> QED BY <1>1, <1>3 DEF StageOK, Holds, First, Second

LEMMA StageWrite ==
  ASSUME Shape, NEW t \in Purchases, StageOK(t), WritePoints(t), UNCHANGED referral
  PROVE  StageOK(t)'
<1>1. PICK u \in Users, n \in Nat \ {0} : u = Head(tx[t].todo).user /\ n = Head(tx[t].todo).points
  BY WriteUpdate DEF Adds
<1>2. /\ Alone(t) /\ tx[t].pc = "write"
      /\ tx'[t].added = [tx[t].added EXCEPT ![u] = tx[t].added[u] + n]
      /\ tx'[t].todo = Tail(tx[t].todo) /\ tx'[t].buyer = tx[t].buyer
      /\ tx'[t].pays = tx[t].pays
      /\ tx'[t].pc = IF Len(tx[t].todo) > 1 THEN "read"
                     ELSE IF tx[t].pays THEN "commit" ELSE "referral"
  BY <1>1, WriteUpdate
<1>3. tx[t].added \in [Users -> Nat] /\ tx[t].pays \in BOOLEAN
  BY DEF Shape, TypeOK
<1>4. /\ Holds(t, u)'
      /\ \A v \in Users : Holds(t, v)' => Holds(t, v) \/ v = u
  BY <1>2, <1>3 DEF Holds
<1>5. /\ u = tx[t].todo[1].user /\ Len(tx[t].todo) \in {1, 2}
      /\ Len(tx'[t].todo) = Len(tx[t].todo) - 1
      /\ Len(tx[t].todo) = 2 => tx'[t].todo[1] = tx[t].todo[2]
  BY <1>1, <1>2, NextAdd
<1>6. Referrer(t)' = Referrer(t)
  BY <1>2 DEF Referrer
<1>7. CASE Len(tx[t].todo) = 1
  <2>1. tx'[t].pc = IF tx[t].pays THEN "commit" ELSE "referral"
    BY <1>2, <1>7
  <2>2. tx'[t].pc = "referral" => \A v \in Users : Holds(t, v)' => v = tx'[t].buyer
    BY <1>2, <1>4, <1>5, <2>1 DEF StageOK
  <2>3. tx'[t].pc \in {"commit", "referral"}
    BY <2>1
  <2> QED BY <2>2, <2>3 DEF StageOK
<1>8. CASE Len(tx[t].todo) = 2
  <2>1. tx'[t].pc = "read" /\ Len(tx'[t].todo) = 1
    BY <1>2, <1>5, <1>8
  <2>2. tx[t].pays /\ First(t)
    <3>1. ~tx[t].pays => Len(tx[t].todo) = 1
      BY <1>2 DEF StageOK
    <3>2. tx[t].pays
      BY <1>8, <3>1
    <3> QED BY <1>8, <3>2 DEF First
  <2>3. /\ u = Referrer(t) /\ tx'[t].todo[1].user = tx'[t].buyer
        /\ \A v \in Users : Holds(t, v) => v = tx[t].buyer
    BY <1>2, <1>5, <1>8, <2>2 DEF StageOK
  <2>4. tx'[t].pays /\ ~First(t)'
    <3>1. tx'[t].pays
      BY <1>2, <2>2
    <3>2. ~(Len(tx'[t].todo) = 2)
      BY <2>1
    <3> QED BY <3>1, <3>2 DEF First
  <2> QED BY <1>2, <1>4, <1>6, <2>1, <2>3, <2>4 DEF StageOK
<1> QED BY <1>5, <1>7, <1>8

LEMMA OrderInit == Init => Order
<1> SUFFICES ASSUME Init PROVE Order
  OBVIOUS
<1>1. \A u \in Users : /\ code[u] = NoUser /\ referral[u] = NoReferral
                       /\ referral[u].referrer = NoUser
  BY DEF Init, NoReferral
<1>2. Members
  BY <1>1, RewardsAssumption DEF Members, Unknown
<1>3. Ranked
  <2>1. 0 \in 0..0 /\ 0 \in Nat
    OBVIOUS
  <2>2. [u \in Users |-> 0] \in [Users -> 0..0]
    BY <2>1
  <2>3. Numbers([u \in Users |-> 0])
    BY <1>1, RewardsAssumption DEF Numbers
  <2> QED BY <2>1, <2>2, <2>3 DEF Ranked
<1>4. \A t \in Purchases : StageOK(t)
  BY IdleFields DEF Init, StageOK
<1> QED BY <1>2, <1>3, <1>4 DEF Order

LEMMA MembersStay ==
  ASSUME Members, UNCHANGED <<signup, code>>,
         \A u \in Users : referral'[u].referrer = referral[u].referrer,
         \A u \in Users : signup[u] = "new" => referral'[u] = referral[u]
  PROVE  Members'
  BY DEF Members, Unknown

\* A purchase reads or writes points, or reads the referral.
LEMMA OrderMove ==
  ASSUME Shape, Order, NEW t \in Purchases, Alone(t), UNCHANGED <<signup, code, referral>>,
         StageOK(t)'
  PROVE  Order'
<1>1. ReferrersStay
  BY DEF ReferrersStay
<1>2. \A s \in Purchases : StageOK(s)'
  BY <1>1, StageMove DEF Order
<1>3. Members' /\ Ranked'
  BY MembersStay, RankedStay DEF Order
<1> QED BY <1>2, <1>3 DEF Order

LEMMA OrderReadReferral ==
  ASSUME Shape, Order, NEW t \in Purchases, ReadReferral(t)
  PROVE  Order'
<1>1. /\ UNCHANGED <<signup, code, referral>> /\ tx[t].pc = "referral" /\ tx[t].buyer \in Users
      /\ StageOK(t)
  BY DEF ReadReferral, Shape, LocalsOK, Open, Order
<1>2. CASE tx' = [tx EXCEPT ![t].pc = "commit"]
  <2>1. Alone(t) /\ tx'[t].pc = "commit"
    BY <1>2, NoRewardUpdate
  <2>2. StageOK(t)'
    BY <2>1 DEF StageOK
  <2> QED BY <1>1, <2>1, <2>2, OrderMove
<1>3. CASE referral[tx[t].buyer].status = "PENDING" /\ Reward(t, referral[tx[t].buyer].referrer)
  <2>1. PICK w \in Users : w = referral[tx[t].buyer].referrer
    BY <1>1, <1>3 DEF Shape, Referred
  <2>2. /\ Alone(t) /\ tx'[t].pc = "read" /\ tx'[t].pays = TRUE /\ tx'[t].buyer = tx[t].buyer
        /\ tx'[t].added = tx[t].added /\ Len(tx'[t].todo) = 2
        /\ tx'[t].todo[1].user = w /\ tx'[t].todo[2].user = tx[t].buyer
    BY <1>1, <1>3, <2>1, RewardUpdate
  <2>3. Referrer(t)' = w /\ \A v \in Users : Holds(t, v)' => v = tx[t].buyer
    BY <1>1, <2>1, <2>2 DEF Referrer, StageOK, Holds
  <2>4. ~Second(t)'
    BY <2>2 DEF Second
  <2>5. StageOK(t)'
    BY <2>2, <2>3, <2>4 DEF StageOK
  <2> QED BY <1>1, <2>2, <2>5, OrderMove
<1> QED BY <1>2, <1>3 DEF ReadReferral

LEMMA OrderCommit ==
  ASSUME Shape, Order, NEW t \in Purchases, Commit(t)
  PROVE  Order'
<1>1. Alone(t) /\ tx'[t].pc = "done"
  BY CloseUpdate DEF Commit
<1>2. UNCHANGED <<signup, code>> /\ ReferrersStay
  <2>1. ReferrersStay
    BY ShapeCommit
  <2> QED BY <2>1 DEF Commit
<1>3. \A u \in Users : /\ referral'[u].referrer = referral[u].referrer
                       /\ referral[u] = NoReferral => referral'[u] = referral[u]
  <2>1. CASE ~tx[t].pays
    BY <2>1 DEF Commit
  <2>2. CASE tx[t].pays
    <3>1. PICK b \in Users : b = tx[t].buyer
      BY DEF Shape, LocalsOK, Open, Commit
    <3>2. /\ referral \in [Users -> [referrer : Users \cup {NoUser},
                                      status : {"NONE", "PENDING", "REWARDED"}]]
          /\ referral[b].referrer \in Users
      BY <2>2, <3>1 DEF Shape, TypeOK, LocalsOK
    <3>3. referral' = [referral EXCEPT ![b] = [referral[b] EXCEPT !.status = "REWARDED"]]
      BY <2>2, <3>1, <3>2 DEF Commit
    <3>4. referral[b] # NoReferral
      BY <3>2, RewardsAssumption DEF NoReferral
    <3> QED BY <3>2, <3>3, <3>4
  <2> QED BY <2>1, <2>2
<1>4. Members'
  <2>1. \A u \in Users : signup[u] = "new" => referral[u] = NoReferral
    BY DEF Order, Members
  <2> QED BY <1>2, <1>3, <2>1, MembersStay DEF Order
<1>5. Ranked'
  BY <1>2, <1>3, RankedStay DEF Order
<1>6. \A s \in Purchases : StageOK(s)'
  <2>1. StageOK(t)'
    BY <1>1 DEF StageOK
  <2> QED BY <1>1, <1>2, <2>1, StageMove DEF Order
<1> QED BY <1>4, <1>5, <1>6 DEF Order

LEMMA OrderJoin ==
  ASSUME Shape, Order, NEW u \in Users, NEW c \in Users \cup {NoUser}, Join(u, c)
  PROVE  Order'
<1>1. /\ UNCHANGED <<referral, tx>> /\ ReferrersStay
      /\ signup' = [signup EXCEPT ![u] = "joining"] /\ code' = [code EXCEPT ![u] = c]
      /\ c \in Users => signup[c] # "new"
  BY RewardsAssumption DEF Join, ReferrersStay
<1>2. signup \in [Users -> {"new", "joining", "joined"}] /\ code \in [Users -> Users \cup {NoUser}]
  BY DEF Shape, TypeOK
<1>3. ASSUME NEW v \in Users, signup'[v] = "new"
      PROVE  Unknown(v)' /\ code'[v] = NoUser /\ referral'[v] = NoReferral
  <2>1. v # u /\ signup[v] = "new" /\ c # v
    BY <1>1, <1>2, <1>3
  <2>2. Unknown(v) /\ code[v] = NoUser /\ referral[v] = NoReferral
    BY <2>1 DEF Order, Members
  <2> QED BY <1>1, <1>2, <2>1, <2>2 DEF Unknown
<1>4. Members'
  BY <1>3 DEF Members
<1>5. Ranked'
  BY RankedJoin DEF Order
<1>6. \A s \in Purchases : StageOK(s)'
  BY <1>1, StageFrame DEF Order
<1> QED BY <1>4, <1>5, <1>6 DEF Order

LEMMA OrderRegister ==
  ASSUME Shape, Order, NEW u \in Users, RegisterReferral(u)
  PROVE  Order'
<1>1. /\ signup' = [signup EXCEPT ![u] = "joined"] /\ code' = [code EXCEPT ![u] = NoUser]
      /\ UNCHANGED tx
      /\ \/ UNCHANGED referral
         \/ /\ code[u] \in Users \ {u} /\ referral[u] = NoReferral
            /\ referral' = [referral EXCEPT ![u] = [referrer |-> code[u], status |-> "PENDING"]]
  BY DEF RegisterReferral
<1>2. /\ signup \in [Users -> {"new", "joining", "joined"}]
      /\ code \in [Users -> Users \cup {NoUser}]
      /\ referral \in [Users -> [referrer : Users \cup {NoUser},
                                 status : {"NONE", "PENDING", "REWARDED"}]]
  BY DEF Shape, TypeOK
<1>3. /\ \A v \in Users \ {u} : referral'[v] = referral[v] /\ code'[v] = code[v]
      /\ code'[u] = NoUser
      /\ \/ referral'[u] = referral[u]
         \/ referral[u] = NoReferral /\ code[u] \in Users /\ referral'[u].referrer = code[u]
  BY <1>1, <1>2
<1>4. ReferrersStay
  BY <1>3, RewardsAssumption DEF ReferrersStay, NoReferral
<1>5. ASSUME NEW v \in Users, signup'[v] = "new"
      PROVE  Unknown(v)' /\ code'[v] = NoUser /\ referral'[v] = NoReferral
  <2>1. v # u /\ signup[v] = "new"
    BY <1>1, <1>2, <1>5
  <2>2. Unknown(v) /\ code[v] = NoUser /\ referral[v] = NoReferral
    BY <2>1 DEF Order, Members
  <2>3. \A x \in Users : code'[x] # v /\ referral'[x].referrer # v
    BY <1>3, <2>2, RewardsAssumption DEF Unknown
  <2> QED BY <1>3, <2>1, <2>2, <2>3 DEF Unknown
<1>6. Members'
  BY <1>5 DEF Members
<1>7. Ranked'
  <2>1. \A v \in Users : \A w \in Users :
          w \in {referral'[v].referrer, code'[v]} => w \in {referral[v].referrer, code[v]}
    BY <1>3, RewardsAssumption
  <2> QED BY <2>1, RankedStay DEF Order
<1>8. \A s \in Purchases : StageOK(s)'
  BY <1>1, <1>4, StageFrame DEF Order
<1> QED BY <1>6, <1>7, <1>8 DEF Order

LEMMA OrderNext ==
  ASSUME Shape, Order, [Next]_vars
  PROVE  Order'
<1>1. ASSUME NEW t \in Purchases, NEW u \in Users, NEW amount \in Amounts,
             BeginPurchase(t, u, amount)
      PROVE  Order'
  <2>1. UNCHANGED <<signup, code, referral>>
    BY <1>1 DEF BeginPurchase
  <2>2. /\ Alone(t) /\ tx[t].pc = "idle" /\ tx'[t].buyer = u
        /\ tx'[t].pc \in {"read", "referral"}
        /\ tx'[t].pc = "read" => Len(tx'[t].todo) = 1 /\ tx'[t].todo[1].user = u
        /\ tx'[t].added = tx[t].added /\ tx'[t].pays = tx[t].pays
    BY <1>1, BeginUpdate
  <2>3. tx[t].added = Zero /\ ~tx[t].pays
    BY <2>2 DEF Shape, LocalsOK, Open
  <2>4. \A v \in Users : ~Holds(t, v)'
    BY <2>2, <2>3 DEF Holds, Zero
  <2>5. StageOK(t)'
    BY <2>2, <2>3, <2>4 DEF StageOK, First, Second
  <2> QED BY <2>1, <2>2, <2>5, OrderMove
<1>2. ASSUME NEW t \in Purchases, ReadPoints(t)
      PROVE  Order'
  <2>1. UNCHANGED <<signup, code, referral>> /\ StageOK(t)
    BY <1>2 DEF ReadPoints, Order
  <2>2. /\ Alone(t) /\ tx[t].pc = "read" /\ tx'[t].pc = "write" /\ tx'[t].added = tx[t].added
        /\ tx'[t].pays = tx[t].pays /\ tx'[t].todo = tx[t].todo /\ tx'[t].buyer = tx[t].buyer
    BY <1>2, ReadUpdate
  <2>3. StageOK(t)'
    BY <2>1, <2>2 DEF StageOK, Holds, First, Second, Referrer
  <2> QED BY <2>1, <2>2, <2>3, OrderMove
<1>3. ASSUME NEW t \in Purchases, WritePoints(t)
      PROVE  Order'
  <2>1. UNCHANGED <<signup, code, referral>> /\ StageOK(t)
    BY <1>3 DEF WritePoints, Order
  <2>2. Alone(t) /\ StageOK(t)'
    BY <1>3, <2>1, WriteUpdate, StageWrite
  <2> QED BY <2>1, <2>2, OrderMove
<1>4. ASSUME NEW t \in Purchases, Rollback(t) \/ DeadlockVictim(t)
      PROVE  Order'
  <2>1. UNCHANGED <<signup, code, referral>> /\ Close(t)
    BY <1>4 DEF Rollback, DeadlockVictim
  <2>2. Alone(t) /\ tx'[t].pc = "done"
    BY <2>1, CloseUpdate
  <2>3. StageOK(t)'
    BY <2>2 DEF StageOK
  <2> QED BY <2>1, <2>2, <2>3, OrderMove
<1>5. ASSUME UNCHANGED vars
      PROVE  Order'
  <2>1. UNCHANGED <<signup, code, referral, tx>> /\ ReferrersStay
    BY <1>5 DEF vars, ReferrersStay
  <2> QED BY <2>1, MembersStay, RankedStay, StageFrame DEF Order
<1> QED BY <1>1, <1>2, <1>3, <1>4, <1>5, OrderJoin, OrderRegister, OrderReadReferral, OrderCommit
        DEF Next, Step

---------------------------------------------------------------------------
(* Purchases that wait for each other *)

\* f maps every purchase of a cycle to the one it waits for, S holds those that pay
\* the second half of a reward, and b numbers the buyers, up to max.
Waits(D, f, S, b, max) ==
    /\ IsFiniteSet(D) /\ f \in [D -> D] /\ \A t \in D : \E s \in D : f[s] = t
    /\ S \in SUBSET D /\ max \in Nat /\ b \in [D -> 0..max]
    /\ \A t \in S : f[t] \in S => b[t] < b[f[t]]
    /\ \A t \in S : f[t] \notin S => f[f[t]] = t
    /\ \A t \in D \ S : f[t] \notin S => b[f[t]] < b[t]

\* Then f pairs them.
LEMMA Pairs ==
  ASSUME NEW D, NEW f, NEW S, NEW b, NEW max, Waits(D, f, S, b, max), NEW t \in D
  PROVE  f[f[t]] = t /\ (t \in S <=> f[t] \notin S)
<1> USE DEF Waits
<1>1. \A x, y \in D : f[x] = f[y] => x = y
  BY OntoIsOneToOne
<1>2. ASSUME NEW x \in S
      PROVE  f[x] \notin S
  <2> DEFINE T == {y \in S : f[y] \in S}
             g == [y \in D |-> max - b[y]]
  <2> SUFFICES ASSUME T # {} PROVE FALSE
    OBVIOUS
  <2>1. g \in [D -> Nat] /\ T \in SUBSET D
    OBVIOUS
  <2>2. PICK y \in T : \A z \in T : g[y] <= g[z]
    <3> HIDE DEF T, g
    <3> QED BY <2>1, Least
  <2>3. y \in S /\ f[y] \in S /\ b[y] < b[f[y]] /\ b[y] \in 0..max /\ b[f[y]] \in 0..max
    BY <2>2
  <2>4. f[y] \notin T
    <3>1. g[y] = max - b[y] /\ g[f[y]] = max - b[f[y]]
      BY <2>3
    <3> HIDE DEF g, T
    <3> QED BY <2>2, <2>3, <3>1
  <2>5. f[f[y]] \notin S
    BY <2>3, <2>4
  <2>6. f[f[f[y]]] = f[y]
    BY <2>3, <2>5
  <2>7. f[f[y]] = y
    BY <1>1, <2>3, <2>6
  <2> QED BY <2>3, <2>5, <2>7
<1>3. \A x \in S : f[f[x]] = x
  BY <1>2
<1>4. ASSUME NEW x \in D \ S
      PROVE  f[x] \in S
  <2> DEFINE T == {y \in D \ S : f[y] \notin S}
  <2> SUFFICES ASSUME T # {} PROVE FALSE
    OBVIOUS
  <2>1. b \in [D -> Nat] /\ T \in SUBSET D
    OBVIOUS
  <2>2. PICK y \in T : \A z \in T : b[y] <= b[z]
    <3> HIDE DEF T
    <3> QED BY <2>1, Least
  <2>3. y \in D \ S /\ f[y] \in D \ S /\ b[f[y]] < b[y] /\ b[y] \in Nat /\ b[f[y]] \in Nat
    BY <2>1, <2>2
  <2>4. f[y] \notin T
    <3> HIDE DEF T
    <3> QED BY <2>2, <2>3
  <2>5. f[f[y]] \in S
    BY <2>3, <2>4
  <2>6. f[f[f[f[y]]]] = f[f[y]]
    BY <1>3, <2>5
  <2>7. f[f[f[y]]] = f[y]
    BY <1>1, <2>3, <2>5, <2>6
  <2>8. f[f[y]] = y
    BY <1>1, <2>3, <2>5, <2>7
  <2> QED BY <2>3, <2>5, <2>8
<1>5. CASE t \in S
  BY <1>2, <1>3, <1>5
<1>6. CASE t \notin S
  <2>1. f[t] \in S
    BY <1>4, <1>6
  <2>2. f[f[f[t]]] = f[t]
    BY <1>3, <2>1
  <2> QED BY <1>1, <1>6, <2>1, <2>2
<1> QED BY <1>5, <1>6

\* What a purchase of a cycle holds and waits for.
LEMMA InCycle ==
  ASSUME Shape, Order, NEW t \in Purchases, tx[t].pc = "write",
         NEW x \in Users, Holds(t, x)
  PROVE  /\ tx[t].pays /\ tx[t].buyer \in Users /\ Referrer(t) \in Users
         /\ First(t) \/ Second(t)
         /\ First(t) => /\ ~Second(t) /\ Head(tx[t].todo).user = Referrer(t)
                        /\ Holds(t, tx[t].buyer)
                        /\ \A v \in Users : Holds(t, v) => v = tx[t].buyer
         /\ Second(t) => /\ Head(tx[t].todo).user = tx[t].buyer
                         /\ Holds(t, Referrer(t))
                         /\ \A v \in Users : Holds(t, v) => v \in {tx[t].buyer, Referrer(t)}
<1>1. StageOK(t) /\ LocalsOK(t)
  BY DEF Order, Shape
<1>2. tx[t].pays
  BY <1>1 DEF StageOK
<1>3. tx[t].buyer \in Users /\ Referrer(t) \in Users
  BY <1>1, <1>2 DEF LocalsOK, Open, Referrer
<1>4. Head(tx[t].todo) = tx[t].todo[1] /\ Len(tx[t].todo) \in {1, 2}
  BY NextAdd
<1>5. First(t) \/ Second(t)
  BY <1>2, <1>4 DEF First, Second
<1>6. First(t) => ~Second(t)
  BY DEF First, Second
<1>7. ASSUME First(t)
      PROVE  /\ Head(tx[t].todo).user = Referrer(t) /\ Holds(t, tx[t].buyer)
             /\ \A v \in Users : Holds(t, v) => v = tx[t].buyer
  BY <1>1, <1>4, <1>7 DEF StageOK
<1>8. ASSUME Second(t)
      PROVE  /\ Head(tx[t].todo).user = tx[t].buyer /\ Holds(t, Referrer(t))
             /\ \A v \in Users : Holds(t, v) => v \in {tx[t].buyer, Referrer(t)}
  BY <1>1, <1>4, <1>8 DEF StageOK
<1> QED BY <1>2, <1>3, <1>5, <1>6, <1>7, <1>8

LEMMA CyclesPaired ==
  ASSUME Shape, Ledger, Order
  PROVE  CyclesHaveOneBuyer
<1> SUFFICES ASSUME NEW D \in SUBSET Purchases, Cycle(D), NEW t \in D
             PROVE  \E s \in D \ {t} : /\ tx[s].buyer = tx[t].buyer /\ tx[s].pays /\ tx[t].pays
                                       /\ WaitsFor(s, t) /\ WaitsFor(t, s)
  BY DEF CyclesHaveOneBuyer
<1>0. IsFiniteSet(D)
  BY RewardsAssumption, FS_Subset
<1>1. ASSUME NEW x \in D
      PROVE  tx[x].pc = "write" /\ Head(tx[x].todo).user \in Users
  <2>1. tx[x].pc = "write"
    BY DEF Cycle, WaitsFor
  <2> QED BY <2>1, NextAdd DEF Adds
<1>2. ASSUME NEW x \in D
      PROVE  /\ tx[x].pays /\ tx[x].buyer \in Users /\ Referrer(x) \in Users
             /\ First(x) \/ Second(x)
             /\ First(x) => /\ ~Second(x) /\ Head(tx[x].todo).user = Referrer(x)
                            /\ Holds(x, tx[x].buyer)
                            /\ \A v \in Users : Holds(x, v) => v = tx[x].buyer
             /\ Second(x) => /\ Head(tx[x].todo).user = tx[x].buyer
                             /\ Holds(x, Referrer(x))
                             /\ \A v \in Users : Holds(x, v) => v \in {tx[x].buyer, Referrer(x)}
  <2>1. PICK s \in D : WaitsFor(s, x)
    BY DEF Cycle
  <2>2. PICK v \in Users : Holds(x, v)
    BY <1>1, <2>1 DEF WaitsFor
  <2> QED BY <1>1, <2>2, InCycle
<1>3. PICK f \in [D -> D] : \A x \in D : WaitsFor(x, f[x])
  <2> DEFINE g == [x \in D |-> CHOOSE s \in D : WaitsFor(x, s)]
  <2>1. \A x \in D : g[x] \in D /\ WaitsFor(x, g[x])
    BY DEF Cycle
  <2>2. g \in [D -> D]
    BY <2>1
  <2> HIDE DEF g
  <2> QED BY <2>1, <2>2
<1>4. \A x, s \in D : Holds(s, Head(tx[x].todo).user) => f[x] = s
  BY <1>1, <1>3 DEF Ledger, Exclusive, WaitsFor
<1>5. \A x \in D : f[x] # x /\ Holds(f[x], Head(tx[x].todo).user)
  BY <1>3 DEF WaitsFor
<1>6. \A x \in D : \E s \in D : f[s] = x
  BY <1>4 DEF Cycle, WaitsFor
<1>7. PICK max \in Nat : \E rank \in [Users -> 0..max] : Numbers(rank)
  BY DEF Order, Ranked
<1>8. PICK rank \in [Users -> 0..max] : Numbers(rank)
  BY <1>7
<1>9. PICK S \in SUBSET D : S = {x \in D : Second(x)}
  OBVIOUS
<1>10. PICK b \in [D -> 0..max] : \A x \in D : b[x] = rank[tx[x].buyer]
  <2> DEFINE g == [x \in D |-> rank[tx[x].buyer]]
  <2>1. g \in [D -> 0..max] /\ \A x \in D : g[x] = rank[tx[x].buyer]
    BY <1>2
  <2> HIDE DEF g
  <2> QED BY <2>1
<1>11. \A x \in D : rank[Referrer(x)] < rank[tx[x].buyer]
  BY <1>2, <1>8 DEF Numbers, Referrer
<1>12. ASSUME NEW x \in S, f[x] \in S
       PROVE  b[x] < b[f[x]]
  <2>1. /\ x \in D /\ Second(x) /\ Second(f[x]) /\ f[x] # x
        /\ Holds(f[x], tx[x].buyer) /\ tx[x].buyer \in Users
    BY <1>2, <1>5, <1>9, <1>12
  <2>2. tx[x].buyer \in {tx[f[x]].buyer, Referrer(f[x])}
    BY <1>2, <2>1
  <2>3. tx[x].buyer # tx[f[x]].buyer
    <3> SUFFICES ASSUME tx[x].buyer = tx[f[x]].buyer PROVE FALSE
      OBVIOUS
    <3>1. Referrer(x) = Referrer(f[x])
      BY DEF Referrer
    <3>2. Holds(x, Referrer(x)) /\ Holds(f[x], Referrer(x)) /\ Referrer(x) \in Users
      BY <1>2, <2>1, <3>1
    <3> QED BY <2>1, <3>2 DEF Ledger, Exclusive
  <2> QED BY <1>10, <1>11, <2>1, <2>2, <2>3
<1>13. ASSUME NEW x \in S, f[x] \notin S
       PROVE  f[f[x]] = x /\ tx[f[x]].buyer = tx[x].buyer
  <2>1. /\ x \in D /\ Second(x) /\ ~Second(f[x]) /\ Holds(f[x], tx[x].buyer)
        /\ tx[x].buyer \in Users
    BY <1>2, <1>5, <1>9, <1>13
  <2>2. First(f[x]) /\ tx[f[x]].buyer = tx[x].buyer
    BY <1>2, <2>1
  <2>3. Referrer(f[x]) = Referrer(x)
    BY <2>2 DEF Referrer
  <2>4. Holds(x, Head(tx[f[x]].todo).user)
    BY <1>2, <2>1, <2>2, <2>3
  <2> QED BY <1>4, <2>1, <2>2, <2>4
<1>14. ASSUME NEW x \in D \ S, f[x] \notin S
       PROVE  b[f[x]] < b[x]
  <2>1. First(x) /\ First(f[x]) /\ Holds(f[x], Referrer(x)) /\ Referrer(x) \in Users
    BY <1>2, <1>5, <1>9, <1>14
  <2>2. tx[f[x]].buyer = Referrer(x)
    BY <1>2, <2>1
  <2> QED BY <1>10, <1>11, <2>2
<1>15. \A x \in D : f[f[x]] = x /\ (x \in S <=> f[x] \notin S)
  <2>1. /\ \A x \in S : f[x] \in S => b[x] < b[f[x]]
        /\ \A x \in S : f[x] \notin S => f[f[x]] = x
        /\ \A x \in D \ S : f[x] \notin S => b[f[x]] < b[x]
    BY <1>12, <1>13, <1>14
  <2>2. Waits(D, f, S, b, max)
    BY <1>0, <1>6, <2>1 DEF Waits
  <2> QED BY <2>2, Pairs
<1>16. tx[f[t]].buyer = tx[t].buyer
  <2>1. CASE t \in S
    BY <1>13, <1>15, <2>1
  <2>2. CASE t \notin S
    <3>1. f[t] \in S /\ f[f[t]] = t /\ f[f[t]] \notin S
      BY <1>15, <2>2
    <3> QED BY <1>13, <3>1
  <2> QED BY <2>1, <2>2
<1> QED BY <1>2, <1>3, <1>5, <1>15, <1>16

---------------------------------------------------------------------------
(* The theorems *)

IInv == Shape /\ Ledger /\ Paid /\ Order

LEMMA Inductive == Spec => []IInv
<1>1. Init => IInv
  BY ShapeInit, LedgerInit, PaidInit, OrderInit DEF IInv
<1>2. IInv /\ [Next]_vars => IInv'
  BY ShapeNext, LedgerNext, PaidNext, OrderNext DEF IInv
<1> QED BY <1>1, <1>2, PTL DEF Spec

\* Every variable keeps its type; in particular no points of an account, a ledger or a
\* purchase in progress are ever negative, and a purchase about to read or write points
\* has a call of addPoints to make (LoyaltyService, ReferralService).
THEOREM RewardTypes == Spec => []TypeOK
<1>1. IInv => TypeOK
  BY DEF IInv, Shape
<1> QED BY <1>1, Inductive, PTL

\* addPoints never makes points: an account has at most what its LoyaltyTransactions add
\* up to, and exactly that and the tier of it unless another purchase committed points of
\* the user between the read and the write of one.
THEOREM PointsNeverMade == Spec => []PointsMatchLedger
<1>1. IInv => PointsMatchLedger
  BY DEF IInv, Ledger
<1> QED BY <1>1, Inductive, PTL

\* rewardIfEligible pays a referral once, and once more at most for each purchase that
\* found it PENDING while another was paying it; it is REWARDED exactly when it was paid.
THEOREM ReferralPaidOnce == Spec => []RewardPaidOnce
<1>1. IInv => RewardPaidOnce
  <2> SUFFICES ASSUME IInv, NEW u \in Users
               PROVE  /\ rewarded[u] <= 1 + rivals[u]
                      /\ rewarded[u] > 0 <=> referral[u].status = "REWARDED"
    BY DEF RewardPaidOnce
  <2>1. PayOK(u) /\ rewarded[u] \in Nat /\ rivals[u] \in Nat
    BY DEF IInv, Paid, Shape, TypeOK
  <2> QED BY <2>1, PayersFinite DEF PayOK
<1> QED BY <1>1, Inductive, PTL

\* However many purchases run at once and whoever referred whom, those that wait for
\* each other come in pairs of one referee, of which one locks the referrer's account
\* while it waits for the buyer's and the other the reverse: the order in which
\* rewardIfEligible and earnFromPurchase lock accounts closes no other cycle.
THEOREM OnlyPairsDeadlock == Spec => []CyclesHaveOneBuyer
<1>1. IInv => CyclesHaveOneBuyer
  BY CyclesPaired DEF IInv
<1> QED BY <1>1, Inductive, PTL

===========================================================================
