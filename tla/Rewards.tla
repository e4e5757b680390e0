------------------------------ MODULE Rewards ------------------------------
(***************************************************************************)
(* LoyaltyService and ReferralService (modules/loyalty, modules/referral): *)
(* the points that a definite purchase earns its buyer and the reward that *)
(* the first one brings to the buyer and to who referred them.             *)
(*                                                                         *)
(* A purchase is the transaction in which confirm or a payment calls       *)
(* awardPostPurchaseRewards.  It runs at Postgres's default, READ          *)
(* COMMITTED: reads return what is committed or what it wrote itself, and  *)
(* an update waits for the transaction that has updated the row, and locks *)
(* the row until the end.  The upsert with an empty update is taken not to *)
(* lock: where the installed Prisma makes it lock, the model only allows   *)
(* more.  An account without a row is one without points.                  *)
(***************************************************************************)
EXTENDS Integers, Sequences, FiniteSets

CONSTANTS
    Users, Purchases, NoUser,
    Amounts,                    \* what purchases may cost, in toman
    TOMAN_PER_POINT, REFERRAL_REWARD_POINTS,
    SilverPoints, GoldPoints    \* minPoints of TIER_THRESHOLDS

ASSUME RewardsAssumption ==
    /\ NoUser \notin Users /\ IsFiniteSet(Purchases)
    /\ Amounts \subseteq Nat /\ TOMAN_PER_POINT \in Nat \ {0}
    /\ REFERRAL_REWARD_POINTS \in Nat \ {0}
    /\ SilverPoints \in Nat \ {0} /\ GoldPoints \in Nat /\ SilverPoints < GoldPoints

VARIABLES
    signup,     \* how far the registration of each user is,
    code,       \* and the referralCode it came with
    account,    \* LoyaltyAccount: points and tier
    earned,     \* the sum of each account's LoyaltyTransactions
    referral,   \* Referral, by referee
    tx,         \* every purchase's place in its transaction, and its locals
    \* History, read by no action:
    raced,      \* users whose points were read before another purchase committed its own
    rewarded,   \* the times each referee's referral was paid,
    rivals      \* and the times it was found PENDING while another purchase was paying it

history == <<raced, rewarded, rivals>>
vars    == <<signup, code, account, earned, referral, tx, history>>

NoReferral == [referrer |-> NoUser, status |-> "NONE"]

Zero == [u \in Users |-> 0]

\* todo: the addPoints calls still to make; read: what the upsert returned; mine
\* and added: the account rows and the LoyaltyTransactions written so far.
Idle == [pc |-> "idle", buyer |-> NoUser, todo |-> <<>>, read |-> 0,
         mine |-> Zero, added |-> Zero, pays |-> FALSE]

Init ==
    /\ signup = [u \in Users |-> "new"]
    /\ code = [u \in Users |-> NoUser]
    /\ account = [u \in Users |-> [points |-> 0, tier |-> "BRONZE"]]
    /\ earned = Zero
    /\ referral = [u \in Users |-> NoReferral]
    /\ tx = [t \in Purchases |-> Idle]
    /\ raced = {} /\ rewarded = Zero /\ rivals = Zero

\* The entry of TIER_THRESHOLDS that find returns.
TierOf(points) ==
    CASE points >= GoldPoints -> "GOLD"
      [] points \in SilverPoints..(GoldPoints - 1) -> "SILVER"
      [] OTHER -> "BRONZE"

---------------------------------------------------------------------------
(* Registration *)

\* A code is the id of a user, so it is one that is there when the form is sent.
Join(u, c) ==
    /\ signup[u] = "new"
    /\ c # NoUser => signup[c] # "new"
    /\ signup' = [signup EXCEPT ![u] = "joining"]
    /\ code' = [code EXCEPT ![u] = c]
    /\ UNCHANGED <<account, earned, referral, tx, history>>

RegisterReferralAnytime(u) ==       \* mutant: a member may enter a code later
    /\ signup[u] # "new"
    /\ signup' = [signup EXCEPT ![u] = "joined"]
    /\ \E c \in Users \ {u} :
         /\ signup[c] # "new" /\ referral[u] = NoReferral
         /\ referral' = [referral EXCEPT ![u] = [referrer |-> c, status |-> "PENDING"]]
    /\ UNCHANGED <<code, account, earned, tx, history>>

\* registerReferral, the last step of a registration: no code, one's own or that
\* of nobody is ignored, and so is any failure.
RegisterReferral(u) ==
    /\ signup[u] = "joining"
    /\ signup' = [signup EXCEPT ![u] = "joined"]
    /\ code' = [code EXCEPT ![u] = NoUser]
    /\ \/ /\ code[u] \in Users \ {u}
          /\ referral[u] = NoReferral
          /\ referral' = [referral EXCEPT ![u] = [referrer |-> code[u], status |-> "PENDING"]]
       \/ UNCHANGED referral
    /\ UNCHANGED <<account, earned, tx, history>>

---------------------------------------------------------------------------
(* awardPostPurchaseRewards *)

BeginPurchaseZero(t, u, amount) ==  \* mutant: no return at zero points
    /\ tx[t].pc = "idle"
    /\ signup[u] # "new"
    /\ tx' = [tx EXCEPT ![t].buyer = u, ![t].pc = "read",
                ![t].todo = <<[user |-> u, points |-> amount \div TOMAN_PER_POINT]>>]
    /\ UNCHANGED <<signup, code, account, earned, referral, history>>

\* earnFromPurchase: an amount under TOMAN_PER_POINT earns nothing.
BeginPurchase(t, u, amount) ==
    LET points == amount \div TOMAN_PER_POINT IN
    /\ tx[t].pc = "idle"
    /\ signup[u] # "new"
    /\ tx' = [tx EXCEPT ![t].buyer = u,
                ![t].pc = IF points > 0 THEN "read" ELSE "referral",
                ![t].todo = IF points > 0 THEN <<[user |-> u, points |-> points]>> ELSE <<>>]
    /\ UNCHANGED <<signup, code, account, earned, referral, history>>

\* addPoints: the upsert returns the account ...
ReadPoints(t) ==
    LET r == tx[t]
        u == Head(r.todo).user
    IN
    /\ r.pc = "read"
    /\ tx' = [tx EXCEPT ![t].pc = "write",
                ![t].read = IF r.added[u] > 0 THEN r.mine[u] ELSE account[u].points]
    /\ UNCHANGED <<signup, code, account, earned, referral, history>>

Holds(t, u) == tx[t].added[u] > 0

WaitsFor(t, s) == tx[t].pc = "write" /\ s # t /\ Holds(s, Head(tx[t].todo).user)

Written(t) ==
    LET r    == tx[t]
        next == Head(r.todo)
    IN  [r EXCEPT !.mine[next.user] = r.read + next.points,
                  !.added[next.user] = @ + next.points,
                  !.todo = Tail(r.todo),
                  !.pc = IF Len(r.todo) > 1 THEN "read" ELSE IF r.pays THEN "commit" ELSE "referral"]

WritePointsOnce(t) ==               \* mutant: no LoyaltyTransaction for a second award
    /\ tx[t].pc = "write"
    /\ \A s \in Purchases : ~WaitsFor(t, s)
    /\ tx' = [tx EXCEPT ![t] = IF Holds(t, Head(tx[t].todo).user)
                              THEN [Written(t) EXCEPT !.added = tx[t].added] ELSE Written(t)]
    /\ UNCHANGED <<signup, code, account, earned, referral, history>>

WritePointsOutside(t) ==            \* mutant: this.prisma for tx, waits for itself too
    /\ tx[t].pc = "write"
    /\ \A s \in Purchases : ~Holds(s, Head(tx[t].todo).user)
    /\ tx' = [tx EXCEPT ![t] = Written(t)]
    /\ UNCHANGED <<signup, code, account, earned, referral, history>>

\* ... and the sum and its tier are written back, with a LoyaltyTransaction.
WritePoints(t) ==
    /\ tx[t].pc = "write"
    /\ \A s \in Purchases : ~WaitsFor(t, s)
    /\ tx' = [tx EXCEPT ![t] = Written(t)]
    /\ UNCHANGED <<signup, code, account, earned, referral, history>>

\* rewardIfEligible pays the referrer first, then the buyer.
Reward(t, referrer) ==
    LET u == tx[t].buyer IN
    /\ tx' = [tx EXCEPT ![t].pc = "read", ![t].pays = TRUE,
                ![t].todo = <<[user |-> referrer, points |-> REFERRAL_REWARD_POINTS],
                              [user |-> u, points |-> REFERRAL_REWARD_POINTS]>>]
    /\ rivals' = IF \E s \in Purchases : tx[s].pays /\ tx[s].buyer = u
                 THEN [rivals EXCEPT ![u] = @ + 1] ELSE rivals

ReadReferralAgain(t) ==             \* mutant: the status is not looked at
    LET ref == referral[tx[t].buyer] IN
    /\ tx[t].pc = "referral"
    /\ IF ref # NoReferral THEN Reward(t, ref.referrer)
       ELSE tx' = [tx EXCEPT ![t].pc = "commit"] /\ UNCHANGED rivals
    /\ UNCHANGED <<signup, code, account, earned, referral, raced, rewarded>>

ReadReferral(t) ==
    LET ref == referral[tx[t].buyer] IN
    /\ tx[t].pc = "referral"
    /\ IF ref.status = "PENDING" THEN Reward(t, ref.referrer)
       ELSE tx' = [tx EXCEPT ![t].pc = "commit"] /\ UNCHANGED rivals
    /\ UNCHANGED <<signup, code, account, earned, referral, raced, rewarded>>

Close(t) == tx' = [tx EXCEPT ![t] = [Idle EXCEPT !.pc = "done"]]

\* The referral is marked, and all the writes are committed.
Commit(t) ==
    LET r == tx[t]
        u == r.buyer
    IN
    /\ r.pc = "commit"
    /\ account' = [v \in Users |-> IF Holds(t, v)
                     THEN [points |-> r.mine[v], tier |-> TierOf(r.mine[v])] ELSE account[v]]
    /\ earned' = [v \in Users |-> earned[v] + r.added[v]]
    /\ referral' = IF r.pays THEN [referral EXCEPT ![u].status = "REWARDED"] ELSE referral
    /\ rewarded' = IF r.pays THEN [rewarded EXCEPT ![u] = @ + 1] ELSE rewarded
    /\ raced' = raced \cup {v \in Users : Holds(t, v) /\ \E s \in Purchases :
                              WaitsFor(s, t) /\ Head(tx[s].todo).user = v}
    /\ Close(t)
    /\ UNCHANGED <<signup, code, rivals>>

Open(t) == tx[t].pc \notin {"idle", "done"}

\* Anything in the caller's transaction fails, and all of it is rolled back.
Rollback(t) ==
    /\ Open(t)
    /\ Close(t)
    /\ UNCHANGED <<signup, code, account, earned, referral, history>>

\* A set of purchases that wait for each other: every waiter waits for one.
Cycle(D) ==
    /\ D # {}
    /\ \A t \in D : \E s \in D : WaitsFor(t, s)
    /\ \A t \in D : \E s \in D : WaitsFor(s, t)

\* Postgres ends a cycle by failing one of its transactions.
DeadlockVictim(t) ==
    /\ \E D \in SUBSET Purchases : t \in D /\ Cycle(D)
    /\ Close(t)
    /\ UNCHANGED <<signup, code, account, earned, referral, history>>

Step(t) ==
    \/ ReadPoints(t) \/ WritePoints(t) \/ ReadReferral(t) \/ Commit(t)
    \/ DeadlockVictim(t)

Next ==
    \/ \E u \in Users : RegisterReferral(u) \/ \E c \in Users \cup {NoUser} : Join(u, c)
    \/ \E t \in Purchases :
         \/ \E u \in Users, amount \in Amounts : BeginPurchase(t, u, amount)
         \/ Step(t) \/ Rollback(t)

\* A handler goes on when the database answers, and deadlocks are detected.
Spec == Init /\ [][Next]_vars /\ \A t \in Purchases : WF_vars(Step(t))

---------------------------------------------------------------------------
(* Properties *)

Adds == [user : Users, points : Nat \ {0}]

TypeOK ==
    /\ signup \in [Users -> {"new", "joining", "joined"}]
    /\ code \in [Users -> Users \cup {NoUser}]
    /\ account \in [Users -> [points : Nat, tier : {"BRONZE", "SILVER", "GOLD"}]]
    /\ earned \in [Users -> Nat]
    /\ referral \in [Users -> [referrer : Users \cup {NoUser},
                               status : {"NONE", "PENDING", "REWARDED"}]]
    /\ \A t \in Purchases :
         /\ tx[t].pc \in {"idle", "read", "write", "referral", "commit", "done"}
         /\ tx[t].buyer \in Users \cup {NoUser}
         /\ Len(tx[t].todo) <= 2 /\ \A i \in DOMAIN tx[t].todo : tx[t].todo[i] \in Adds
         /\ tx[t].pc \in {"read", "write"} => tx[t].todo # <<>>
         /\ tx[t].read \in Nat /\ tx[t].pays \in BOOLEAN
         /\ tx[t].mine \in [Users -> Nat] /\ tx[t].added \in [Users -> Nat]
    /\ raced \subseteq Users /\ rewarded \in [Users -> Nat] /\ rivals \in [Users -> Nat]

\* An account holds what its LoyaltyTransactions add up to, and the tier of that
\* sum, also when one purchase calls addPoints twice for one user; concurrent
\* purchases may lose points of an account (addPoints reads, adds and writes
\* back), never make any.
PointsMatchLedger ==
    \A u \in Users :
      /\ account[u].points <= earned[u]
      /\ u \notin raced => account[u] = [points |-> earned[u], tier |-> TierOf(earned[u])]

\* "After the first successful purchase" (rewardIfEligible): a referral is paid
\* once, and again only for a purchase that saw it PENDING while another one was
\* already paying it; it is REWARDED as soon as it is paid.
RewardPaidOnce ==
    \A u \in Users :
      /\ rewarded[u] <= 1 + rivals[u]
      /\ rewarded[u] > 0 <=> referral[u].status = "REWARDED"

\* Purchases wait for each other in pairs only, both of one referee and about to
\* pay the reward, whose two accounts they lock in opposite orders.  A code belongs to an earlier member, so that referrals close
\* no longer cycle (addPoints, rewardIfEligible).
CyclesHaveOneBuyer ==
    \A D \in SUBSET Purchases : Cycle(D) =>
      \A t \in D : \E s \in D \ {t} :
        /\ tx[s].buyer = tx[t].buyer /\ tx[s].pays /\ tx[t].pays
        /\ WaitsFor(s, t) /\ WaitsFor(t, s)

\* Every purchase that begins ends, whatever it waits for.
PurchasesEnd == \A t \in Purchases : Open(t) ~> tx[t].pc = "done"
===========================================================================
