---------------------------- MODULE MCCheckout ----------------------------
(***************************************************************************)
(* An instance of Checkout for TLC: a percentage with a limit, a fixed     *)
(* discount above the price, and a service with and without a deposit, as  *)
(* an update may leave it, with a deposit of no percentage, and with one   *)
(* that rounds to nothing after the discount.                              *)
(***************************************************************************)
EXTENDS Checkout, TLC

MCTerms ==
    {[type |-> "PERCENTAGE", value |-> 5000, minPurchase |-> 0, usageLimit |-> 1],
     [type |-> "FIXED_AMOUNT", value |-> 360, minPurchase |-> 300, usageLimit |-> 0]}

MCOffers ==
    {[price |-> 200, requiresDeposit |-> FALSE, depositPercent |-> 0],
     [price |-> 300, requiresDeposit |-> TRUE, depositPercent |-> 0],
     [price |-> 130, requiresDeposit |-> TRUE, depositPercent |-> 100]}

Symmetry == Permutations(Requests) \cup Permutations(Users) \cup Permutations(BookingIds)
===========================================================================
