---------------------------- MODULE MCPayments ----------------------------
(***************************************************************************)
(* An instance of Payments for TLC: one user, one booking with a deposit   *)
(* of 1, top-ups of 1, a wallet that holds 1 or does not exist.            *)
(***************************************************************************)
EXTENDS Payments, TLC

MCOwner == [b \in BookingIds |-> CHOOSE u \in Users : TRUE]
MCDeposit == [b \in BookingIds |-> 1]

Symmetry == Permutations(Requests) \cup Permutations(PaymentIds)
===========================================================================
