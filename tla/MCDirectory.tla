---------------------------- MODULE MCDirectory ----------------------------
(***************************************************************************)
(* An instance of Directory and of Settlement for TLC, in two halves that  *)
(* share what both depend on, the review of businesses.  In one, three     *)
(* requests of an owner, another user and an administrator meet a          *)
(* directory of two businesses.  In the other, two clerks settle a payment *)
(* of less than a toman, at a commission that rounds above it, for two     *)
(* periods, of which the second is not over when it may be settled.        *)
(***************************************************************************)
EXTENDS Settlement, TLC

VARIABLE half

MCFounder == "b" :> "o"
MCBusinessOf == "x" :> "b"
MCAmount == "x" :> 60
MCPeriods == {[start |-> 1, end |-> 1], [start |-> 2, end |-> 3]}

MCInit ==
    /\ SettlementInit
    /\ \/ half = "requests" /\ \A k \in Clerks : clerk[k] = Off
       \/ half = "clerks" /\ \A q \in Requests : req[q] = Done

MCNext ==
    /\ \/ half = "requests" /\ Next /\ UNCHANGED settling
       \/ half = "clerks" /\ SettlementNext
    /\ UNCHANGED half

MCSpec == MCInit /\ [][MCNext]_<<allVars, half>>

Symmetry == Permutations(Requests) \cup Permutations(Clerks)
===========================================================================
