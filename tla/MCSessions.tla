---------------------------- MODULE MCSessions ----------------------------
(***************************************************************************)
(* An instance of Sessions for TLC: one account, registered or not, with   *)
(* sessions and a code from before or without, and three requests.         *)
(***************************************************************************)
EXTENDS Sessions, TLC

Symmetry == Permutations(Requests) \cup Permutations(TokenIds)
===========================================================================
