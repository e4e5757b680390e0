---------------------------- MODULE MCBookings ----------------------------
(***************************************************************************)
(* Instances of Bookings for TLC.  One staff lane, open from 1 to 5 on     *)
(* day 0; a start at 2 is not one that availability offers.                *)
(***************************************************************************)
EXTENDS Bookings, TLC

MCLanes == {[branch |-> "branch", staff |-> "staff"]}
MCHours == {[owner |-> "branch", day |-> 0, from |-> 1, till |-> 5]}
MCEarlier == {[HoldRow(lane, 1, 2, {}) EXCEPT !.status = "PENDING", !.ttl = -1] :
                lane \in MCLanes}

Symmetry == Permutations(Requests) \cup Permutations(BookingIds)
===========================================================================
