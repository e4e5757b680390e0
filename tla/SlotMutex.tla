---------------------------- MODULE SlotMutex ----------------------------
(***************************************************************************)
(* What BookingService needs of RedisLockService.withLock: for each slot   *)
(* key (branch, staff member or 'branch', start time) at most one request  *)
(* at a time is inside the critical section, the body of fn.  This is the  *)
(* abstract specification that RedisLock implements.                       *)
(***************************************************************************)
CONSTANTS Keys, Clients

VARIABLE inside     \* inside[k]: the requests that run fn() under key k

Init == inside = [k \in Keys |-> {}]

Enter(c, k) == /\ inside[k] = {}
               /\ inside' = [inside EXCEPT ![k] = {c}]

\* fn() settles, or the process that runs it dies
Leave(c, k) == /\ c \in inside[k]
               /\ inside' = [inside EXCEPT ![k] = @ \ {c}]

Next == \E c \in Clients, k \in Keys : Enter(c, k) \/ Leave(c, k)

Spec == Init /\ [][Next]_inside
==========================================================================
