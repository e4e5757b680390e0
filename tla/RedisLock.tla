---------------------------- MODULE RedisLock ----------------------------
(***************************************************************************)
(* RedisLockService (common/redis/redis-lock.service.ts) as its callers    *)
(* BookingService.hold and BookingService.reschedule use it:               *)
(*                                                                         *)
(*   withLock(key, fn): token = SET key uuid PX ttl NX; run fn, which is   *)
(*   one interactive Prisma transaction; finally compare-and-delete.       *)
(*                                                                         *)
(* Redis removes a key when its ttl runs out, whether or not its owner is  *)
(* still at work, so mutual exclusion rests on real time: the transaction  *)
(* is opened at most EntryBound after the SET (the latency of its reply    *)
(* plus Prisma's maxWait) and rolled back by Prisma after TxTimeout.       *)
(* Time passes in Tick; left is what remains of a client's own bound.      *)
(***************************************************************************)
EXTENDS Integers

CONSTANTS
    Clients,        \* requests being served
    Keys,           \* slot keys
    Tokens,         \* the values randomUUID() returns
    NoToken, NoKey,
    LockTTL,        \* ttlMs
    EntryBound,     \* from the SET being executed to the transaction's start
    TxTimeout       \* the interactive transaction's timeout

ASSUME TimeBounds ==
    /\ LockTTL \in Nat /\ EntryBound \in Nat /\ TxTimeout \in Nat
    /\ EntryBound + TxTimeout < LockTTL

ASSUME Sentinels == NoToken \notin Tokens /\ NoKey \notin Keys

VARIABLES
    store,          \* the Redis key space: the value and the remaining ttl
    client          \* the request's place in withLock and its locals

vars == <<store, client>>

Phases == {"idle", "granted", "tx", "releasing"}

TypeOK ==
    /\ store \in [Keys -> [token : Tokens \cup {NoToken}, ttl : Nat]]
    /\ client \in [Clients -> [phase : Phases, key : Keys \cup {NoKey},
                               token : Tokens \cup {NoToken}, left : Nat]]

Absent == [token |-> NoToken, ttl |-> 0]
Idle   == [phase |-> "idle", key |-> NoKey, token |-> NoToken, left |-> 0]

Init == /\ store = [k \in Keys |-> Absent]
        /\ client = [c \in Clients |-> Idle]

InSection(c, k) == client[c].phase \in {"granted", "tx"} /\ client[c].key = k

\* randomUUID() never repeats a token that is still in use.
Fresh(t) == /\ \A k \in Keys : store[k].token # t
            /\ \A c \in Clients : client[c].token # t

AcquireUnguarded(c, k) ==           \* a mutant: SET without NX
    /\ client[c].phase = "idle"
    /\ \E t \in Tokens :
         /\ Fresh(t)
         /\ store' = [store EXCEPT ![k] = [token |-> t, ttl |-> LockTTL]]
         /\ client' = [client EXCEPT ![c] =
              [phase |-> "granted", key |-> k, token |-> t, left |-> EntryBound]]

AcquireForever(c, k) ==             \* a mutant: SET without PX (ttl never counts down)
    /\ client[c].phase = "idle"
    /\ store[k].token = NoToken
    /\ \E t \in Tokens :
         /\ Fresh(t)
         /\ store' = [store EXCEPT ![k] = [token |-> t, ttl |-> 0]]
         /\ client' = [client EXCEPT ![c] =
              [phase |-> "granted", key |-> k, token |-> t, left |-> EntryBound]]

AcquireNameless(c, k) ==            \* a mutant: the value set is the key, no randomUUID()
    /\ client[c].phase = "idle"
    /\ store[k].token = NoToken
    /\ store' = [store EXCEPT ![k] = [token |-> k, ttl |-> LockTTL]]
    /\ client' = [client EXCEPT ![c] =
         [phase |-> "granted", key |-> k, token |-> k, left |-> EntryBound]]

\* acquire: SET key token PX ttl NX.  When the key exists the reply is nil,
\* withLock throws LOCK_BUSY and nothing changes.
Acquire(c, k) ==
    /\ client[c].phase = "idle"
    /\ store[k].token = NoToken
    /\ \E t \in Tokens :
         /\ Fresh(t)
         /\ store' = [store EXCEPT ![k] = [token |-> t, ttl |-> LockTTL]]
         /\ client' = [client EXCEPT ![c] =
              [phase |-> "granted", key |-> k, token |-> t, left |-> EntryBound]]

\* fn() obtains a connection and opens the transaction.
BeginTx(c) ==
    /\ client[c].phase = "granted"
    /\ client' = [client EXCEPT ![c].phase = "tx", ![c].left = TxTimeout]
    /\ UNCHANGED store

\* fn() settles: no connection within maxWait, commit, refusal inside the
\* transaction, or its timeout.  Control reaches the finally block.
Settle(c) ==
    /\ client[c].phase \in {"granted", "tx"}
    /\ client' = [client EXCEPT ![c].phase = "releasing", ![c].left = 0]
    /\ UNCHANGED store

ReleaseUnchecked(c) ==              \* a mutant: plain DEL
    /\ client[c].phase = "releasing"
    /\ store' = [store EXCEPT ![client[c].key] = Absent]
    /\ client' = [client EXCEPT ![c] = Idle]

\* release: the Lua script deletes the key only if it still holds our token.
Release(c) ==
    /\ client[c].phase = "releasing"
    /\ store' = [store EXCEPT ![client[c].key] =
                   IF @.token = client[c].token THEN Absent ELSE @]
    /\ client' = [client EXCEPT ![c] = Idle]

\* The process dies: the database rolls its transaction back, and the key
\* stays in Redis until its ttl runs out.
Crash(c) ==
    /\ client[c].phase # "idle"
    /\ client' = [client EXCEPT ![c] = Idle]
    /\ UNCHANGED store

\* One unit of time, for Redis's expiry and for the clients' bounds.
Aged(e)  == IF e.ttl = 1 THEN Absent
            ELSE IF e.ttl = 0 THEN e ELSE [e EXCEPT !.ttl = @ - 1]
Waited(r) == IF r.phase \in {"granted", "tx"} THEN [r EXCEPT !.left = @ - 1] ELSE r

Tick ==
    /\ \A c \in Clients : client[c].phase \in {"granted", "tx"} => client[c].left > 0
    /\ store' = [k \in Keys |-> Aged(store[k])]
    /\ client' = [c \in Clients |-> Waited(client[c])]

Next == \/ \E c \in Clients, k \in Keys : Acquire(c, k)
        \/ \E c \in Clients : BeginTx(c) \/ Settle(c) \/ Release(c) \/ Crash(c)
        \/ Tick

\* Prisma settles every transaction within its bounds and time does not
\* stop.  Nothing obliges a client to release: the ttl has to be enough.
Fairness == /\ \A c \in Clients : WF_vars(Settle(c))
            /\ WF_vars(Tick)

Spec == Init /\ [][Next]_vars /\ Fairness

---------------------------------------------------------------------------
(* Properties *)

\* No two requests run fn() under one slot key, although Redis may drop the
\* key of a slow or dead owner at any time (withLock, l.40-50).
MutualExclusion ==
    \A c, d \in Clients, k \in Keys : InSection(c, k) /\ InSection(d, k) => c = d

\* Requests never share a token, so compare-and-delete identifies the owner.
TokensDistinct ==
    \A c, d \in Clients :
      client[c].token = client[d].token /\ client[c].token # NoToken => c = d

\* A request past acquire() knows its key and its token.
KeyKnown ==
    \A c \in Clients : client[c].phase # "idle" =>
                        client[c].key \in Keys /\ client[c].token \in Tokens

OwnsFor(c, time) == /\ store[client[c].key].token = client[c].token
                    /\ store[client[c].key].ttl > client[c].left + time

\* A request inside fn() still owns its key, with enough ttl left for the
\* rest of its stay: the margin LockTTL > EntryBound + TxTimeout (acquire's
\* default of 10 s against Prisma's defaults of 2 s + 5 s).
OwnerHasTime ==
    \A c \in Clients :
      /\ client[c].phase = "granted" => OwnsFor(c, TxTimeout)
      /\ client[c].phase = "tx" => OwnsFor(c, 0)

Inside == [k \in Keys |-> {c \in Clients : InSection(c, k)}]
Mutex == INSTANCE SlotMutex WITH inside <- Inside

\* withLock as its callers see it is a mutual-exclusion lock per slot: a
\* request enters fn() only when nobody is inside, whatever has expired.
ImplementsSlotMutex == Mutex!Spec

\* A key is given up eventually even if its owner died or never reached the
\* finally block (acquire's PX argument, l.28): no slot stays locked forever.
LockIsReleased ==
    \A k \in Keys, t \in Tokens : store[k].token = t ~> store[k].token # t
===========================================================================
