------------------------- MODULE RedisLockProofs -------------------------
(***************************************************************************)
(* RedisLock keeps its type, excludes two requests from one slot, and      *)
(* implements SlotMutex, for every set of clients, keys and tokens and     *)
(* every choice of bounds that satisfies TimeBounds.                       *)
(***************************************************************************)
EXTENDS RedisLock, TLAPS

\* The inductive invariant.  OwnerHasTime is what Tick needs so that Redis
\* does not drop the key of a request inside fn(); TokensDistinct is what a
\* release needs so that compare-and-delete spares the other owners.
LockInv == TypeOK /\ OwnerHasTime /\ TokensDistinct /\ KeyKnown

\* Initially no key is set and no request is inside withLock.
LEMMA LockInit == Init => LockInv
  BY Sentinels, TimeBounds
     DEF Init, LockInv, TypeOK, OwnerHasTime, TokensDistinct, KeyKnown, Absent, Idle, Phases

\* A step that leaves a client and the entry of its key alone leaves it
\* as much time as it had.
LEMMA UntouchedOwner ==
  ASSUME LockInv, NEW d \in Clients, client'[d] = client[d],
         client[d].phase \in {"granted", "tx"} =>
            store'[client[d].key] = store[client[d].key]
  PROVE  /\ client'[d].phase = "granted" => OwnsFor(d, TxTimeout)'
         /\ client'[d].phase = "tx" => OwnsFor(d, 0)'
  BY DEF LockInv, OwnerHasTime, OwnsFor

\* Owners of a key that is set hold its token; owners of two keys differ.
LEMMA OwnerFacts ==
  ASSUME LockInv, NEW d \in Clients, client[d].phase \in {"granted", "tx"}
  PROVE  /\ client[d].key \in Keys
         /\ client[d].token \in Tokens
         /\ client[d].token # NoToken
         /\ store[client[d].key].token = client[d].token
  BY Sentinels DEF LockInv, KeyKnown, OwnerHasTime, OwnsFor

\* acquire: NX on an absent key, a fresh token, the full ttl.
LEMMA AcquireKeepsInv ==
  ASSUME LockInv, NEW c \in Clients, NEW k \in Keys, Acquire(c, k)
  PROVE  LockInv'
<1>1. PICK t \in Tokens :
         /\ Fresh(t)
         /\ store' = [store EXCEPT ![k] = [token |-> t, ttl |-> LockTTL]]
         /\ client' = [client EXCEPT ![c] =
              [phase |-> "granted", key |-> k, token |-> t, left |-> EntryBound]]
  BY DEF Acquire
<1>2. TypeOK /\ TokensDistinct /\ KeyKnown
  BY DEF LockInv
<1>3. TypeOK'
  BY <1>1, <1>2, TimeBounds DEF TypeOK, Phases
<1>4. OwnerHasTime'
  <2>1. ASSUME NEW d \in Clients, d # c
        PROVE  /\ client'[d].phase = "granted" => OwnsFor(d, TxTimeout)'
               /\ client'[d].phase = "tx" => OwnsFor(d, 0)'
    <3>1. client'[d] = client[d]
      BY <1>1, <1>2, <2>1 DEF TypeOK
    <3>2. ASSUME client[d].phase \in {"granted", "tx"}
          PROVE  store'[client[d].key] = store[client[d].key]
      <4>1. store[k].token = NoToken
        BY DEF Acquire
      <4>2. client[d].key \in Keys /\ client[d].key # k
        BY <3>2, <4>1, OwnerFacts
      <4> QED BY <1>1, <1>2, <4>2 DEF TypeOK
    <3> QED BY <3>1, <3>2, UntouchedOwner
  <2>2. client'[c].phase = "granted" /\ OwnsFor(c, TxTimeout)'
    BY <1>1, <1>2, TimeBounds DEF TypeOK, OwnsFor
  <2> QED BY <2>1, <2>2 DEF OwnerHasTime
<1>5. TokensDistinct'
  BY <1>1, <1>2 DEF TokensDistinct, Fresh, TypeOK
<1>6. KeyKnown'
  BY <1>1, <1>2 DEF KeyKnown, TypeOK
<1> QED BY <1>3, <1>4, <1>5, <1>6 DEF LockInv

\* A step of one client that leaves Redis alone: the transaction starts, fn()
\* settles, or the process dies.
LEMMA LocalStepKeepsInv ==
  ASSUME LockInv, NEW c \in Clients, BeginTx(c) \/ Settle(c) \/ Crash(c)
  PROVE  LockInv'
<1>1. TypeOK /\ TokensDistinct /\ KeyKnown /\ OwnerHasTime
  BY DEF LockInv
<1>2. CASE BeginTx(c)
  <2>1. TypeOK' /\ TokensDistinct' /\ KeyKnown'
    BY <1>1, <1>2, TimeBounds DEF BeginTx, TypeOK, Phases, TokensDistinct, KeyKnown
  <2>2. OwnerHasTime'
    <3>1. ASSUME NEW d \in Clients, d # c
          PROVE  /\ client'[d].phase = "granted" => OwnsFor(d, TxTimeout)'
                 /\ client'[d].phase = "tx" => OwnsFor(d, 0)'
      <4>1. client'[d] = client[d] /\ store' = store
        BY <1>1, <1>2, <3>1 DEF BeginTx, TypeOK
      <4> QED BY <4>1, UntouchedOwner
    <3>2. client'[c].phase = "tx" /\ OwnsFor(c, 0)'
      <4>1. client[c].left \in Nat /\ store[client[c].key].ttl \in Nat
        BY <1>1, <1>2, OwnerFacts DEF BeginTx, TypeOK
      <4>2. OwnsFor(c, TxTimeout)
        BY <1>1, <1>2 DEF OwnerHasTime, BeginTx
      <4> QED BY <1>1, <1>2, <4>1, <4>2, TimeBounds DEF BeginTx, TypeOK, OwnsFor
    <3> QED BY <3>1, <3>2 DEF OwnerHasTime
  <2> QED BY <2>1, <2>2 DEF LockInv
<1>3. CASE Settle(c) \/ Crash(c)
  <2>1. TypeOK' /\ TokensDistinct' /\ KeyKnown'
    <3>1. CASE Settle(c)
      <4>1. client' = [client EXCEPT ![c] = [client[c] EXCEPT !.phase = "releasing", !.left = 0]]
            /\ store' = store
        BY <1>1, <3>1 DEF Settle, TypeOK
      <4>2. client[c].phase # "idle"
        BY <3>1 DEF Settle
      <4>3. TypeOK'
        BY <1>1, <4>1 DEF TypeOK, Phases
      <4>4. \A d \in Clients : /\ client'[d].key = client[d].key
                               /\ client'[d].token = client[d].token
                               /\ client'[d].phase = "idle" <=> client[d].phase = "idle"
        BY <1>1, <4>1, <4>2 DEF TypeOK
      <4> QED BY <1>1, <4>3, <4>4 DEF TokensDistinct, KeyKnown
    <3>2. CASE Crash(c)
      BY <1>1, <3>2 DEF Crash, Idle, TypeOK, Phases, TokensDistinct, KeyKnown
    <3> QED BY <1>3, <3>1, <3>2
  <2>2. ASSUME NEW d \in Clients
        PROVE  /\ client'[d].phase = "granted" => OwnsFor(d, TxTimeout)'
               /\ client'[d].phase = "tx" => OwnsFor(d, 0)'
    <3>1. CASE d = c
      <4>1. client'[c].phase \in {"releasing", "idle"}
        BY <1>1, <1>3 DEF Settle, Crash, Idle, TypeOK
      <4> QED BY <3>1, <4>1
    <3>2. CASE d # c
      <4>1. client'[d] = client[d] /\ store' = store
        BY <1>1, <1>3, <3>2 DEF Settle, Crash, TypeOK
      <4> QED BY <4>1, UntouchedOwner
    <3> QED BY <3>1, <3>2
  <2> QED BY <2>1, <2>2 DEF LockInv, OwnerHasTime
<1> QED BY <1>2, <1>3

\* release: compare-and-delete touches only the key that holds our token.
LEMMA ReleaseKeepsInv ==
  ASSUME LockInv, NEW c \in Clients, Release(c)
  PROVE  LockInv'
<1>1. TypeOK /\ TokensDistinct /\ KeyKnown
  BY DEF LockInv
<1>2. client[c].key \in Keys /\ client[c].token \in Tokens
  BY <1>1 DEF Release, KeyKnown
<1>3. TypeOK' /\ TokensDistinct' /\ KeyKnown'
  BY <1>1, <1>2
     DEF Release, Absent, Idle, TypeOK, Phases, TokensDistinct, KeyKnown
<1>4. ASSUME NEW d \in Clients
      PROVE  /\ client'[d].phase = "granted" => OwnsFor(d, TxTimeout)'
             /\ client'[d].phase = "tx" => OwnsFor(d, 0)'
  <2>1. CASE d = c
    BY <1>1, <2>1 DEF Release, Idle, TypeOK
  <2>2. CASE d # c
    <3>1. client'[d] = client[d]
      BY <1>1, <2>2 DEF Release, TypeOK
    <3>2. ASSUME client[d].phase \in {"granted", "tx"}
          PROVE  store'[client[d].key] = store[client[d].key]
      <4>1. /\ client[d].key \in Keys
            /\ client[d].token # NoToken
            /\ store[client[d].key].token = client[d].token
        BY <3>2, OwnerFacts
      <4>2. client[d].token # client[c].token
        BY <1>1, <2>2, <4>1 DEF TokensDistinct
      <4> QED BY <1>1, <1>2, <4>1, <4>2 DEF Release, TypeOK
    <3> QED BY <3>1, <3>2, UntouchedOwner
  <2> QED BY <2>1, <2>2
<1> QED BY <1>3, <1>4 DEF LockInv, OwnerHasTime

\* One unit of time: no owner's entry reaches the end of its ttl.
LEMMA TickKeepsInv ==
  ASSUME LockInv, Tick
  PROVE  LockInv'
<1>1. TypeOK /\ TokensDistinct /\ KeyKnown /\ OwnerHasTime
  BY DEF LockInv
<1>2. \A d \in Clients : /\ client'[d].phase = client[d].phase
                         /\ client'[d].key = client[d].key
                         /\ client'[d].token = client[d].token
                         /\ client'[d].left \in Nat
  BY <1>1 DEF Tick, Waited, TypeOK
<1>3. TypeOK'
  <2>1. ASSUME NEW k \in Keys
        PROVE  Aged(store[k]) \in [token : Tokens \cup {NoToken}, ttl : Nat]
    <3>1. store[k] \in [token : Tokens \cup {NoToken}, ttl : Nat]
      BY <1>1 DEF TypeOK
    <3>2. store[k].ttl \notin {0, 1} => store[k].ttl - 1 \in Nat
      BY <3>1
    <3> QED BY <3>1, <3>2 DEF Aged, Absent
  <2>2. ASSUME NEW d \in Clients
        PROVE  Waited(client[d]) \in [phase : Phases, key : Keys \cup {NoKey},
                                      token : Tokens \cup {NoToken}, left : Nat]
    <3>1. client[d] \in [phase : Phases, key : Keys \cup {NoKey},
                         token : Tokens \cup {NoToken}, left : Nat]
      BY <1>1 DEF TypeOK
    <3>2. client[d].phase \in {"granted", "tx"} => client[d].left - 1 \in Nat
      BY <3>1 DEF Tick
    <3> QED BY <3>1, <3>2 DEF Waited
  <2> QED BY <2>1, <2>2 DEF Tick, TypeOK
<1>4. TokensDistinct' /\ KeyKnown'
  BY <1>1, <1>2 DEF TokensDistinct, KeyKnown
<1>5. ASSUME NEW d \in Clients, client[d].phase \in {"granted", "tx"},
             NEW time \in Nat, OwnsFor(d, time)
      PROVE  OwnsFor(d, time)'
  <2>1. client[d].key \in Keys /\ client[d].left \in Nat /\ client[d].left > 0
        /\ store[client[d].key].ttl \in Nat
    BY <1>1, <1>5, OwnerFacts DEF TypeOK, Tick
  <2>2. client'[d].left = client[d].left - 1 /\ client'[d].key = client[d].key
        /\ client'[d].token = client[d].token
    BY <1>1, <1>5 DEF Tick, Waited, TypeOK
  <2>3. store[client[d].key].ttl > 1
    BY <1>5, <2>1 DEF OwnsFor
  <2>4. /\ store'[client[d].key].token = store[client[d].key].token
        /\ store'[client[d].key].ttl = store[client[d].key].ttl - 1
    <3>1. store'[client[d].key] = [store[client[d].key] EXCEPT !.ttl = @ - 1]
      BY <2>1, <2>3 DEF Tick, Aged
    <3> QED BY <1>1, <2>1, <3>1 DEF TypeOK
  <2> QED BY <1>5, <2>1, <2>2, <2>4 DEF OwnsFor
<1>6. OwnerHasTime'
  BY <1>1, <1>2, <1>5, TimeBounds DEF OwnerHasTime
<1> QED BY <1>3, <1>4, <1>6 DEF LockInv

\* LockInv is inductive.
LEMMA LockStep == LockInv /\ [Next]_vars => LockInv'
<1> SUFFICES ASSUME LockInv, [Next]_vars PROVE LockInv'
  OBVIOUS
<1>1. CASE UNCHANGED vars
  BY <1>1 DEF vars, LockInv, TypeOK, OwnerHasTime, OwnsFor, TokensDistinct, KeyKnown
<1>2. CASE \E c \in Clients, k \in Keys : Acquire(c, k)
  BY <1>2, AcquireKeepsInv
<1>3. CASE \E c \in Clients : BeginTx(c) \/ Settle(c) \/ Release(c) \/ Crash(c)
  BY <1>3, LocalStepKeepsInv, ReleaseKeepsInv
<1>4. CASE Tick
  BY <1>4, TickKeepsInv
<1> QED BY <1>1, <1>2, <1>3, <1>4 DEF Next

\* Two owners of one key would have to hold one token.
LEMMA InvGivesExclusion == LockInv => MutualExclusion
<1> SUFFICES ASSUME LockInv, NEW c \in Clients, NEW d \in Clients, NEW k \in Keys,
                    InSection(c, k), InSection(d, k)
             PROVE  c = d
  BY DEF MutualExclusion
<1>1. client[c].token = store[k].token /\ client[d].token = store[k].token
      /\ client[c].token # NoToken
  BY OwnerFacts DEF InSection
<1> QED BY <1>1 DEF LockInv, TokensDistinct

\* The types of the Redis key space and of withLock's locals.
THEOREM TypeCorrect == Spec => []TypeOK
<1>1. LockInv => TypeOK
  BY DEF LockInv
<1> QED BY <1>1, LockInit, LockStep, PTL DEF Spec

\* A request inside fn() keeps its key and enough ttl for the rest of fn().
THEOREM OwnersHaveTime == Spec => []OwnerHasTime
<1>1. LockInv => OwnerHasTime
  BY DEF LockInv
<1> QED BY <1>1, LockInit, LockStep, PTL DEF Spec

\* withLock admits one request per slot key at a time, expiry included.
THEOREM Exclusion == Spec => []MutualExclusion
  BY LockInit, LockStep, InvGivesExclusion, PTL DEF Spec
\* Only client c crosses the boundary of the critical section, and it leaves.
LEMMA LeavingStep ==
  ASSUME LockInv, NEW c \in Clients, NEW k \in Keys, InSection(c, k),
         client'[c].phase \notin {"granted", "tx"},
         \A d \in Clients \ {c} : client'[d] = client[d]
  PROVE  Mutex!Leave(c, k)
<1>1. c \in Inside[k]
  BY DEF Inside
<1>2. ASSUME NEW j \in Keys
      PROVE  {d \in Clients : InSection(d, j)}' =
               (IF j = k THEN Inside[k] \ {c} ELSE Inside[j])
  BY DEF Inside, InSection
<1>3. Inside' = [Inside EXCEPT ![k] = @ \ {c}]
  BY <1>2 DEF Inside
<1> QED BY <1>1, <1>3 DEF Mutex!Leave

\* No client crosses the boundary of the critical section.
LEMMA SilentStep ==
  ASSUME \A d \in Clients, k \in Keys : InSection(d, k)' <=> InSection(d, k)
  PROVE  UNCHANGED Inside
  BY DEF Inside

\* A granted acquire is a step of Enter: nobody was inside.
LEMMA EnteringStep ==
  ASSUME LockInv, NEW c \in Clients, NEW k \in Keys, Acquire(c, k)
  PROVE  Mutex!Enter(c, k)
<1>1. /\ client'[c].phase = "granted" /\ client'[c].key = k
      /\ \A d \in Clients \ {c} : client'[d] = client[d]
  BY DEF Acquire, LockInv, TypeOK
<1>2. client[c].phase = "idle" /\ store[k].token = NoToken
  BY DEF Acquire
<1>3. \A d \in Clients : ~ InSection(d, k)
  BY <1>2, OwnerFacts DEF InSection
<1>4. Inside[k] = {}
  BY <1>3 DEF Inside
<1>5. ASSUME NEW j \in Keys
      PROVE  {d \in Clients : InSection(d, j)}' = (IF j = k THEN {c} ELSE Inside[j])
  BY <1>1, <1>2, <1>3 DEF Inside, InSection
<1>6. Inside' = [Inside EXCEPT ![k] = {c}]
  BY <1>5 DEF Inside
<1> QED BY <1>4, <1>6 DEF Mutex!Enter

\* Every step of RedisLock is a step of SlotMutex or leaves inside alone.
LEMMA StepRefines == LockInv /\ [Next]_vars => [Mutex!Next]_Inside
<1> SUFFICES ASSUME LockInv, [Next]_vars PROVE Mutex!Next \/ UNCHANGED Inside
  OBVIOUS
<1>0. TypeOK /\ KeyKnown
  BY DEF LockInv
<1>1. CASE UNCHANGED vars
  BY <1>1, SilentStep DEF vars, InSection
<1>2. ASSUME NEW c \in Clients, NEW k \in Keys, Acquire(c, k)
      PROVE  Mutex!Next
  BY <1>2, EnteringStep DEF Mutex!Next
<1>3. ASSUME NEW c \in Clients, BeginTx(c) \/ Release(c)
      PROVE  UNCHANGED Inside
  <2>1. CASE BeginTx(c)
    BY <1>0, <2>1, SilentStep DEF BeginTx, TypeOK, InSection
  <2>2. CASE Release(c)
    BY <1>0, <2>2, SilentStep DEF Release, Idle, TypeOK, InSection
  <2> QED BY <1>3, <2>1, <2>2
<1>4. ASSUME NEW c \in Clients, Settle(c) \/ Crash(c)
      PROVE  Mutex!Next \/ UNCHANGED Inside
  <2>1. \A d \in Clients \ {c} : client'[d] = client[d]
    BY <1>0, <1>4 DEF Settle, Crash, TypeOK
  <2>2. client'[c].phase \in {"releasing", "idle"}
    BY <1>0, <1>4 DEF Settle, Crash, Idle, TypeOK
  <2>3. CASE client[c].phase \in {"granted", "tx"}
    <3>1. client[c].key \in Keys /\ InSection(c, client[c].key)
      BY <2>3, OwnerFacts DEF InSection
    <3> QED BY <2>1, <2>2, <3>1, LeavingStep DEF Mutex!Next
  <2>4. CASE client[c].phase \notin {"granted", "tx"}
    BY <2>1, <2>2, <2>4, SilentStep DEF InSection
  <2> QED BY <2>3, <2>4
<1>5. CASE Tick
  BY <1>0, <1>5, SilentStep DEF Tick, Waited, TypeOK, InSection
<1> QED BY <1>1, <1>2, <1>3, <1>4, <1>5 DEF Next

\* RedisLockService implements a mutual-exclusion lock per slot.
THEOREM Refinement == Spec => ImplementsSlotMutex
<1>1. Init => Mutex!Init
  BY DEF Init, Idle, Inside, InSection, Mutex!Init
<1> QED BY <1>1, LockInit, LockStep, StepRefines, PTL DEF Spec, ImplementsSlotMutex, Mutex!Spec
==========================================================================
