\* Three requests on one slot key; four tokens so that a fresh one always
\* exists (three clients and one orphaned key).  The ttl exceeds the two
\* bounds by the least margin that TimeBounds allows.
CONSTANTS
    Clients = {c1, c2, c3}
    Keys = {k1}
    Tokens = {t1, t2, t3, t4}
    NoToken = NoToken
    NoKey = NoKey
    LockTTL = 4
    EntryBound = 1
    TxTimeout = 2
SPECIFICATION Spec
INVARIANTS
    TypeOK
    MutualExclusion
    OwnerHasTime
PROPERTIES
    ImplementsSlotMutex
    LockIsReleased
