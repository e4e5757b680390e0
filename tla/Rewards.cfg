CONSTANTS
    Users = {u, v}
    Purchases = {p, q, r}
    NoUser = NoUser
    Amounts = {5, 10}
    TOMAN_PER_POINT = 10
    REFERRAL_REWARD_POINTS = 2
    SilverPoints = 2
    GoldPoints = 4
SPECIFICATION Spec
CHECK_DEADLOCK FALSE
INVARIANTS
    TypeOK
    PointsMatchLedger
    RewardPaidOnce
    CyclesHaveOneBuyer
PROPERTIES
    PurchasesEnd
