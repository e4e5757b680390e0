CONSTANTS
    Requests = {p, q, r}
    Users = {"o", "s"}
    Admins = {"a"}
    Businesses = {"b", "c"}
    Policies = {"strict", "lax"}
    Founder <- MCFounder
    Branch = "branch"
    NoBusiness = "none"
    NoUser = "none"
    Clerks = {k, l}
    PaymentIds = {"x"}
    BusinessOf <- MCBusinessOf
    Amount <- MCAmount
    Periods <- MCPeriods
    CommissionPercent = 9000
    Horizon = 3
SPECIFICATION MCSpec
SYMMETRY Symmetry
CHECK_DEADLOCK FALSE
INVARIANTS
    TypeOK
    HoursFromOnePut
    
PROPERTIES
    OnlyMembersManage
    BookedInContext
