CONSTANTS
    Requests = {p, q, r}
    Users = {u, v}
    Coupons = {c}
    BookingIds = {a, b}
    Terms <- MCTerms
    Offers <- MCOffers
    NoCoupon = NoCoupon
    NoUser = NoUser
    NoBooking = NoBooking
SPECIFICATION Spec
SYMMETRY Symmetry
INVARIANTS
    TypeOK
    UsageMatchesBookings
    LimitKept
    DiscountWithinPrice
    StatusFitsDeposit
