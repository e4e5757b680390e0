CONSTANTS
    Requests = {p, q}
    Users = {u}
    PaymentIds = {x, y}
    BookingIds = {b}
    Owner <- MCOwner
    Deposit <- MCDeposit
    TopupAmounts = {1}
    Openings = {1}
    Unnamed = TRUE
    NoPayment = NoPayment
    NoUser = NoUser
    NoBooking = NoBooking
SPECIFICATION Spec
SYMMETRY Symmetry
INVARIANTS
    TypeOK
    CreditedOnce
    PaidIsRecorded
    DriftNeedsRace
    DoubleRefundNeedsRace
    DoubleAwardNeedsRace
