CONSTANTS
    Requests = {p, q}
    Users = {u}
    PaymentIds = {x, y}
    BookingIds = {b}
    Owner <- MCOwner
    Deposit <- MCDeposit
    TopupAmounts = {1}
    Openings = {1}
    Unnamed = FALSE
    NoPayment = NoPayment
    NoUser = NoUser
    NoBooking = NoBooking
SPECIFICATION Spec
PROPERTY
    CallbackIdempotent
