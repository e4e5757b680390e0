CONSTANTS
    Requests = {p, q, r}
    BookingIds = {b1, b2, b3}
    Lanes <- MCLanes
    Hours <- MCHours
    Holidays = {}
    Assigned = {}
    NoStaff = NoStaff
    DayLength = 8
    Week = 56
    Starts = {1, 2, 3}
    Durations = {2}
    Earlier = {}
    Occurrences = {}
    HoldTTL = 0
    Horizon = 1
    NoLane = NoLane
    NoBooking = NoBooking
    Free = Free
    Orphan = Orphan
SPECIFICATION Spec
SYMMETRY Symmetry
INVARIANT
    NoDoubleBooking
