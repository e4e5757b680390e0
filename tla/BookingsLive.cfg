\* Fair behaviours of two requests; no symmetry, which liveness does not allow.
CONSTANTS
    Requests = {p, q}
    BookingIds = {b1, b2}
    Lanes <- MCLanes
    Hours <- MCHours
    Holidays = {}
    Assigned = {}
    NoStaff = NoStaff
    DayLength = 8
    Week = 56
    Starts = {1, 2, 3}
    Durations = {2}
    Earlier <- MCEarlier
    Occurrences = {2}
    HoldTTL = 1
    Horizon = 1
    NoLane = NoLane
    NoBooking = NoBooking
    Free = Free
    Orphan = Orphan
SPECIFICATION FairSpec
PROPERTIES
    HoldsExpire
    SlotLocksFreed
