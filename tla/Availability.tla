--------------------------- MODULE Availability ---------------------------
(***************************************************************************)
(* AvailabilityService (modules/booking/availability.service.ts): which    *)
(* starts are offered to a customer.  Pure operators over the tables they  *)
(* read.  Times are instants of the UTC time line, in ticks; a day has     *)
(* DayLength of them.  A lane is what a booking occupies: a branch and a   *)
(* staff member, or NoStaff for a walk-in.                                 *)
(***************************************************************************)
EXTENDS Integers

CONSTANTS
    DayLength,
    NoStaff,
    Hours,      \* WorkingHours rows: [owner, day, from, till], times of day
    Holidays,   \* Holiday rows: [owner, date]
    Assigned    \* staff assigned to the service (ServiceStaff)

ASSUME DayLengthAssumption == DayLength \in Nat \ {0}

ActiveStatuses == {"HOLD", "PENDING", "CONFIRMED"}

DayOfWeek(t) == (t \div DayLength) % 7
DayStart(t)  == t - (t % DayLength)

\* 23:59:59.999, used as an exclusive bound: the last tick is left out.
DayEnd(t)    == DayStart(t) + DayLength - 1

\* The rows findFirst may return; a staff member with any hours of their own
\* does not inherit the branch's.
ResolveWorkingWindow(branch, staff, day) ==
    IF \E h \in Hours : h.owner = staff
    THEN {h \in Hours : h.owner = staff /\ h.day = day}
    ELSE {h \in Hours : h.owner = branch /\ h.day = day}

IsHoliday(branch, staff, date) ==
    \E h \in Holidays : /\ h.owner \in {branch, staff}
                        /\ DayStart(date) <= h.date /\ h.date < DayEnd(date)

\* The grid of the window in steps of the service's duration, without the
\* past and without what overlaps an existing booking.
GenerateSlots(date, window, duration, busy, time) ==
    LET first == DayStart(date) + window.from
        last  == DayStart(date) + window.till
    IN  {s \in {first + i * duration : i \in 0 .. DayLength} :
           /\ s + duration <= last
           /\ s > time
           /\ \A b \in busy : ~(s < b.start + b.dur /\ s + duration > b.start)}

\* Only bookings that start on the day in question are looked at.
DayBookings(rows, lane, date) ==
    {b \in rows : /\ b.lane = lane
                  /\ b.status \in ActiveStatuses
                  /\ DayStart(date) <= b.start /\ b.start < DayEnd(date)}

CandidateStaff(staff) == IF staff # NoStaff THEN {staff}
                         ELSE IF Assigned # {} THEN Assigned ELSE {NoStaff}

\* Whether getFreeSlots may return a slot that starts at s, and whether it
\* may not: a day with two rows of working hours leaves the choice open.
Offers(rows, lane, duration, s, time) ==
    \E staff \in CandidateStaff(lane.staff) :
      /\ ~ IsHoliday(lane.branch, staff, s)
      /\ \E w \in ResolveWorkingWindow(lane.branch, staff, DayOfWeek(s)) :
           s \in GenerateSlots(s, w, duration,
                   DayBookings(rows, [branch |-> lane.branch, staff |-> staff], s), time)

MayRefuse(rows, lane, duration, s, time) ==
    \A staff \in CandidateStaff(lane.staff) :
      \/ IsHoliday(lane.branch, staff, s)
      \/ LET windows == ResolveWorkingWindow(lane.branch, staff, DayOfWeek(s))
         IN  windows # {} => \E w \in windows :
               s \notin GenerateSlots(s, w, duration,
                   DayBookings(rows, [branch |-> lane.branch, staff |-> staff], s), time)
===========================================================================
