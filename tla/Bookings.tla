----------------------------- MODULE Bookings -----------------------------
(***************************************************************************)
(* BookingService and BookingCleanupService (modules/booking), with the    *)
(* steps of PaymentService that confirm a booking.                         *)
(*                                                                         *)
(* Every request is a process.  Between two awaits that touch shared state *)
(* other requests run, on this or on another server process, and Postgres  *)
(* works at READ COMMITTED: a read returns what is committed when it runs, *)
(* and booking.update({where: {id}}) overwrites the row whatever it holds  *)
(* by then.  Each action below is one such step.                           *)
(*                                                                         *)
(* The slot lock is used through what RedisLock proves of it: a key is     *)
(* held by one request at a time, Redis never drops the key of a request   *)
(* that is inside its transaction, and always that of a dead one.          *)
(*                                                                         *)
(* Left out: prices, fees, coupons' own rows (a refused coupon is          *)
(* AbortTx), users and ownership (a request that fails getOwnedBooking or  *)
(* loadAndValidateContext changes nothing), list queries.                  *)
(***************************************************************************)
EXTENDS Availability

CONSTANTS
    Requests,           \* HTTP requests, each handled once
    BookingIds, Lanes,
    Starts,             \* start times that clients ask for
    Durations,          \* of the services on offer
    Occurrences,        \* numbers of weekly sessions clients ask for
    Week,               \* 7 * 24 h, in ticks
    HoldTTL,            \* HOLD_TTL_MINUTES, in ticks
    Horizon,            \* from here on every start is in the past
    Earlier,            \* rows that may already be in the table, at most one
    NoLane, NoBooking, Free, Orphan

VARIABLES
    now,        \* the clock, up to Horizon
    bookings,   \* the Booking table; status "NONE" for a row not yet created
    locks,      \* slot keys in Redis: the holder, Free, or Orphan (dead holder)
    req,        \* every request's place in its handler, and its locals
    awards,     \* how often awardPostPurchaseRewards ran for a booking
    \* History, read by no action:
    since,      \* rows written by others since a request's last read
    unseen,     \* rows written between a booking's slot check and its insert
    revived,    \* bookings that became active again after being inactive
    locked      \* bookings placed under the lock of their slot

table == <<bookings, awards, unseen, revived, locked>>
vars == <<now, bookings, locks, req, awards, since, unseen, revived, locked>>

Statuses == {"HOLD", "PENDING", "CONFIRMED", "COMPLETED", "CANCELLED", "NO_SHOW"}

ALLOWED_STATUS_TRANSITIONS ==
    [s \in Statuses |->
       CASE s = "HOLD"      -> {"PENDING", "CONFIRMED", "CANCELLED"}
         [] s = "PENDING"   -> {"CONFIRMED", "CANCELLED"}
         [] s = "CONFIRMED" -> {"COMPLETED", "NO_SHOW", "CANCELLED"}
         [] OTHER           -> {}]

\* What UpdateBookingStatusDto accepts.
DtoStatuses == {"CONFIRMED", "COMPLETED", "NO_SHOW", "CANCELLED"}

Exists(b) == bookings[b].status # "NONE"
Active(b) == bookings[b].status \in ActiveStatuses
Existing  == {b \in BookingIds : Exists(b)}

NoRow == [status |-> "NONE", lane |-> NoLane, start |-> 0, dur |-> 0,
          ttl |-> -1, group |-> {}]

HoldRowLate(lane, s, d, group) ==   \* mutant: a minute too long
    [status |-> "HOLD", lane |-> lane, start |-> s, dur |-> d,
     ttl |-> HoldTTL + 1, group |-> group]

\* ttl is holdExpiresAt - now; below 0 the hold has expired.  Nothing reads
\* holdExpiresAt once the status is not HOLD, and HOLD is never re-entered,
\* so any other status keeps ttl at -1.
HoldRow(lane, s, d, group) ==
    [status |-> "HOLD", lane |-> lane, start |-> s, dur |-> d,
     ttl |-> HoldTTL, group |-> group]

ASSUME TimeAssumption ==
    /\ Durations \subseteq Nat \ {0}
    /\ Starts \subseteq Nat
    /\ Occurrences \subseteq Nat
    /\ Week \in Nat /\ HoldTTL \in Nat /\ Horizon \in Nat

ASSUME EarlierAssumption ==
    \A row \in Earlier :
      \E lane \in Lanes, s \in Starts, d \in Durations, st \in {"PENDING", "CONFIRMED"} :
        row = [HoldRow(lane, s, d, {}) EXCEPT !.status = st, !.ttl = -1]

ASSUME SentinelAssumption ==
    /\ NoBooking \notin BookingIds
    /\ Free \notin Requests /\ Orphan \notin Requests /\ Free # Orphan

Expired(b) == bookings[b].ttl < 0

Keys == Lanes \X Starts

\* A request before it is handled; with pc "done", one that was answered.
Idle == [pc |-> "idle", id |-> NoBooking, lane |-> NoLane, start |-> 0, dur |-> 0,
         n |-> 0, made |-> 0, to |-> "NONE", todo |-> {}]

PCs == {"idle", "done", "slots", "lock", "check", "place", "unlock", "occur",
        "group", "confirm", "expire", "write", "pay"}

Init ==
    /\ now = 0
    /\ \/ /\ bookings = [b \in BookingIds |-> NoRow]
          /\ locked = {}
       \/ \E b \in BookingIds, row \in Earlier :
            /\ bookings = [c \in BookingIds |-> IF c = b THEN row ELSE NoRow]
            /\ locked = {b}
    /\ locks = [k \in Keys |-> Free]
    /\ req = [p \in Requests |-> Idle]
    /\ awards = [b \in BookingIds |-> 0]
    /\ since = [p \in Requests |-> {}]
    /\ unseen = [b \in BookingIds |-> {}]
    /\ revived = {}

---------------------------------------------------------------------------
(* History *)

\* Requests between a read and the write that depends on it.
Watching(q) == req[q].pc \in {"place", "occur", "confirm", "expire", "write", "pay"}

\* p writes the rows in S.
Touched(p, S) == since' = [q \in Requests |->
    IF q = p \/ ~ Watching(q) THEN {} ELSE since[q] \cup S]

\* p reads: whatever was written before is seen.
Seen(p) == since' = [since EXCEPT ![p] = {}]

\* The bookings in S are placed (anew), by a request that missed the rows
\* in missed.
Placed(S, missed, underLock) ==
    /\ unseen' = [b \in BookingIds |->
                    IF b \in S THEN missed \ S ELSE unseen[b] \ S]
    /\ revived' = revived \ S
    /\ locked' = IF underLock THEN locked \cup S ELSE locked \ S

\* The bookings in S are over.
Deactivated(S) ==
    /\ unseen' = [b \in BookingIds |-> IF b \in S THEN {} ELSE unseen[b] \ S]
    /\ revived' = revived \ S
    /\ UNCHANGED locked

\* Booking b goes to status s.
StatusHistory(b, s) ==
    \/ s \notin ActiveStatuses /\ Deactivated({b})
    \/ /\ s \in ActiveStatuses
       /\ revived' = IF Active(b) THEN revived ELSE revived \cup {b}
       /\ UNCHANGED <<unseen, locked>>

---------------------------------------------------------------------------
(* The slot check: assertSlotFree *)

OverlapSameStart(s, d, b) == bookings[b].start = s         \* mutant

Overlap(s, d, b) == /\ bookings[b].start < s + d
                    /\ bookings[b].start + bookings[b].dur > s

\* `except' is the booking being moved, or NoBooking.
Overlapping(lane, s, d, except) ==
    {b \in BookingIds \ {except} : Active(b) /\ bookings[b].lane = lane /\ Overlap(s, d, b)}

Goto(p, pc) == req' = [req EXCEPT ![p].pc = pc]
Finish(p)   == req' = [req EXCEPT ![p] = [Idle EXCEPT !.pc = "done"]]

---------------------------------------------------------------------------
(* hold and reschedule: withLock around one transaction *)

Key(p) == <<req[p].lane, req[p].start>>

\* hold, up to withLock.
BeginHold(p, lane, s, d) ==
    /\ req[p].pc = "idle"
    /\ req' = [req EXCEPT ![p] = [Idle EXCEPT !.pc = "lock", !.lane = lane,
                                                !.start = s, !.dur = d]]
    /\ UNCHANGED <<now, table, locks, since>>

\* reschedule reads the booking and its service (whose duration may have
\* been edited since the booking was made).
ReadReschedule(p, b, s, d) ==
    /\ req[p].pc = "idle"
    /\ Active(b)
    /\ req' = [req EXCEPT ![p] = [Idle EXCEPT !.pc = "slots", !.id = b,
                 !.lane = bookings[b].lane, !.start = s, !.dur = d]]
    /\ UNCHANGED <<now, table, locks, since>>

\* ... and looks for the new start among the free slots of that day.
FindFreeSlot(p) ==
    /\ req[p].pc = "slots"
    /\ LET rows == {bookings[b] : b \in BookingIds}
           r == req[p]
       IN  \/ Offers(rows, r.lane, r.dur, r.start, now) /\ Goto(p, "lock")
           \/ MayRefuse(rows, r.lane, r.dur, r.start, now) /\ Finish(p)
    /\ UNCHANGED <<now, table, locks, since>>

AcquireIgnoringBusy(p) ==           \* mutant: the NX reply is not looked at
    /\ req[p].pc = "lock"
    /\ locks' = [locks EXCEPT ![Key(p)] = p]
    /\ Goto(p, "check")
    /\ UNCHANGED <<now, table, since>>

\* acquire, with LOCK_BUSY turned into a ConflictException.
Acquire(p) ==
    /\ req[p].pc = "lock"
    /\ \/ /\ locks[Key(p)] = Free
          /\ locks' = [locks EXCEPT ![Key(p)] = p]
          /\ Goto(p, "check")
       \/ /\ locks[Key(p)] # Free
          /\ UNCHANGED locks
          /\ Finish(p)
    /\ UNCHANGED <<now, table, since>>

\* assertSlotFree inside the transaction.
AssertSlotFree(p) ==
    /\ req[p].pc = "check"
    /\ Goto(p, IF Overlapping(req[p].lane, req[p].start, req[p].dur, req[p].id) = {}
               THEN "place" ELSE "unlock")
    /\ Seen(p)
    /\ UNCHANGED <<now, table, locks>>

\* A coupon refused, a database error, or Prisma's timeout: rolled back.
AbortTx(p) ==
    /\ req[p].pc \in {"check", "place"}
    /\ Goto(p, "unlock")
    /\ Seen(p)
    /\ UNCHANGED <<now, table, locks>>

\* hold commits its insert.
PlaceHold(p, b) ==
    /\ req[p].pc = "place" /\ req[p].id = NoBooking
    /\ ~ Exists(b)
    /\ bookings' = [bookings EXCEPT ![b] =
                      HoldRow(req[p].lane, req[p].start, req[p].dur, {})]
    /\ Placed({b}, since[p], TRUE)
    /\ Touched(p, {b})
    /\ Goto(p, "unlock")
    /\ UNCHANGED <<now, locks, awards>>

\* reschedule commits its update: the times, not the status.
PlaceMove(p) ==
    LET b == req[p].id IN
    /\ req[p].pc = "place" /\ b # NoBooking
    /\ bookings' = [bookings EXCEPT ![b].start = req[p].start, ![b].dur = req[p].dur]
    /\ Placed({b}, since[p], TRUE)
    /\ Touched(p, {b})
    /\ Goto(p, "unlock")
    /\ UNCHANGED <<now, locks, awards>>

\* release: compare-and-delete.
Unlock(p) ==
    /\ req[p].pc = "unlock"
    /\ locks' = [locks EXCEPT ![Key(p)] = IF @ = p THEN Free ELSE @]
    /\ Finish(p)
    /\ UNCHANGED <<now, table, since>>

ExpireLockNever(k) ==               \* mutant: SET without PX
    /\ locks[k] # locks[k]
    /\ UNCHANGED vars

\* Redis drops a key whose holder is dead or already past its transaction.
ExpireLock(k) ==
    /\ locks[k] # Free
    /\ locks[k] \in Requests => req[locks[k]].pc = "unlock"
    /\ locks' = [locks EXCEPT ![k] = Free]
    /\ UNCHANGED <<now, table, req, since>>

---------------------------------------------------------------------------
(* createRecurring: one transaction, and no lock *)

BeginRecurring(p, lane, s, d, n) ==
    /\ req[p].pc = "idle"
    /\ req' = [req EXCEPT ![p] = [Idle EXCEPT !.pc = "occur", !.lane = lane,
                                    !.start = s, !.dur = d, !.n = n]]
    /\ UNCHANGED <<now, table, locks, since>>

Occurrence(p, i) == req[p].start + i * Week

\* assertSlotFree for the next session; the transaction sees its own earlier
\* inserts.  A conflict rolls everything back.
CheckOccurrence(p) ==
    LET r == req[p]
        s == Occurrence(p, r.made)
    IN  /\ r.pc = "occur" /\ r.made < r.n
        /\ IF Overlapping(r.lane, s, r.dur, NoBooking) = {}
              /\ \A i \in 0 .. r.made - 1 : Occurrence(p, i) + r.dur <= s
           THEN req' = [req EXCEPT ![p].made = @ + 1]
           ELSE Finish(p)
        /\ IF r.made = 0 THEN Seen(p) ELSE UNCHANGED since
        /\ UNCHANGED <<now, table, locks>>

\* ids[i + 1] becomes the i-th session; all of them share the group.
CommitRecurring(p, ids) ==
    LET r == req[p]
        group == {ids[i] : i \in 1 .. r.n}
        Index(b) == CHOOSE i \in 1 .. r.n : ids[i] = b
    IN  /\ r.pc = "occur" /\ r.made = r.n
        /\ \A b \in group : ~ Exists(b)
        /\ bookings' = [b \in BookingIds |->
             IF b \in group THEN HoldRow(r.lane, Occurrence(p, Index(b) - 1), r.dur, group)
             ELSE bookings[b]]
        /\ Placed(group, since[p], FALSE)
        /\ Touched(p, group)
        /\ Finish(p)
        /\ UNCHANGED <<now, locks, awards>>

\* A database error or Prisma's timeout: nothing is kept.
AbortRecurring(p) ==
    /\ req[p].pc = "occur"
    /\ Finish(p)
    /\ Seen(p)
    /\ UNCHANGED <<now, table, locks>>

---------------------------------------------------------------------------
(* Status changes: each reads the row, then overwrites its status *)

SetStatus(b, s) == bookings' = [bookings EXCEPT ![b].status = s, ![b].ttl = -1]

\* confirm, up to its first write; confirmGroup calls it in a loop.
ConfirmRead(p, b, todo) ==
    /\ Seen(p)
    /\ \/ /\ bookings[b].status # "HOLD"
          /\ Finish(p)
       \/ /\ bookings[b].status = "HOLD"
          /\ req' = [req EXCEPT ![p] = [Idle EXCEPT !.id = b, !.todo = todo,
                       !.pc = IF Expired(b) THEN "expire" ELSE "confirm"]]
    /\ UNCHANGED <<now, table, locks>>

ReadConfirm(p, b) ==
    /\ req[p].pc = "idle" /\ bookings[b].status = "HOLD"
    /\ ConfirmRead(p, b, {})

ReadGroup(p, b) ==
    /\ req[p].pc = "idle" /\ bookings[b].group # {}
    /\ req' = [req EXCEPT ![p] = [Idle EXCEPT !.pc = "group", !.todo = bookings[b].group]]
    /\ UNCHANGED <<now, table, locks, since>>

\* The first booking of the group that cannot be confirmed ends the loop.
NextInGroup(p, b) ==
    /\ req[p].pc = "group" /\ b \in req[p].todo
    /\ ConfirmRead(p, b, req[p].todo \ {b})

\* The hold had expired when it was read.
WriteExpire(p) ==
    LET b == req[p].id IN
    /\ req[p].pc = "expire"
    /\ SetStatus(b, "CANCELLED")
    /\ StatusHistory(b, "CANCELLED")
    /\ Touched(p, {b})
    /\ Finish(p)
    /\ UNCHANGED <<now, locks, awards>>

\* The transaction of confirm: PENDING if the service asks for a deposit,
\* else CONFIRMED and rewarded; holdExpiresAt becomes null.
WriteConfirm(p, next) ==
    LET b == req[p].id IN
    /\ req[p].pc = "confirm"
    /\ SetStatus(b, next)
    /\ awards' = IF next = "CONFIRMED" THEN [awards EXCEPT ![b] = @ + 1] ELSE awards
    /\ StatusHistory(b, next)
    /\ Touched(p, {b})
    /\ IF req[p].todo = {} THEN Finish(p)
       ELSE req' = [req EXCEPT ![p] = [Idle EXCEPT !.pc = "group", !.todo = req[p].todo]]
    /\ UNCHANGED <<now, locks>>

ReadCancelUnchecked(p, b) ==        \* mutant: no look at the matrix
    /\ req[p].pc = "idle" /\ Exists(b)
    /\ req' = [req EXCEPT ![p] = [Idle EXCEPT !.pc = "write", !.id = b, !.to = "CANCELLED"]]
    /\ Seen(p)
    /\ UNCHANGED <<now, table, locks>>

\* cancelByUser, cancelByBusiness, up to the update of cancelInternal.
ReadCancel(p, b) ==
    /\ req[p].pc = "idle" /\ Exists(b)
    /\ "CANCELLED" \in ALLOWED_STATUS_TRANSITIONS[bookings[b].status]
    /\ req' = [req EXCEPT ![p] = [Idle EXCEPT !.pc = "write", !.id = b, !.to = "CANCELLED"]]
    /\ Seen(p)
    /\ UNCHANGED <<now, table, locks>>

\* updateStatus, up to its update.
ReadUpdateStatus(p, b, s) ==
    /\ req[p].pc = "idle" /\ Exists(b)
    /\ s \in ALLOWED_STATUS_TRANSITIONS[bookings[b].status]
    /\ req' = [req EXCEPT ![p] = [Idle EXCEPT !.pc = "write", !.id = b, !.to = s]]
    /\ Seen(p)
    /\ UNCHANGED <<now, table, locks>>

\* The update of cancelInternal and of updateStatus.
WriteStatus(p) ==
    LET b == req[p].id IN
    /\ req[p].pc = "write"
    /\ SetStatus(b, req[p].to)
    /\ StatusHistory(b, req[p].to)
    /\ Touched(p, {b})
    /\ Finish(p)
    /\ UNCHANGED <<now, locks, awards>>

\* PaymentService reads a PENDING booking: initiate before payFromWallet, or
\* handleCallback inside the transaction of a verified payment ...
ReadPayment(p, b) ==
    /\ req[p].pc = "idle" /\ bookings[b].status = "PENDING"
    /\ req' = [req EXCEPT ![p] = [Idle EXCEPT !.pc = "pay", !.id = b]]
    /\ Seen(p)
    /\ UNCHANGED <<now, table, locks>>

\* ... and commits CONFIRMED and the rewards.
WritePayment(p) ==
    LET b == req[p].id IN
    /\ req[p].pc = "pay"
    /\ SetStatus(b, "CONFIRMED")
    /\ awards' = [awards EXCEPT ![b] = @ + 1]
    /\ StatusHistory(b, "CONFIRMED")
    /\ Touched(p, {b})
    /\ Finish(p)
    /\ UNCHANGED <<now, locks>>

\* The handler ends without a further write: an error, an empty wallet, or
\* the death of the process.  A dead process leaves its slot lock behind.
Fail(p) ==
    /\ req[p].pc \notin {"idle", "done"}
    /\ locks' = [k \in Keys |-> IF locks[k] = p THEN Orphan ELSE locks[k]]
    /\ Seen(p)
    /\ Finish(p)
    /\ UNCHANGED <<now, table>>

---------------------------------------------------------------------------
(* Cron and clock *)

ReleaseSingleHolds ==               \* mutant: recurring holds are forgotten
    LET S == {b \in BookingIds : /\ bookings[b].status = "HOLD" /\ Expired(b)
                                 /\ bookings[b].group = {}}
    IN  /\ S # {}
        /\ bookings' = [b \in BookingIds |->
             IF b \in S THEN [bookings[b] EXCEPT !.status = "CANCELLED"] ELSE bookings[b]]
        /\ since' = [q \in Requests |-> IF Watching(q) THEN since[q] \cup S ELSE {}]
        /\ Deactivated(S)
        /\ UNCHANGED <<now, locks, req, awards>>

\* handleExpiredHolds, every minute: one updateMany.
ReleaseExpiredHolds ==
    LET S == {b \in BookingIds : bookings[b].status = "HOLD" /\ Expired(b)}
    IN  /\ S # {}
        /\ bookings' = [b \in BookingIds |->
             IF b \in S THEN [bookings[b] EXCEPT !.status = "CANCELLED"] ELSE bookings[b]]
        /\ since' = [q \in Requests |-> IF Watching(q) THEN since[q] \cup S ELSE {}]
        /\ Deactivated(S)
        /\ UNCHANGED <<now, locks, req, awards>>

Tick ==
    /\ now' = IF now < Horizon THEN now + 1 ELSE now
    /\ bookings' = [b \in BookingIds |->
         [bookings[b] EXCEPT !.ttl = IF @ >= 0 THEN @ - 1 ELSE @]]
    /\ UNCHANGED <<locks, req, awards, since, unseen, revived, locked>>

---------------------------------------------------------------------------

\* A request arrives.
Arrive(p) ==
    \/ \E lane \in Lanes, s \in Starts, d \in Durations :
         \/ BeginHold(p, lane, s, d)
         \/ \E n \in Occurrences : BeginRecurring(p, lane, s, d, n)
    \/ \E b \in BookingIds :
         \/ \E s \in Starts, d \in Durations : ReadReschedule(p, b, s, d)
         \/ ReadConfirm(p, b) \/ ReadGroup(p, b) \/ ReadCancel(p, b)
         \/ \E s \in DtoStatuses : ReadUpdateStatus(p, b, s)
         \/ ReadPayment(p, b)

\* A request in progress takes its next step.
Proceed(p) ==
    \/ FindFreeSlot(p) \/ Acquire(p) \/ AssertSlotFree(p) \/ AbortTx(p)
    \/ \E b \in BookingIds : PlaceHold(p, b)
    \/ PlaceMove(p) \/ Unlock(p)
    \/ CheckOccurrence(p) \/ AbortRecurring(p)
    \/ \E ids \in [1 .. req[p].n -> BookingIds] :
         /\ \A i, j \in 1 .. req[p].n : i # j => ids[i] # ids[j]
         /\ CommitRecurring(p, ids)
    \/ \E b \in BookingIds : NextInGroup(p, b)
    \/ WriteExpire(p)
    \/ \E next \in {"PENDING", "CONFIRMED"} : WriteConfirm(p, next)
    \/ WriteStatus(p) \/ WritePayment(p)

Next == \/ \E p \in Requests : Arrive(p) \/ Proceed(p) \/ Fail(p)
        \/ \E k \in Keys : ExpireLock(k)
        \/ ReleaseExpiredHolds
        \/ Tick

Spec == Init /\ [][Next]_vars

\* A handler that is running goes on (the event loop and the database serve
\* it), Redis expires keys, the cron job runs every minute, time passes.
\* Nobody is obliged to send a request.
Fairness == /\ \A p \in Requests : WF_vars(Proceed(p))
            /\ \A k \in Keys : WF_vars(ExpireLock(k))
            /\ WF_vars(ReleaseExpiredHolds)
            /\ WF_vars(Tick)

FairSpec == Spec /\ Fairness

---------------------------------------------------------------------------
(* Properties *)

Rows == [status : Statuses \cup {"NONE"}, lane : Lanes \cup {NoLane}, start : Nat,
         dur : Nat, ttl : -1 .. HoldTTL, group : SUBSET BookingIds]

Locals == [pc : PCs, id : BookingIds \cup {NoBooking}, lane : Lanes \cup {NoLane},
           start : Nat, dur : Nat, n : Nat, made : Nat,
           to : Statuses \cup {"NONE"}, todo : SUBSET BookingIds]

TypeOK ==
    /\ now \in 0 .. Horizon
    /\ bookings \in [BookingIds -> Rows]
    /\ locks \in [Keys -> Requests \cup {Free, Orphan}]
    /\ req \in [Requests -> Locals]
    /\ awards \in [BookingIds -> Nat]
    /\ since \in [Requests -> SUBSET BookingIds]
    /\ unseen \in [BookingIds -> SUBSET BookingIds]
    /\ revived \subseteq BookingIds /\ locked \subseteq BookingIds

\* The guarantee the slot lock does give: of two active bookings of one lane
\* with the same start, one was not placed under the lock (createRecurring)
\* or is back from CANCELLED through a late status write.
SameSlotExclusive ==
    \A a, b \in locked \ revived :
      /\ Active(a) /\ Active(b)
      /\ bookings[a].lane = bookings[b].lane
      /\ bookings[a].start = bookings[b].start
      => a = b

Occupied(b) == bookings[b].start .. bookings[b].start + bookings[b].dur - 1

DoubleBooked(a, b) ==
    /\ a # b /\ Active(a) /\ Active(b)
    /\ bookings[a].lane = bookings[b].lane
    /\ Occupied(a) \cap Occupied(b) # {}

\* assertSlotFree and the set of active statuses are right: a lane is booked
\* twice at some instant only when one booking was written between the other's
\* check and its commit, or came back from CANCELLED.
DoubleBookingNeedsRace ==
    \A a, b \in BookingIds :
      DoubleBooked(a, b) => a \in unseen[b] \/ b \in unseen[a] \/ {a, b} \cap revived # {}

\* What docs/architecture.md and schema.prisma claim of transaction and lock.
NoDoubleBooking == \A a, b \in BookingIds : ~ DoubleBooked(a, b)

\* Every status change that ALLOWED_STATUS_TRANSITIONS forbids is made by a
\* request whose read of that row is out of date: run one after another, the
\* handlers respect the matrix.
Moves(b) == bookings[b].status # bookings'[b].status /\ Exists(b)
Forbidden(b) == bookings'[b].status \notin ALLOWED_STATUS_TRANSITIONS[bookings[b].status]
IllegalTransitionNeedsStaleRead ==
    [][\A b \in BookingIds : Moves(b) /\ Forbidden(b) =>
         \E p \in Requests : req'[p] # req[p] /\ req[p].id = b /\ b \in since[p]]_vars

\* What the comment on ALLOWED_STATUS_TRANSITIONS claims.
StatusFollowsMatrix == [][\A b \in BookingIds : Moves(b) => ~ Forbidden(b)]_vars

\* A hold nobody confirms is given back (releaseExpiredHolds): HOLD never lasts.
HoldsExpire ==
    \A b \in BookingIds : bookings[b].status = "HOLD" ~> bookings[b].status # "HOLD"

\* No slot stays locked, whether its holder finishes, fails or dies.
SlotLocksFreed == \A k \in Keys : locks[k] # Free ~> locks[k] = Free
===========================================================================
